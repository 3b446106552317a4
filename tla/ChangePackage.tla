--------------------------- MODULE ChangePackage ---------------------------
(***************************************************************************)
(* A change package from the changeset it is made of to a directory it is  *)
(* promoted to: built and ordered (internal/api BuildPackage, packageItems; *)
(* internal/changepkg Derive, Build), checked change by change against the *)
(* target (Validate), and the ready changes staged, planned, and applied   *)
(* in the order of the package, as often as the operator likes: in the     *)
(* browser, where they are a changeset like any other, or from a shell.    *)
(*                                                                         *)
(* Only changes of entries are modelled, of entries that are read: a       *)
(* package's schema changes, its assumptions about a target and the        *)
(* reconciling intent somebody may write into one are not.                 *)
(***************************************************************************)
EXTENDS PackageOrder, Planning, Positions

CONSTANTS
  Menu,       \* changes that may be staged where the package is made
  Starts,     \* the target's content to begin with
  Foreign,    \* what other people may do to it
  Earlier,    \* changes of other entries, staged before these; they take the first numbers
  MaxStaged,  \* bound: changes staged
  MaxRounds,  \* bound: promotions
  MaxOthers,  \* bound: writes of other people
  MaxFaults   \* bound: reads that fail

ASSUME ChangePackageConstants ==
  /\ \A c \in Menu \cup Foreign : Valid(c)
  /\ \A d \in Starts : WellFormed(d) /\ Tree(d)
  /\ {Earlier, MaxStaged, MaxRounds, MaxOthers, MaxFaults} \subseteq Nat
  /\ Ids = (Earlier + 1)..(Earlier + MaxStaged)

VARIABLES
  dir,       \* the target
  items,     \* the change of each identifier
  edited,    \* whether dependencies were written into the document by hand
  phase,
  status,    \* what validation has said so far
  provided,  \* entries the ready changes so far create: in validation, then in the plan
  client,    \* what promotes it
  plan,      \* of the ready changes, item by item; none while they are only staged
  pos,       \* how far what is applied has been verified, and then sent
  landed,    \* changes the target carried out, over all rounds, in order
  rounds, others, faults

\* Not the program's: the target when it was first asked about the package.
VARIABLE start

desk == <<client, plan, pos>>
target == <<status, provided, desk>>
bounds == <<rounds, others, faults>>
vars == <<orderVars, dir, items, edited, phase, target, landed, bounds, start>>

-----------------------------------------------------------------------------
(* Building *)

\* FromRecord: what would carry a secret is listed as omitted instead.
Portable(c) == c.type # "setpassword" /\ Named(c) \cap Sensitive = {}

Above(x) == {SubSeq(x, 1, n) : n \in 1..(Len(x) - 1)}

\* newIndex: of several changes that add, or delete, one entry the index keeps the last.
LastOf(I) == {i \in I : \A j \in I : j <= i}
entryAdds(cs, x) == LastOf({i \in DOMAIN cs : cs[i].type = "add" /\ cs[i].dn = x})
entryDeletes(cs, x) == LastOf({i \in DOMAIN cs : cs[i].type = "delete" /\ cs[i].dn = x})

\* Mutated form: whichever of two deletions comes last waits for the other.
dataNeedsDeleteAfter(cs, c) ==
  CASE c.type = "add" -> UNION {entryAdds(cs, x) : x \in Above(c.dn)}
    [] c.type = "modify" -> entryAdds(cs, c.dn)
    [] c.type = "modrdn" -> entryAdds(cs, c.dn) \cup UNION {entryAdds(cs, x) : x \in Above(c.to)}
    [] c.type = "delete" -> UNION {entryDeletes(cs, cs[i].dn) : i \in {i \in DOMAIN cs :
                              IsStrictPrefix(c.dn, cs[i].dn) \/ IsStrictPrefix(cs[i].dn, c.dn)}}
    [] OTHER -> {}

dataNeeds(cs, c) ==
  CASE c.type = "add" -> UNION {entryAdds(cs, x) : x \in Above(c.dn)}
    [] c.type = "modify" -> entryAdds(cs, c.dn)
    [] c.type = "modrdn" -> entryAdds(cs, c.dn) \cup UNION {entryAdds(cs, x) : x \in Above(c.to)}
    [] c.type = "delete" -> UNION {entryDeletes(cs, cs[i].dn) : i \in {i \in DOMAIN cs :
                              IsStrictPrefix(c.dn, cs[i].dn)}}
    [] OTHER -> {}

Derive(cs) == [i \in DOMAIN cs |-> dataNeeds(cs, cs[i]) \ {i}]

Baskets == UNION {{s \in [1..n -> Menu] : IsInjective(s)} : n \in 1..MaxStaged}

\* packageItems: what travels is numbered, without gaps.
Kept(s) == {k \in DOMAIN s : Portable(s[k])}
number(s, k) == Earlier + Cardinality({j \in Kept(s) : j <= k})
packageItems(s) ==
  [i \in {number(s, k) : k \in Kept(s)} |-> s[CHOOSE k \in Kept(s) : number(s, k) = i]]

\* Derived as the package is built; a dependency more may be written into the document afterwards.
BuildPackage ==
  /\ phase = "staging"
  /\ \E s \in Baskets :
       LET cs == packageItems(s)
       IN /\ DOMAIN cs # {}
          /\ items' = cs
          /\ \/ Start(Derive(cs)) /\ edited' = FALSE
             \/ \E i \in DOMAIN cs, n \in Ids :
                  Start([Derive(cs) EXCEPT ![i] = @ \cup {n}]) /\ edited' = TRUE
  /\ phase' = "building"
  /\ UNCHANGED <<dir, target, landed, bounds, start>>

Order ==
  /\ phase = "building"
  /\ Place \/ Finish
  /\ UNCHANGED <<dir, items, edited, phase, target, landed, bounds, start>>

-----------------------------------------------------------------------------
(* Validation *)

AlreadySatisfied == "already_satisfied"

\* entryHolds and modsSatisfied: value by value, byte by byte.
entryHolds(live, c) == \A a \in Named(c) : live[a] = c.attrs[a]
modSatisfied(live, m) ==
  CASE m.op = "replace" -> live[m.attr] = m.vals
    [] m.op = "add" -> m.vals \subseteq live[m.attr]
    [] m.op = "delete" /\ m.vals = {} -> live[m.attr] = {}
    [] m.op = "delete" /\ m.vals # {} -> m.vals \cap live[m.attr] = {}
modsSatisfied(live, c) == \A i \in DOMAIN c.mods : modSatisfied(live, c.mods[i])

\* A read of x; one that fails shows nothing of the entry, and is not mistaken for its absence
\* except where only existence is asked for.
Exists(x, failing) == x \notin failing /\ Present(dir, x)
willExist(x, failing) == x \in provided \/ Exists(x, failing)

checkAdd(c, live, failing) ==
  IF live # NoEntry THEN (IF entryHolds(live, c) THEN AlreadySatisfied ELSE "conflict")
  ELSE IF willExist(Parent(c.dn), failing) THEN "ready" ELSE "dependency_missing"

\* Mutated form: a modification is ready wherever the entry is.
checkModifyAlways(c, live) == IF live = NoEntry THEN "conflict" ELSE "ready"

checkModify(c, live) ==
  IF live = NoEntry THEN "conflict"
  ELSE IF modsSatisfied(live, c) THEN AlreadySatisfied ELSE "ready"

checkRename(c, live, failing) ==
  IF live = NoEntry THEN (IF Exists(c.to, failing) THEN AlreadySatisfied ELSE "conflict")
  ELSE IF Exists(c.to, failing) THEN "conflict"
  ELSE IF willExist(Parent(c.to), failing) THEN "ready" ELSE "dependency_missing"

checkData(c, failing) ==
  LET live == Read(dir, c.dn, UserAttrs)
  IN IF c.dn \in failing THEN "unknown"
     ELSE CASE c.type = "add" -> checkAdd(c, live, failing)
            [] c.type = "modify" -> checkModify(c, live)
            [] c.type = "delete" -> IF live = NoEntry THEN AlreadySatisfied ELSE "ready"
            [] c.type = "modrdn" -> checkRename(c, live, failing)

Met == {"ready", AlreadySatisfied}

check(i, failing) ==
  IF \A n \in needs[i] : status[n] \in Met THEN checkData(items[i], failing)
  ELSE "dependency_missing"

\* Validate: in the order of the package, which it walks again and so finds the same.
CheckNext ==
  /\ phase = "validating" /\ Cardinality(DOMAIN status) < Len(out)
  /\ LET i == out[Cardinality(DOMAIN status) + 1]
         c == items[i]
     IN \E failing \in {{}} \cup {{x} : x \in {c.dn, Target(c), Parent(Target(c))}} :
          /\ faults' = faults + Cardinality(failing) /\ faults' <= MaxFaults
          /\ status' = [j \in DOMAIN status \cup {i} |-> IF j = i THEN check(i, failing) ELSE status[j]]
          /\ provided' = (IF status'[i] # "ready" THEN provided
                          ELSE CASE c.type = "add" -> provided \cup {c.dn}
                                 [] c.type = "delete" -> provided \ {c.dn}
                                 [] OTHER -> provided)
  /\ UNCHANGED <<orderVars, dir, items, edited, phase, desk, landed, rounds, others, start>>

Validate ==
  /\ phase \in {"building", "promoted", "closed"} /\ ordering = "ordered" /\ rounds < MaxRounds
  /\ phase' = "validating" /\ rounds' = rounds + 1
  /\ status' = <<>> /\ provided' = {} /\ client' = "none" /\ plan' = <<>> /\ pos' = 1
  /\ IF rounds = 0 THEN start' = dir ELSE UNCHANGED start
  /\ UNCHANGED <<orderVars, dir, items, edited, landed, others, faults>>

-----------------------------------------------------------------------------
(* Staging and planning *)

\* readyChanges: the ready ones, in the order given.
readyChanges == Selected(out, {k \in DOMAIN out : status[out[k]] = "ready"})

\* Into the browser's basket, beside nothing else, or into the request of alder apply --package.
Stage ==
  /\ phase = "validating" /\ Len(out) = Cardinality(DOMAIN status)
  /\ IF readyChanges = <<>> THEN phase' = "closed" /\ UNCHANGED client
     ELSE phase' = "staged" /\ client' \in {"browser", "shell"}
  /\ UNCHANGED <<orderVars, dir, items, edited, status, provided, plan, pos, landed, bounds, start>>

\* The shell asks for a plan at once and once, the browser whenever the operator does.
CheckPlan ==
  /\ \/ phase = "staged"
     \/ phase \in {"reviewing", "refused"} /\ client = "browser"
  /\ phase' = "planning" /\ plan' = <<>> /\ provided' = {}
  /\ UNCHANGED <<orderVars, dir, items, edited, status, client, pos, landed, bounds, start>>

\* ComputeProposals: each as it was staged (reconcile is off), against the target as it is.
PlanOne ==
  /\ phase = "planning"
  /\ LET c == items[readyChanges[Len(plan) + 1]]
         item == classify(dir, c, NoExpect, provided)
     IN plan' = Append(plan, item) /\ provided' = provided \cup Provides(c, item.action)
  /\ phase' = (IF Len(plan') = Len(readyChanges) THEN "reviewing" ELSE phase)
  /\ UNCHANGED <<orderVars, dir, items, edited, status, client, pos, landed, bounds, start>>

\* sentItems: where among the ready changes those are that are sent, which is all of them without a
\* plan and, with one, those it has a baseline for.
SentAt == {k \in DOMAIN readyChanges : k \in DOMAIN plan => ~AppliesNothing(plan[k].action)}
sentItems == Selected(readyChanges, SentAt)

\* blocked.
Blocked == \E k \in DOMAIN plan : plan[k].action = "conflict"

\* The browser also sends what is only staged, as it is, and of a plan what can be sent.  The shell
\* applies a plan without a conflict, or nothing (applyReviewed).
Apply ==
  /\ \/ phase = "staged" /\ client = "browser" /\ phase' = "promoting"
     \/ /\ phase = "reviewing" /\ sentItems # <<>> /\ (client = "shell" => ~Blocked)
        /\ phase' = "verifying"
  /\ UNCHANGED <<orderVars, dir, items, edited, target, landed, bounds, start>>

\* Nothing can be applied, the operator will not, or a read of the plan has failed.
Close ==
  /\ phase \in {"staged", "planning", "reviewing", "refused"}
  /\ phase' = "closed" /\ client' = "none" /\ plan' = <<>> /\ provided' = {}
  /\ UNCHANGED <<orderVars, dir, items, edited, status, pos, landed, bounds, start>>

-----------------------------------------------------------------------------
(* Promotion *)

\* Every baseline first: one that no longer holds, or cannot be read, and nothing is applied.
checkPlannedChanges ==
  /\ phase = "verifying"
  /\ LET k == InOrder(SentAt)[pos]
         c == items[readyChanges[k]]
         token == plan[k].token
         live == Read(dir, c.dn, VerifyReads(c, token, NoExpect))
     IN \/ /\ VerifyRead(c, token, NoExpect, live) = "current"
           /\ IF pos < Len(sentItems) THEN pos' = pos + 1 /\ UNCHANGED phase
              ELSE pos' = 1 /\ phase' = "promoting"
           /\ UNCHANGED faults
        \/ /\ VerifyRead(c, token, NoExpect, live) # "current"
           /\ phase' = "refused" /\ pos' = 1 /\ UNCHANGED faults
        \/ /\ faults < MaxFaults /\ faults' = faults + 1
           /\ phase' = "refused" /\ pos' = 1
  /\ UNCHANGED <<orderVars, dir, items, edited, status, provided, client, plan, landed, rounds, others, start>>

\* Mutated form: the run goes on after a change the target refuses.
PromoteOn ==
  /\ phase = "promoting" /\ pos <= Len(sentItems)
  /\ LET i == sentItems[pos]
     IN IF Accepts(dir, items[i])
        THEN dir' = Done(dir, items[i]) /\ landed' = Append(landed, i)
        ELSE UNCHANGED <<dir, landed>>
  /\ pos' = pos + 1
  /\ UNCHANGED <<orderVars, items, edited, phase, status, provided, client, plan, bounds, start>>

\* ApplyChangeset, which Changeset models in full: in order, to the first failure.
Promote ==
  /\ phase = "promoting" /\ pos <= Len(sentItems)
  /\ LET i == sentItems[pos]
     IN IF Accepts(dir, items[i])
        THEN dir' = Done(dir, items[i]) /\ landed' = Append(landed, i) /\ pos' = pos + 1
        ELSE pos' = Len(sentItems) + 1 /\ UNCHANGED <<dir, landed>>
  /\ UNCHANGED <<orderVars, items, edited, phase, status, provided, client, plan, bounds, start>>

\* (What is left in a browser's basket is discarded before the package is validated again.)
Promoted ==
  /\ phase = "promoting" /\ pos > Len(sentItems)
  /\ phase' = "promoted"
  /\ UNCHANGED <<orderVars, dir, items, edited, target, landed, bounds, start>>

Other ==
  /\ phase \notin {"staging", "building"} /\ others < MaxOthers
  /\ \E c \in Foreign : Accepts(dir, c) /\ dir' = Done(dir, c)
  /\ others' = others + 1
  /\ UNCHANGED <<orderVars, items, edited, phase, target, landed, rounds, faults, start>>

Init ==
  /\ OrderInit
  /\ dir \in Starts /\ start = dir
  /\ items = <<>> /\ edited = FALSE /\ phase = "staging"
  /\ status = <<>> /\ provided = {} /\ client = "none" /\ plan = <<>> /\ pos = 1 /\ landed = <<>>
  /\ rounds = 0 /\ others = 0 /\ faults = 0

Next ==
  \/ BuildPackage \/ Order \/ Validate \/ CheckNext \/ Stage \/ CheckPlan \/ PlanOne \/ Apply \/ Close
  \/ checkPlannedChanges \/ Promote \/ Promoted \/ Other

Spec == Init /\ [][Next]_vars

-----------------------------------------------------------------------------
(* Properties *)

\* docs/DECISIONS.md: what Alder derives from a changeset always has an order, whatever was staged.
DerivedHasOrder == ordering = "refused" => edited

\* Alone: nobody else writes, and no read fails.
Alone == others = 0 /\ faults = 0

\* The directory after changes that are all accepted, or NoEntry.
RunOf(d, cs) ==
  FoldLeft(LAMBDA e, c : IF e # NoEntry /\ Accepts(e, c) THEN Done(e, c) ELSE NoEntry, d, cs)
AsStaged == [k \in 1..Cardinality(DOMAIN items) |-> items[Earlier + k]]

\* Changes the plan shows as conflicts, and what was staged but for those.
Withheld == {readyChanges[k] : k \in {k \in DOMAIN plan : plan[k].action = "conflict"}}
AsPlanned == Selected(AsStaged, {k \in DOMAIN AsStaged : Earlier + k \notin Withheld})

\* docs/CHANGE-PACKAGES.md, "Dependencies are structural, never positional": where a directory would
\* carry the changes out as they were staged, and every one of them is ready, applying the package
\* leaves it as that would have, but for the changes its plan has shown as conflicts.
ArrivesAsStaged ==
  phase = "promoted" /\ rounds = 1 /\ ~edited /\ Alone /\ (\A i \in DOMAIN status : status[i] = "ready") =>
    \/ RunOf(start, AsPlanned) = NoEntry
    \/ dir = RunOf(start, AsPlanned)

\* What a change does to an entry, and, where entries that others name go or get another name, to
\* the values that name them.
Touches(c, x) == IF c.type = "modrdn" THEN IsUnder(x, c.dn) \/ IsUnder(x, c.to) ELSE x = c.dn
Repoints(c) == c.type \in {"delete", "modrdn"} /\ \E x \in DOMAIN Ref : IsUnder(x, c.dn)

\* What a later change does to what c left.
Disturbs(later, c) ==
  \/ Touches(later, c.dn) \/ Touches(later, Target(c))
  \/ Repoints(later) /\ RefAttr \in Named(c)

\* A target that has taken c shows it: each attribute is named once, none that only a read of
\* operational attributes returns, a given naming attribute holds the name (or the target adds it),
\* and a rename leads elsewhere.
Recognisable(c) ==
  /\ Named(c) \cap ServerOwned = {}
  /\ c.type = "modify" => \A i, j \in DOMAIN c.mods : c.mods[i].attr = c.mods[j].attr => i = j
  /\ c.type = "add" => c.attrs[NamingAttr] = {} \/ Key[Last(c.dn)] \in Keys(c.attrs[NamingAttr])
  /\ c.type = "modrdn" => c.to # c.dn

\* docs/CHANGE-PACKAGES.md: promoted again, a change the target has taken is already satisfied,
\* unless another one after it undid or redid what it did, or one it depends on cannot be met now.
PromotedIsSatisfied ==
  Alone => \A k \in DOMAIN landed : \A i \in DOMAIN status :
    /\ phase = "validating" /\ landed[k] = i
    /\ Recognisable(items[i]) /\ \A n \in needs[i] : status[n] \in Met
    /\ \A m \in (k + 1)..Len(landed) : ~Disturbs(items[landed[m]], items[i])
    => status[i] = AlreadySatisfied

\* What the plan says of a ready change.
FoundBy(n, action) == \E k \in DOMAIN plan : readyChanges[k] = n /\ plan[k].action = action

\* A change is carried out only when everything it depends on has been, or was there, whatever fails,
\* conflicts, goes stale or is refused before it.  Only the browser's plan lets a change through whose
\* dependency it shows as a conflict: the operator sees both before applying.
NothingWithoutItsNeeds ==
  rounds = 1 => \A k \in DOMAIN landed : \A n \in needs[landed[k]] :
    \/ status[n] = AlreadySatisfied \/ FoundBy(n, "unchanged")
    \/ \E m \in 1..(k - 1) : landed[m] = n
    \/ client = "browser" /\ FoundBy(n, "conflict")
=============================================================================
