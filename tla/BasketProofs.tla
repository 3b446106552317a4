---------------------------- MODULE BasketProofs ----------------------------
(***************************************************************************)
(* The basket of one browser tab: what an answer reports applied leaves    *)
(* it, only what is in it is sent, a saved plan goes whole or not at all,  *)
(* and a patient operator never sends an interrupted change again before   *)
(* it is known what became of it; for any number of changes, runs and      *)
(* views, and whatever else is clicked.                                    *)
(***************************************************************************)
EXTENDS Basket, DataProofs

-----------------------------------------------------------------------------
(* The inductive invariant *)

Given == 1..next
Outcomes == {"applied", "failed", "unknown", "not_attempted"}

\* The kinds of record the view keeps, of changes numbered in G: what a plan says of a change, and
\* what is sent of one.
Item == [index : Nat, good : BOOLEAN]
Items == Seq(Item)
Change(G) == [id : G, baseline : Baselines \cup {None}]

\* The items of a plan are of different changes it was made of.
ItemsFit(p) ==
  /\ \A k \in DOMAIN p.items : p.items[k].index \in DOMAIN p.made
  /\ \A j, k \in DOMAIN p.items : p.items[j].index = p.items[k].index => j = k
PlanFits(p, G) == p \in [for : Seq(G), made : Seq(G), items : Items] /\ ItemsFit(p)
CheckFits(p, G) == p \in [made : Seq(G), items : Items, served : BOOLEAN] /\ ItemsFit(p)

\* An answer is about changes that were sent, one of them at most unknown.
AnswerFits(a) ==
  /\ Len(a.outcomes) \in {0, Len(a.sent)}
  /\ \A i, j \in Reported(a, "unknown") : i = j
RunFits(a, G) ==
  a \in [ids : Seq(G), sent : Seq(Change(G)), outcomes : Seq(Outcomes), mine : BOOLEAN] /\ AnswerFits(a)
ResultFits(a, G) ==
  a \in [ids : Seq(G), sent : Seq(Change(G)), outcomes : Seq(Outcomes)] /\ AnswerFits(a)

\* A change that was interrupted, and how it was settled; the question put about one.
Interruption(G) == [id : G, resolution : {None, "hold", "remove", "replan"}]
Asked(G) == [of : G, closure : Interruption(G) \cup {None}, live : BOOLEAN, mine : BOOLEAN]

Lists ==
  /\ next \in 0..MaxChanges
  /\ staged \in Seq(Given) /\ \A i, j \in DOMAIN staged : staged[i] = staged[j] => i = j
  /\ clicks \in Nat
  /\ haste \subseteq {"edited", "left", "overlapped", "asked"}
Plans ==
  /\ plan # None => PlanFits(plan, Given)
  /\ check # None => CheckFits(check, Given)
Runs ==
  /\ DOMAIN runs \subseteq 1..clicks
  /\ \A r \in DOMAIN runs : RunFits(runs[r], Given)
  /\ result # None => ResultFits(result, Given)
Doubts ==
  /\ interrupted # None => interrupted \in Interruption(Given)
  /\ ask # None => ask \in Asked(Given)
  /\ doubt \in [Ids -> {"none", "unknown", "replan"}]
  /\ \A c \in Ids : c > next => doubt[c] = "none"

\* Unless a check was answered after the basket had been edited, a plan is labelled with the basket
\* it was made of, a run names its changes as it sent them, and what was applied is gone.
Labelled ==
  "edited" \notin haste =>
    /\ plan # None => plan.for = plan.made
    /\ \A r \in DOMAIN runs :
         /\ DOMAIN runs[r].ids = DOMAIN runs[r].sent
         /\ \A i \in DOMAIN runs[r].sent : runs[r].ids[i] = runs[r].sent[i].id
    /\ result # None => Sent(result, "applied") \cap ToSet(staged) = {}

\* While the basket is a saved plan, every check under way, and every plan of it, is of all of it.
Saved ==
  whole # {} =>
    /\ whole = ToSet(staged)
    /\ check # None => check.made = staged
    /\ plan # None /\ plan.for = staged => plan.made = staged

\* Nothing can be asked, shown or interrupted before the first click.
Untouched == clicks = 0 => result = None /\ ask = None /\ interrupted = None

\* A patient operator's run is the only one, and nothing is asked meanwhile.
OneAtATime ==
  /\ \A q, r \in DOMAIN runs : q = r /\ runs[r].mine
  /\ DOMAIN runs # {} => result = None /\ ask = None
  /\ clicks > 0 => here
\* What is unknown is what the view holds back,
HeldBack ==
  \A c \in ToSet(staged) :
    /\ doubt[c] = "unknown" =>
         interrupted # None /\ interrupted.id = c /\ interrupted.resolution \in {None, "hold"} /\ DOMAIN runs = {}
    /\ doubt[c] = "replan" =>
         interrupted # None /\ interrupted.id = c /\ interrupted.resolution = "replan"
\* and what it asks about.
AskedAbout ==
  /\ result # None /\ Sent(result, "unknown") # {} =>
       interrupted # None /\ Sent(result, "unknown") = {interrupted.id}
  /\ ask # None =>
       /\ interrupted # None /\ ask.of = interrupted.id /\ interrupted.resolution = None
       /\ ask.mine /\ (~ask.live => ask.closure = interrupted)
Patient == haste = {} => OneAtATime /\ HeldBack /\ AskedAbout

IInv == Lists /\ Plans /\ Runs /\ Doubts /\ Labelled /\ Saved /\ Untouched /\ Patient

-----------------------------------------------------------------------------
(* What the edits leave *)

Distinct(s) == \A i, j \in DOMAIN s : s[i] = s[j] => i = j

\* Part of the basket is a basket of those changes.
LEMMA PartOfBasket ==
  ASSUME Lists, NEW I \in SUBSET DOMAIN staged
  PROVE  /\ Selected(staged, I) \in Seq(Given) /\ Distinct(Selected(staged, I))
         /\ ToSet(Selected(staged, I)) = {staged[i] : i \in I}
<1>1. staged \in Seq(Given) /\ Distinct(staged)
  BY DEF Lists, Distinct
<1>2. Selected(staged, I) \in Seq(Given)
  BY <1>1, SelectedIs
<1>3. /\ {Selected(staged, I)[k] : k \in DOMAIN Selected(staged, I)} = {staged[i] : i \in I}
      /\ Distinct(Selected(staged, I))
  BY <1>1, SelectedElements DEF Distinct
<1> QED BY <1>2, <1>3 DEF ToSet

\* Without the changes ids, the basket holds the others.
LEMMA RemovedFrom ==
  ASSUME Lists, NEW ids, removeApplied(ids)
  PROVE  /\ staged' \in Seq(Given) /\ Distinct(staged')
         /\ ToSet(staged') = ToSet(staged) \ ids
         /\ whole' = {} \/ (whole' = whole /\ staged' = staged)
<1> DEFINE I == {i \in DOMAIN staged : staged[i] \notin ids}
<1>1. staged' = Selected(staged, I)
  BY DEF removeApplied
<1>2. /\ staged' \in Seq(Given) /\ Distinct(staged')
      /\ ToSet(staged') = {staged[i] : i \in I}
  BY <1>1, PartOfBasket
<1>3. {staged[i] : i \in I} = ToSet(staged) \ ids
  BY DEF ToSet
<1>4. ids = {} => staged' = staged
  <2>1. ids = {} => I = DOMAIN staged
    OBVIOUS
  <2> QED BY <1>1, <2>1, SelectedAll DEF Lists
<1> QED BY <1>2, <1>3, <1>4 DEF removeApplied

Edits == clear \/ (\E c \in Ids : remove(c)) \/ (\E k \in Ids : move(k))

\* An edit leaves changes that were there, each once, and no saved plan.
LEMMA EditLeaves ==
  ASSUME Lists, Edits
  PROVE  /\ staged' \in Seq(Given) /\ Distinct(staged')
         /\ ToSet(staged') \subseteq ToSet(staged)
         /\ whole' = {} /\ here
         /\ UNCHANGED <<expecting, next, clicks, runs, doubt, haste, holds, others>>
         /\ UNCHANGED <<here, plan, check, watched, stale, result, interrupted, opened>> /\ KeepPanel
<1> USE DEF edit, UNCHANGED_VIEW, UNCHANGED_DIRECTORY
<1>1. CASE clear
  BY <1>1 DEF clear, Distinct, ToSet
<1>2. CASE \E c \in Ids : remove(c)
  <2>1. PICK c \in Ids : edit(Selected(staged, {i \in DOMAIN staged : staged[i] # c}))
    BY <1>2 DEF remove
  <2>2. /\ staged' \in Seq(Given) /\ Distinct(staged')
        /\ ToSet(staged') = {staged[i] : i \in {i \in DOMAIN staged : staged[i] # c}}
    BY <2>1, PartOfBasket
  <2> QED BY <2>1, <2>2 DEF ToSet
<1>3. CASE \E k \in Ids : move(k)
  <2>1. PICK k \in Ids :
          /\ k \in 1..(Len(staged) - 1)
          /\ edit([staged EXCEPT ![k] = staged[k + 1], ![k + 1] = staged[k]])
    BY <1>3 DEF move
  <2>2. /\ staged' = [staged EXCEPT ![k] = staged[k + 1], ![k + 1] = staged[k]]
        /\ staged \in Seq(Given) /\ Distinct(staged) /\ DOMAIN staged = 1..Len(staged)
        /\ k \in DOMAIN staged /\ k + 1 \in DOMAIN staged /\ Len(staged) \in Nat
    BY <2>1 DEF Lists, Distinct
  <2>3. /\ DOMAIN staged' = DOMAIN staged
        /\ \A i \in DOMAIN staged : staged'[i] = staged[IF i = k THEN k + 1 ELSE IF i = k + 1 THEN k ELSE i]
    BY <2>1, <2>2
  <2>4. staged' \in Seq(Given)
    BY <2>2, <2>3
  <2>5. Distinct(staged')
    BY <2>1, <2>2, <2>3 DEF Distinct
  <2>6. ToSet(staged') \subseteq ToSet(staged)
    BY <2>1, <2>2, <2>3 DEF ToSet
  <2> QED BY <2>1, <2>4, <2>5, <2>6
<1> QED BY <1>1, <1>2, <1>3 DEF Edits

-----------------------------------------------------------------------------
(* What a run sends *)

\* A plan's changes are those it was made of, under the ids the basket has at their positions.
LEMMA PlanSends ==
  ASSUME Lists, NEW p, PlanFits(p, Given)
  PROVE  /\ changesFromPlan(p) \in Seq(Change(Given))
         /\ DOMAIN changesFromPlan(p) = DOMAIN p.items
         /\ \A k \in DOMAIN p.items :
              /\ changesFromPlan(p)[k].baseline = [of |-> p.made[p.items[k].index], good |-> p.items[k].good]
              /\ changesFromPlan(p)[k].baseline \in Baselines
              /\ changesFromPlan(p)[k].id =
                   IF p.items[k].index \in DOMAIN staged THEN staged[p.items[k].index] ELSE p.made[p.items[k].index]
<1> DEFINE n == Len(p.items)
           id(k) == IF p.items[k].index \in DOMAIN staged THEN staged[p.items[k].index] ELSE p.made[p.items[k].index]
           baseline(k) == [of |-> p.made[p.items[k].index], good |-> p.items[k].good]
<1>1. p.items \in Items /\ p.made \in Seq(Given) /\ staged \in Seq(Given)
  BY DEF PlanFits, Lists
<1>2. n \in Nat /\ DOMAIN p.items = 1..n /\ \A k \in 1..n : p.items[k] \in Item
  BY <1>1, ListIs DEF Items
<1>3. \A k \in 1..n : p.made[p.items[k].index] \in Given /\ p.items[k].good \in BOOLEAN
  BY <1>1, <1>2 DEF PlanFits, ItemsFit, Item
<1>4. \A k \in 1..n : baseline(k) \in Baselines
  BY <1>3 DEF Baselines, Given
<1>5. \A k \in 1..n : id(k) \in Given
  BY <1>1, <1>3
<1>6. changesFromPlan(p) = [k \in 1..n |-> [id |-> id(k), baseline |-> baseline(k)]]
  BY <1>2 DEF changesFromPlan
<1> HIDE DEF n, id, baseline
<1>7. \A k \in 1..n : [id |-> id(k), baseline |-> baseline(k)] \in Change(Given)
  BY <1>4, <1>5 DEF Change
<1>8. changesFromPlan(p) \in [1..n -> Change(Given)]
  BY <1>6, <1>7
<1>9. changesFromPlan(p) \in Seq(Change(Given))
  BY <1>2, <1>8, IsList
<1>10. /\ DOMAIN changesFromPlan(p) = DOMAIN p.items
       /\ \A k \in DOMAIN p.items : /\ changesFromPlan(p)[k].baseline = baseline(k)
                                    /\ changesFromPlan(p)[k].baseline \in Baselines
                                    /\ changesFromPlan(p)[k].id = id(k)
  BY <1>2, <1>4, <1>6
<1> QED BY <1>9, <1>10 DEF id, baseline

\* The positions a plan sends.
LEMMA PositionsSent ==
  ASSUME NEW p, PlanFits(p, Given)
  PROVE  /\ sentStagedIndices(p) \in Seq(Nat) /\ DOMAIN sentStagedIndices(p) = DOMAIN p.items
         /\ \A k \in DOMAIN p.items : sentStagedIndices(p)[k] = p.items[k].index
<1>1. /\ Len(p.items) \in Nat /\ DOMAIN p.items = 1..Len(p.items)
      /\ \A k \in DOMAIN p.items : p.items[k] \in Item
  BY ListIs DEF PlanFits, Items
<1>2. sentStagedIndices(p) = [k \in 1..Len(p.items) |-> p.items[k].index]
  BY <1>1 DEF sentStagedIndices
<1>3. \A k \in 1..Len(p.items) : p.items[k].index \in Nat
  BY <1>1 DEF Item
<1>4. sentStagedIndices(p) \in [1..Len(p.items) -> Nat]
  BY <1>2, <1>3
<1>5. sentStagedIndices(p) \in Seq(Nat)
  BY <1>1, <1>4, IsList
<1> QED BY <1>1, <1>2, <1>5

\* What a click on Apply sends, and what the answer is read against.
LEMMA BodyFits ==
  ASSUME Lists, Plans
  PROVE  applyBody \in Seq(Change(Given)) /\ sentIds \in Seq(Given)
<1>1. staged \in Seq(Given) /\ DOMAIN staged = 1..Len(staged) /\ Len(staged) \in Nat
  BY DEF Lists
<1>2. CASE current = None
  <2>1. applyBody = [k \in 1..Len(staged) |-> [id |-> staged[k], baseline |-> None]] /\ sentIds = staged
    BY <1>1, <1>2 DEF applyBody, sentIds
  <2>2. \A k \in 1..Len(staged) : [id |-> staged[k], baseline |-> None] \in Change(Given)
    BY <1>1 DEF Change
  <2>3. applyBody \in [1..Len(staged) -> Change(Given)]
    BY <2>1, <2>2
  <2> QED BY <1>1, <2>1, <2>3, IsList
<1>3. CASE current # None
  <2>1. current = plan /\ PlanFits(plan, Given)
    BY <1>3 DEF Plans, current
  <2>2. applyBody \in Seq(Change(Given))
    BY <1>3, <2>1, PlanSends DEF applyBody
  <2> DEFINE at == sentStagedIndices(current)
             I == {k \in DOMAIN at : at[k] \in DOMAIN staged}
             there == Selected(at, I)
  <2>3. at \in Seq(Nat)
    BY <2>1, PositionsSent
  <2>4. sentIds = [k \in DOMAIN there |-> staged[there[k]]]
    BY <1>3 DEF sentIds
  <2> HIDE DEF at
  <2>5. /\ DOMAIN there = 1..Cardinality(I) /\ Cardinality(I) \in Nat
        /\ \A k \in DOMAIN there : InOrder(I)[k] \in I /\ there[k] = at[InOrder(I)[k]]
    BY <2>3, SelectedIs
  <2>6. \A k \in DOMAIN there : there[k] \in DOMAIN staged
    BY <2>5
  <2> HIDE DEF there
  <2>7. sentIds \in [1..Cardinality(I) -> Given]
    BY <1>1, <2>4, <2>5, <2>6
  <2>8. sentIds \in Seq(Given)
    BY <2>5, <2>7, IsList
  <2> QED BY <2>2, <2>8
<1> QED BY <1>2, <1>3

\* Under a plan of the basket as it is, what is sent is in the basket and named as it was sent.
LEMMA BodyNamed ==
  ASSUME Lists, Plans, plan # None => plan.for = plan.made
  PROVE  /\ DOMAIN sentIds = DOMAIN applyBody
         /\ \A i \in DOMAIN applyBody : sentIds[i] = applyBody[i].id /\ applyBody[i].id \in ToSet(staged)
<1>1. staged \in Seq(Given)
  BY DEF Lists
<1>2. CASE current = None
  BY <1>1, <1>2 DEF applyBody, sentIds, ToSet
<1>3. CASE current # None
  <2>1. current = plan /\ PlanFits(plan, Given) /\ plan.made = staged
    BY <1>3 DEF Plans, current
  <2> DEFINE at == sentStagedIndices(current)
  <2>2. /\ at \in Seq(Nat) /\ DOMAIN at = DOMAIN plan.items
        /\ \A k \in DOMAIN at : at[k] = plan.items[k].index /\ at[k] \in DOMAIN staged
    <3>1. \A k \in DOMAIN plan.items : plan.items[k].index \in DOMAIN staged
      BY <2>1 DEF PlanFits, ItemsFit
    <3> QED BY <2>1, <3>1, PositionsSent
  <2>3. sentIds = LET there == Selected(at, {k \in DOMAIN at : at[k] \in DOMAIN staged})
                  IN  [k \in DOMAIN there |-> staged[there[k]]]
    BY <1>3 DEF sentIds
  <2> HIDE DEF at
  <2>4. {k \in DOMAIN at : at[k] \in DOMAIN staged} = DOMAIN at
    BY <2>2
  <2>5. Selected(at, DOMAIN at) = at
    BY <2>2, SelectedAll
  <2>6. sentIds = [k \in DOMAIN at |-> staged[at[k]]]
    BY <2>3, <2>4, <2>5
  <2>7. /\ DOMAIN applyBody = DOMAIN at
        /\ \A k \in DOMAIN at : applyBody[k].id = staged[at[k]]
    <3>1. applyBody = changesFromPlan(plan)
      BY <1>3, <2>1 DEF applyBody
    <3>2. /\ DOMAIN changesFromPlan(plan) = DOMAIN plan.items
          /\ \A k \in DOMAIN plan.items : changesFromPlan(plan)[k].id =
               IF plan.items[k].index \in DOMAIN staged THEN staged[plan.items[k].index]
               ELSE plan.made[plan.items[k].index]
      BY <2>1, PlanSends
    <3> QED BY <2>2, <3>1, <3>2
  <2> QED BY <1>1, <2>2, <2>6, <2>7 DEF ToSet
<1> QED BY <1>2, <1>3

\* Of what a run reports, at most one change is unknown.
LEMMA ServedFits ==
  ASSUME Lists, Plans, NEW outcomes, outcomes \in UNION {[1..n -> Outcomes] : n \in {0, Len(applyBody)}},
         ServeApply(applyBody, outcomes)
  PROVE  /\ outcomes \in Seq(Outcomes) /\ Len(outcomes) \in {0, Len(applyBody)}
         /\ \A i, j \in DOMAIN outcomes : outcomes[i] = "unknown" /\ outcomes[j] = "unknown" => i = j
         /\ \E written : Write(written) \/ UNCHANGED <<plan, check>>
<1>1. applyBody \in Seq(Change(Given))
  BY BodyFits
<1>2. Len(applyBody) \in Nat /\ DOMAIN applyBody = 1..Len(applyBody)
  BY <1>1, ListIs
<1>3. outcomes \in Seq(Outcomes) /\ Len(outcomes) \in {0, Len(applyBody)}
  BY <1>2
<1>4. CASE ~Verified(applyBody)
  BY <1>3, <1>4 DEF ServeApply
<1>5. CASE Verified(applyBody)
  <2>1. PICK n \in 0..Len(applyBody), stop \in {"failed", "unknown"} :
          /\ \E done : Write(done)
          /\ outcomes = [i \in DOMAIN applyBody |-> IF i <= n THEN "applied"
                                                    ELSE IF i = n + 1 THEN stop ELSE "not_attempted"]
    BY <1>5 DEF ServeApply
  <2> QED BY <1>2, <1>3, <2>1
<1> QED BY <1>4, <1>5

\* A write leaves plans as they are, but for what is known to be out of date.
LEMMA OutdatedFits ==
  ASSUME NEW p, NEW G, NEW written, p # None
  PROVE  /\ PlanFits(p, G) => PlanFits(Outdated(p, written), G)
         /\ CheckFits(p, G) => CheckFits(Outdated(p, written), G)
         /\ PlanFits(p, G) => Outdated(p, written).made = p.made /\ Outdated(p, written).for = p.for
         /\ CheckFits(p, G) => Outdated(p, written).made = p.made
<1> DEFINE good(x) == x.good /\ p.made[x.index] \notin written
           q == [k \in DOMAIN p.items |-> [index |-> p.items[k].index, good |-> good(p.items[k])]]
<1>1. Outdated(p, written) = [p EXCEPT !.items = q]
  BY DEF Outdated
<1>2. ASSUME p.items \in Items
      PROVE  q \in Items /\ DOMAIN q = DOMAIN p.items /\ \A k \in DOMAIN q : q[k].index = p.items[k].index
  <2>1. /\ DOMAIN p.items = 1..Len(p.items) /\ Len(p.items) \in Nat
        /\ \A k \in DOMAIN p.items : p.items[k] \in Item
    BY <1>2, ListIs DEF Items
  <2>2. \A k \in DOMAIN p.items : q[k] \in Item /\ q[k].index = p.items[k].index
    BY <2>1 DEF Item
  <2>3. q \in [1..Len(p.items) -> Item]
    BY <2>1, <2>2
  <2> QED BY <2>1, <2>2, <2>3, IsList DEF Items
<1> HIDE DEF q
<1>3. CASE PlanFits(p, G)
  <2>1. p \in [for : Seq(G), made : Seq(G), items : Items] /\ ItemsFit(p)
    BY <1>3 DEF PlanFits
  <2> DEFINE o == Outdated(p, written)
  <2>2. o = [for |-> p.for, made |-> p.made, items |-> q]
    BY <1>1, <2>1
  <2>3. o \in [for : Seq(G), made : Seq(G), items : Items]
    BY <1>2, <2>1, <2>2
  <2>4. ItemsFit(o)
    BY <1>2, <2>1, <2>2 DEF ItemsFit
  <2>5. o.made = p.made /\ o.for = p.for
    BY <2>2
  <2>6. ~CheckFits(p, G) \/ CheckFits(p, G)
    OBVIOUS
  <2> QED BY <2>1, <2>3, <2>4, <2>5 DEF PlanFits, CheckFits
<1>4. CASE CheckFits(p, G)
  <2>1. p \in [made : Seq(G), items : Items, served : BOOLEAN] /\ ItemsFit(p)
    BY <1>4 DEF CheckFits
  <2> DEFINE o == Outdated(p, written)
  <2>2. o = [made |-> p.made, items |-> q, served |-> p.served]
    BY <1>1, <2>1
  <2>3. o \in [made : Seq(G), items : Items, served : BOOLEAN]
    BY <1>2, <2>1, <2>2
  <2>4. ItemsFit(o)
    BY <1>2, <2>1, <2>2 DEF ItemsFit
  <2>5. o.made = p.made
    BY <2>2
  <2> QED BY <2>1, <2>3, <2>4, <2>5 DEF PlanFits, CheckFits
<1> QED BY <1>3, <1>4

-----------------------------------------------------------------------------
(* The parts of the invariant, one by one *)

\* Steps that leave the basket, and what the operator is known to have done, as they are.
Elsewhere ==
  \/ Open \/ Check \/ ServeCheck \/ LoseCheck \/ Dismiss \/ Ask \/ LoseAsk
  \/ (\E c \in Ids : Other(c))
  \/ (\E r \in DOMAIN runs : RefuseApply(r) \/ LoseApply(r))
  \/ UNCHANGED vars

LEMMA Steps ==
  ASSUME [Next]_vars
  PROVE  \/ add \/ Edits \/ Leave \/ AnswerCheck \/ Apply \/ AnswerAsk \/ Elsewhere
         \/ \E n \in Ids : loadSavedPlan(n)
         \/ \E r \in DOMAIN runs : AnswerApply(r)
  BY DEF Next, Edits, Elsewhere

LEMMA ElsewhereLeaves ==
  ASSUME Elsewhere
  PROVE  UNCHANGED <<staged, whole, expecting, next, clicks, interrupted, doubt, haste>>
  BY DEF Elsewhere, Open, Check, ServeCheck, LoseCheck, Dismiss, Ask, LoseAsk, Other, RefuseApply, LoseApply,
         vars, view

LEMMA MoreGiven == ASSUME Lists, next' \in Nat, next <= next'
                   PROVE  Given \subseteq Given' /\ Seq(Given) \subseteq Seq(Given')
<1>1. Given \subseteq Given'
  BY DEF Lists, Given
<1> QED BY <1>1, ListGrows

LEMMA ListsKept == ASSUME IInv, [Next]_vars PROVE Lists'
<1> USE BasketConstants
<1>0. Lists /\ next \in Nat /\ staged \in Seq(Given) /\ Distinct(staged)
  BY DEF IInv, Lists, Distinct
<1>1. CASE add
  <2>1. next' = next + 1 /\ next < MaxChanges /\ staged' = Append(staged, next + 1) /\ UNCHANGED <<clicks, haste>>
    BY <1>1 DEF add
  <2>2. Given' = Given \cup {next + 1} /\ next + 1 \notin Given
    BY <1>0, <2>1 DEF Given
  <2>3. staged' \in Seq(Given')
    BY <1>0, <2>1, <2>2
  <2>4. \A i, j \in DOMAIN staged' : staged'[i] = staged'[j] => i = j
    BY <1>0, <2>1, <2>2 DEF Distinct
  <2> QED BY <1>0, <2>1, <2>3, <2>4 DEF Lists
<1>2. CASE Edits
  BY <1>0, <1>2, EditLeaves DEF Lists, Distinct, Given
<1>3. CASE \E n \in Ids : loadSavedPlan(n)
  <2>1. PICK n \in Ids : /\ next + n <= MaxChanges /\ next' = next + n /\ staged' = [k \in 1..n |-> next + k]
                         /\ UNCHANGED <<clicks, haste>>
    BY <1>3 DEF loadSavedPlan
  <2>2. n \in Nat /\ next' \in 0..MaxChanges
    BY <1>0, <2>1 DEF Ids, Lists
  <2>3. staged' \in [1..n -> Given']
    BY <1>0, <2>1, <2>2 DEF Given
  <2>4. staged' \in Seq(Given')
    BY <2>2, <2>3, IsList
  <2>5. \A i, j \in DOMAIN staged' : staged'[i] = staged'[j] => i = j
    BY <1>0, <2>1, <2>2
  <2> QED BY <1>0, <2>1, <2>2, <2>4, <2>5 DEF Lists
<1>4. CASE Leave
  <2>1. UNCHANGED <<staged, next, clicks>> /\ haste' = haste \cup (IF clicks = 0 THEN {} ELSE {"left"})
    BY <1>4 DEF Leave, Hasty
  <2> QED BY <1>0, <2>1 DEF Lists, Given
<1>5. CASE AnswerCheck
  <2>1. UNCHANGED <<staged, next, clicks>> /\ haste' = haste \cup (IF staged = check.made THEN {} ELSE {"edited"})
    BY <1>5 DEF AnswerCheck, Hasty
  <2> QED BY <1>0, <2>1 DEF Lists, Given
<1>6. CASE Apply
  <2>1. /\ UNCHANGED <<staged, next>> /\ clicks' = clicks + 1
        /\ haste' = haste \cup (IF runs = <<>> THEN {} ELSE {"overlapped"}) \cup (IF ask = None THEN {} ELSE {"asked"})
    BY <1>6 DEF Apply, Hasty
  <2> QED BY <1>0, <2>1 DEF Lists, Given
<1>7. CASE \E r \in DOMAIN runs : AnswerApply(r)
  <2>1. PICK r \in DOMAIN runs : removeApplied(appliedIds(runs[r])) /\ UNCHANGED <<next, clicks, haste>>
    BY <1>7 DEF AnswerApply
  <2>2. staged' \in Seq(Given) /\ Distinct(staged')
    BY <1>0, <2>1, RemovedFrom
  <2> QED BY <1>0, <2>1, <2>2 DEF Lists, Distinct, Given
<1>8. CASE AnswerAsk
  <2>1. /\ UNCHANGED <<next, clicks, haste>>
        /\ (\E ids : removeApplied(ids)) \/ UNCHANGED staged
    BY <1>8 DEF AnswerAsk
  <2>2. staged' \in Seq(Given) /\ Distinct(staged')
    BY <1>0, <2>1, RemovedFrom
  <2> QED BY <1>0, <2>1, <2>2 DEF Lists, Distinct, Given
<1>9. CASE Elsewhere
  BY <1>0, <1>9, ElsewhereLeaves DEF Lists, Given
<1> QED BY <1>1, <1>2, <1>3, <1>4, <1>5, <1>6, <1>7, <1>8, <1>9, Steps

\* The ids given out are never taken back.
LEMMA NextGrows == ASSUME IInv, [Next]_vars PROVE Given \subseteq Given' /\ Seq(Given) \subseteq Seq(Given')
<1>1. Lists /\ Lists'
  BY ListsKept DEF IInv
<1>2. next \in Nat /\ next' \in Nat
  BY <1>1, BasketConstants DEF Lists
<1>3. next <= next'
  <2>1. CASE add
    BY <1>2, <2>1 DEF add
  <2>2. CASE \E n \in Ids : loadSavedPlan(n)
    BY <1>2, <2>2 DEF loadSavedPlan, Ids
  <2>3. CASE Edits
    BY <1>1, <1>2, <2>3, EditLeaves
  <2>4. CASE Leave \/ AnswerCheck \/ Apply \/ AnswerAsk \/ \E r \in DOMAIN runs : AnswerApply(r)
    BY <1>2, <2>4 DEF Leave, AnswerCheck, Apply, AnswerAsk, AnswerApply
  <2>5. CASE Elsewhere
    BY <1>2, <2>5, ElsewhereLeaves
  <2> QED BY <2>1, <2>2, <2>3, <2>4, <2>5, Steps
<1> QED BY <1>1, <1>2, <1>3, MoreGiven

\* What fits fits still when more changes have been given out.
LEMMA MoreFits ==
  ASSUME NEW G, NEW H, G \subseteq H
  PROVE  /\ \A p : PlanFits(p, G) => PlanFits(p, H)
         /\ \A p : CheckFits(p, G) => CheckFits(p, H)
         /\ \A a : RunFits(a, G) => RunFits(a, H)
         /\ \A a : ResultFits(a, G) => ResultFits(a, H)
         /\ Interruption(G) \subseteq Interruption(H)
<1> DEFINE more == Change(H)
<1>1. Change(G) \subseteq more
  BY DEF Change
<1> HIDE DEF more
<1>2. Seq(G) \subseteq Seq(H) /\ Seq(Change(G)) \subseteq Seq(more)
  BY <1>1, ListGrows
<1>3. \A p : PlanFits(p, G) => PlanFits(p, H)
  BY <1>2 DEF PlanFits
<1>4. \A p : CheckFits(p, G) => CheckFits(p, H)
  BY <1>2 DEF CheckFits
<1>5. \A a : RunFits(a, G) => RunFits(a, H)
  BY <1>2 DEF RunFits, more
<1>6. \A a : ResultFits(a, G) => ResultFits(a, H)
  BY <1>2 DEF ResultFits, more
<1>7. Interruption(G) \subseteq Interruption(H)
  BY DEF Interruption
<1> QED BY <1>3, <1>4, <1>5, <1>6, <1>7

\* A write changes nothing of a plan but what its items promise.
LEMMA WriteLeaves ==
  ASSUME Plans, (\E written : Write(written)) \/ UNCHANGED <<plan, check>>
  PROVE  /\ plan' # None => /\ plan # None /\ PlanFits(plan', Given)
                            /\ plan'.for = plan.for /\ plan'.made = plan.made
         /\ check' # None => check # None /\ CheckFits(check', Given) /\ check'.made = check.made
<1>1. CASE UNCHANGED <<plan, check>>
  BY <1>1 DEF Plans
<1>2. CASE \E written : Write(written)
  <2>1. PICK written : plan' = Outdated(plan, written) /\ check' = Outdated(check, written)
    BY <1>2 DEF Write
  <2>2. plan = None => plan' = None
    BY <2>1 DEF Outdated
  <2>3. check = None => check' = None
    BY <2>1 DEF Outdated
  <2>4. plan # None => PlanFits(plan', Given) /\ plan'.for = plan.for /\ plan'.made = plan.made
    BY <2>1, OutdatedFits DEF Plans
  <2>5. check # None => CheckFits(check', Given) /\ check'.made = check.made
    BY <2>1, OutdatedFits DEF Plans
  <2> QED BY <2>2, <2>3, <2>4, <2>5
<1> QED BY <1>1, <1>2

\* A request for a plan names what it was made of, and nothing of the answer yet.
LEMMA NewCheckFits ==
  ASSUME NEW G, NEW s \in Seq(G)
  PROVE  LET c == [made |-> s, items |-> <<>>, served |-> FALSE] IN CheckFits(c, G) /\ c.made = s
  BY DEF CheckFits, ItemsFit, Items

\* The server plans what it was sent, each change once.
LEMMA ServedCheckFits ==
  ASSUME Plans, ServeCheck
  PROVE  CheckFits(check', Given) /\ check'.made = check.made /\ check # None
<1> DEFINE I == {k \in DOMAIN check.made : ~holds[check.made[k]]}
           work == InOrder(I)
           items == [k \in DOMAIN work |-> [index |-> work[k], good |-> TRUE]]
<1>1. check # None /\ CheckFits(check, Given) /\ check' = [check EXCEPT !.served = TRUE, !.items = items]
  BY DEF Plans, ServeCheck
<1>2. check.made \in Seq(Given) /\ check \in [made : Seq(Given), items : Items, served : BOOLEAN]
  BY <1>1 DEF CheckFits
<1>3. Len(check.made) \in Nat /\ DOMAIN check.made = 1..Len(check.made) /\ I \in SUBSET (1..Len(check.made))
  BY <1>2
<1> HIDE DEF I
<1>4. /\ Cardinality(I) \in Nat
      /\ work \in [1..Cardinality(I) -> I]
      /\ \A j, k \in 1..Cardinality(I) : work[j] = work[k] => j = k
  BY <1>3, InOrderIs
<1> HIDE DEF work
<1>5. DOMAIN work = 1..Cardinality(I) /\ \A k \in 1..Cardinality(I) : work[k] \in DOMAIN check.made
  BY <1>3, <1>4
<1>6. \A k \in 1..Cardinality(I) : [index |-> work[k], good |-> TRUE] \in Item
  BY <1>3, <1>5 DEF Item
<1>7. /\ items \in [1..Cardinality(I) -> Item]
      /\ \A k \in DOMAIN items : items[k].index = work[k]
      /\ DOMAIN items = 1..Cardinality(I)
  BY <1>5, <1>6
<1>8. items \in Items
  BY <1>4, <1>7, IsList DEF Items
<1> HIDE DEF items
<1>9. check' = [made |-> check.made, items |-> items, served |-> TRUE]
  BY <1>1, <1>2
<1>10. ItemsFit(check')
  BY <1>4, <1>5, <1>7, <1>9 DEF ItemsFit
<1> QED BY <1>1, <1>2, <1>8, <1>9, <1>10 DEF CheckFits

\* A run writes, or is refused.
LEMMA ApplyWrites ==
  ASSUME Lists, Plans, Apply
  PROVE  (\E written : Write(written)) \/ UNCHANGED <<plan, check>>
<1>1. PICK outcomes \in UNION {[1..n -> Outcomes] : n \in {0, Len(applyBody)}} : ServeApply(applyBody, outcomes)
  BY DEF Apply, Outcomes
<1> QED BY <1>1, ServedFits

LEMMA PlansKept == ASSUME IInv, [Next]_vars PROVE Plans'
<1>0. Lists /\ Plans /\ Given \subseteq Given' /\ staged \in Seq(Given) /\ staged' \in Seq(Given')
  BY ListsKept, NextGrows DEF IInv, Lists
<1>1. CASE (\E written : Write(written)) \/ UNCHANGED <<plan, check>>
  BY <1>0, <1>1, WriteLeaves, MoreFits DEF Plans
<1>2. CASE \E n \in Ids : loadSavedPlan(n)
  <2>1. plan' = plan /\ check' = [made |-> staged', items |-> <<>>, served |-> FALSE]
    BY <1>2 DEF loadSavedPlan
  <2>2. CheckFits(check', Given')
    BY <1>0, <2>1, NewCheckFits
  <2> QED BY <1>0, <2>1, <2>2, MoreFits DEF Plans
<1>3. CASE Check
  <2>1. plan' = plan /\ check' = [made |-> staged, items |-> <<>>, served |-> FALSE]
    BY <1>3 DEF Check
  <2>2. CheckFits(check', Given)
    BY <1>0, <2>1, NewCheckFits
  <2> QED BY <1>0, <2>1, <2>2, MoreFits DEF Plans
<1>4. CASE ServeCheck
  <2>1. plan' = plan /\ CheckFits(check', Given)
    BY <1>0, <1>4, ServedCheckFits DEF ServeCheck
  <2> QED BY <1>0, <2>1, MoreFits DEF Plans
<1>5. CASE AnswerCheck
  <2>1. check # None /\ check' = None /\ plan' = [for |-> staged, made |-> check.made, items |-> check.items]
    BY <1>5 DEF AnswerCheck
  <2>2. PlanFits(plan', Given)
    BY <1>0, <2>1 DEF Plans, PlanFits, CheckFits, ItemsFit
  <2> QED BY <1>0, <2>1, <2>2, MoreFits DEF Plans
<1>6. CASE Leave
  BY <1>6 DEF Leave, Plans
<1>7. CASE LoseCheck
  BY <1>0, <1>7, MoreFits DEF LoseCheck, Plans
<1>8. CASE \E r \in DOMAIN runs : AnswerApply(r)
  <2>1. check' = check /\ plan' \in {None, plan}
    BY <1>8 DEF AnswerApply
  <2> QED BY <1>0, <2>1, MoreFits DEF Plans
<1>9. CASE Apply \/ \E c \in Ids : Other(c)
  BY <1>0, <1>1, <1>9, ApplyWrites DEF Other
<1>10. CASE Edits
  BY <1>0, <1>1, <1>10, EditLeaves
<1>11. CASE add \/ AnswerAsk \/ Open \/ Dismiss \/ Ask \/ LoseAsk \/ UNCHANGED vars
  BY <1>1, <1>11 DEF add, AnswerAsk, Open, Dismiss, Ask, LoseAsk, vars, view
<1>12. CASE \E r \in DOMAIN runs : RefuseApply(r) \/ LoseApply(r)
  BY <1>1, <1>12 DEF RefuseApply, LoseApply
<1> QED BY <1>2, <1>3, <1>4, <1>5, <1>6, <1>7, <1>8, <1>9, <1>10, <1>11, <1>12, Steps DEF Elsewhere

-----------------------------------------------------------------------------
(* The runs, and what is known of the changes *)

\* What an answer says is about changes that were sent, and it says of one at most that it is unknown.
LEMMA AnswerNames ==
  ASSUME NEW G, NEW a, RunFits(a, G) \/ ResultFits(a, G)
  PROVE  /\ \A state : Reported(a, state) \subseteq DOMAIN a.sent /\ Sent(a, state) \subseteq G
         /\ appliedIds(a) \subseteq G /\ unknownIds(a) \subseteq G
         /\ \A x, y \in Sent(a, "unknown") : x = y
         /\ DOMAIN a.ids = DOMAIN a.sent /\ (\A i \in DOMAIN a.sent : a.ids[i] = a.sent[i].id) =>
              unknownIds(a) = Sent(a, "unknown") /\ appliedIds(a) = Sent(a, "applied")
<1>1. /\ a.ids \in Seq(G) /\ a.sent \in Seq(Change(G)) /\ a.outcomes \in Seq(Outcomes)
      /\ Len(a.outcomes) \in {0, Len(a.sent)} /\ \A i, j \in Reported(a, "unknown") : i = j
  BY DEF RunFits, ResultFits, AnswerFits
<1>2. /\ DOMAIN a.sent = 1..Len(a.sent) /\ Len(a.sent) \in Nat /\ \A k \in DOMAIN a.sent : a.sent[k] \in Change(G)
      /\ DOMAIN a.outcomes = 1..Len(a.outcomes)
      /\ \A k \in DOMAIN a.ids : a.ids[k] \in G
  BY <1>1, ListIs
<1>3. \A state : Reported(a, state) \subseteq DOMAIN a.sent
  BY <1>1, <1>2 DEF Reported
<1>4. \A k \in DOMAIN a.sent : a.sent[k].id \in G
  BY <1>2 DEF Change
<1>5. \A state : Sent(a, state) \subseteq G
  BY <1>3, <1>4 DEF Sent
<1>6. appliedIds(a) \subseteq G /\ unknownIds(a) \subseteq G
  BY <1>2 DEF appliedIds, unknownIds
<1>7. \A x, y \in Sent(a, "unknown") : x = y
  BY <1>1 DEF Sent
<1>8. ASSUME DOMAIN a.ids = DOMAIN a.sent, \A i \in DOMAIN a.sent : a.ids[i] = a.sent[i].id
      PROVE  unknownIds(a) = Sent(a, "unknown") /\ appliedIds(a) = Sent(a, "applied")
  BY <1>3, <1>8 DEF Sent, unknownIds, appliedIds
<1> QED BY <1>3, <1>5, <1>6, <1>7, <1>8

\* The run that is over is gone, and the others are as they were.
LEMMA OverLeaves ==
  ASSUME NEW r, Ends(r)
  PROVE  DOMAIN runs' = DOMAIN runs \ {r} /\ \A q \in DOMAIN runs' : runs'[q] = runs[q]
  BY DEF Ends, Restrict

\* What a step of Apply begins.
LEMMA Begins ==
  ASSUME IInv, Apply
  PROVE  /\ DOMAIN runs' = DOMAIN runs \cup {clicks + 1} /\ clicks + 1 \notin DOMAIN runs
         /\ \A r \in DOMAIN runs : runs'[r] = runs[r]
         /\ runs'[clicks + 1].ids = sentIds /\ runs'[clicks + 1].sent = applyBody /\ runs'[clicks + 1].mine
         /\ RunFits(runs'[clicks + 1], Given)
<1>0. Lists /\ Plans /\ Runs /\ clicks \in Nat
  BY DEF IInv, Lists
<1>1. PICK outcomes \in UNION {[1..n -> Outcomes] : n \in {0, Len(applyBody)}} :
        /\ ServeApply(applyBody, outcomes)
        /\ runs' = [r \in DOMAIN runs \cup {clicks + 1} |->
                     IF r = clicks + 1
                     THEN [ids |-> sentIds, sent |-> applyBody, outcomes |-> outcomes, mine |-> TRUE]
                     ELSE runs[r]]
  BY DEF Apply, Outcomes
<1>2. clicks + 1 \notin DOMAIN runs
  BY <1>0 DEF Runs
<1> DEFINE a == [ids |-> sentIds, sent |-> applyBody, outcomes |-> outcomes, mine |-> TRUE]
<1>3. /\ outcomes \in Seq(Outcomes) /\ Len(outcomes) \in {0, Len(applyBody)}
      /\ \A i, j \in DOMAIN outcomes : outcomes[i] = "unknown" /\ outcomes[j] = "unknown" => i = j
  BY <1>0, <1>1, ServedFits
<1>4. applyBody \in Seq(Change(Given)) /\ sentIds \in Seq(Given)
  BY <1>0, BodyFits
<1>5. a.ids = sentIds /\ a.sent = applyBody /\ a.outcomes = outcomes /\ a.mine
  OBVIOUS
<1>6. AnswerFits(a)
  BY <1>3, <1>5 DEF AnswerFits, Reported
<1>7. a \in [ids : Seq(Given), sent : Seq(Change(Given)), outcomes : Seq(Outcomes), mine : BOOLEAN]
  BY <1>3, <1>4
<1>8. RunFits(a, Given)
  BY <1>6, <1>7 DEF RunFits
<1> HIDE DEF a
<1>9. /\ DOMAIN runs' = DOMAIN runs \cup {clicks + 1} /\ runs'[clicks + 1] = a
      /\ \A r \in DOMAIN runs : runs'[r] = runs[r]
  BY <1>1, <1>2 DEF a
<1> QED BY <1>2, <1>5, <1>8, <1>9

\* Steps that neither begin a run nor end one, nor put up an answer.
LEMMA RunsElsewhere ==
  ASSUME [Next]_vars
  PROVE  \/ Leave \/ Apply
         \/ \E r \in DOMAIN runs : AnswerApply(r) \/ RefuseApply(r) \/ LoseApply(r)
         \/ UNCHANGED <<runs, clicks>> /\ result' \in {None, result}
<1>1. Edits => UNCHANGED <<runs, clicks, result>>
  BY DEF Edits, clear, remove, move, edit, UNCHANGED_VIEW
<1>2. add \/ AnswerCheck \/ AnswerAsk \/ (\E n \in Ids : loadSavedPlan(n)) => UNCHANGED <<runs, clicks, result>>
  BY DEF add, view, AnswerCheck, AnswerAsk, loadSavedPlan
<1>3. Open \/ Check \/ ServeCheck \/ LoseCheck \/ Ask \/ LoseAsk \/ (\E c \in Ids : Other(c)) \/ UNCHANGED vars
        => UNCHANGED <<runs, clicks, result>>
  BY DEF Open, Check, ServeCheck, LoseCheck, Ask, LoseAsk, Other, vars, view
<1>4. Dismiss => UNCHANGED <<runs, clicks>> /\ result' = None
  BY DEF Dismiss
<1> QED BY <1>1, <1>2, <1>3, <1>4, Steps DEF Elsewhere

LEMMA RunsKept == ASSUME IInv, [Next]_vars PROVE Runs'
<1>0. Runs /\ Given \subseteq Given' /\ clicks \in Nat
  BY NextGrows DEF IInv, Lists
<1> USE DEF Runs
<1>1. CASE Leave
  <2>1. /\ runs' = [r \in DOMAIN runs |-> [runs[r] EXCEPT !.mine = FALSE]] /\ UNCHANGED <<clicks, next>>
        /\ result' = None
    BY <1>1 DEF Leave
  <2>2. ASSUME NEW r \in DOMAIN runs PROVE RunFits(runs'[r], Given)
    <3>1. /\ runs[r] \in [ids : Seq(Given), sent : Seq(Change(Given)), outcomes : Seq(Outcomes), mine : BOOLEAN]
          /\ AnswerFits(runs[r])
      BY <1>0 DEF RunFits
    <3>2. runs'[r] = [ids |-> runs[r].ids, sent |-> runs[r].sent, outcomes |-> runs[r].outcomes, mine |-> FALSE]
      BY <2>1, <3>1
    <3>3. AnswerFits(runs'[r])
      BY <3>1, <3>2 DEF AnswerFits, Reported
    <3> QED BY <3>1, <3>2, <3>3 DEF RunFits
  <2>3. \A r \in DOMAIN runs' : RunFits(runs'[r], Given')
    BY <1>0, <2>1, <2>2, MoreFits
  <2> QED BY <1>0, <2>1, <2>3
<1>2. CASE Apply
  <2>1. /\ DOMAIN runs' = DOMAIN runs \cup {clicks + 1}
        /\ \A r \in DOMAIN runs' : RunFits(runs'[r], Given)
    BY <1>0, <1>2, Begins
  <2>2. clicks' = clicks + 1 /\ result' = None
    BY <1>2 DEF Apply
  <2>3. \A r \in DOMAIN runs' : RunFits(runs'[r], Given')
    BY <1>0, <2>1, MoreFits
  <2> QED BY <1>0, <2>1, <2>2, <2>3
<1>3. CASE \E r \in DOMAIN runs : AnswerApply(r) \/ RefuseApply(r) \/ LoseApply(r)
  <2>1. PICK r \in DOMAIN runs : AnswerApply(r) \/ RefuseApply(r) \/ LoseApply(r)
    BY <1>3
  <2>2. Ends(r) /\ UNCHANGED clicks
    BY <2>1 DEF AnswerApply, RefuseApply, LoseApply
  <2>3. DOMAIN runs' \subseteq 1..clicks' /\ \A q \in DOMAIN runs' : RunFits(runs'[q], Given')
    BY <1>0, <2>2, OverLeaves, MoreFits
  <2>4. result' \in {result, [ids |-> runs[r].ids, sent |-> runs[r].sent, outcomes |-> runs[r].outcomes]}
    BY <2>1 DEF AnswerApply, RefuseApply, LoseApply
  <2>5. ResultFits([ids |-> runs[r].ids, sent |-> runs[r].sent, outcomes |-> runs[r].outcomes], Given)
    <3> DEFINE a == [ids |-> runs[r].ids, sent |-> runs[r].sent, outcomes |-> runs[r].outcomes]
    <3>1. /\ runs[r] \in [ids : Seq(Given), sent : Seq(Change(Given)), outcomes : Seq(Outcomes), mine : BOOLEAN]
          /\ AnswerFits(runs[r])
      BY <1>0 DEF RunFits
    <3>2. AnswerFits(a)
      BY <3>1 DEF AnswerFits, Reported
    <3> QED BY <3>1, <3>2 DEF ResultFits
  <2>6. result' # None => ResultFits(result', Given')
    BY <1>0, <2>4, <2>5, MoreFits
  <2> QED BY <2>3, <2>6
<1>4. CASE UNCHANGED <<runs, clicks>> /\ result' \in {None, result}
  BY <1>0, <1>4, MoreFits
<1> QED BY <1>1, <1>2, <1>3, <1>4, RunsElsewhere

\* The question asked is kept with the panel, put, answered or given up.
LEMMA AskSteps ==
  ASSUME [Next]_vars
  PROVE  KeepPanel \/ Ask \/ ask' \in {None, ask}
<1>1. Edits => KeepPanel
  BY DEF Edits, clear, remove, move, edit
<1>2. Leave \/ Apply \/ Dismiss \/ (\E n \in Ids : loadSavedPlan(n)) \/ (\E r \in DOMAIN runs : AnswerApply(r)) => KeepPanel
  BY DEF Leave, Apply, Dismiss, loadSavedPlan, AnswerApply
<1>3. AnswerAsk \/ LoseAsk => ask' = None
  BY DEF AnswerAsk, LoseAsk
<1>4. add \/ Open \/ AnswerCheck \/ Check \/ ServeCheck \/ LoseCheck \/ (\E c \in Ids : Other(c)) \/ UNCHANGED vars
      \/ (\E r \in DOMAIN runs : RefuseApply(r) \/ LoseApply(r)) => ask' = ask
  BY DEF add, Open, AnswerCheck, Check, ServeCheck, LoseCheck, Other, vars, view, RefuseApply, LoseApply
<1> QED BY <1>1, <1>2, <1>3, <1>4, Steps DEF Elsewhere

\* The change a panel is drawn for is one the answer shown left unknown.
LEMMA PanelNames ==
  ASSUME Runs, Panel # None
  PROVE  result # None /\ Panel.of = Sent(result, "unknown") /\ Panel.of \subseteq Given
<1>1. result # None /\ Panel = [of |-> Sent(result, "unknown"), empty |-> staged = <<>>]
  BY DEF Panel
<1>2. Sent(result, "unknown") \subseteq Given
  BY <1>1, AnswerNames DEF Runs
<1> QED BY <1>1, <1>2

LEMMA AskKept ==
  ASSUME IInv, [Next]_vars, ask' # None
  PROVE  ask' \in Asked(Given)
<1>0. Runs /\ (interrupted # None => interrupted \in Interruption(Given)) /\ (ask # None => ask \in Asked(Given))
  BY DEF IInv, Doubts
<1>1. CASE KeepPanel
  <2>1. ask # None /\ ask' = [of |-> ask.of, live |-> ask.live /\ SamePanel, mine |-> ask.mine /\ here',
                              closure |-> IF ask.live /\ ~SamePanel THEN interrupted ELSE ask.closure]
    BY <1>1 DEF KeepPanel
  <2>2. /\ (ask.live /\ SamePanel) \in BOOLEAN /\ (ask.mine /\ here') \in BOOLEAN
        /\ ask.of \in Given /\ ask.closure \in Interruption(Given) \cup {None}
    BY <1>0, <2>1 DEF Asked
  <2>3. (IF ask.live /\ ~SamePanel THEN interrupted ELSE ask.closure) \in Interruption(Given) \cup {None}
    BY <1>0, <2>2
  <2> QED BY <2>1, <2>2, <2>3 DEF Asked
<1>2. CASE Ask
  <2>1. PICK c \in Panel.of : ask' = [of |-> c, closure |-> None, live |-> TRUE, mine |-> TRUE]
    BY <1>2 DEF Ask
  <2>2. Panel # None
    BY <1>2 DEF Ask, CanAsk
  <2>3. c \in Given
    BY <1>0, <2>1, <2>2, PanelNames
  <2> QED BY <2>1, <2>3 DEF Asked
<1>3. CASE ask' \in {None, ask}
  BY <1>0, <1>3
<1> QED BY <1>1, <1>2, <1>3, AskSteps

\* What is interrupted, and in doubt, only answers change; the view forgets an interruption.
LEMMA DoubtSteps ==
  ASSUME [Next]_vars
  PROVE  \/ AnswerAsk \/ \E r \in DOMAIN runs : AnswerApply(r)
         \/ doubt' = doubt /\ interrupted' = None /\ Leave
         \/ UNCHANGED <<doubt, interrupted>>
<1>1. Edits => UNCHANGED <<doubt, interrupted>>
  BY DEF Edits, clear, remove, move, edit, UNCHANGED_VIEW
<1>2. add \/ AnswerCheck \/ Apply \/ (\E n \in Ids : loadSavedPlan(n)) => UNCHANGED <<doubt, interrupted>>
  BY DEF add, view, AnswerCheck, Apply, loadSavedPlan
<1>3. Leave => doubt' = doubt /\ interrupted' = None
  BY DEF Leave
<1> QED BY <1>1, <1>2, <1>3, ElsewhereLeaves, Steps

\* The answers about a change that was interrupted, as the view takes them.
LEMMA Interrupts ==
  ASSUME IInv, NEW r \in DOMAIN runs, AnswerApply(r)
  PROVE  /\ Sent(runs[r], "unknown") \subseteq Given /\ unknownIds(runs[r]) \subseteq Given
         /\ \/ interrupted' \in {None, interrupted}
            \/ interrupted' \in Interruption(Given) /\ interrupted'.id \in unknownIds(runs[r])
               /\ interrupted'.resolution = None
<1>1. RunFits(runs[r], Given)
  BY DEF IInv, Runs
<1>2. Sent(runs[r], "unknown") \subseteq Given /\ unknownIds(runs[r]) \subseteq Given
  BY <1>1, AnswerNames
<1>3. CASE runs[r].mine /\ unknownIds(runs[r]) # {}
  <2> DEFINE d == CHOOSE c \in unknownIds(runs[r]) : TRUE
  <2>1. interrupted' = [id |-> d, resolution |-> None]
    BY <1>3 DEF AnswerApply
  <2>2. d \in unknownIds(runs[r])
    BY <1>3
  <2> HIDE DEF d
  <2> QED BY <1>2, <2>1, <2>2 DEF Interruption
<1>4. CASE ~(runs[r].mine /\ unknownIds(runs[r]) # {})
  BY <1>2, <1>4 DEF AnswerApply
<1> QED BY <1>2, <1>3, <1>4

LEMMA DoubtsKept == ASSUME IInv, [Next]_vars PROVE Doubts'
<1>0. /\ Lists /\ Runs /\ next \in Nat /\ next' \in Nat /\ Given \subseteq Given' /\ next <= next'
      /\ doubt \in [Ids -> {"none", "unknown", "replan"}] /\ \A c \in Ids : c > next => doubt[c] = "none"
      /\ interrupted # None => interrupted \in Interruption(Given)
      /\ ask # None => ask \in Asked(Given)
  <2>1. Lists /\ Lists' /\ Given \subseteq Given'
    BY ListsKept, NextGrows DEF IInv
  <2>2. next \in Nat /\ next' \in Nat
    BY <2>1, BasketConstants DEF Lists
  <2>3. next <= next'
    BY <2>1, <2>2 DEF Given
  <2> QED BY <2>1, <2>2, <2>3 DEF IInv, Doubts
<1>1. ask' # None => ask' \in Asked(Given')
  <2> DEFINE more == Given'
  <2>1. Asked(Given) \subseteq Asked(more)
    BY <1>0, MoreFits DEF Asked
  <2> QED BY <2>1, AskKept
<1>2. CASE AnswerAsk
  <2>1. PICK resolution \in Verdicts(ask.of) :
          LET about == IF ask.live THEN interrupted ELSE ask.closure IN
          /\ interrupted' = IF about # None /\ ask.mine THEN [id |-> about.id, resolution |-> resolution]
                            ELSE interrupted
          /\ doubt' = [doubt EXCEPT ![ask.of] = CASE resolution = "remove" -> "none" [] resolution = "hold" -> "unknown"
                                                  [] OTHER -> resolution]
    BY <1>2 DEF AnswerAsk
  <2>2. resolution \in {"hold", "remove", "replan"} /\ ask \in Asked(Given)
    BY <1>0, <1>2, <2>1 DEF Verdicts, AnswerAsk
  <2> DEFINE settled == CASE resolution = "remove" -> "none" [] resolution = "hold" -> "unknown"
                          [] OTHER -> resolution
  <2>3. settled \in {"none", "unknown", "replan"}
    BY <2>2
  <2>4. doubt' = [doubt EXCEPT ![ask.of] = settled]
    BY <2>1
  <2> HIDE DEF settled
  <2> DEFINE o == ask.of
  <2>5. o \in 1..next /\ doubt' = [doubt EXCEPT ![o] = settled]
    BY <2>2, <2>4 DEF Asked, Given
  <2> HIDE DEF o
  <2>6. doubt' \in [Ids -> {"none", "unknown", "replan"}]
    BY <1>0, <2>3, <2>5
  <2>7. \A c \in Ids : c > next => doubt'[c] = "none"
    BY <1>0, <2>5 DEF Ids
  <2>8. interrupted' # None => interrupted' \in Interruption(Given)
    BY <1>0, <2>1, <2>2 DEF Asked, Interruption
  <2> QED BY <1>0, <1>1, <2>6, <2>7, <2>8, MoreFits DEF Doubts, Ids
<1>3. CASE \E r \in DOMAIN runs : AnswerApply(r)
  <2>1. PICK r \in DOMAIN runs : AnswerApply(r)
    BY <1>3
  <2>2. Sent(runs[r], "unknown") \subseteq Given /\ (interrupted' # None => interrupted' \in Interruption(Given))
    BY <1>0, <2>1, Interrupts
  <2>3. doubt' = [c \in Ids |-> IF c \in Sent(runs[r], "unknown") THEN "unknown"
                                ELSE IF doubt[c] = "replan" THEN "none" ELSE doubt[c]]
    BY <2>1 DEF AnswerApply
  <2>4. doubt' \in [Ids -> {"none", "unknown", "replan"}] /\ \A c \in Ids : c > next => doubt'[c] = "none"
    BY <1>0, <2>2, <2>3 DEF Given, Ids
  <2> QED BY <1>0, <1>1, <2>2, <2>4, MoreFits DEF Doubts, Ids
<1>4. CASE doubt' = doubt /\ interrupted' \in {None, interrupted}
  <2>1. interrupted' # None => interrupted' \in Interruption(Given')
    BY <1>0, <1>4, MoreFits
  <2>2. \A c \in Ids : c > next' => doubt[c] = "none"
    BY <1>0 DEF Ids
  <2> QED BY <1>0, <1>1, <1>4, <2>1, <2>2 DEF Doubts
<1> QED BY <1>2, <1>3, <1>4, DoubtSteps

-----------------------------------------------------------------------------
(* The labels, and the saved plan *)

LEMMA HasteGrows == ASSUME [Next]_vars PROVE haste \subseteq haste'
<1>1. Leave \/ AnswerCheck \/ Apply => haste \subseteq haste'
  BY DEF Leave, AnswerCheck, Apply, Hasty
<1>2. Edits => haste' = haste
  BY DEF Edits, clear, remove, move, edit
<1>3. add \/ AnswerAsk \/ (\E n \in Ids : loadSavedPlan(n)) \/ (\E r \in DOMAIN runs : AnswerApply(r)) => haste' = haste
  BY DEF add, AnswerAsk, loadSavedPlan, AnswerApply
<1> QED BY <1>1, <1>2, <1>3, Steps, ElsewhereLeaves

\* What the basket holds was in it, or has just been given out.
LEMMA StagedFrom ==
  ASSUME IInv, [Next]_vars
  PROVE  ToSet(staged') \subseteq ToSet(staged) \cup (Given' \ Given)
<1>0. Lists /\ staged \in Seq(Given) /\ next \in Nat
  BY BasketConstants DEF IInv, Lists
<1>1. CASE add
  BY <1>0, <1>1 DEF add, ToSet, Given
<1>2. CASE Edits
  BY <1>0, <1>2, EditLeaves
<1>3. CASE \E n \in Ids : loadSavedPlan(n)
  BY <1>0, <1>3 DEF loadSavedPlan, ToSet, Given, Ids
<1>4. CASE \E ids : removeApplied(ids)
  BY <1>0, <1>4, RemovedFrom
<1>5. CASE UNCHANGED staged
  BY <1>5 DEF ToSet
<1>6. AnswerAsk \/ (\E r \in DOMAIN runs : AnswerApply(r)) => UNCHANGED staged \/ \E ids : removeApplied(ids)
  BY DEF AnswerAsk, AnswerApply
<1>7. Leave \/ AnswerCheck \/ Apply => UNCHANGED staged
  BY DEF Leave, AnswerCheck, Apply
<1> QED BY <1>1, <1>2, <1>3, <1>4, <1>5, <1>6, <1>7, Steps, ElsewhereLeaves

\* A plan is labelled by the check that brought it, and keeps its label.
LEMMA PlanSteps ==
  ASSUME IInv, [Next]_vars, plan' # None
  PROVE  AnswerCheck \/ (plan # None /\ plan'.for = plan.for /\ plan'.made = plan.made)
<1>0. Lists /\ Plans
  BY DEF IInv
<1>1. CASE Apply \/ \E c \in Ids : Other(c)
  <2>1. (\E written : Write(written)) \/ UNCHANGED <<plan, check>>
    BY <1>0, <1>1, ApplyWrites DEF Other
  <2> QED BY <1>0, <2>1, WriteLeaves
<1>2. Edits => plan' = plan
  BY DEF Edits, clear, remove, move, edit, UNCHANGED_VIEW
<1>3. add \/ Leave \/ AnswerAsk \/ (\E n \in Ids : loadSavedPlan(n)) \/ (\E r \in DOMAIN runs : AnswerApply(r))
        => plan' \in {None, plan}
  BY DEF add, view, Leave, AnswerAsk, loadSavedPlan, AnswerApply
<1>4. Open \/ Check \/ ServeCheck \/ LoseCheck \/ Dismiss \/ Ask \/ LoseAsk \/ UNCHANGED vars
      \/ (\E r \in DOMAIN runs : RefuseApply(r) \/ LoseApply(r)) => plan' = plan
  BY DEF Open, Check, ServeCheck, LoseCheck, Dismiss, Ask, LoseAsk, vars, view, RefuseApply, LoseApply
<1> QED BY <1>1, <1>2, <1>3, <1>4, Steps DEF Elsewhere

LEMMA LabelledKept == ASSUME IInv, [Next]_vars PROVE Labelled'
<1> SUFFICES ASSUME "edited" \notin haste' PROVE
      /\ plan' # None => plan'.for = plan'.made
      /\ \A r \in DOMAIN runs' :
           /\ DOMAIN runs'[r].ids = DOMAIN runs'[r].sent
           /\ \A i \in DOMAIN runs'[r].sent : runs'[r].ids[i] = runs'[r].sent[i].id
      /\ result' # None => Sent(result', "applied") \cap ToSet(staged') = {}
  BY DEF Labelled, Sent, Reported
<1>0. /\ Lists /\ Plans /\ Runs
      /\ plan # None => plan.for = plan.made
      /\ \A r \in DOMAIN runs :
           /\ DOMAIN runs[r].ids = DOMAIN runs[r].sent
           /\ \A i \in DOMAIN runs[r].sent : runs[r].ids[i] = runs[r].sent[i].id
      /\ result # None => Sent(result, "applied") \cap ToSet(staged) = {}
  BY HasteGrows DEF IInv, Labelled
<1>1. plan' # None => plan'.for = plan'.made
  <2>1. CASE AnswerCheck
    <3>1. haste' = haste \cup (IF staged = check.made THEN {} ELSE {"edited"})
      BY <2>1 DEF AnswerCheck, Hasty
    <3>2. staged = check.made
      BY <3>1
    <3> QED BY <2>1, <3>2 DEF AnswerCheck
  <2> QED BY <1>0, <2>1, PlanSteps
<1>2. \A r \in DOMAIN runs' :
        /\ DOMAIN runs'[r].ids = DOMAIN runs'[r].sent
        /\ \A i \in DOMAIN runs'[r].sent : runs'[r].ids[i] = runs'[r].sent[i].id
  <2>1. CASE Leave
    <3>1. runs' = [r \in DOMAIN runs |-> [runs[r] EXCEPT !.mine = FALSE]]
      BY <2>1 DEF Leave
    <3>2. ASSUME NEW r \in DOMAIN runs PROVE runs'[r].ids = runs[r].ids /\ runs'[r].sent = runs[r].sent
      <4>1. runs[r] \in [ids : Seq(Given), sent : Seq(Change(Given)), outcomes : Seq(Outcomes), mine : BOOLEAN]
        BY <1>0 DEF Runs, RunFits
      <4> QED BY <3>1, <4>1
    <3> QED BY <1>0, <3>1, <3>2
  <2>2. CASE Apply
    <3>1. /\ DOMAIN runs' = DOMAIN runs \cup {clicks + 1} /\ \A r \in DOMAIN runs : runs'[r] = runs[r]
          /\ runs'[clicks + 1].ids = sentIds /\ runs'[clicks + 1].sent = applyBody
      BY <2>2, Begins
    <3>2. DOMAIN sentIds = DOMAIN applyBody /\ \A i \in DOMAIN applyBody : sentIds[i] = applyBody[i].id
      BY <1>0, BodyNamed
    <3> QED BY <1>0, <3>1, <3>2
  <2>3. CASE \E r \in DOMAIN runs : AnswerApply(r) \/ RefuseApply(r) \/ LoseApply(r)
    <3>1. \E r \in DOMAIN runs : Ends(r)
      BY <2>3 DEF AnswerApply, RefuseApply, LoseApply
    <3> QED BY <1>0, <3>1, OverLeaves
  <2> QED BY <1>0, <2>1, <2>2, <2>3, RunsElsewhere
<1>3. result' # None => Sent(result', "applied") \cap ToSet(staged') = {}
  <2>1. result # None => Sent(result, "applied") \subseteq Given
    BY <1>0, AnswerNames DEF Runs
  <2>2. result # None => Sent(result, "applied") \cap ToSet(staged') = {}
    BY <1>0, <2>1, StagedFrom
  <2>3. ASSUME NEW r \in DOMAIN runs, AnswerApply(r), result' # result
        PROVE  Sent(result', "applied") \cap ToSet(staged') = {}
    <3>1. result' = [ids |-> runs[r].ids, sent |-> runs[r].sent, outcomes |-> runs[r].outcomes]
      BY <2>3 DEF AnswerApply
    <3>2. Sent(result', "applied") = Sent(runs[r], "applied")
      BY <3>1 DEF Sent, Reported
    <3>3. appliedIds(runs[r]) = Sent(runs[r], "applied")
      BY <1>0, AnswerNames DEF Runs
    <3>4. ToSet(staged') = ToSet(staged) \ appliedIds(runs[r])
      BY <1>0, <2>3, RemovedFrom DEF AnswerApply
    <3> QED BY <3>2, <3>3, <3>4
  <2>4. ASSUME NEW r \in DOMAIN runs, RefuseApply(r) \/ LoseApply(r) PROVE result' = result
    BY <2>4 DEF RefuseApply, LoseApply
  <2>5. Leave \/ Apply => result' = None
    BY DEF Leave, Apply
  <2> QED BY <2>2, <2>3, <2>4, <2>5, RunsElsewhere
<1> QED BY <1>1, <1>2, <1>3

\* A saved plan is loaded into an empty basket, and every edit makes it another changeset.
LEMMA WholeSteps ==
  ASSUME IInv, [Next]_vars, whole' # {}
  PROVE  (\E n \in Ids : loadSavedPlan(n)) \/ (whole' = whole /\ staged' = staged)
<1>0. Lists
  BY DEF IInv
<1>1. add \/ Edits => whole' = {}
  BY <1>0, EditLeaves DEF add
<1>2. (\E ids : removeApplied(ids)) => whole' = {} \/ (whole' = whole /\ staged' = staged)
  BY <1>0, RemovedFrom
<1>3. AnswerAsk \/ (\E r \in DOMAIN runs : AnswerApply(r)) =>
        (\E ids : removeApplied(ids)) \/ (whole' = whole /\ staged' = staged)
  BY DEF AnswerAsk, AnswerApply
<1>4. Leave \/ AnswerCheck \/ Apply => whole' = whole /\ staged' = staged
  BY DEF Leave, AnswerCheck, Apply
<1> QED BY <1>1, <1>2, <1>3, <1>4, Steps, ElsewhereLeaves

\* A request for a plan is of the basket as it was when it was made.
LEMMA CheckSteps ==
  ASSUME IInv, [Next]_vars, check' # None
  PROVE  \/ check # None /\ check'.made = check.made
         \/ check'.made = staged'
<1>0. Lists /\ Plans /\ staged \in Seq(Given) /\ staged' \in Seq(Given')
  BY ListsKept DEF IInv, Lists
<1>1. CASE Apply \/ \E c \in Ids : Other(c)
  <2>1. (\E written : Write(written)) \/ UNCHANGED <<plan, check>>
    BY <1>0, <1>1, ApplyWrites DEF Other
  <2> QED BY <1>0, <2>1, WriteLeaves
<1>2. Check \/ (\E n \in Ids : loadSavedPlan(n)) => check'.made = staged'
  BY <1>0, NewCheckFits DEF Check, loadSavedPlan
<1>3. ServeCheck => check # None /\ check'.made = check.made
  BY <1>0, ServedCheckFits
<1>4. Edits => check' = check
  BY DEF Edits, clear, remove, move, edit, UNCHANGED_VIEW
<1>5. add \/ Leave \/ AnswerCheck \/ AnswerAsk \/ (\E r \in DOMAIN runs : AnswerApply(r)) => check' \in {None, check}
  BY DEF add, view, Leave, AnswerCheck, AnswerAsk, AnswerApply
<1>6. Open \/ LoseCheck \/ Dismiss \/ Ask \/ LoseAsk \/ UNCHANGED vars
      \/ (\E r \in DOMAIN runs : RefuseApply(r) \/ LoseApply(r)) => check' \in {None, check}
  BY DEF Open, LoseCheck, Dismiss, Ask, LoseAsk, vars, view, RefuseApply, LoseApply
<1> QED BY <1>1, <1>2, <1>3, <1>4, <1>5, <1>6, Steps DEF Elsewhere

LEMMA SavedKept == ASSUME IInv, [Next]_vars PROVE Saved'
<1> SUFFICES ASSUME whole' # {}
             PROVE  /\ whole' = ToSet(staged')
                    /\ check' # None => check'.made = staged'
                    /\ plan' # None /\ plan'.for = staged' => plan'.made = staged'
  BY DEF Saved, ToSet
<1>0. Lists /\ Plans /\ Saved /\ next \in Nat
  BY BasketConstants DEF IInv, Lists
<1>1. CASE \E n \in Ids : loadSavedPlan(n)
  <2>1. PICK n \in Ids : /\ staged' = [k \in 1..n |-> next + k] /\ whole' = ToSet(staged')
                         /\ check' = [made |-> staged', items |-> <<>>, served |-> FALSE] /\ plan' = plan
    BY <1>1 DEF loadSavedPlan
  <2>2. plan # None => plan.for \in Seq(Given)
    BY <1>0 DEF Plans, PlanFits
  <2>3. plan # None => plan.for # staged'
    <3>1. staged'[1] \notin Given /\ 1 \in DOMAIN staged'
      BY <1>0, <2>1 DEF Ids, Given
    <3>2. \A k \in DOMAIN plan.for : plan # None => plan.for[k] \in Given
      BY <2>2
    <3> QED BY <3>1, <3>2
  <2> QED BY <2>1, <2>3
<1>2. CASE whole' = whole /\ staged' = staged
  <2>1. whole = ToSet(staged) /\ (check # None => check.made = staged)
        /\ (plan # None /\ plan.for = staged => plan.made = staged)
    BY <1>0, <1>2 DEF Saved
  <2>2. check' # None => check'.made = staged'
    BY <1>2, <2>1, CheckSteps
  <2>3. ASSUME AnswerCheck PROVE plan'.made = staged'
    BY <1>2, <2>1, <2>3 DEF AnswerCheck
  <2>4. plan' # None /\ plan'.for = staged' => plan'.made = staged'
    BY <1>2, <2>1, <2>3, PlanSteps
  <2> QED BY <1>2, <2>1, <2>2, <2>4 DEF ToSet
<1> QED BY <1>1, <1>2, WholeSteps

LEMMA UntouchedKept == ASSUME IInv, [Next]_vars PROVE Untouched'
<1> SUFFICES ASSUME clicks' = 0 PROVE result' = None /\ ask' = None /\ interrupted' = None
  BY DEF Untouched
<1>0. Runs /\ Untouched /\ clicks \in Nat
  BY DEF IInv, Lists
<1>1. ~Apply
  <2>1. Apply => clicks' = clicks + 1
    BY DEF Apply
  <2> QED BY <1>0, <2>1
<1>2. clicks = 0
  <2>1. Leave \/ (\E r \in DOMAIN runs : AnswerApply(r) \/ RefuseApply(r) \/ LoseApply(r)) => clicks' = clicks
    BY DEF Leave, AnswerApply, RefuseApply, LoseApply
  <2> QED BY <1>1, <2>1, RunsElsewhere
<1>3. DOMAIN runs = {} /\ result = None /\ ask = None /\ interrupted = None
  <2>1. DOMAIN runs \subseteq 1..0 /\ 1..0 = {}
    BY <1>0, <1>2 DEF Runs
  <2> QED BY <1>0, <1>2, <2>1 DEF Untouched
<1>4. result' = None
  <2>1. Leave => result' = None
    BY DEF Leave
  <2> QED BY <1>1, <1>3, <2>1, RunsElsewhere
<1>5. ask' = None
  <2>1. KeepPanel => ask' = None
    BY <1>3 DEF KeepPanel
  <2>2. ~Ask
    BY <1>3 DEF Ask, CanAsk, Panel
  <2> QED BY <1>3, <2>1, <2>2, AskSteps
<1>6. interrupted' = None
  <2>1. ~AnswerAsk
    BY <1>3 DEF AnswerAsk
  <2> QED BY <1>3, <2>1, DoubtSteps
<1> QED BY <1>4, <1>5, <1>6

-----------------------------------------------------------------------------
(* The patient operator *)

\* What a patient operator's steps are: no haste now, so none before.
LEMMA Patiently ==
  ASSUME IInv, [Next]_vars, haste' = {}
  PROVE  /\ OneAtATime /\ HeldBack /\ AskedAbout
         /\ Leave => clicks = 0 /\ DOMAIN runs = {} /\ result = None /\ ask = None /\ interrupted = None
         /\ Apply => DOMAIN runs = {} /\ ask = None
<1>1. haste = {}
  BY HasteGrows
<1>2. Runs /\ Untouched /\ OneAtATime /\ HeldBack /\ AskedAbout
  BY <1>1 DEF IInv, Patient
<1>3. Leave => clicks = 0
  BY DEF Leave, Hasty
<1>4. clicks = 0 => DOMAIN runs = {} /\ result = None /\ ask = None /\ interrupted = None
  <2>1. 1..0 = {}
    OBVIOUS
  <2> QED BY <1>2, <2>1 DEF Runs, Untouched
<1>5. Apply => runs = <<>> /\ ask = None
  BY DEF Apply, Hasty
<1> QED BY <1>2, <1>3, <1>4, <1>5

\* The view goes up only with Open and down only with Leave.
LEMMA ViewSteps == ASSUME [Next]_vars PROVE Leave \/ (here => here')
<1>1. Edits => here' = here
  BY DEF Edits, clear, remove, move, edit, UNCHANGED_VIEW
<1>2. add \/ AnswerCheck \/ Apply \/ AnswerAsk \/ (\E n \in Ids : loadSavedPlan(n)) \/ (\E r \in DOMAIN runs : AnswerApply(r))
        => here' = here
  BY DEF add, view, AnswerCheck, Apply, AnswerAsk, loadSavedPlan, AnswerApply
<1>3. Elsewhere => (here => here')
  BY DEF Elsewhere, Open, Check, ServeCheck, LoseCheck, Dismiss, Ask, LoseAsk, Other, RefuseApply, LoseApply, vars, view
<1> QED BY <1>1, <1>2, <1>3, Steps

\* No question is put, and none is under way, while a run is.
LEMMA OneAtATimeKept == ASSUME IInv, [Next]_vars, haste' = {} PROVE OneAtATime'
<1>0. Runs /\ OneAtATime /\ clicks \in Nat
  BY Patiently DEF IInv, Lists
<1>1. CASE Leave
  <2>1. clicks = 0 /\ DOMAIN runs = {} /\ ask = None
    BY <1>1, Patiently
  <2>2. clicks' = clicks /\ DOMAIN runs' = DOMAIN runs
    BY <1>1 DEF Leave
  <2> QED BY <2>1, <2>2 DEF OneAtATime
<1>2. CASE Apply
  <2>1. DOMAIN runs = {} /\ ask = None
    BY <1>2, Patiently
  <2>2. DOMAIN runs' = {clicks + 1} /\ runs'[clicks + 1].mine
    BY <1>2, <2>1, Begins
  <2>3. result' = None /\ here' = here /\ here /\ ask' = None
    BY <1>2, <2>1 DEF Apply, CanApply, KeepPanel
  <2> QED BY <2>2, <2>3 DEF OneAtATime
<1>3. CASE \E r \in DOMAIN runs : AnswerApply(r) \/ RefuseApply(r) \/ LoseApply(r)
  <2>1. PICK r \in DOMAIN runs : Ends(r) /\ clicks' = clicks /\ here' = here
    BY <1>3 DEF AnswerApply, RefuseApply, LoseApply
  <2>2. DOMAIN runs' = {}
    BY <1>0, <2>1, OverLeaves DEF OneAtATime
  <2> QED BY <1>0, <2>1, <2>2 DEF OneAtATime
<1>4. CASE ~Leave /\ UNCHANGED <<runs, clicks>> /\ result' \in {None, result}
  <2>1. DOMAIN runs # {} => result = None /\ ask = None
    BY <1>0 DEF OneAtATime
  <2>2. DOMAIN runs # {} => ask' = None
    <3>1. result = None => ~Ask
      BY DEF Ask, CanAsk, Panel
    <3>2. KeepPanel /\ ask = None => ask' = None
      BY DEF KeepPanel
    <3> QED BY <2>1, <3>1, <3>2, AskSteps
  <2> QED BY <1>0, <1>4, <2>1, <2>2, ViewSteps DEF OneAtATime
<1> QED BY <1>1, <1>2, <1>3, <1>4, RunsElsewhere

\* What is asked about is what is interrupted.
LEMMA AskedIsHeld ==
  ASSUME IInv, AskedAbout, AnswerAsk
  PROVE  \E resolution \in Verdicts(ask.of) :
           /\ interrupted # None /\ ask.of = interrupted.id /\ ask.of \in Given
           /\ interrupted' = [id |-> ask.of, resolution |-> resolution] /\ interrupted' # None
           /\ doubt' = [doubt EXCEPT ![ask.of] = CASE resolution = "remove" -> "none" [] resolution = "hold" -> "unknown"
                                                   [] OTHER -> resolution]
           /\ UNCHANGED <<runs, result, clicks>>
<1>1. PICK resolution \in Verdicts(ask.of) :
        LET about == IF ask.live THEN interrupted ELSE ask.closure IN
        /\ interrupted' = IF about # None /\ ask.mine THEN [id |-> about.id, resolution |-> resolution]
                          ELSE interrupted
        /\ doubt' = [doubt EXCEPT ![ask.of] = CASE resolution = "remove" -> "none" [] resolution = "hold" -> "unknown"
                                                [] OTHER -> resolution]
  BY DEF AnswerAsk
<1>2. /\ ask # None /\ interrupted # None /\ ask.of = interrupted.id /\ ask.mine
      /\ ~ask.live => ask.closure = interrupted
  BY DEF AskedAbout, AnswerAsk
<1>3. interrupted' = [id |-> ask.of, resolution |-> resolution]
  BY <1>1, <1>2
<1>4. ask.of \in Given
  BY <1>2 DEF IInv, Doubts, Asked
<1>5. resolution \in {"hold", "remove", "replan"}
  BY DEF Verdicts
<1>6. interrupted' \in Interruptions
  BY <1>3, <1>4, <1>5 DEF Interruptions, Given
<1>7. UNCHANGED <<runs, result, clicks>>
  BY DEF AnswerAsk
<1> QED BY <1>1, <1>2, <1>3, <1>4, <1>6, <1>7, BasketConstants

\* The answer of a patient operator's run, which is the only one there was.
LEMMA AnswersTheOne ==
  ASSUME IInv, [Next]_vars, haste' = {}, NEW r \in DOMAIN runs, AnswerApply(r)
  PROVE  /\ DOMAIN runs' = {} /\ ask = None
         /\ Sent(result', "unknown") = Sent(runs[r], "unknown")
         /\ ToSet(staged') \subseteq ToSet(staged)
         /\ Sent(runs[r], "unknown") # {} =>
              /\ interrupted' # None /\ interrupted'.resolution = None
              /\ Sent(runs[r], "unknown") = {interrupted'.id}
         /\ doubt' = [c \in Ids |-> IF c \in Sent(runs[r], "unknown") THEN "unknown"
                                    ELSE IF doubt[c] = "replan" THEN "none" ELSE doubt[c]]
<1>0. Lists /\ Runs /\ Labelled /\ OneAtATime /\ haste = {} /\ RunFits(runs[r], Given)
  BY Patiently, HasteGrows DEF IInv, Runs
<1>1. runs[r].mine /\ DOMAIN runs = {r} /\ ask = None
  BY <1>0 DEF OneAtATime
<1>2. DOMAIN runs' = {}
  BY <1>1, OverLeaves DEF AnswerApply
<1>3. unknownIds(runs[r]) = Sent(runs[r], "unknown") /\ Sent(runs[r], "unknown") \subseteq Given
  BY <1>0, AnswerNames DEF Labelled
<1>4. result' = [ids |-> runs[r].ids, sent |-> runs[r].sent, outcomes |-> runs[r].outcomes]
  BY <1>1 DEF AnswerApply
<1>5. Sent(result', "unknown") = Sent(runs[r], "unknown")
  BY <1>4 DEF Sent, Reported
<1>6. ToSet(staged') \subseteq ToSet(staged)
  BY <1>0, RemovedFrom DEF AnswerApply
<1>7. ASSUME Sent(runs[r], "unknown") # {}
      PROVE  /\ interrupted' # None /\ interrupted'.resolution = None
             /\ Sent(runs[r], "unknown") = {interrupted'.id}
  <2> DEFINE d == CHOOSE c \in unknownIds(runs[r]) : TRUE
  <2>1. interrupted' = [id |-> d, resolution |-> None]
    BY <1>1, <1>3, <1>7 DEF AnswerApply
  <2>2. d \in Sent(runs[r], "unknown")
    BY <1>3, <1>7
  <2> HIDE DEF d
  <2>3. Sent(runs[r], "unknown") = {d} /\ d \in Nat
    BY <1>0, <1>3, <2>2, AnswerNames DEF Given
  <2>4. interrupted' \in Interruptions
    BY <2>1, <2>3 DEF Interruptions
  <2> QED BY <2>1, <2>3, <2>4, BasketConstants
<1> QED BY <1>1, <1>2, <1>5, <1>6, <1>7 DEF AnswerApply

LEMMA HeldBackKept == ASSUME IInv, [Next]_vars, haste' = {} PROVE HeldBack'
<1>0. /\ Lists /\ Doubts /\ OneAtATime /\ HeldBack /\ AskedAbout /\ haste = {}
      /\ next' \in 0..MaxChanges /\ next \in Nat /\ MaxChanges \in Nat
  BY Patiently, HasteGrows, ListsKept, BasketConstants DEF IInv, Lists
<1>1. CASE \E r \in DOMAIN runs : AnswerApply(r)
  <2>1. PICK r \in DOMAIN runs : AnswerApply(r)
    BY <1>1
  <2>2. /\ DOMAIN runs' = {} /\ ToSet(staged') \subseteq ToSet(staged)
        /\ Sent(runs[r], "unknown") # {} =>
             interrupted' # None /\ interrupted'.resolution = None /\ Sent(runs[r], "unknown") = {interrupted'.id}
        /\ doubt' = [c \in Ids |-> IF c \in Sent(runs[r], "unknown") THEN "unknown"
                                   ELSE IF doubt[c] = "replan" THEN "none" ELSE doubt[c]]
    BY <2>1, AnswersTheOne
  <2>3. \A c \in ToSet(staged) : doubt[c] # "unknown" /\ c \in Ids
    <3>1. \A c \in ToSet(staged) : c \in Given
      BY <1>0 DEF Lists, ToSet
    <3> QED BY <1>0, <3>1 DEF HeldBack, Lists, Given, Ids
  <2>4. ASSUME NEW c \in ToSet(staged')
        PROVE  /\ doubt'[c] # "replan"
               /\ doubt'[c] = "unknown" => c \in Sent(runs[r], "unknown")
    BY <2>2, <2>3
  <2> QED BY <2>2, <2>4 DEF HeldBack, ToSet
<1>2. CASE AnswerAsk
  <2>1. PICK resolution \in Verdicts(ask.of) :
          /\ interrupted # None /\ ask.of = interrupted.id /\ ask.of \in Given
          /\ interrupted' = [id |-> ask.of, resolution |-> resolution] /\ interrupted' # None
          /\ doubt' = [doubt EXCEPT ![ask.of] = CASE resolution = "remove" -> "none" [] resolution = "hold" -> "unknown"
                                                  [] OTHER -> resolution]
          /\ UNCHANGED <<runs, result, clicks>>
    BY <1>0, <1>2, AskedIsHeld
  <2> DEFINE o == ask.of
             settled == CASE resolution = "remove" -> "none" [] resolution = "hold" -> "unknown" [] OTHER -> resolution
  <2>2. /\ resolution \in {"hold", "remove", "replan"}
        /\ settled = "unknown" => resolution = "hold"
        /\ settled = "replan" => resolution = "replan"
    BY DEF Verdicts
  <2>3. doubt' = [doubt EXCEPT ![o] = settled] /\ doubt \in [Ids -> {"none", "unknown", "replan"}]
    BY <1>0, <2>1 DEF Doubts
  <2>4. DOMAIN runs' = {}
    BY <1>0, <1>2, <2>1 DEF OneAtATime, AnswerAsk
  <2>5. ToSet(staged') \subseteq ToSet(staged)
    BY <1>0, <1>2, RemovedFrom DEF AnswerAsk
  <2>6. interrupted'.id = o /\ interrupted'.resolution = resolution /\ interrupted' # None /\ interrupted.id = o
    BY <2>1
  <2> HIDE DEF settled, o
  <2>7. ASSUME NEW c \in ToSet(staged'), doubt'[c] # "none"
        PROVE  (c = o /\ doubt'[c] = settled) \/ doubt'[c] \notin {"unknown", "replan"}
    <3>1. CASE c = o
      <4>1. c \in Given /\ c \in Ids
        BY <1>0, <3>1, <2>1 DEF o, Given, Ids, Lists
      <4> QED BY <2>3, <3>1, <4>1
    <3>2. CASE c # o
      <4>1. doubt'[c] = doubt[c] /\ c \in ToSet(staged)
        <5>1. c \in Ids
          <6>1. c \in Given
            BY <1>0, <2>5 DEF Lists, ToSet
          <6> QED BY <1>0, <6>1 DEF Given, Ids, Lists
        <5> QED BY <2>3, <2>5, <3>2, <5>1
      <4>2. doubt[c] \notin {"unknown", "replan"}
        BY <1>0, <2>6, <3>2, <4>1 DEF HeldBack
      <4> QED BY <4>1, <4>2
    <3> QED BY <3>1, <3>2
  <2> QED BY <2>2, <2>4, <2>6, <2>7 DEF HeldBack, ToSet
<1>3. CASE Leave
  <2>1. UNCHANGED <<staged, doubt>> /\ interrupted = None
    BY <1>3, Patiently DEF Leave
  <2> QED BY <1>0, <2>1 DEF HeldBack, ToSet
<1>4. CASE Apply
  <2>1. UNCHANGED <<staged, doubt, interrupted>> /\ ~heldBy
    BY <1>4 DEF Apply, CanApply
  <2>2. \A c \in ToSet(staged) : doubt[c] # "unknown"
    BY <1>0, <2>1 DEF HeldBack, heldBy
  <2> QED BY <1>0, <2>1, <2>2 DEF HeldBack, ToSet
<1>5. CASE UNCHANGED <<doubt, interrupted>> /\ ~Apply /\ ~Leave
  <2>1. DOMAIN runs' \subseteq DOMAIN runs
    BY <1>5, RunsElsewhere, OverLeaves DEF AnswerApply, RefuseApply, LoseApply
  <2>2. ASSUME NEW c \in ToSet(staged'), c \notin ToSet(staged) PROVE doubt'[c] = "none"
    <3>1. c \in Given' /\ c \notin Given
      BY <2>2, StagedFrom
    <3>2. c \in Ids /\ c > next
      BY <1>0, <3>1 DEF Given, Ids
    <3> QED BY <1>0, <1>5, <3>2 DEF Doubts
  <2> QED BY <1>0, <1>5, <2>1, <2>2 DEF HeldBack, ToSet
<1> QED BY <1>1, <1>2, <1>3, <1>4, <1>5, DoubtSteps

LEMMA AskedAboutKept == ASSUME IInv, [Next]_vars, haste' = {} PROVE AskedAbout'
<1>0. /\ Lists /\ Runs /\ Doubts /\ Untouched /\ OneAtATime /\ AskedAbout /\ OneAtATime'
      /\ clicks \in Nat /\ clicks' \in Nat
  BY Patiently, OneAtATimeKept, ListsKept DEF IInv, Lists
<1>1. result' # None /\ Sent(result', "unknown") # {} =>
        interrupted' # None /\ Sent(result', "unknown") = {interrupted'.id}
  <2>1. ASSUME NEW r \in DOMAIN runs, AnswerApply(r), Sent(result', "unknown") # {}
        PROVE  interrupted' # None /\ Sent(result', "unknown") = {interrupted'.id}
    BY <2>1, AnswersTheOne
  <2>2. ASSUME result' = result, interrupted' = interrupted, result' # None, Sent(result', "unknown") # {}
        PROVE  interrupted' # None /\ Sent(result', "unknown") = {interrupted'.id}
    BY <1>0, <2>2 DEF AskedAbout
  <2>3. ASSUME AnswerAsk, result' # None, Sent(result', "unknown") # {}
        PROVE  interrupted' # None /\ Sent(result', "unknown") = {interrupted'.id}
    <3>1. interrupted' # None /\ interrupted'.id = interrupted.id /\ result' = result
      BY <1>0, <2>3, AskedIsHeld
    <3> QED BY <1>0, <2>3, <3>1 DEF AskedAbout
  <2>4. Leave \/ Apply => result' = None
    BY DEF Leave, Apply
  <2>5. (\E r \in DOMAIN runs : RefuseApply(r) \/ LoseApply(r)) => result' = result /\ interrupted' = interrupted
    BY DEF RefuseApply, LoseApply
  <2> QED BY <2>1, <2>2, <2>3, <2>4, <2>5, RunsElsewhere, DoubtSteps
<1>2. ask' # None => /\ interrupted' # None /\ ask'.of = interrupted'.id /\ interrupted'.resolution = None
                     /\ ask'.mine /\ (~ask'.live => ask'.closure = interrupted')
  <2> SUFFICES ASSUME ask' # None
               PROVE  /\ interrupted' # None /\ ask'.of = interrupted'.id /\ interrupted'.resolution = None
                      /\ ask'.mine /\ (~ask'.live => ask'.closure = interrupted')
    OBVIOUS
  <2>1. CASE Ask
    <3>1. PICK c \in Panel.of : ask' = [of |-> c, closure |-> None, live |-> TRUE, mine |-> TRUE]
      BY <2>1 DEF Ask
    <3>2. Panel # None /\ (interrupted # None => interrupted.resolution = None) /\ interrupted' = interrupted
      BY <2>1 DEF Ask, CanAsk
    <3>3. result # None /\ c \in Sent(result, "unknown")
      BY <1>0, <3>1, <3>2, PanelNames
    <3> QED BY <1>0, <3>1, <3>2, <3>3 DEF AskedAbout
  <2>2. CASE ask # None /\ ~Ask
    <3>1. /\ interrupted # None /\ ask.of = interrupted.id /\ interrupted.resolution = None
          /\ ask.mine /\ (~ask.live => ask.closure = interrupted) /\ DOMAIN runs = {} /\ clicks # 0
      BY <1>0, <2>2 DEF AskedAbout, OneAtATime, Untouched
    <3>2. ~Leave /\ ~AnswerAsk /\ interrupted' = interrupted
      <4>1. ~AnswerAsk
        BY <2>2 DEF AnswerAsk
      <4>2. ~Leave
        BY <2>2, Patiently
      <4> QED BY <3>1, <4>1, <4>2, DoubtSteps
    <3>3. CASE KeepPanel
      <4>1. ask' = [of |-> ask.of, live |-> ask.live /\ SamePanel, mine |-> ask.mine /\ here',
                    closure |-> IF ask.live /\ ~SamePanel THEN interrupted ELSE ask.closure]
        BY <2>2, <3>3 DEF KeepPanel
      <4>2. here'
        BY <1>0, <3>1, <3>2, ViewSteps DEF OneAtATime
      <4>3. ask'.of = ask.of /\ ask'.mine = (ask.mine /\ here') /\ ask'.live = (ask.live /\ SamePanel)
            /\ ask'.closure = IF ask.live /\ ~SamePanel THEN interrupted ELSE ask.closure
        BY <4>1
      <4> QED BY <3>1, <3>2, <4>2, <4>3
    <3>4. CASE ask' = ask
      BY <3>1, <3>2, <3>4
    <3> QED BY <2>2, <3>3, <3>4, AskSteps
  <2>3. CASE ask = None /\ ~Ask
    BY <2>3, AskSteps DEF KeepPanel
  <2> QED BY <2>1, <2>2, <2>3
<1> QED BY <1>1, <1>2 DEF AskedAbout, Sent, Reported

-----------------------------------------------------------------------------
(* The invariant *)

LEMMA InitHolds == ASSUME Init PROVE IInv
<1>1. next = 0 /\ Given = {} /\ staged = <<>> /\ clicks = 0 /\ DOMAIN runs = {}
  BY DEF Init, Given
<1>2. Lists
  BY <1>1, BasketConstants DEF Init, Lists
<1>3. Plans /\ Runs /\ Labelled /\ Saved /\ Untouched
  BY <1>1 DEF Init, Plans, Runs, Labelled, Saved, Untouched
<1>4. doubt = [c \in Ids |-> "none"] /\ interrupted = None /\ ask = None /\ result = None
  BY DEF Init
<1>5. Doubts
  BY <1>4 DEF Doubts
<1>6. ToSet(staged) = {}
  BY <1>1 DEF ToSet
<1>7. Patient
  BY <1>1, <1>4, <1>6 DEF Patient, OneAtATime, HeldBack, AskedAbout
<1> QED BY <1>2, <1>3, <1>5, <1>7 DEF IInv

LEMMA NextHolds == ASSUME IInv, [Next]_vars PROVE IInv'
<1>1. Patient'
  BY OneAtATimeKept, HeldBackKept, AskedAboutKept DEF Patient
<1> QED
  BY <1>1, ListsKept, PlansKept, RunsKept, DoubtsKept, LabelledKept, SavedKept, UntouchedKept DEF IInv

\* However requests, answers and clicks interleave, the basket, the plans, the runs and the
\* interruption fit together as IInv says.
THEOREM BasketFits == Spec => []IInv
  BY InitHolds, NextHolds, PTL DEF Spec

-----------------------------------------------------------------------------
(* What the steps may do *)

\* A run begins with a click on Apply.
LEMMA BegunByApply ==
  ASSUME IInv, [Next]_vars, NEW r \in Begun
  PROVE  Apply /\ CanApply /\ r = clicks + 1 /\ runs'[r].sent = applyBody
<1>1. CASE Apply
  BY <1>1, Begins DEF Begun, Apply
<1>2. CASE ~Apply
  <2>1. DOMAIN runs' \subseteq DOMAIN runs
    BY <1>2, RunsElsewhere, OverLeaves DEF Leave, AnswerApply, RefuseApply, LoseApply
  <2> QED BY <2>1 DEF Begun
<1> QED BY <1>1, <1>2

\* What an answer reports applied is staged no more once the view has taken it.
THEOREM AppliedLeavesHolds == Spec => AppliedLeaves
<1>1. ASSUME IInv, [Next]_vars, "edited" \notin haste, NEW r \in DOMAIN runs \ DOMAIN runs',
             result' = [ids |-> runs[r].ids, sent |-> runs[r].sent, outcomes |-> runs[r].outcomes]
      PROVE  Sent(runs[r], "applied") \cap ToSet(staged') = {}
  <2>0. Lists /\ Runs /\ RunFits(runs[r], Given) /\ r \in DOMAIN runs
    BY <1>1 DEF IInv, Runs
  <2>1. AnswerApply(r) \/ RefuseApply(r) \/ LoseApply(r)
    <3>1. ~Leave /\ ~(UNCHANGED <<runs, clicks>>)
      BY <1>1 DEF Leave
    <3>2. ~Apply
      BY <1>1, Begins
    <3>3. \A q \in DOMAIN runs : AnswerApply(q) \/ RefuseApply(q) \/ LoseApply(q) => q = r
      BY <1>1, OverLeaves DEF AnswerApply, RefuseApply, LoseApply
    <3> QED BY <1>1, <3>1, <3>2, <3>3, RunsElsewhere
  <2>2. CASE AnswerApply(r)
    <3>1. appliedIds(runs[r]) = Sent(runs[r], "applied")
      BY <1>1, <2>0, AnswerNames DEF IInv, Labelled
    <3> QED BY <2>0, <2>2, <3>1, RemovedFrom DEF AnswerApply
  <2>3. CASE RefuseApply(r)
    BY <2>3 DEF RefuseApply, Sent, Reported
  <2>4. CASE LoseApply(r)
    <3>1. result' = result /\ staged' = staged
      BY <2>4 DEF LoseApply
    <3>2. result' \in Answers
      <4> DEFINE C == [id : Nat, baseline : Baselines \cup {None}]
      <4>1. runs[r] \in [ids : Seq(Given), sent : Seq(Change(Given)), outcomes : Seq(Outcomes), mine : BOOLEAN]
        BY <2>0 DEF RunFits
      <4>2. Given \subseteq Nat /\ Change(Given) \subseteq C
        BY DEF Given, Change
      <4> HIDE DEF C
      <4>3. Seq(Given) \subseteq Seq(Nat) /\ Seq(Change(Given)) \subseteq Seq(C)
        BY <4>2, ListGrows
      <4>4. result' \in [ids : Seq(Nat), sent : Seq(C), outcomes : Seq(Outcomes)]
        BY <1>1, <4>1, <4>3
      <4> QED BY <4>4 DEF Answers, C, Outcomes
    <3>3. result # None /\ Sent(result, "applied") \cap ToSet(staged) = {}
      BY <1>1, <3>1, <3>2, BasketConstants DEF IInv, Labelled
    <3>4. Sent(result, "applied") = Sent(runs[r], "applied")
      BY <1>1, <3>1 DEF Sent, Reported
    <3> QED BY <3>1, <3>3, <3>4
  <2> QED BY <2>1, <2>2, <2>3, <2>4
<1>2. IInv /\ [Next]_vars =>
        ["edited" \notin haste => \A r \in DOMAIN runs \ DOMAIN runs' :
           result' = [ids |-> runs[r].ids, sent |-> runs[r].sent, outcomes |-> runs[r].outcomes] =>
             Sent(runs[r], "applied") \cap ToSet(staged') = {}]_vars
  BY <1>1
<1> QED BY <1>2, BasketFits, PTL DEF Spec, AppliedLeaves

\* What is sent is in the basket, unless a check was answered after it had been edited.
THEOREM StagedIsSentHolds == Spec => StagedIsSent
<1>1. ASSUME IInv, [Next]_vars, "edited" \notin haste, NEW r \in Begun
      PROVE  {c.id : c \in ToSet(runs'[r].sent)} \subseteq ToSet(staged)
  <2>1. runs'[r].sent = applyBody
    BY <1>1, BegunByApply
  <2>2. \A i \in DOMAIN applyBody : applyBody[i].id \in ToSet(staged)
    BY <1>1, BodyNamed DEF IInv, Labelled
  <2> QED BY <2>1, <2>2 DEF ToSet
<1>2. IInv /\ [Next]_vars =>
        ["edited" \notin haste => \A r \in Begun : {c.id : c \in ToSet(runs'[r].sent)} \subseteq ToSet(staged)]_vars
  BY <1>1
<1> QED BY <1>2, BasketFits, PTL DEF Spec, StagedIsSent

\* A patient operator's run sends nothing that is unknown, and has a new plan once a change was found
\* not to be there.
THEOREM NeverResent == Spec => NeverResentByThePatient
<1>1. ASSUME IInv, [Next]_vars, haste = {}, NEW r \in Begun
      PROVE  ~Premature(r)
  <2>0. Lists /\ Plans /\ HeldBack /\ ~heldBy /\ runs'[r].sent = applyBody
    BY <1>1, BegunByApply DEF IInv, Patient, CanApply
  <2>1. ASSUME NEW c \in ToSet(staged)
        PROVE  doubt[c] # "unknown" /\ (doubt[c] = "replan" => current # None)
    BY <2>0, <2>1 DEF HeldBack, heldBy
  <2>2. \A i \in DOMAIN applyBody : applyBody[i].id \in ToSet(staged)
    BY <1>1, <2>0, BodyNamed DEF IInv, Labelled
  <2>3. current # None => \A i \in DOMAIN applyBody : applyBody[i].baseline # None
    <3>1. SUFFICES ASSUME current # None PROVE \A i \in DOMAIN applyBody : applyBody[i].baseline # None
      OBVIOUS
    <3>2. current = plan /\ PlanFits(plan, Given) /\ applyBody = changesFromPlan(plan)
      BY <2>0, <3>1 DEF current, Plans, applyBody
    <3>3. \A i \in DOMAIN changesFromPlan(plan) : changesFromPlan(plan)[i].baseline \in Baselines
      BY <2>0, <3>2, PlanSends
    <3> QED BY <3>2, <3>3, BasketConstants
  <2> QED BY <2>0, <2>1, <2>2, <2>3 DEF Premature
<1>2. IInv /\ [Next]_vars => [haste = {} => \A r \in Begun : ~Premature(r)]_vars
  BY <1>1
<1> QED BY <1>2, BasketFits, PTL DEF Spec, NeverResentByThePatient

\* Whatever became of the basket, a saved plan goes whole, each change against its own plan.
THEOREM SavedPlanWholeHolds == Spec => SavedPlanWhole
<1>1. ASSUME IInv, [Next]_vars, whole # {}, NEW r \in Begun
      PROVE  /\ {c.id : c \in ToSet(runs'[r].sent)} = whole
             /\ \A c \in ToSet(runs'[r].sent) : c.baseline # None /\ c.baseline.of = c.id
  <2>1. Lists /\ Plans /\ Saved /\ CanApply /\ runs'[r].sent = applyBody
    BY <1>1, BegunByApply DEF IInv
  <2>2. /\ current # None /\ current = plan /\ PlanFits(plan, Given) /\ plan.made = staged
        /\ applyBody = changesFromPlan(plan) /\ whole = ToSet(staged)
    BY <1>1, <2>1 DEF CanApply, needsPlan, current, Plans, Saved, applyBody
  <2>3. Len(applyBody) = Len(staged) /\ staged \in Seq(Given) /\ applyBody \in Seq(Change(Given))
    BY <1>1, <2>1, <2>2, BodyFits DEF CanApply, wholePlan, Lists
  <2> DEFINE n == Len(staged)  at == [k \in 1..n |-> plan.items[k].index]
  <2>4. n \in Nat /\ DOMAIN staged = 1..n /\ DOMAIN applyBody = 1..n
    BY <2>3, ListIs
  <2>5. /\ DOMAIN applyBody = DOMAIN plan.items
        /\ \A k \in DOMAIN applyBody :
             /\ applyBody[k].baseline \in Baselines
             /\ applyBody[k].baseline.of = plan.made[plan.items[k].index]
             /\ applyBody[k].id = IF plan.items[k].index \in DOMAIN staged THEN staged[plan.items[k].index]
                                  ELSE plan.made[plan.items[k].index]
    <3> DEFINE sent == changesFromPlan(plan)
    <3>1. /\ DOMAIN sent = DOMAIN plan.items
          /\ \A k \in DOMAIN plan.items :
               /\ sent[k].baseline = [of |-> plan.made[plan.items[k].index], good |-> plan.items[k].good]
               /\ sent[k].baseline \in Baselines
               /\ sent[k].id = IF plan.items[k].index \in DOMAIN staged THEN staged[plan.items[k].index]
                               ELSE plan.made[plan.items[k].index]
      BY <2>1, <2>2, PlanSends
    <3> HIDE DEF sent
    <3>2. applyBody = sent
      BY <2>2 DEF sent
    <3>3. \A k \in DOMAIN plan.items : sent[k].baseline.of = plan.made[plan.items[k].index]
      <4> TAKE k \in DOMAIN plan.items
      <4> DEFINE x == plan.made[plan.items[k].index]  y == plan.items[k].good  b == sent[k].baseline
      <4>1. b = [of |-> x, good |-> y]
        BY <3>1
      <4> HIDE DEF x, y, b
      <4>2. b.of = x
        BY <4>1
      <4> QED BY <4>2 DEF b, x
    <3>4. \A k \in DOMAIN applyBody : applyBody[k].baseline.of = plan.made[plan.items[k].index]
      BY <3>1, <3>2, <3>3
    <3>5. DOMAIN applyBody = DOMAIN plan.items /\ \A k \in DOMAIN applyBody : applyBody[k].baseline \in Baselines
      BY <3>1, <3>2
    <3>6. \A k \in DOMAIN applyBody :
            applyBody[k].id = IF plan.items[k].index \in DOMAIN staged THEN staged[plan.items[k].index]
                              ELSE plan.made[plan.items[k].index]
      BY <3>1, <3>2
    <3> QED BY <3>4, <3>5, <3>6
  <2>6. /\ \A k \in 1..n : plan.items[k].index \in 1..n
        /\ \A j, k \in 1..n : plan.items[j].index = plan.items[k].index => j = k
    BY <2>2, <2>4, <2>5 DEF PlanFits, ItemsFit
  <2>7. \A i \in 1..n : \E k \in 1..n : plan.items[k].index = i
    <3> HIDE DEF n
    <3>1. at \in Injection(1..n, 1..n)
      BY <2>6 DEF Injection, IsInjective
    <3>2. IsFiniteSet(1..n) /\ Cardinality(1..n) = n
      BY <2>4, FS_Interval
    <3>3. at \in Surjection(1..n, 1..n)
      BY <3>1, <3>2, FS_Injection
    <3> QED BY <3>3 DEF Surjection
  <2>8. \A k \in 1..n : applyBody[k].id = staged[plan.items[k].index] /\ applyBody[k].baseline.of = applyBody[k].id
    BY <2>2, <2>4, <2>5, <2>6
  <2> HIDE DEF n
  <2>9. {applyBody[k].id : k \in 1..n} = {staged[i] : i \in 1..n}
    BY <2>6, <2>7, <2>8
  <2>10. {c.id : c \in ToSet(applyBody)} = whole
    <3>1. {c.id : c \in ToSet(applyBody)} = {applyBody[k].id : k \in 1..n}
      BY <2>4 DEF ToSet
    <3>2. whole = {staged[i] : i \in 1..n}
      BY <2>2, <2>4 DEF ToSet
    <3> QED BY <2>9, <3>1, <3>2
  <2>11. \A c \in ToSet(applyBody) : c.baseline # None /\ c.baseline.of = c.id
    BY <2>4, <2>5, <2>8, BasketConstants DEF ToSet
  <2> QED BY <2>1, <2>10, <2>11
<1>2. IInv /\ [Next]_vars =>
        [whole # {} => \A r \in Begun :
           /\ {c.id : c \in ToSet(runs'[r].sent)} = whole
           /\ \A c \in ToSet(runs'[r].sent) : c.baseline # None /\ c.baseline.of = c.id]_vars
  BY <1>1
<1> QED BY <1>2, BasketFits, PTL DEF Spec, SavedPlanWhole
=============================================================================
