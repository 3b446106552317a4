------------------------------- MODULE Basket -------------------------------
(***************************************************************************)
(* The staged changeset of one browser tab and the view that checks and    *)
(* applies it (web/src/lib/changeset.ts, changeset-outcome.ts, plan.ts,    *)
(* saved-plan.ts, features/changeset.tsx, components/unknown-outcome.tsx). *)
(*                                                                         *)
(* Three requests may be under way at once, and the operator goes on       *)
(* clicking meanwhile: a check (POST /plan), a run (POST /changeset/apply) *)
(* and the question what became of an interrupted change (POST             *)
(* /changes/outcome).  Each is sent, served and answered in separate       *)
(* steps.  staged outlives the view; everything useState holds goes with   *)
(* it.                                                                     *)
(*                                                                         *)
(* A change is its staged id, and has an entry of its own, of which the    *)
(* model keeps whether it shows what the change does (holds).  A baseline  *)
(* is the change it was made of and whether the entry is still as the plan *)
(* read it (good), which is what the server's token tells.                 *)
(***************************************************************************)
EXTENDS Integers, FiniteSets, SequencesExt, Positions

CONSTANTS
  None,
  MaxChanges,  \* bound: changes ever staged
  MaxRuns,     \* bound: clicks on Apply
  MaxOpens,    \* bound: times the operator opens the view
  MaxHaste,    \* bound: kinds of haste (below) in one behaviour
  MaxOthers    \* bound: writes of everybody else

\* What a change was planned as, and what the view keeps of an answer and of an interrupted change.
Baselines == [of : Nat, good : BOOLEAN]
Answers == [ids : Seq(Nat), sent : Seq([id : Nat, baseline : Baselines \cup {None}]),
            outcomes : Seq({"applied", "failed", "unknown", "not_attempted"})]
Interruptions == [id : Nat, resolution : {None, "hold", "remove", "replan"}]

ASSUME BasketConstants ==
  /\ {MaxChanges, MaxRuns, MaxOpens, MaxHaste, MaxOthers} \subseteq Nat
  /\ None \notin Nat \cup {"hold", "remove", "replan"}
  /\ None \notin Baselines /\ None \notin Answers /\ None \notin Interruptions

VARIABLES
  staged,       \* ids, in the operator's order
  whole,        \* the saved plan the basket is (origin), as the set loaded; {} when it is not one
  expecting,    \* ids of changes with an expectation
  next,         \* counter: ids given out so far
  here,         \* whether the changeset view is mounted
  plan,         \* None, or the plan and the basket it is labelled with
  check,        \* None, or the request for a plan
  clicks, runs, \* how often Apply was clicked; the runs not answered yet, by click
  watched,      \* the run the apply observer waits for, or 0
  stale,        \* the observer shows a refusal of the plan
  result,       \* None, or the answer shown and what it answers (result and sent)
  interrupted,  \* None, or a change and how it was settled
  ask,          \* None, or the question about an interrupted change
  read,         \* UnknownOutcome's own answer is set: it offers no check any more
  opened,
  holds, others \* the directory, and how often somebody else wrote to it

\* Not the program's: what is known of each change, and what the operator did in the meantime.
VARIABLES doubt, haste

view == <<here, plan, check, watched, stale, result, interrupted, ask, read, opened>>
vars == <<staged, whole, expecting, next, view, clicks, runs, holds, others, doubt, haste>>

Ids == 1..MaxChanges

Init ==
  /\ staged = <<>> /\ whole = {} /\ expecting = {} /\ next = 0
  /\ here = FALSE /\ plan = None /\ check = None /\ watched = 0 /\ stale = FALSE /\ result = None
  /\ interrupted = None /\ ask = None /\ read = FALSE /\ opened = 0
  /\ clicks = 0 /\ runs = <<>>
  /\ holds = [c \in Ids |-> FALSE] /\ others = 0
  /\ doubt = [c \in Ids |-> "none"] /\ haste = {}

-----------------------------------------------------------------------------
\* What the view derives on every render.

\* Mutated form: a plan is current whatever it is labelled with.
AnyPlan == plan

current == IF plan # None /\ plan.for = staged THEN plan ELSE None

\* sentItems, by position in the plan.
sentStagedIndices(p) == [k \in DOMAIN p.items |-> p.items[k].index]

\* A position the staged list does not have falls back to the plan's own record.
changesFromPlan(p) ==
  [k \in DOMAIN p.items |->
    LET i == p.items[k].index
    IN  [id |-> IF i \in DOMAIN staged THEN staged[i] ELSE p.made[i],
         baseline |-> [of |-> p.made[i], good |-> p.items[k].good]]]

applyBody ==
  IF current = None THEN [k \in DOMAIN staged |-> [id |-> staged[k], baseline |-> None]]
  ELSE changesFromPlan(current)

sentIds ==
  IF current = None THEN staged
  ELSE LET at == sentStagedIndices(current)
           there == Selected(at, {k \in DOMAIN at : at[k] \in DOMAIN staged})
       IN  [k \in DOMAIN there |-> staged[there[k]]]

needsPlan == whole # {} \/ ToSet(staged) \cap expecting # {}

\* Mutated form: a saved plan may be applied in part.
NoRefusal == FALSE

wholePlan == whole # {} /\ current # None /\ Len(applyBody) # Len(staged)

\* Mutated form: only a verdict holds Apply back.
heldByVerdict ==
  /\ interrupted # None /\ interrupted.id \in ToSet(staged)
  /\ \/ interrupted.resolution = "hold"
     \/ interrupted.resolution = "replan" /\ current = None

heldBy ==
  /\ interrupted # None /\ interrupted.id \in ToSet(staged)
  /\ \/ interrupted.resolution \in {None, "hold"}
     \/ interrupted.resolution = "replan" /\ current = None

mustCheck == heldBy /\ interrupted.resolution = None

\* Positions of the changes an answer reports in the given state, and what it names by them.
Reported(answer, state) == {i \in DOMAIN answer.outcomes : answer.outcomes[i] = state}
\* Mutated form: positions sent are read as positions staged.
appliedStaged(answer) == {staged[i] : i \in Reported(answer, "applied") \cap DOMAIN staged}

appliedIds(answer) == {answer.ids[i] : i \in Reported(answer, "applied") \cap DOMAIN answer.ids}
unknownIds(answer) == {answer.ids[i] : i \in Reported(answer, "unknown") \cap DOMAIN answer.ids}

\* What an answer says of a change, whatever it is taken for.
Sent(answer, state) == {answer.sent[i].id : i \in Reported(answer, state)}

\* The change UnknownOutcome is drawn for, and where: an empty basket has another layout.
Panel ==
  IF here /\ result # None /\ Sent(result, "unknown") # {}
  THEN [of |-> Sent(result, "unknown"), empty |-> staged = <<>>]
  ELSE None

\* A panel that is not drawn any more leaves its question behind, with the callback last rendered.
SamePanel == (Panel # None /\ Panel' # None /\ Panel.empty = Panel'.empty)
KeepPanel ==
  /\ read' = (read /\ SamePanel)
  /\ ask' = IF ask = None THEN None
            ELSE [of |-> ask.of, live |-> ask.live /\ SamePanel, mine |-> ask.mine /\ here',
                  closure |-> IF ask.live /\ ~SamePanel THEN interrupted ELSE ask.closure]

-----------------------------------------------------------------------------
\* The basket (lib/changeset.ts).  Every edit drops the origin.

\* removeApplied drops it only with the last change, or when part of a saved plan was applied.
removeApplied(ids) ==
  /\ staged' = Selected(staged, {i \in DOMAIN staged : staged[i] \notin ids})
  /\ whole' = IF staged' = <<>> \/ ids # {} THEN {} ELSE whole

UNCHANGED_DIRECTORY == UNCHANGED <<holds, others>>
UNCHANGED_VIEW == UNCHANGED <<here, plan, check, watched, stale, result, interrupted, opened>>

\* add, from a dialog of another view.
add ==
  /\ ~here /\ next < MaxChanges
  /\ next' = next + 1 /\ staged' = Append(staged, next + 1) /\ whole' = {}
  /\ UNCHANGED <<expecting, view, clicks, runs, doubt, haste>> /\ UNCHANGED_DIRECTORY

\* The loader of the empty view: addMany, then setOrigin; the check follows as soon as the staged
\* changes are drawn.  (Not while an earlier check is under way.)  A recovery bundle is loaded the
\* same way, without an origin, which is what any edit leaves of this.
loadSavedPlan(n) ==
  /\ here /\ staged = <<>> /\ check = None /\ next + n <= MaxChanges /\ clicks < MaxRuns
  /\ next' = next + n /\ staged' = [k \in 1..n |-> next + k]
  /\ whole' = ToSet(staged') /\ expecting' = expecting \cup ToSet(staged')
  /\ check' = [made |-> staged', items |-> <<>>, served |-> FALSE]
  /\ UNCHANGED <<here, plan, watched, stale, result, interrupted, opened, clicks, runs, doubt, haste>>
  /\ UNCHANGED_DIRECTORY
  /\ KeepPanel

edit(list) ==
  /\ here /\ staged # <<>>
  /\ staged' = list /\ whole' = {}
  /\ UNCHANGED <<expecting, next, clicks, runs, doubt, haste>>
  /\ UNCHANGED_VIEW /\ UNCHANGED_DIRECTORY /\ KeepPanel

remove(c) == c \in ToSet(staged) /\ edit(Selected(staged, {i \in DOMAIN staged : staged[i] # c}))
move(k) == k \in 1..(Len(staged) - 1) /\ edit([staged EXCEPT ![k] = staged[k + 1], ![k + 1] = staged[k]])
clear == edit(<<>>)

Hasty(kinds) == haste' = haste \cup kinds /\ Cardinality(haste') <= MaxHaste

\* The view is opened from the menu, and left for another one or for a new connection.
Open ==
  /\ ~here /\ opened < MaxOpens
  /\ here' = TRUE /\ opened' = opened + 1
  /\ UNCHANGED <<staged, whole, expecting, next, plan, check, watched, stale, result, interrupted, ask, read>>
  /\ UNCHANGED <<clicks, runs, doubt, haste>> /\ UNCHANGED_DIRECTORY

Leave ==
  /\ here
  /\ here' = FALSE /\ plan' = None /\ check' = None /\ watched' = 0 /\ stale' = FALSE
  /\ result' = None /\ interrupted' = None
  /\ runs' = [r \in DOMAIN runs |-> [runs[r] EXCEPT !.mine = FALSE]]
  /\ Hasty(IF clicks = 0 THEN {} ELSE {"left"})
  /\ UNCHANGED <<staged, whole, expecting, next, clicks, opened, doubt>> /\ UNCHANGED_DIRECTORY
  /\ KeepPanel

-----------------------------------------------------------------------------
\* The check.  (Not when no click on Apply is left that could use it.)

Check ==
  /\ clicks < MaxRuns /\ here /\ staged # <<>> /\ check = None
  /\ check' = [made |-> staged, items |-> <<>>, served |-> FALSE]
  /\ UNCHANGED <<staged, whole, expecting, next, here, plan, watched, stale, result, interrupted, ask, read, opened>>
  /\ UNCHANGED <<clicks, runs, doubt, haste>> /\ UNCHANGED_DIRECTORY

\* The server plans what it was sent; what is already so, or cannot be done, has no baseline.
ServeCheck ==
  /\ check # None /\ ~check.served
  /\ LET work == InOrder({k \in DOMAIN check.made : ~holds[check.made[k]]})
     IN  check' = [check EXCEPT !.served = TRUE, !.items =
                    [k \in DOMAIN work |-> [index |-> work[k], good |-> TRUE]]]
  /\ UNCHANGED <<staged, whole, expecting, next, here, plan, watched, stale, result, interrupted, ask, read, opened>>
  /\ UNCHANGED <<clicks, runs, doubt, haste>> /\ UNCHANGED_DIRECTORY

\* onSuccess: labelled with the basket as it is drawn now, and the apply observer reset.
AnswerCheck ==
  /\ check # None /\ check.served
  /\ plan' = [for |-> staged, made |-> check.made, items |-> check.items]
  /\ watched' = 0 /\ stale' = FALSE /\ check' = None
  /\ Hasty(IF staged = check.made THEN {} ELSE {"edited"})
  /\ UNCHANGED <<staged, whole, expecting, next, here, result, interrupted, ask, read, opened, clicks, runs, doubt>>
  /\ UNCHANGED_DIRECTORY

LoseCheck ==
  /\ check # None /\ check' = None
  /\ UNCHANGED <<staged, whole, expecting, next, here, plan, watched, stale, result, interrupted, ask, read, opened>>
  /\ UNCHANGED <<clicks, runs, doubt, haste>> /\ UNCHANGED_DIRECTORY

-----------------------------------------------------------------------------
\* The run.

CanApply ==
  /\ here /\ staged # <<>>
  /\ watched = 0 /\ ~stale /\ ~heldBy
  /\ needsPlan => current # None
  /\ current # None => applyBody # <<>>
  /\ ~wholePlan

\* checkPlannedChanges: every baseline is of the change it came with, and of its entry as it is.
Verified(sent) == \A i \in DOMAIN sent : sent[i].baseline # None =>
  sent[i].baseline = [of |-> sent[i].id, good |-> TRUE]

\* A write to an entry: no plan of it holds any more.
Outdated(p, written) ==
  IF p = None THEN None
  ELSE LET good(x) == x.good /\ p.made[x.index] \notin written
       IN  [p EXCEPT !.items = [k \in DOMAIN p.items |-> [index |-> p.items[k].index, good |-> good(p.items[k])]]]
Write(written) == plan' = Outdated(plan, written) /\ check' = Outdated(check, written)

\* ApplyChangeset refuses the whole, or carries changes out in order until one fails or is lost.
ServeApply(sent, outcomes) ==
  IF ~Verified(sent)
  THEN outcomes = <<>> /\ UNCHANGED <<plan, check, holds>>
  ELSE \E n \in 0..Len(sent), stop \in {"failed", "unknown"}, landed \in BOOLEAN :
       LET done == {sent[i].id : i \in 1..(IF landed THEN n + 1 ELSE n)} IN
       /\ n = Len(sent) => stop = "failed" /\ ~landed
       /\ stop = "failed" => ~landed
       /\ outcomes = [i \in DOMAIN sent |-> IF i <= n THEN "applied"
                                            ELSE IF i = n + 1 THEN stop ELSE "not_attempted"]
       /\ Write(done) /\ holds' = [c \in Ids |-> holds[c] \/ c \in done]

\* The click, and what the server makes of it: the browser sees nothing of that before the answer,
\* and what the directory is told in between it may as well be told before the click.
Apply ==
  /\ CanApply /\ clicks < MaxRuns
  /\ \E outcomes \in UNION {[1..n -> {"applied", "failed", "unknown", "not_attempted"}] : n \in {0, Len(applyBody)}} :
       /\ ServeApply(applyBody, outcomes)
       /\ runs' = [r \in DOMAIN runs \cup {clicks + 1} |->
                    IF r = clicks + 1
                    THEN [ids |-> sentIds, sent |-> applyBody, outcomes |-> outcomes, mine |-> TRUE]
                    ELSE runs[r]]
  /\ clicks' = clicks + 1 /\ watched' = clicks + 1
  /\ result' = None
  /\ Hasty((IF runs = <<>> THEN {} ELSE {"overlapped"}) \cup (IF ask = None THEN {} ELSE {"asked"}))
  /\ UNCHANGED <<staged, whole, expecting, next, here, stale, interrupted, opened, others, doubt>>
  /\ KeepPanel

\* A request is over: its observer, if that still follows it, is no longer pending.
Ends(r) ==
  /\ runs' = Restrict(runs, DOMAIN runs \ {r})
  /\ watched' = IF watched = r THEN 0 ELSE watched

\* apply.onSuccess: it runs wherever the operator is, but what it sets is gone with the view.
AnswerApply(r) ==
  /\ runs[r].outcomes # <<>>
  /\ Ends(r)
  /\ removeApplied(appliedIds(runs[r]))
  /\ IF runs[r].mine
     THEN /\ result' = [ids |-> runs[r].ids, sent |-> runs[r].sent, outcomes |-> runs[r].outcomes]
          /\ plan' = None
          /\ interrupted' = IF unknownIds(runs[r]) = {} THEN None
                            ELSE [id |-> CHOOSE c \in unknownIds(runs[r]) : TRUE, resolution |-> None]
     ELSE UNCHANGED <<result, plan, interrupted>>
  /\ doubt' = [c \in Ids |->
       IF c \in Sent(runs[r], "unknown") THEN "unknown"
       ELSE IF doubt[c] = "replan" THEN "none" ELSE doubt[c]]
  /\ UNCHANGED <<expecting, next, here, check, stale, opened, clicks, haste>> /\ UNCHANGED_DIRECTORY
  /\ KeepPanel

\* The plan no longer holds, and an answer the browser never gets.
RefuseApply(r) ==
  /\ runs[r].outcomes = <<>>
  /\ Ends(r) /\ stale' = (stale \/ watched = r)
  /\ UNCHANGED <<staged, whole, expecting, next, here, plan, check, result, interrupted, ask, read, opened>>
  /\ UNCHANGED <<clicks, doubt, haste>> /\ UNCHANGED_DIRECTORY

LoseApply(r) ==
  /\ Ends(r)
  /\ UNCHANGED <<staged, whole, expecting, next, here, plan, check, stale, result, interrupted, ask, read, opened>>
  /\ UNCHANGED <<clicks, doubt, haste>> /\ UNCHANGED_DIRECTORY

\* The cross of the result panel.
Dismiss ==
  /\ here /\ result # None /\ ~mustCheck
  /\ result' = None
  /\ UNCHANGED <<staged, whole, expecting, next, here, plan, check, watched, stale, interrupted, opened>>
  /\ UNCHANGED <<clicks, runs, doubt, haste>> /\ UNCHANGED_DIRECTORY
  /\ KeepPanel

-----------------------------------------------------------------------------
\* The question about an interrupted change.

\* What the panel offers its check for, unless the answer is there already.
CanAsk == Panel # None /\ ~read /\ (interrupted # None => interrupted.resolution = None)

\* (One question at a time.)
Ask ==
  /\ CanAsk /\ ask = None
  /\ \E c \in Panel.of : ask' = [of |-> c, closure |-> None, live |-> TRUE, mine |-> TRUE]
  /\ UNCHANGED <<staged, whole, expecting, next, here, plan, check, watched, stale, result, interrupted, read, opened>>
  /\ UNCHANGED <<clicks, runs, doubt, haste>> /\ UNCHANGED_DIRECTORY

\* What Determine may say, and resolve makes of it.
Verdicts(c) == {"hold", IF holds[c] THEN "remove" ELSE "replan"}

\* onSuccess and onVerdict: about whatever was interrupted when the panel was last drawn.
AnswerAsk ==
  /\ ask # None
  /\ \E resolution \in Verdicts(ask.of) :
       LET about == IF ask.live THEN interrupted ELSE ask.closure IN
       /\ IF about # None /\ resolution = "remove" THEN removeApplied({about.id}) ELSE UNCHANGED <<staged, whole>>
       /\ interrupted' = IF about # None /\ ask.mine THEN [id |-> about.id, resolution |-> resolution]
                         ELSE interrupted
       /\ doubt' = [doubt EXCEPT ![ask.of] = CASE resolution = "remove" -> "none" [] resolution = "hold" -> "unknown" [] OTHER -> resolution]
  /\ UNCHANGED <<expecting, next, here, plan, check, watched, stale, result, opened, clicks, runs, haste>>
  /\ UNCHANGED_DIRECTORY
  /\ read' = ((read \/ ask.live) /\ SamePanel) /\ ask' = None

LoseAsk ==
  /\ ask # None /\ ask' = None
  /\ UNCHANGED <<staged, whole, expecting, next, here, plan, check, watched, stale, result, interrupted, read, opened>>
  /\ UNCHANGED <<clicks, runs, doubt, haste>> /\ UNCHANGED_DIRECTORY

\* Somebody else writes to the entry of a staged change.
Other(c) ==
  /\ c \in ToSet(staged) /\ clicks < MaxRuns /\ others < MaxOthers /\ others' = others + 1
  /\ Write({c}) /\ \E h \in BOOLEAN : holds' = [holds EXCEPT ![c] = h]
  /\ UNCHANGED <<staged, whole, expecting, next, here, watched, stale, result, interrupted, ask, read, opened>>
  /\ UNCHANGED <<clicks, runs, doubt, haste>>

Next ==
  \/ add \/ clear \/ Open \/ Leave \/ Check \/ ServeCheck \/ AnswerCheck \/ LoseCheck
  \/ Apply \/ Dismiss \/ Ask \/ AnswerAsk \/ LoseAsk
  \/ \E n \in Ids : loadSavedPlan(n)
  \/ \E c \in Ids : remove(c) \/ Other(c)
  \/ \E k \in Ids : move(k)
  \/ \E r \in DOMAIN runs : AnswerApply(r) \/ RefuseApply(r) \/ LoseApply(r)

Spec == Init /\ [][Next]_vars

-----------------------------------------------------------------------------
\* The run a step of Apply has just begun.
Begun == DOMAIN runs' \ DOMAIN runs

\* What an answer reports applied is staged no more once the view has taken that answer: positions
\* of the answer are positions of what was sent, whatever became of the basket meanwhile.  (Not
\* after a plan was taken for one of another basket: its run names its changes wrongly.)
AppliedLeaves == []["edited" \notin haste =>
  \A r \in DOMAIN runs \ DOMAIN runs' :
    result' = [ids |-> runs[r].ids, sent |-> runs[r].sent, outcomes |-> runs[r].outcomes] =>
      Sent(runs[r], "applied") \cap ToSet(staged') = {}]_vars

\* A new run is premature when it sends a change that was reported unknown and has no verdict yet
\* that settles it, or goes without a plan while one is staged that was found not to be there.
Premature(r) ==
  \E i \in DOMAIN runs'[r].sent :
    \/ doubt[runs'[r].sent[i].id] = "unknown"
    \/ runs'[r].sent[i].baseline = None /\ \E c \in ToSet(staged) : doubt[c] = "replan"

\* An interrupted change is not sent again before the directory was asked about it, nor, if it is
\* not there, does the next run go without a new plan (docs/DECISIONS.md:5101).  So it is for an
\* operator who stays on the view, which forgets an interruption when it is left, and clicks nothing
\* while a request is under way that the click would overtake.
NeverResentByThePatient == [][haste = {} => \A r \in Begun : ~Premature(r)]_vars

\* Apply sends changes that are in the basket (features/changeset.tsx:104), unless a check was
\* answered after the basket had been edited: its plan is labelled with the basket it finds.
StagedIsSent == []["edited" \notin haste =>
  \A r \in Begun : {c.id : c \in ToSet(runs'[r].sent)} \subseteq ToSet(staged)]_vars

\* A saved plan is applied whole, each change against the plan of it, or not at all.
SavedPlanWhole == [][whole # {} => \A r \in Begun :
   /\ {c.id : c \in ToSet(runs'[r].sent)} = whole
   /\ \A c \in ToSet(runs'[r].sent) : c.baseline # None /\ c.baseline.of = c.id]_vars
=============================================================================
