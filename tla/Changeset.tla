------------------------------ MODULE Changeset ------------------------------
(***************************************************************************)
(* One operator and one changeset: staged, planned, applied by the server  *)
(* change by change, and compensated from the recovery bundle the server   *)
(* derives while it applies.  Planning, checking and applying read the     *)
(* directory one entry at a time and other people write to it in between;  *)
(* reads fail, and the connection can die with a change in flight.         *)
(*                                                                         *)
(* internal/api ApplyChangeset, checkPlannedChanges and recoveryRecorder,  *)
(* over the definitions of internal/plan, internal/recovery and            *)
(* internal/outcome; the operator's side is web/src/features/changeset.tsx.*)
(***************************************************************************)
EXTENDS Recovery, Outcome, Positions

CONSTANTS
  Menu,        \* the changes an operator may stage
  Starts,      \* the directories it may begin with
  Foreign,     \* what other people may do to it
  MaxStaged,   \* bound: changes in one changeset
  MaxOthers,   \* bound: writes of other people
  MaxFaults,   \* bound: reads that fail and connections that die
  MaxRounds,   \* bound: applications of one bundle
  None

ASSUME ChangesetConstants ==
  /\ \A c \in Menu \cup Foreign : Valid(c)
  /\ \A d \in Starts : WellFormed(d)
  /\ None \notin {"stale", "mismatch"}
  /\ {MaxStaged, MaxOthers, MaxFaults, MaxRounds} \subseteq Nat

VARIABLES
  dir,       \* the directory
  job,       \* the staged changes, each with its expectation and its token
  undoing,   \* whether they come from the recovery bundle
  planned,   \* whether what is applied is a checked plan
  phase,     \* how far the operator, or the request, has come
  pos,       \* the change being planned, checked or applied
  provided,  \* ComputeProposals: the names earlier changes of the set create
  refused,   \* what is wrong with the request so far
  reads,     \* verifiedRead: what checking each change read of its entry
  armed,     \* whether the entry the next change meets has been read
  pre,       \* that entry
  touched,   \* recoveryRecorder.touched
  unsettled, \* recoveryRecorder.unsettled
  steps,     \* recoveryRecorder.steps
  outcomes,  \* ChangesetResult.Outcomes, up to the change the run stopped at
  lost,      \* the change whose outcome is unknown
  verdict,   \* what the directory said about it when it was asked
  others, faults, rounds

\* Nothing below is the program's: what the properties remember.
VARIABLES
  start,     \* the directory the original changes were applied to
  ours,      \* for each name and attribute, the values Alder has ever left there
  raced,     \* whether somebody wrote while this request was checked and applied
  landed     \* whether the lost change was carried out

desk == <<job, undoing, planned>>
request == <<pos, provided, refused, reads, armed, pre, outcomes>>
recorder == <<touched, unsettled, steps>>
bounds == <<others, faults, rounds>>
ghosts == <<start, ours, raced, landed>>
vars == <<dir, desk, phase, request, recorder, lost, verdict, bounds, ghosts>>

Item(c, ex, token) == [change |-> c, expect |-> ex, token |-> token]
NoRead == [entry |-> NoEntry, attrs |-> {}, made |-> FALSE]

\* sentItems: where in the basket the changes are that a plan sends.
sentStagedIndices == InOrder({i \in DOMAIN job : planned => job[i].token # NoToken})
Sent == [k \in DOMAIN sentStagedIndices |-> job[sentStagedIndices[k]]]

Init ==
  /\ dir \in Starts
  /\ job = <<>> /\ undoing = FALSE /\ planned = FALSE
  /\ phase = "staging"
  /\ pos = 1 /\ provided = {} /\ refused = None /\ reads = <<>>
  /\ armed = FALSE /\ pre = NoEntry /\ outcomes = <<>>
  /\ touched = {} /\ unsettled = FALSE /\ steps = <<>>
  /\ lost = None /\ verdict = None
  /\ others = 0 /\ faults = 0 /\ rounds = 0
  /\ start = dir /\ ours = <<>> /\ raced = FALSE /\ landed = FALSE

-----------------------------------------------------------------------------
(* The operator *)

Baskets == UNION {{s \in [1..n -> Menu] : IsInjective(s)} : n \in 1..MaxStaged}

Stage ==
  /\ phase = "staging"
  /\ \E s \in Baskets : job' = [i \in DOMAIN s |-> Item(s[i], NoExpect, NoToken)]
  /\ phase' = "staged"
  /\ UNCHANGED <<dir, undoing, planned, request, recorder, lost, verdict, bounds, ghosts>>

CheckPlan ==
  /\ phase = "staged"
  /\ phase' = "planning" /\ planned' = TRUE
  /\ pos' = 1 /\ provided' = {}
  /\ UNCHANGED <<dir, job, undoing, refused, reads, armed, pre, outcomes, recorder, lost, verdict,
                 bounds, ghosts>>

\* A new request.  Without a plan the changes go as they are; with one, those that do something.
Apply ==
  /\ \/ phase = "staged" /\ planned' = FALSE
     \/ phase = "reviewing" /\ Sent # <<>> /\ UNCHANGED planned
  /\ phase' = "verifying" /\ pos' = 1
  /\ refused' = None /\ reads' = <<>> /\ armed' = FALSE /\ outcomes' = <<>>
  /\ lost' = None /\ verdict' = None
  /\ start' = (IF undoing THEN start ELSE dir) /\ raced' = FALSE /\ landed' = FALSE
  /\ UNCHANGED <<dir, job, undoing, provided, pre, recorder, bounds, ours>>

\* Mutated form: an outcome's position is taken for one in the basket.
appliedPositions == {k \in DOMAIN outcomes : outcomes[k] = "applied"}

\* removeApplied: the answer takes what was applied out of the basket.
appliedIds == {sentStagedIndices[k] : k \in {k \in DOMAIN outcomes : outcomes[k] = "applied"}}
Staged(I) == [k \in DOMAIN InOrder(I) |-> [Selected(job, I)[k] EXCEPT !.token = NoToken]]

Answer ==
  /\ phase = "answered"
  /\ phase' = "settled"
  /\ job' = Staged(DOMAIN job \ appliedIds)
  /\ UNCHANGED <<dir, undoing, planned, request, recorder, lost, verdict, bounds, ghosts>>

CheckOutcome ==
  /\ phase = "settled" /\ lost # None /\ verdict = None
  /\ verdict' = Determine(dir, lost)
  /\ job' = (IF verdict' = "applied" THEN Selected(job, {i \in DOMAIN job : job[i].change # lost}) ELSE job)
  /\ UNCHANGED <<dir, undoing, planned, phase, request, recorder, lost, bounds, ghosts>>

\* InspectRecovery: the bundle's changes are staged, and checked from then on.
LoadBundle ==
  /\ phase = "settled" /\ ~undoing /\ steps # <<>>
  /\ rounds < MaxRounds
  /\ LET cs == Changes(steps)
     IN /\ cs # <<>>
        /\ job' = [i \in DOMAIN cs |-> Item(cs[i].change, cs[i].expect, NoToken)]
  /\ undoing' = TRUE /\ phase' = "staged" /\ rounds' = rounds + 1
  /\ UNCHANGED <<dir, planned, request, recorder, lost, verdict, others, faults, ghosts>>

\* What is left of a bundle is checked and applied again, as what the request refused is.
NextRound ==
  /\ undoing /\ job # <<>> /\ rounds < MaxRounds
  /\ \/ phase = "settled" /\ lost = None
     \/ phase = "refused" /\ planned
  /\ phase' = "staged" /\ rounds' = rounds + 1
  /\ UNCHANGED <<dir, desk, request, recorder, lost, verdict, others, faults, ghosts>>

-----------------------------------------------------------------------------
(* The plan *)

PlanOne ==
  /\ phase = "planning"
  /\ LET x == job[pos]
         item == classify(dir, x.change, x.expect, provided)
     IN /\ job' = [job EXCEPT ![pos].token = item.token]
        /\ provided' = provided \cup Provides(x.change, item.action)
  /\ IF pos = Len(job) THEN phase' = "reviewing" /\ pos' = 1 ELSE pos' = pos + 1 /\ UNCHANGED phase
  /\ UNCHANGED <<dir, undoing, planned, refused, reads, armed, pre, outcomes, recorder, lost, verdict,
                 bounds, ghosts>>

-----------------------------------------------------------------------------
(* The request: every baseline first *)

\* An expectation that arrives without a baseline is refused before anything is read.
Unchecked == \E k \in DOMAIN Sent : Sent[k].expect # NoExpect /\ Sent[k].token = NoToken

\* The recorder reads along only while original changes are applied: an undo asks for no bundle.
Extra(c) == IF undoing THEN {} ELSE ReadAttributes(c)

checkPlannedChanges ==
  /\ phase = "verifying"
  /\ LET x == Sent[pos]
         want == VerifyReads(x.change, x.token, x.expect) \cup Extra(x.change)
         live == Read(dir, x.change.dn, want)
         found == VerifyRead(x.change, x.token, x.expect, live)
     IN \/ /\ Unchecked /\ phase' = "refused" /\ refused' = "bad_request"
           /\ UNCHANGED <<pos, reads, faults>>
        \/ /\ ~Unchecked
           /\ IF x.token = NoToken
              THEN reads' = Append(reads, NoRead) /\ UNCHANGED refused
              ELSE /\ reads' = Append(reads, [entry |-> live, attrs |-> want, made |-> TRUE])
                   /\ refused' = (IF found = "current" \/ refused = "mismatch" THEN refused ELSE found)
           /\ IF pos < Len(Sent) THEN pos' = pos + 1 /\ UNCHANGED phase
              ELSE /\ pos' = 1
                   /\ phase' = (IF refused' = None THEN "running" ELSE "refused")
           /\ UNCHANGED faults
        \* The entry cannot be read, and the request fails with it.
        \/ /\ ~Unchecked /\ x.token # NoToken /\ faults < MaxFaults
           /\ faults' = faults + 1 /\ phase' = "refused" /\ refused' = "unreadable"
           /\ UNCHANGED <<pos, reads>>
  /\ UNCHANGED <<dir, desk, provided, armed, pre, outcomes, recorder, lost, verdict, others, rounds, ghosts>>

-----------------------------------------------------------------------------
(* The request: change by change *)

\* disturbed: a change that has run was of the entry this one is of, or of one above it.
disturbed(c) == \E x \in touched : IsUnder(c.dn, x)

\* Mutated form: what the server may have done on its own is not thought of.
ReusableUnsettled(c, read) == read.made /\ ~disturbed(c) /\ Covers(read.attrs, ReadAttributes(c))

Reusable(c, read) ==
  read.made /\ ~unsettled /\ ~disturbed(c) /\ Covers(read.attrs, ReadAttributes(c))

\* before: the entry the change will meet, from the read the check made when that still stands.
before ==
  /\ phase = "running" /\ ~armed
  /\ LET c == Sent[pos].change
     IN \/ /\ \/ undoing \/ c.type \in {"add", "setpassword"}
           /\ pre' = NoEntry /\ UNCHANGED faults
        \/ /\ ~undoing /\ c.type \in {"modify", "delete", "modrdn"}
           /\ \/ /\ Reusable(c, reads[pos]) /\ pre' = reads[pos].entry
                 /\ UNCHANGED faults
              \/ /\ ~Reusable(c, reads[pos]) /\ pre' = Read(dir, c.dn, ReadAttributes(c))
                 /\ UNCHANGED faults
              \/ /\ ~Reusable(c, reads[pos]) /\ faults < MaxFaults
                 /\ pre' = NoEntry /\ faults' = faults + 1
  /\ armed' = TRUE
  /\ UNCHANGED <<dir, desk, phase, pos, provided, refused, reads, outcomes, recorder, lost, verdict,
                 others, rounds, ghosts>>

\* What Alder has ever left at each name: a change leaves the values it wrote, and an entry that
\* moves brings along what was left at its old name.
Left(d, c) ==
  LET e == Done(d, c)
      source(x) == IF c.type = "modrdn" /\ IsUnder(x, c.to) THEN Moved(x, c.to, c.dn) ELSE x
      wrote(x, a) == \/ source(x) \notin DOMAIN d
                     \/ x = Target(c) /\ a \in Named(c)
                     \/ e[x][a] # d[source(x)][a]
      sofar(x) == IF x \in DOMAIN ours THEN ours[x] ELSE [a \in Attrs |-> {}]
  IN [x \in DOMAIN ours \cup DOMAIN e |-> [a \in Attrs |->
        sofar(x)[a] \cup (IF x \notin DOMAIN e THEN {}
                            ELSE sofar(source(x))[a]
                                   \cup (IF wrote(x, a) THEN {e[x][a]} ELSE {}))]]

\* The directory carries the change out.
Land(c) ==
  /\ Accepts(dir, c)
  /\ dir' = Done(dir, c)
  /\ ours' = Left(dir, c)

\* What was asked for of an entry that was read.
Seen(e, c) == [a \in Attrs |-> IF a \in ReadAttributes(c) THEN e[a] ELSE {}]

\* after, and the bundle's next step.
after(c) ==
  IF undoing THEN UNCHANGED <<touched, unsettled, steps>>
  ELSE /\ unsettled' = (unsettled \/ c.type # "modify")
       /\ touched' = touched \cup Touched(c)
       /\ steps' = Append(steps, Derive(c, pre))

Applied(c) ==
  /\ Land(c)
  /\ after(c)
  /\ outcomes' = Append(outcomes, "applied")
  /\ IF pos < Len(Sent) THEN pos' = pos + 1 /\ UNCHANGED phase ELSE pos' = 1 /\ phase' = "answered"
  /\ UNCHANGED <<lost, faults, landed>>

\* A failure stops the run; what follows is reported as not attempted.
Failed(c) ==
  /\ ~Accepts(dir, c)
  /\ outcomes' = Append(outcomes, "failed")
  /\ phase' = "answered" /\ pos' = 1
  /\ UNCHANGED <<dir, ours, recorder, lost, faults, landed>>

\* ErrWriteOutcomeUnknown: the connection died with the change in flight.
Unknown(c) ==
  /\ faults < MaxFaults /\ faults' = faults + 1
  /\ \/ Land(c) /\ landed' = TRUE
     \/ UNCHANGED <<dir, ours, landed>>
  /\ outcomes' = Append(outcomes, "unknown") /\ lost' = c
  /\ phase' = "answered" /\ pos' = 1
  /\ UNCHANGED recorder

Send ==
  /\ phase = "running" /\ armed
  /\ LET c == Sent[pos].change IN Applied(c) \/ Failed(c) \/ Unknown(c)
  /\ armed' = FALSE
  /\ UNCHANGED <<desk, provided, refused, reads, pre, verdict, others, rounds, start, raced>>

-----------------------------------------------------------------------------
(* Everybody else *)

Other ==
  /\ phase # "staging" /\ others < MaxOthers
  /\ \E c \in Foreign : Accepts(dir, c) /\ dir' = Done(dir, c)
  /\ others' = others + 1
  /\ raced' = (raced \/ phase \in {"verifying", "running"})
  /\ UNCHANGED <<desk, phase, request, recorder, lost, verdict, faults, rounds, start, ours, landed>>

Next ==
  \/ Stage \/ CheckPlan \/ Apply \/ Answer \/ CheckOutcome \/ LoadBundle \/ NextRound
  \/ PlanOne \/ checkPlannedChanges \/ before \/ Send \/ Other

Spec == Init /\ [][Next]_vars

-----------------------------------------------------------------------------
(* Properties *)

\* A change of a request that lands now.
Landing == phase = "running" /\ armed /\ dir' # dir /\ others' = others
Now == Sent[pos]

\* Nothing that ran before it in this request reaches the entry the change is of.
First == \A k \in 1..(pos - 1) : LET c == Sent[k].change IN c.type = "modify" /\ ~IsUnder(Now.change.dn, c.dn)

\* A checked plan's change is carried out on the entry the plan saw: whoever changed what the
\* decision rested on, between the plan and the request's own check, stopped the request.
PlannedStateMet ==
  [][Landing /\ planned /\ ~raced /\ First =>
       stateMAC(Now.token.deps, Read(dir, Now.change.dn, Attrs)) = Now.token.state]_vars

\* Recovery never overwrites a later change: whatever a compensation that lands removes, replaces
\* or adds to is as one of Alder's own changes left it, unless somebody wrote while the request was
\* under way.
Overwrites(c) == IF c.type = "delete" THEN Comparable ELSE IF c.type = "modify" THEN Named(c) ELSE {}
RecoveryOverwritesNobody ==
  [][Landing /\ undoing /\ ~raced =>
       \A a \in Overwrites(Now.change) :
         \E S \in ours[Now.change.dn][a] : sameByRule(a, dir[Now.change.dn][a], S)]_vars

\* What a compensation is derived from is the entry the change met, whatever ran before it in the
\* request and whatever the server did on its own, unless somebody wrote meanwhile.
PreStateTrue ==
  [][Landing /\ ~undoing /\ ~raced /\ pre # NoEntry =>
       Seen(pre, Now.change) = Read(dir, Now.change.dn, ReadAttributes(Now.change))]_vars

\* The answer is the run: with nobody else writing, the directory is the one it began with and the
\* changes reported applied, in order; one whose outcome is unknown may have come after them.  And
\* no change that was applied is left in the basket, to be sent again, whatever the plan left out.
Played(d, ss) == FoldLeft(LAMBDA e, s : Done(e, s.change), d, ss)
Ran == Played(start, steps)
AnswerTrue ==
  phase = "settled" /\ ~undoing =>
    /\ others = 0 => dir = (IF landed THEN Done(Ran, lost) ELSE Ran)
    /\ \A i \in DOMAIN steps : \A j \in DOMAIN job : steps[i].change # job[j].change

\* Exactly what was applied, put back: once every change of a bundle has been applied, every
\* attribute Alder may speak about holds what it held, by its rule, and no entry is left or gone.
Recoverable == \A i \in DOMAIN steps : steps[i].level # "unavailable"
RecoveryRestores ==
  phase = "settled" /\ undoing /\ job = <<>> /\ others = 0 /\ faults = 0 /\ Recoverable =>
    /\ DOMAIN dir = DOMAIN start
    /\ \A x \in DOMAIN dir : \A a \in Comparable : SameByRule(dir[x][a], start[x][a])

\* With nobody else writing, a bundle is never stuck: checked against the directory, what is left
\* of it always has something to apply, so rounds bring it to an end.  Not where a name
\* was given up and taken again: docs/RECOVERY.md expects later rounds to settle that too, and they
\* may not.
Leaves(c) == c.type \in {"delete", "modrdn"}
Takes(c, x) == c.type \in {"add", "modrdn"} /\ Target(c) = x
Retaken == \E i, j \in DOMAIN steps :
             i < j /\ Leaves(steps[i].change) /\ Takes(steps[j].change, steps[i].change.dn)
Stuck == phase = "reviewing" /\ undoing /\ others = 0 /\ faults = 0 /\ Sent = <<>>
BundleNeverStuck == Stuck => Retaken

\* What is said of a change whose answer was lost is so, with nobody else writing, where it names
\* each attribute once: not applied means it is not there, and applied that nothing is left to do.
NamesOnce(c) == c.type = "modify" => Cardinality(Named(c)) = Len(c.mods)
Wanted(c) == ~Accepts(dir, c) \/ \A x \in DOMAIN dir : \A a \in Attrs :
                                    x \in DOMAIN Done(dir, c) /\ SameByRule(Done(dir, c)[x][a], dir[x][a])
VerdictTrue ==
  verdict # None /\ others = 0 /\ NamesOnce(lost) =>
    /\ verdict = "not_applied" => ~landed
    /\ verdict = "applied" => landed \/ Wanted(lost)
=============================================================================
