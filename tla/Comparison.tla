------------------------------ MODULE Comparison ------------------------------
(***************************************************************************)
(* Bringing a directory back to an earlier state, or towards another       *)
(* server's: a snapshot is captured, the live directory is read again and  *)
(* compared with it or with the session's reference, and the changes       *)
(* proposed are planned and applied.  A capture reads the directory page   *)
(* by page while others write to it, may be cut off, and may come back     *)
(* without a schema; some attributes the reader may not see.               *)
(*                                                                         *)
(* internal/api CaptureSnapshot, captureLive and DiffStates, over          *)
(* internal/diff; the operator's side is web/src/features/snapshots.tsx.   *)
(***************************************************************************)
EXTENDS StateDiff, LiveDirectory

CONSTANTS
  References,  \* the directories the reference server may hold
  Hidden,      \* attributes the session may not read
  HiddenThere, \* attributes it may not read on the reference
  Requests,    \* what may be asked of a capture
  Identities,  \* the identities the server gives entries
  ProbeBudget, \* snapshotProbeBudget
  MaxRounds,   \* bound: comparisons
  MaxFaults    \* bound: reads cut off and schemas that do not come

ASSUME ComparisonConstants ==
  /\ {ProbeBudget, MaxRounds, MaxFaults} \subseteq Nat
  /\ IsFiniteSet(Attrs)
  /\ \A d \in Starts : \A x, y \in DOMAIN d : d[x][Identity] = d[y][Identity] => x = y

VARIABLES
  there,     \* the reference server's
  file,      \* the snapshot the operator holds
  phase,     \* idle, reading, or compared
  purpose,   \* what is being read for: the file, or a comparison with it or the reference
  req,       \* captureLive: what was asked for
  schema,    \* whether the schema came back
  left,      \* the identities of the entries the search has still to return
  got,       \* the entries it has returned
  truncated, \* whether it was cut off
  result,    \* the comparison
  rounds, faults

\* Nothing below is the program's: what the properties remember.
VARIABLES
  was,    \* the entries that stayed as they were, at their names, while the file was captured
  still,  \* whether nobody has written since the live directory began to be read
  calm    \* undisturbed rounds in a row against one target

capture == <<purpose, req, schema, left, got, truncated>>
bounds == <<others, rounds, faults>>
ghosts == <<was, still, calm>>
vars == <<dir, there, file, phase, capture, result, bounds, ghosts>>

NoEntries == <<>>

Init ==
  /\ dir \in Starts /\ there \in References
  /\ file = None /\ phase = "idle"
  /\ purpose = None /\ req = None /\ schema = FALSE /\ left = {} /\ got = NoEntries /\ truncated = FALSE
  /\ result = None
  /\ others = 0 /\ rounds = 0 /\ faults = 0
  /\ was = NoEntries /\ still = TRUE /\ calm = 0

-----------------------------------------------------------------------------
(* Reading a directory *)

Fault == faults < MaxFaults /\ faults' = faults + 1

\* captureLive begins: the search has its entries to return, the schema came back or did not.
Begin(what, q) ==
  /\ BaseExists(dir, q)
  /\ phase' = "reading" /\ purpose' = what /\ req' = q
  /\ \/ schema' = TRUE /\ UNCHANGED faults
     \/ schema' = FALSE /\ Fault
  /\ left' = {dir[x][Identity] : x \in InSearch(dir, q, Hidden)}
  /\ got' = NoEntries /\ truncated' = FALSE

CaptureSnapshot ==
  /\ phase = "idle" /\ file = None
  /\ \E q \in Requests : Begin("capture", q)
  /\ was' = dir
  /\ UNCHANGED <<dir, there, file, result, others, rounds, still, calm>>

\* DiffStates reads the live side with what the file was captured with, unless asked otherwise.
DiffStates(target) ==
  /\ phase \in {"idle", "compared"} /\ rounds < MaxRounds
  /\ target = "file" => file # None
  /\ \E q \in Requests :
       /\ target = "reference" => BaseExists(there, q)
       /\ Begin(target, q)
       /\ calm' = (IF purpose = target /\ req = q THEN calm ELSE 0)
  /\ result' = None /\ rounds' = rounds + 1 /\ still' = TRUE
  /\ UNCHANGED <<dir, there, file, others, was>>

\* The next entry: it comes back under the name and with the values it has by then, if it still is
\* what was searched for.
ReadEntry ==
  /\ phase = "reading"
  /\ \E id \in left :
       LET at == {x \in InSearch(dir, req, Hidden) : dir[x][Identity] = id}
       IN /\ left' = left \ {id}
          /\ IF at \cap DOMAIN got = {}
             THEN got' = Over([x \in at |-> Captured(dir[x], req, Hidden)], got) /\ UNCHANGED phase
             ELSE phase' = "idle" /\ UNCHANGED got   \* Build: "appears twice"
  /\ UNCHANGED <<dir, there, file, purpose, req, schema, truncated, result, bounds, ghosts>>

\* Mutated form: a read that was cut off passes for a whole one.
CutOffUnnoticed ==
  /\ phase = "reading" /\ left # {}
  /\ left' = {} /\ Fault
  /\ UNCHANGED <<dir, there, file, phase, purpose, req, schema, got, truncated, result, others, rounds, ghosts>>

\* A size limit, or referrals: what was not read yet will not be.
CutOff ==
  /\ phase = "reading" /\ left # {}
  /\ left' = {} /\ truncated' = TRUE /\ Fault
  /\ UNCHANGED <<dir, there, file, phase, purpose, req, schema, got, result, others, rounds, ghosts>>

\* The file is made of a whole read only, and of an empty one only if the base is still there.
Captures ==
  /\ phase = "reading" /\ left = {} /\ purpose = "capture"
  /\ phase' = "idle"
  /\ file' = (IF truncated \/ (got = NoEntries /\ ~BaseExists(dir, req)) THEN None
             ELSE Snapshot(req, schema, got))
  /\ UNCHANGED <<dir, there, capture, result, bounds, ghosts>>

-----------------------------------------------------------------------------
(* Comparing *)

Live == Side(Snapshot(req, schema, got), truncated, {dir}, Hidden)

\* The target: the file as it is, or the reference as it is read now, whole or cut off.
Document == Side(file, FALSE, {}, {})
ReadThere(returned, known) ==
  Side(Snapshot(req, known, [x \in returned |-> Captured(there[x], req, HiddenThere)]),
       returned # InSearch(there, req, HiddenThere), {there}, HiddenThere)

\* As many of the questions are put as the budget allows.
Questions(missing) == kSubset(Min({ProbeBudget, Cardinality(missing)}), missing)

Compares(target) ==
  LET missing == {m \in Missing(Live, target, Differences(Live, target)) : Asked(m)}
  IN \E probed \in Questions(missing) : result' = Result(Live, target, probed)

Compare ==
  /\ phase = "reading" /\ left = {} /\ purpose # "capture"
  /\ \/ purpose = "file" /\ Compares(Document) /\ UNCHANGED faults
     \/ /\ purpose = "reference"
        /\ LET all == InSearch(there, req, HiddenThere)
           IN \/ Compares(ReadThere(all, TRUE)) /\ UNCHANGED faults
              \/ Compares(ReadThere(all, FALSE)) /\ Fault
              \/ \E returned \in SUBSET all \ {all} : Compares(ReadThere(returned, TRUE)) /\ Fault
  /\ phase' = "compared"
  /\ UNCHANGED <<dir, there, file, capture, others, rounds, ghosts>>

-----------------------------------------------------------------------------
(* Applying what is proposed *)

Proposed(r) == {i \in r.items : Derive(r, i) # <<>>}

\* The set is planned against the directory as it is, and what would do nothing is left out.
Ready(d, cs) ==
  FoldLeft(LAMBDA p, c :
    LET action == classify(d, c, NoExpect, p.provided).action
    IN [sent |-> IF AppliesNothing(action) THEN p.sent ELSE Append(p.sent, c),
        provided |-> p.provided \cup Provides(c, action)],
    [sent |-> <<>>, provided |-> {}], cs).sent

\* The server gives an entry it adds an identity of its own.
Known == UNION {dir[x][Identity] : x \in DOMAIN dir}
           \cup (IF file = None THEN {} ELSE UNION {file.entries[x].id : x \in DOMAIN file.entries})
Fresh(d) == CHOOSE v \in Identities : v \notin Known \cup UNION {d[x][Identity] : x \in DOMAIN d}
Carried(d, c) ==
  IF c.type = "add" THEN [Done(d, c) EXCEPT ![c.dn][Identity] = {Fresh(d)}] ELSE Done(d, c)

\* They are applied in order, up to the first the server refuses.
Run(d, cs) ==
  FoldLeft(LAMBDA s, c : IF s.whole /\ Accepts(s.dir, c) THEN [s EXCEPT !.dir = Carried(@, c)]
                         ELSE [s EXCEPT !.whole = FALSE],
           [dir |-> d, whole |-> TRUE], cs)

\* The operator stages every proposal, deletions too, and puts them in an order the directory takes
\* as a whole when there is one.  Where nothing is proposed the round ends as it is.
Restore ==
  /\ phase = "compared"
  /\ LET runs == {Run(dir, Ready(dir, FlattenSeq([k \in DOMAIN order |-> Derive(result, order[k])]))) :
                  order \in SetToSeqs(Proposed(result))}
     IN \E run \in runs : /\ run.whole \/ \A other \in runs : ~other.whole
                          /\ dir' = run.dir
  /\ phase' = "idle" /\ result' = None
  /\ calm' = (IF still /\ result.complete THEN calm + 1 ELSE 0)
  /\ UNCHANGED <<there, file, capture, bounds, was, still>>

-----------------------------------------------------------------------------
(* Everybody else *)

Other ==
  /\ others < MaxOthers
  /\ \E c \in Foreign : Accepts(dir, c) /\ dir' = Carried(dir, c)
  /\ others' = others + 1
  /\ still' = FALSE /\ calm' = 0
  /\ was' = (IF phase = "reading" /\ purpose = "capture"
             THEN [x \in {x \in DOMAIN was \cap DOMAIN dir' : dir'[x] = was[x]} |-> was[x]] ELSE was)
  /\ UNCHANGED <<there, file, phase, capture, result, rounds, faults>>

Next ==
  \/ CaptureSnapshot \/ (\E target \in {"file", "reference"} : DiffStates(target))
  \/ ReadEntry \/ CutOff \/ Captures \/ Compare \/ Restore \/ Other

Spec == Init /\ [][Next]_vars
-----------------------------------------------------------------------------
(* Properties *)

\* The entries the target is to stand for: of a file those that did not change while it was captured,
\* of the reference what it holds.
Truth == IF purpose = "file" THEN was ELSE there

\* An entry that comes to match a filter was not in the file, and nothing tells it from a new one.
Unfiltered == result.target.filter = NoFilter

Deletions == {i.from : i \in {i \in Proposed(result) : i.kind = "removed"}}

\* Deletion is never inferred from what could not be seen: whatever was cut off, out of scope or
\* written meanwhile, no deletion is proposed of a name at which the target's directory held an
\* entry all along.
DeletesOnlyTheAbsent == phase = "compared" /\ Unfiltered => Deletions \cap DOMAIN Truth = {}

\* What a modification changes is what differs: unless somebody wrote since the live side was read,
\* each value it removes is in the directory and not in the target, each value it adds the other way
\* round, and an attribute it removes whole is one the target really lacks, not one it hides; only
\* an operational attribute, which without a schema nothing tells from another, may be left out of
\* the target because the capture did not ask for it.
ProposesOnlyDifferences ==
  phase = "compared" /\ still =>
    \A i \in {i \in Proposed(result) : i.kind \in {"modified", "renamed"} /\ i.to \in DOMAIN Truth} :
      LET c == Last(Derive(result, i))
      IN c.type = "modify" => \A k \in DOMAIN c.mods :
           LET m == c.mods[k]
               here == dir[i.from][m.attr]
               target == Truth[i.to][m.attr]
           IN \/ m.op = "add" /\ m.vals \subseteq target \ here
              \/ m.op = "delete" /\ m.vals # {} /\ m.vals \subseteq here \ target
              \/ /\ m.op = "delete" /\ m.vals = {}
                 /\ target = {} \/ (m.attr \in ServerOwned /\ ~result.source.schema)

\* What of a difference may be written at all.
Settable(i) == i.changed \ (i.unknown \cup Sensitive \cup ServerOwned)

\* "Select everything including an explicit delete, plan, apply, compare again, and find nothing":
\* after two complete rounds against one target, with nobody else writing, a complete comparison
\* leaves nothing to propose, and no difference of an attribute that may be written.  One round is
\* not enough: what is to change in a renamed entry is addressed to a name that does not exist when
\* the set is planned, and the move of an entry that has moved with its parent ends the run.  A file
\* that was written into while it was captured may hold entries without their parents, and is not
\* claimed for.
Settles ==
  /\ phase = "compared" /\ Unfiltered /\ still /\ result.complete /\ calm >= 2
  /\ DOMAIN result.target.entries \subseteq DOMAIN Truth
  =>
    /\ Proposed(result) = {}
    /\ \A i \in {i \in result.items : i.kind = "modified"} : Settable(i) = {}
===============================================================================
