---------------------------- MODULE WriteContract ----------------------------
(***************************************************************************)
(* What the Driver contract of internal/directory promises a caller that   *)
(* applies a change, with no connections, locks or retries in it: a change *)
(* reaches the directory at most once; a change reported applied has       *)
(* reached it, one reported refused never does, and one reported unknown   *)
(* may still reach it after the report.                                    *)
(***************************************************************************)
EXTENDS Integers

CONSTANT Writes

VARIABLES
  effect,   \* how often the directory has carried each change out
  report    \* what the caller was told: "none" so far, "applied", "refused" or "unknown"

contract == <<effect, report>>

Init ==
  /\ effect = [w \in Writes |-> 0]
  /\ report = [w \in Writes |-> "none"]

\* The directory carries the change out, once, and not after it was reported.
Happen(w) ==
  /\ effect[w] = 0 /\ report[w] \in {"none", "unknown"}
  /\ effect' = [effect EXCEPT ![w] = 1]
  /\ UNCHANGED report

Report(w) ==
  /\ report[w] = "none"
  /\ \/ effect[w] = 1 /\ report' = [report EXCEPT ![w] = "applied"]
     \/ effect[w] = 0 /\ report' = [report EXCEPT ![w] = "refused"]
     \/ report' = [report EXCEPT ![w] = "unknown"]
  /\ UNCHANGED effect

Next == \E w \in Writes : Happen(w) \/ Report(w)

Spec == Init /\ [][Next]_contract
=============================================================================
