----------------------------- MODULE RequestGate -----------------------------
(***************************************************************************)
(* The limit on requests answered at once (internal/api/limit.go), and the *)
(* requests that read a directory in pages under it, two of which go on    *)
(* reading after their handler has returned.                               *)
(*                                                                         *)
(* The slots are a buffered channel: a release hands the slot over to a    *)
(* request that waits, if there is one.  (Which one is left open; the      *)
(* channel takes the first.)                                               *)
(***************************************************************************)
EXTENDS PagedSearch, FiniteSets

CONSTANTS
  Requests,
  Slots,         \* cap(g.slots)
  Directories,   \* the directories there may be: records as PagedSearch has them
  Workloads      \* what the requests may be: functions from Requests to [kind, limit]

\* A request that asks the directory nothing (answeredWithoutTheDirectory).
Bypass == "bypass"

\* What a request is answered; export's absent is a 404.
Answers == {"failed", "complete", "truncated", "absent"}

ASSUME RequestGateConstants ==
  /\ IsFiniteSet(Requests) /\ Slots \in Nat \ {0} /\ Directories \subseteq DirectoryTypes
  /\ Workloads \subseteq [Requests -> [kind : Kinds \cup {Bypass}, limit : Nat \ {0}]]
  /\ None \notin Requests \cup Answers

VARIABLES
  directory, workload, \* chosen at the beginning
  slots,     \* len(g.slots)
  phase,     \* new, waiting (for a slot), handler, returned or refused
  held,      \* heldSlot: none, held, released (once has run)
  kept,      \* heldSlot.kept
  writing,   \* the body stream writer: none, open, ended
  call,      \* None, or the search under way in the driver
  page,      \* None, or what it returned, and the cookie it was asked with
  read,      \* the entries read, in order
  expired,   \* the request's context is past its deadline
  answer     \* None, failed, complete, truncated or absent

gate == <<slots, phase, held>>
pages == <<call, page, read>>
vars == <<directory, workload, gate, kept, writing, pages, expired, answer>>

kind(r) == workload[r].kind
limit(r) == workload[r].limit
gated(r) == kind(r) # Bypass

Init ==
  /\ directory \in Directories /\ workload \in Workloads
  /\ slots = 0
  /\ phase = [r \in Requests |-> "new"] /\ held = [r \in Requests |-> "none"]
  /\ kept = [r \in Requests |-> FALSE] /\ writing = [r \in Requests |-> "none"]
  /\ call = [r \in Requests |-> None] /\ page = [r \in Requests |-> None] /\ read = [r \in Requests |-> <<>>]
  /\ expired = [r \in Requests |-> FALSE] /\ answer = [r \in Requests |-> None]

Waiting == {r \in Requests : phase[r] = "waiting"}
Holders == {r \in Requests : held[r] = "held"}

-----------------------------------------------------------------------------
\* The gate.

First(r) == Want(kind(r), limit(r), 0, None)

\* c.Next, with a slot if the request needs one: the handler asks its first search.
Enter(r) ==
  /\ phase' = [phase EXCEPT ![r] = "handler"]
  /\ held' = [held EXCEPT ![r] = IF gated(r) THEN "held" ELSE "none"]
  /\ call' = [call EXCEPT ![r] = IF gated(r) THEN First(r) ELSE None]

Arrive(r) ==
  /\ phase[r] = "new"
  /\ IF gated(r) /\ slots = Slots
     THEN phase' = [phase EXCEPT ![r] = "waiting"] /\ UNCHANGED <<slots, held, call>>
     ELSE slots' = (IF gated(r) THEN slots + 1 ELSE slots) /\ Enter(r)
  /\ UNCHANGED <<directory, workload, kept, writing, page, read, expired, answer>>

\* inFlightWait is over.
Refuse(r) ==
  /\ phase[r] = "waiting" /\ phase' = [phase EXCEPT ![r] = "refused"]
  /\ UNCHANGED <<directory, workload, slots, held, kept, writing, pages, expired, answer>>

\* held.release(): nothing the second time, nor where there is no slot; else the slot goes to a
\* request that waits, or back.  phase is as the caller leaves it.
Release(r, left) ==
  IF held[r] # "held" THEN phase' = left /\ UNCHANGED <<slots, held, call>>
  ELSE IF Waiting = {}
  THEN /\ slots' = slots - 1 /\ held' = [held EXCEPT ![r] = "released"]
       /\ phase' = left /\ UNCHANGED call
  ELSE \E w \in Waiting :
       /\ phase' = [left EXCEPT ![w] = "handler"]
       /\ held' = [held EXCEPT ![r] = "released", ![w] = "held"]
       /\ call' = [call EXCEPT ![w] = First(w)]
       /\ UNCHANGED slots

\* The middleware's end: the handler has answered, or left the answer to its writer.
HandlerReturns(r) ==
  LET left == [phase EXCEPT ![r] = "returned"] IN
  /\ phase[r] = "handler" /\ (~gated(r) \/ answer[r] # None \/ writing[r] # "none")
  /\ IF kept[r] THEN phase' = left /\ UNCHANGED <<slots, held, call>> ELSE Release(r, left)
  /\ answer' = [answer EXCEPT ![r] = IF gated(r) THEN @ ELSE "complete"]
  /\ UNCHANGED <<directory, workload, kept, writing, page, read, expired>>

-----------------------------------------------------------------------------
\* Reading.

\* One exchange with the directory.
Ask(r) ==
  /\ call[r] # None /\ ~expired[r]
  /\ LET got == Asked(directory, call[r]) IN
     IF Continues(call[r], got)
     THEN call' = [call EXCEPT ![r] = Continued(call[r], got)] /\ UNCHANGED page
     ELSE /\ call' = [call EXCEPT ![r] = None]
          /\ page' = [page EXCEPT ![r] = [res |-> Returns(call[r], got), asked |-> call[r].cookie]]
  /\ UNCHANGED <<directory, workload, slots, phase, held, kept, writing, read, expired, answer>>

\* It fails: the directory refuses it (as it may a cookie it has forgotten), the connection is
\* lost, or the request's time is up.
AskFails(r) ==
  /\ call[r] # None
  /\ call' = [call EXCEPT ![r] = None]
  /\ read' = [read EXCEPT ![r] = Holds(kind(r), limit(r), @)]
  /\ answer' = [answer EXCEPT ![r] = Failed(kind(r), Len(read[r]))]
  /\ UNCHANGED <<directory, workload, slots, phase, held, kept, writing, page, expired>>

\* reqCtx: requestTimeout is over.
Expire(r) ==
  /\ phase[r] = "handler" \/ writing[r] = "open"
  /\ gated(r) /\ answer[r] = None /\ ~expired[r] /\ expired' = [expired EXCEPT ![r] = TRUE]
  /\ UNCHANGED <<directory, workload, gate, kept, writing, pages, answer>>

\* Mutated form: the slot is left to the gate.
StreamUnkept(r) ==
  /\ kind(r) \in Streams /\ phase[r] = "handler" /\ page[r] # None /\ writing[r] = "none"
  /\ page[r].res.entries # <<>> \/ kind(r) = "search"
  /\ writing' = [writing EXCEPT ![r] = "open"] /\ UNCHANGED kept
  /\ UNCHANGED <<directory, workload, gate, pages, expired, answer>>

\* The first page is there: keepSlot, then SetBodyStreamWriter, which starts the writer at once.
Stream(r) ==
  /\ kind(r) \in Streams /\ phase[r] = "handler" /\ page[r] # None /\ writing[r] = "none"
  /\ page[r].res.entries # <<>> \/ kind(r) = "search"
  /\ kept' = [kept EXCEPT ![r] = TRUE] /\ writing' = [writing EXCEPT ![r] = "open"]
  /\ UNCHANGED <<directory, workload, gate, pages, expired, answer>>

\* What a request makes of a page, in its handler or in its writer: an answer, or the next search.
Take(r) ==
  LET all == read[r] \o page[r].res.entries
      verdict == Verdict(kind(r), limit(r), Len(all), page[r].asked = None, page[r].asked, page[r].res)
  IN
  /\ page[r] # None
  /\ kind(r) \in Streams => writing[r] = "open" \/ verdict = "absent"
  /\ page' = [page EXCEPT ![r] = None]
  /\ IF verdict = "more"
     THEN /\ read' = [read EXCEPT ![r] = all] /\ UNCHANGED answer
          /\ call' = [call EXCEPT ![r] = Want(kind(r), limit(r), Len(all), page[r].res.cookie)]
     ELSE /\ read' = [read EXCEPT ![r] = Holds(kind(r), limit(r), all)]
          /\ answer' = [answer EXCEPT ![r] = verdict] /\ UNCHANGED call
  /\ UNCHANGED <<directory, workload, gate, kept, writing, expired>>

\* The schema cannot be read (a search), or the client has hung up, or is past WriteTimeout.
GiveUp(r) ==
  /\ kind(r) \in Streams /\ page[r] # None
  /\ writing[r] = "none" => kind(r) = "search"
  /\ page' = [page EXCEPT ![r] = None] /\ answer' = [answer EXCEPT ![r] = "failed"]
  /\ UNCHANGED <<directory, workload, gate, kept, writing, call, read, expired>>

\* Mutated form: the writer gives its slot back at the end of a whole answer only.
WriterEndsWhole(r) ==
  /\ writing[r] = "open" /\ answer[r] # None
  /\ writing' = [writing EXCEPT ![r] = "ended"]
  /\ IF answer[r] = "failed" THEN UNCHANGED <<gate, call>> ELSE Release(r, phase)
  /\ UNCHANGED <<directory, workload, kept, page, read, expired, answer>>

\* The writer's deferred release.
WriterEnds(r) ==
  /\ writing[r] = "open" /\ answer[r] # None
  /\ writing' = [writing EXCEPT ![r] = "ended"]
  /\ Release(r, phase)
  /\ UNCHANGED <<directory, workload, kept, page, read, expired, answer>>

\* Everybody is answered.
Done ==
  /\ \A r \in Requests : phase[r] \in {"returned", "refused"} /\ writing[r] # "open"
  /\ UNCHANGED vars

Step(r) == Stream(r) \/ Take(r) \/ HandlerReturns(r) \/ WriterEnds(r)

Next == Done \/ \E r \in Requests :
  Arrive(r) \/ Refuse(r) \/ Ask(r) \/ AskFails(r) \/ Expire(r) \/ GiveUp(r) \/ Step(r)

\* Every exchange ends (the driver has a timeout of its own), as does every wait and every
\* request's time; the writes to a client end by WriteTimeout.
Fairness == \A r \in Requests :
  /\ WF_vars(Refuse(r)) /\ WF_vars(Ask(r) \/ AskFails(r)) /\ WF_vars(Expire(r)) /\ WF_vars(Step(r))

Spec == Init /\ [][Next]_vars
FairSpec == Spec /\ Fairness

-----------------------------------------------------------------------------
TypeOK ==
  /\ workload \in Workloads /\ slots \in Nat
  /\ phase \in [Requests -> {"new", "waiting", "handler", "returned", "refused"}]
  /\ held \in [Requests -> {"none", "held", "released"}]
  /\ kept \in [Requests -> BOOLEAN] /\ writing \in [Requests -> {"none", "open", "ended"}]
  /\ expired \in [Requests -> BOOLEAN] /\ answer \in [Requests -> Answers \cup {None}]
  /\ DOMAIN call = Requests /\ DOMAIN page = Requests /\ DOMAIN read = Requests

\* What len(g.slots) says is how many requests hold a slot, which is never more than there are; and
\* nobody waits while one is free.
SlotsCounted ==
  /\ slots = Cardinality(Holders) /\ slots <= Slots
  /\ Waiting # {} => slots = Slots

\* The directory is asked for a page only under a slot, in the handler and after it
\* (internal/api/limit.go:135).
AskedUnderSlot == \A r \in Requests : call[r] # None => held[r] = "held"

\* Whatever comes of the directory and the client, a request is answered or refused, and its slot
\* is free again.
EveryRequestEnds == \A r \in Requests :
  phase[r] # "new" ~> phase[r] = "refused" \/ (answer[r] # None /\ held[r] # "held")

\* What a request reads is what the directory has, from the first entry on: none twice, none left
\* out between two pages, and no more given than was asked for.
Gapless == \A r \in Requests :
  /\ \A i \in DOMAIN read[r] : read[r][i] = i
  /\ kind(r) \in Streams \cup {"inventory"} \/ answer[r] \in {"complete", "truncated"} => Len(read[r]) <= limit(r)

\* An answer that does not say that it is short is whole.  (Not of an export nor of an inventory.)
SaysWhenShort == \A r \in Requests :
  answer[r] = "complete" /\ gated(r) /\ kind(r) \notin {"export", "inventory"} =>
    Len(read[r]) = directory.matches

\* An export that says it is complete holds the whole subtree (internal/api/handlers.go:1483).
ExportComplete == \A r \in Requests :
  answer[r] = "complete" /\ kind(r) = "export" => Len(read[r]) = directory.matches
=============================================================================
