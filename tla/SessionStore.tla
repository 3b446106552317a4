---------------------------- MODULE SessionStore ----------------------------
(***************************************************************************)
(* internal/session/session.go and the handlers of internal/api that use   *)
(* it: the live directory sessions of one Alder process, the reference     *)
(* server a session may hold besides, the limit on both, the sweeper that  *)
(* expires them, and Store.Close at shutdown.                              *)
(*                                                                         *)
(* A step is one critical section of Store.mu or Session.mu, or one call   *)
(* on a connection, so requests, the sweeper and shutdown interleave where *)
(* the code lets go of a lock.  Where several sections run one after the   *)
(* other without a lock held between them they are separate steps.         *)
(*                                                                         *)
(* A session is its ID (newID draws 256 random bits and never repeats), and *)
(* its own directory connection is named by the same ID.                   *)
(***************************************************************************)
EXTENDS Integers, FiniteSets

CONSTANTS
  Sess,          \* session IDs
  Refs,          \* connections dialled to reference servers
  Requests,      \* HTTP requests
  Sweeper,       \* the goroutine that calls reap every sweepInterval
  Closer,        \* the goroutine that shuts the server down
  None,
  Limit,         \* --max-sessions: zero or less is no limit
  IdleTimeout,
  MaxLifetime,
  MaxTime        \* bound: the clock stops here

Conns == Sess \cup Refs
Procs == Requests \cup {Sweeper, Closer}

ASSUME StoreConstants ==
  /\ Limit \in Int /\ IdleTimeout \in Nat /\ MaxLifetime \in Nat /\ MaxTime \in Nat
  /\ Sess \cap Refs = {} /\ None \notin Conns
  /\ Sweeper \notin Requests /\ Closer \notin Requests /\ Sweeper # Closer
  /\ Procs \cap Conns = {}

VARIABLES
  now,       \* time.Now()
  store,     \* the keys of Store.sessions
  phase,     \* of each session: not stored yet, live, or closed with its passwords cleared
  used,      \* Session.lastUsed
  born,      \* Session.CreatedAt
  ref,       \* Session.reference
  conn,      \* of each connection: undialled, open or closed
  server,    \* cmd/alder/serve.go: serving, draining (no new requests), closing (Store.Close ran)
  pc,        \* what each process does next
  then,      \* where it goes when the store has room (FullReplacing), or what it does after Get
  after,     \* where it goes when it has removed and closed all it has to
  target,    \* the session ID its cookie names
  fresh,     \* a connection it has dialled and not handed over yet
  todo,      \* session IDs it has still to remove
  hands      \* connections it has taken out and has still to close

shared == <<now, store, phase, used, born, ref, conn, server>>
local == <<pc, then, after, target, fresh, todo, hands>>
vars == <<shared, local>>

-----------------------------------------------------------------------------
(* Counting and expiry *)

Own(s) == IF ref[s] = None THEN 1 ELSE 2

\* Store.connections: one per session and one per reference.
Connections == Cardinality(store) + Cardinality({s \in store : ref[s] # None})

\* Store.fullLocked.
FullFor(replacing) ==
  /\ Limit > 0
  /\ Connections - (IF replacing \in store THEN Own(replacing) ELSE 0) >= Limit

Expired(s) == now - used[s] > IdleTimeout \/ now - born[s] > MaxLifetime
Dead(s) == phase[s] = "closed" \/ Expired(s)

-----------------------------------------------------------------------------
Init ==
  /\ now = 0
  /\ store = {}
  /\ phase = [s \in Sess |-> "new"]
  /\ used = [s \in Sess |-> 0]
  /\ born = [s \in Sess |-> 0]
  /\ ref = [s \in Sess |-> None]
  /\ conn = [c \in Conns |-> "undialled"]
  /\ server = "serving"
  /\ pc = [p \in Procs |-> "idle"]
  /\ then = [p \in Procs |-> "idle"]
  /\ after = [p \in Procs |-> "idle"]
  /\ target = [p \in Procs |-> None]
  /\ fresh = [p \in Procs |-> None]
  /\ todo = [p \in Procs |-> {}]
  /\ hands = [p \in Procs |-> {}]

Goto(p, l) == pc' = [pc EXCEPT ![p] = l]

\* The request is answered and its goroutine forgets everything.
Finish(p) ==
  /\ Goto(p, "idle")
  /\ then' = [then EXCEPT ![p] = "idle"]
  /\ after' = [after EXCEPT ![p] = "idle"]
  /\ target' = [target EXCEPT ![p] = None]

\* From here p removes the sessions ids and closes everything in conns.
Remove(p, ids, conns, next) ==
  /\ Goto(p, "removing")
  /\ after' = [after EXCEPT ![p] = next]
  /\ todo' = [todo EXCEPT ![p] = ids]
  /\ hands' = [hands EXCEPT ![p] = conns]

-----------------------------------------------------------------------------
(* Requests arrive.  A cookie may name any session ever handed out. *)

Cookies == {s \in Sess : phase[s] # "new"}

StartConnect(p) ==
  /\ server = "serving" /\ pc[p] = "idle"
  /\ \E id \in Cookies \cup {None} : target' = [target EXCEPT ![p] = id]
  /\ Goto(p, "full")
  /\ then' = [then EXCEPT ![p] = "dial"]
  /\ UNCHANGED <<shared, after, fresh, todo, hands>>

\* DeleteSession: Store.Remove of whatever the cookie names.
StartDisconnect(p) ==
  /\ server = "serving" /\ pc[p] = "idle"
  /\ \E id \in Cookies : Remove(p, {id}, {}, "idle")
  /\ UNCHANGED <<shared, then, target, fresh>>

\* Every other handler but CreateSession begins with Store.Get: the lookup under Store.mu,
\* and then (Check) the expiry under the session's own mutex.  A lookup that finds nothing
\* answers 401 and changes nothing.
StartUse(p) ==
  /\ server = "serving" /\ pc[p] = "idle"
  /\ \E id \in store : target' = [target EXCEPT ![p] = id]
  /\ \E op \in {"idle", "dialRef", "detach"} : then' = [then EXCEPT ![p] = op]
  /\ Goto(p, "check")
  /\ UNCHANGED <<shared, after, fresh, todo, hands>>

Proceed(p) ==
  CASE then[p] = "detach" -> Goto(p, "detach") /\ UNCHANGED <<then, after, target>>
    [] then[p] = "dialRef" /\ ref[target[p]] = None ->
         Goto(p, "full") /\ UNCHANGED <<then, after, target>>
    [] OTHER -> Finish(p)

\* Mutated form: the session is marked used before its expiry is looked at.
CheckUnguarded(p) ==
  /\ pc[p] = "check"
  /\ used' = [used EXCEPT ![target[p]] = now]
  /\ Proceed(p)
  /\ UNCHANGED <<now, store, phase, born, ref, conn, server, fresh, todo, hands>>

\* An attach looks at Reference() straight after Get returned, under the same mutex.
Check(p) ==
  /\ pc[p] = "check"
  /\ \/ /\ Dead(target[p])
        /\ Remove(p, {target[p]}, {}, "idle")
        /\ UNCHANGED <<used, then, target>>
     \/ /\ ~Dead(target[p])
        /\ used' = [used EXCEPT ![target[p]] = now]
        /\ Proceed(p)
        /\ UNCHANGED <<todo, hands>>
  /\ UNCHANGED <<now, store, phase, born, ref, conn, server, fresh>>

-----------------------------------------------------------------------------
(* FullReplacing: look, reap, look again. *)

Replacing(p) == IF then[p] \in {"dial", "insert"} THEN target[p] ELSE None

\* The store refuses p (ErrFull and the rest): the connection it dialled is p's to close.
Refuse(p) ==
  /\ fresh' = [fresh EXCEPT ![p] = None]
  /\ Remove(p, {}, {fresh[p]} \ {None}, "idle")

\* reap reads the clock and collects the expired sessions under one read lock.  The
\* verdicts on the sessions are independent, so collecting them is one step.
Full(p) ==
  /\ pc[p] = "full"
  /\ IF FullFor(Replacing(p))
     THEN Remove(p, {s \in store : Dead(s)}, {}, "refull")
     ELSE Goto(p, then[p]) /\ UNCHANGED <<after, todo, hands>>
  /\ UNCHANGED <<shared, then, target, fresh>>

Refull(p) ==
  /\ pc[p] = "refull"
  /\ \/ FullFor(Replacing(p)) /\ Refuse(p)
     \/ /\ ~FullFor(Replacing(p))
        /\ Goto(p, then[p])
        /\ UNCHANGED <<after, todo, hands, fresh>>
  /\ UNCHANGED <<shared, then, target>>

-----------------------------------------------------------------------------
(* Connecting *)

\* driver.Connect, for a session or for a reference: it fails, or a connection is open.
Dial(p) ==
  /\ pc[p] \in {"dial", "dialRef"}
  /\ \/ Finish(p) /\ UNCHANGED <<conn, fresh>>
     \/ /\ \E c \in (IF pc[p] = "dial" THEN Sess ELSE Refs) :
             /\ conn[c] = "undialled"
             /\ conn' = [conn EXCEPT ![c] = "open"]
             /\ fresh' = [fresh EXCEPT ![p] = c]
        /\ then' = [then EXCEPT ![p] = IF pc[p] = "dial" THEN "insert" ELSE "attach"]
        /\ Goto(p, "full")
        /\ UNCHANGED <<after, target>>
  /\ UNCHANGED <<now, store, phase, used, born, ref, server, todo, hands>>

Store(p) ==
  /\ store' = (store \ {target[p]}) \cup {fresh[p]}
  /\ phase' = [phase EXCEPT ![fresh[p]] = "live"]
  /\ used' = [used EXCEPT ![fresh[p]] = now]
  /\ born' = [born EXCEPT ![fresh[p]] = now]
  /\ fresh' = [fresh EXCEPT ![p] = None]
  /\ Remove(p, {}, {target[p]} \cap store, "idle")

\* AddReplacing's locked section: the limit again, the new session in, the old one out.
Insert(p) ==
  /\ pc[p] = "insert"
  /\ \/ /\ FullFor(target[p])
        /\ Refuse(p)
        /\ UNCHANGED <<store, phase, used, born>>
     \/ ~FullFor(target[p]) /\ Store(p)
  /\ UNCHANGED <<now, ref, conn, server, then, target>>

\* Mutated form: a reference attached meanwhile is not looked for again under the lock.
AttachUnchecked(p) ==
  /\ pc[p] = "attach"
  /\ \/ /\ target[p] \notin store \/ FullFor(None)
        /\ Refuse(p)
        /\ UNCHANGED <<ref, then, target>>
     \/ /\ target[p] \in store /\ ~FullFor(None)
        /\ ref' = [ref EXCEPT ![target[p]] = fresh[p]]
        /\ fresh' = [fresh EXCEPT ![p] = None]
        /\ Finish(p)
        /\ UNCHANGED <<todo, hands>>
  /\ UNCHANGED <<now, store, phase, used, born, conn, server>>

\* Mutated form: the room Full reported before the dial is trusted under the lock.
AttachUncounted(p) ==
  /\ pc[p] = "attach"
  /\ \/ /\ target[p] \notin store \/ ref[target[p]] # None
        /\ Refuse(p)
        /\ UNCHANGED <<ref, then, target>>
     \/ /\ target[p] \in store /\ ref[target[p]] = None
        /\ ref' = [ref EXCEPT ![target[p]] = fresh[p]]
        /\ fresh' = [fresh EXCEPT ![p] = None]
        /\ Finish(p)
        /\ UNCHANGED <<todo, hands>>
  /\ UNCHANGED <<now, store, phase, used, born, conn, server>>

\* AttachReference's locked section: the session still stored, no reference yet, room for one.
CanAttach(p) ==
  /\ target[p] \in store
  /\ phase[target[p]] # "closed"
  /\ ref[target[p]] = None
  /\ ~FullFor(None)

Attach(p) ==
  /\ pc[p] = "attach"
  /\ \/ /\ ~CanAttach(p)
        /\ Refuse(p)
        /\ UNCHANGED <<ref, then, target>>
     \/ /\ CanAttach(p)
        /\ ref' = [ref EXCEPT ![target[p]] = fresh[p]]
        /\ fresh' = [fresh EXCEPT ![p] = None]
        /\ Finish(p)
        /\ UNCHANGED <<todo, hands>>
  /\ UNCHANGED <<now, store, phase, used, born, conn, server>>

\* Mutated form: the reference is closed without being taken off its session.
DetachKept(p) ==
  /\ pc[p] = "detach"
  /\ Remove(p, {}, {ref[target[p]]} \ {None}, "idle")
  /\ UNCHANGED <<shared, then, target, fresh>>

\* DetachReference takes the reference off the session; whoever takes it closes it.
Detach(p) ==
  /\ pc[p] = "detach"
  /\ ref' = [ref EXCEPT ![target[p]] = None]
  /\ Remove(p, {}, {ref[target[p]]} \ {None}, "idle")
  /\ UNCHANGED <<now, store, phase, used, born, conn, server, then, target, fresh>>

-----------------------------------------------------------------------------
(* Removing and closing *)

Holding(p) == pc[p] = "removing" /\ hands[p] # {}

\* Mutated form: the session leaves the map and nothing closes it.
TakeForgotten(p) ==
  /\ pc[p] = "removing" /\ hands[p] = {}
  /\ \E s \in todo[p] :
       /\ todo' = [todo EXCEPT ![p] = @ \ {s}]
       /\ store' = store \ {s}
  /\ UNCHANGED <<now, phase, used, born, ref, conn, server,
                 pc, then, after, target, fresh, hands>>

\* Store.remove: one session out of the map, if it is still there.
Take(p) ==
  /\ pc[p] = "removing" /\ hands[p] = {}
  /\ \E s \in todo[p] :
       /\ todo' = [todo EXCEPT ![p] = @ \ {s}]
       /\ store' = store \ {s}
       /\ hands' = [hands EXCEPT ![p] = {s} \cap store]
  /\ UNCHANGED <<now, phase, used, born, ref, conn, server, pc, then, after, target, fresh>>

\* closeSession under the session's mutex: closed, passwords cleared, reference taken off.  Nothing
\* reads the times of a closed session, and here they are forgotten.
CloseSession(p) ==
  /\ Holding(p)
  /\ \E s \in hands[p] \cap Sess :
       /\ phase[s] = "live"
       /\ phase' = [phase EXCEPT ![s] = "closed"]
       /\ hands' = [hands EXCEPT ![p] = @ \cup ({ref[s]} \ {None})]
       /\ ref' = [ref EXCEPT ![s] = None]
       /\ used' = [used EXCEPT ![s] = 0]
       /\ born' = [born EXCEPT ![s] = 0]
  /\ UNCHANGED <<now, store, conn, server,
                 pc, then, after, target, fresh, todo>>

\* closeReference, then Conn.Close: a session's reference is closed before the session's own
\* connection, and neither before the session is marked closed.
CloseConn(p) ==
  /\ Holding(p)
  /\ \A s \in hands[p] \cap Sess : phase[s] # "live"
  /\ \E c \in hands[p] :
       /\ c \in Sess => hands[p] \cap Refs = {}
       /\ conn' = [conn EXCEPT ![c] = "closed"]
       /\ hands' = [hands EXCEPT ![p] = @ \ {c}]
  /\ UNCHANGED <<now, store, phase, used, born, ref, server,
                 pc, then, after, target, fresh, todo>>

Return(p) ==
  /\ pc[p] = "removing" /\ hands[p] = {} /\ todo[p] = {}
  /\ \/ after[p] = "idle" /\ Finish(p)
     \/ after[p] = "refull" /\ Goto(p, "refull") /\ UNCHANGED <<then, after, target>>
  /\ UNCHANGED <<shared, fresh, todo, hands>>

-----------------------------------------------------------------------------
(* The sweeper, shutdown and the clock *)

\* Mutated form: the sweeper looks at the age of a session and not at its idleness.
SweepByAge ==
  /\ server # "closing" /\ pc[Sweeper] = "idle"
  /\ \E s \in store : now - born[s] > MaxLifetime
  /\ Remove(Sweeper, {s \in store : now - born[s] > MaxLifetime}, {}, "idle")
  /\ UNCHANGED <<shared, then, target, fresh>>

\* One tick of the sweeper that finds something: reap.
Sweep ==
  /\ server # "closing" /\ pc[Sweeper] = "idle"
  /\ \E s \in store : Dead(s)
  /\ Remove(Sweeper, {s \in store : Dead(s)}, {}, "idle")
  /\ UNCHANGED <<shared, then, target, fresh>>

\* app.ShutdownWithTimeout: no request starts from here on.
Drain ==
  /\ server = "serving"
  /\ server' = "draining"
  /\ UNCHANGED <<now, store, phase, used, born, ref, conn, local>>

\* Store.Close, once the requests have drained or the timeout has passed with some still running:
\* the sweeper is stopped and the sessions held at this moment are removed.
Close ==
  /\ server = "draining" /\ pc[Closer] = "idle"
  /\ server' = "closing"
  /\ Remove(Closer, store, {}, "idle")
  /\ UNCHANGED <<now, store, phase, used, born, ref, conn, then, target, fresh>>

Tick ==
  /\ now < MaxTime
  /\ now' = now + 1
  /\ UNCHANGED <<store, phase, used, born, ref, conn, server, local>>

Start(p) == StartConnect(p) \/ StartDisconnect(p) \/ StartUse(p)
Serve(p) ==
  \/ Check(p) \/ Full(p) \/ Refull(p) \/ Dial(p)
  \/ Insert(p) \/ Attach(p) \/ Detach(p)
Cleanup(p) == Take(p) \/ CloseSession(p) \/ CloseConn(p) \/ Return(p)

Next ==
  \/ \E p \in Requests : Start(p) \/ Serve(p)
  \/ \E p \in Procs : Cleanup(p)
  \/ Sweep \/ Drain \/ Close \/ Tick

Spec == Init /\ [][Next]_vars

\* A goroutine that can go on goes on, a dial ends one way or the other, and the
\* sweeper's ticker keeps ticking.  Nobody has to send a request, and nobody has to
\* shut the server down.
FairSpec ==
  /\ Spec
  /\ \A p \in Requests : WF_vars(Serve(p))
  /\ \A p \in Procs : WF_vars(Cleanup(p))
  /\ WF_vars(Sweep)

-----------------------------------------------------------------------------
(* Properties *)

Labels == {"idle", "check", "full", "refull", "dial", "dialRef", "insert",
           "attach", "detach", "removing"}

\* Where p is inside FullReplacing, or has just come out of it with room to go on.
AskingForRoom(p) ==
  \/ pc[p] \in {"full", "refull", "insert", "attach"}
  \/ pc[p] = "removing" /\ after[p] = "refull"

\* What a process carries at each of its labels.
StageOK ==
  \A p \in Procs :
    /\ pc[p] # "removing" => hands[p] = {} /\ todo[p] = {}
    /\ pc[p] \in {"dial", "dialRef", "insert", "attach", "detach"} => then[p] = pc[p]
    /\ pc[p] \in {"check", "dialRef", "detach", "attach"} => target[p] \in Sess
    /\ ~AskingForRoom(p) => fresh[p] = None
    /\ AskingForRoom(p) =>
         \/ then[p] \in {"dial", "dialRef"} /\ fresh[p] = None
         \/ then[p] = "insert" /\ fresh[p] \in Sess
         \/ then[p] = "attach" /\ fresh[p] \in Refs
    /\ AskingForRoom(p) /\ then[p] \in {"dialRef", "attach"} => target[p] \in Sess

\* The type invariant: what each variable holds.
TypeOK ==
  /\ now \in 0..MaxTime
  /\ store \in SUBSET Sess
  /\ phase \in [Sess -> {"new", "live", "closed"}]
  /\ used \in [Sess -> 0..MaxTime] /\ born \in [Sess -> 0..MaxTime]
  /\ ref \in [Sess -> Refs \cup {None}]
  /\ conn \in [Conns -> {"undialled", "open", "closed"}]
  /\ server \in {"serving", "draining", "closing"}
  /\ pc \in [Procs -> Labels] /\ then \in [Procs -> Labels]
  /\ after \in [Procs -> {"idle", "refull"}]
  /\ target \in [Procs -> Sess \cup {None}]
  /\ fresh \in [Procs -> Conns \cup {None}]
  /\ todo \in [Procs -> SUBSET Sess] /\ hands \in [Procs -> SUBSET Conns]
  /\ StageOK

\* Whatever requests connect, reconnect with one cookie and attach at once, the store
\* never holds more directory connections than --max-sessions allows.
LimitHeld == Limit <= 0 \/ Connections <= Limit

\* o owns the connection c: c is the stored session o's own, or the reference of the session
\* o, or a goroutine o carries it, to hand it over or to close it.
Owns(o, c) ==
  \/ o \in store /\ o = c
  \/ o \in Sess /\ ref[o] = c
  \/ o \in Procs /\ (fresh[o] = c \/ c \in hands[o])

\* Every open connection belongs to exactly one owner, and a closed one to nobody: an open
\* one without an owner would never be closed, one with two would be closed while the other
\* still uses it.
OneOwner ==
  /\ \A c \in Conns : conn[c] = "open" <=> \E o \in Sess \cup Procs : Owns(o, c)
  /\ \A c \in Conns : \A o1, o2 \in Sess \cup Procs : Owns(o1, c) /\ Owns(o2, c) => o1 = o2

\* A reference never outlives its session: a closed session has none, and only a session that
\* is stored or about to be closed by the goroutine that took it out has one.
ReferenceDiesWithSession ==
  \A s \in Sess : ref[s] # None =>
    /\ phase[s] = "live"
    /\ s \in store \/ \E p \in Procs : s \in hands[p]

\* A session that reap has marked is still expired when it is taken out: a request that arrives
\* in between cannot bring it back to life and then lose it.
MarkedStaysExpired ==
  \A p \in Procs : p = Sweeper \/ after[p] = "refull" =>
    \A s \in todo[p] \cap store : Dead(s)

HeldConns == store \cup ({ref[s] : s \in store} \ {None})

\* The store implements the ledger an operator reasons with.
Ledger == INSTANCE ConnectionLedger WITH
  open <- {c \in Conns : conn[c] = "open"},
  held <- HeldConns,
  gone <- {c \in Conns : conn[c] = "closed"}
ImplementsLedger == Ledger!Spec

\* A connection outside the store does not stay outside it: it is handed over, or closed.
NoConnectionLeaks ==
  \A c \in Conns :
    (conn[c] = "open" /\ c \notin HeldConns) ~> (conn[c] = "closed" \/ c \in HeldConns)

\* A session nobody uses is closed, with nobody asking for it.
ExpiredSessionsClose ==
  \A s \in Sess : (s \in store /\ Expired(s)) ~> (conn[s] = "closed" \/ server = "closing")
=============================================================================
