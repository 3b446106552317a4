----------------------------- MODULE LdapSession -----------------------------
(***************************************************************************)
(* internal/directory/ldapdriver: one session with a directory, the one or *)
(* two connections it holds, and how it survives losing them.  Connect     *)
(* builds the session; after that goroutines of the server call a read or  *)
(* a write on it at once, and Close may come at any time.  session.mu lets *)
(* one of them through; the network drops connections, answers come late   *)
(* or not at all, and the directory may carry out a change whose answer    *)
(* nobody is waiting for any more.                                         *)
(***************************************************************************)
EXTENDS Integers, FiniteSets

CONSTANTS
  Writes,      \* calls of Apply, each with one change
  Reads,       \* calls of Search; a search here has at most two pages
  ConfigOps,   \* the calls whose DN is in the configuration tree
  Connector,   \* the goroutine in Driver.Connect
  Closer,      \* the goroutine that closes the session
  Conns,       \* bound: every connection there can be
  None

Links == {"data", "config"}
Searchers == Reads \cup {Connector}
Callers == Writes \cup Searchers \cup {Closer}

ASSUME SessionConstants ==
  /\ Writes \cap Searchers = {} /\ Connector \notin Reads
  /\ Closer \notin Writes \cup Searchers
  /\ ConfigOps \subseteq Writes \cup Reads
  /\ None \notin Conns \cup Callers

VARIABLES
  second,   \* whether the operator gave a configuration identity (cfg.ConfigBindDN)
  stage,    \* how far Connect has come
  closed,   \* session.closed
  mu,       \* who holds session.mu
  link,     \* link.conn of each link
  broken,   \* link.broken
  line,     \* each connection: undialled, open, dropped by the network, or shut by Alder
  ident,    \* the link whose identity each connection is bound as
  pc,       \* where each call is
  hand,     \* a connection a call has dialled and not put into its link yet
  sent,     \* how often the request a call is making has been sent
  cookie,   \* the connection that issued the paging cookie a search continues with
  flight,   \* of each change, the connections it was sent on and the directory may still act on
  answer,   \* the directory's answer to a change, while it is waited for
  effect,   \* how often the directory has carried each change out
  report    \* the error a call returned, and of a change that it was applied

client == <<second, stage, closed, mu, link, broken, hand>>
calls == <<pc, sent, cookie, report>>
network == <<line, ident>>
server == <<flight, answer, effect>>
vars == <<client, calls, network, server>>

Init ==
  /\ second \in BOOLEAN
  /\ stage = "dial"
  /\ closed = FALSE
  /\ mu = None
  /\ link = [l \in Links |-> None]
  /\ broken = [l \in Links |-> FALSE]
  /\ line = [c \in Conns |-> "undialled"]
  /\ ident = [c \in Conns |-> None]
  /\ pc = [p \in Callers |-> "idle"]
  /\ hand = None
  /\ sent = [p \in Callers |-> 0]
  /\ cookie = [p \in Callers |-> None]
  /\ flight = [w \in Writes |-> {}]
  /\ answer = [w \in Writes |-> "none"]
  /\ effect = [w \in Writes |-> 0]
  /\ report = [p \in Callers |-> "none"]

\* connFor: the configuration connection for its tree, when there is one.
connFor(p) == IF p \in ConfigOps /\ second THEN "config" ELSE "data"

On(p) == link[connFor(p)]
Shut(S) == [c \in Conns |-> IF c \in S THEN "shut" ELSE line[c]]
Usable(l) == link[l] # None /\ ~broken[l]

-----------------------------------------------------------------------------
(* Connect: the first link, the RootDSE through it, the second link *)

Opening(l) == stage = (IF l = "data" THEN "dial" ELSE "cfgdial")

\* The first dial of a link and its bind.  When either fails nothing is left of it, and what the
\* session already holds is closed.
OpenLink(l) ==
  /\ Opening(l)
  /\ \/ /\ \E c \in Conns :
             /\ line[c] = "undialled"
             /\ line' = [line EXCEPT ![c] = "open"]
             /\ ident' = [ident EXCEPT ![c] = l]
             /\ link' = [link EXCEPT ![l] = c]
        /\ IF l = "data"
           THEN stage' = "rootdse" /\ pc' = [pc EXCEPT ![Connector] = "lock"]
           ELSE stage' = "up" /\ UNCHANGED pc
        /\ UNCHANGED closed
     \/ /\ stage' = "failed" /\ closed' = TRUE
        /\ line' = Shut({link["data"]})
        /\ UNCHANGED <<ident, link, pc>>
  /\ UNCHANGED <<second, mu, broken, hand, sent, cookie, report, server>>

\* Connect goes on when the RootDSE was read, and closes the session when it was not.  It closes
\* it through the session: the search may have replaced the connection it began with.
ReadRootDSE ==
  /\ stage = "rootdse"
  /\ \/ pc[Connector] = "done" /\ stage' = (IF second THEN "cfgdial" ELSE "up")
        /\ UNCHANGED <<closed, line>>
     \/ pc[Connector] = "failed" /\ stage' = "failed" /\ closed' = TRUE
        /\ line' = Shut({link["data"]})
  /\ UNCHANGED <<second, mu, link, broken, hand, ident, calls, server>>

-----------------------------------------------------------------------------
(* The lock *)

Goto(p, l) == pc' = [pc EXCEPT ![p] = l]

\* p returns, and its deferred Unlock runs.
Return(p, l) == Goto(p, l) /\ mu' = None

\* Mutated form: a failure returns without unlocking.
FailHolding(p, outcome) ==
  /\ Goto(p, "failed") /\ UNCHANGED mu
  /\ report' = [report EXCEPT ![p] = outcome]

\* p returns an error; a change is reported refused, or its outcome unknown.
Fail(p, outcome) ==
  /\ Return(p, "failed")
  /\ report' = [report EXCEPT ![p] = outcome]

Call(p) ==
  /\ p # Connector /\ stage = "up" /\ pc[p] = "idle"
  /\ Goto(p, "lock")
  /\ UNCHANGED <<client, network, server, sent, cookie, report>>

\* With the lock: the session may be closed, and the request's context cancelled.
Lock(p) ==
  /\ p # Closer /\ pc[p] = "lock" /\ mu = None
  /\ \/ ~closed /\ Goto(p, "ready") /\ mu' = p /\ UNCHANGED report
     \/ Fail(p, "refused")
  /\ UNCHANGED <<second, stage, closed, link, broken, hand, network, server, sent, cookie>>

\* Mutated form: the configuration connection is left open.
CloseData ==
  /\ pc[Closer] = "lock" /\ mu = None
  /\ Return(Closer, "done")
  /\ closed' = TRUE
  /\ line' = Shut({link["data"]})
  /\ UNCHANGED <<second, stage, link, broken, hand, ident, server, sent, cookie, report>>

\* Close: both connections, under the lock.
Close ==
  /\ pc[Closer] = "lock" /\ mu = None
  /\ Return(Closer, "done")
  /\ closed' = TRUE
  /\ line' = Shut({link[l] : l \in Links})
  /\ UNCHANGED <<second, stage, link, broken, hand, ident, server, sent, cookie, report>>

-----------------------------------------------------------------------------
(* ready and revive: a broken link is rebuilt before anything is sent on it *)

Redial(p) ==
  /\ pc[p] = "ready" /\ broken[connFor(p)]
  /\ \/ \E c \in Conns :
          /\ line[c] = "undialled"
          /\ line' = [line EXCEPT ![c] = "open"]
          /\ hand' = c
        /\ Goto(p, "bind")
        /\ UNCHANGED <<mu, report>>
     \/ Fail(p, "refused") /\ UNCHANGED <<line, hand>>
  /\ UNCHANGED <<second, stage, closed, link, broken, ident, server, sent, cookie>>

\* Mutated form: a rebuilt connection is bound as the session's own identity, whatever the link.
BindAs(l) == "data"

\* link.bind: a rebuilt connection is bound as its link's identity.
Identity(l) == l

\* The bind puts the new connection in its link, or fails and the connection is closed.
Bind(p) ==
  /\ pc[p] = "bind"
  /\ hand' = None
  /\ \/ /\ line[hand] = "open"
        /\ ident' = [ident EXCEPT ![hand] = Identity(connFor(p))]
        /\ link' = [link EXCEPT ![connFor(p)] = hand]
        /\ broken' = [broken EXCEPT ![connFor(p)] = FALSE]
        /\ line' = Shut({On(p)})
        /\ Goto(p, "ready")
        /\ UNCHANGED <<mu, report>>
     \/ /\ Fail(p, "refused")
        /\ line' = Shut({hand})
        /\ UNCHANGED <<ident, link, broken>>
  /\ UNCHANGED <<second, stage, closed, server, sent, cookie>>

-----------------------------------------------------------------------------
(* One request and its answer *)

\* The request goes out; on a connection the network has dropped it reaches nobody.  A password
\* change the server does not offer is refused here.
Send(p) ==
  /\ pc[p] = "ready" /\ ~broken[connFor(p)]
  /\ \/ /\ Goto(p, "await")
        /\ sent' = [sent EXCEPT ![p] = @ + 1]
        /\ flight' = IF p \in Writes /\ line[On(p)] = "open"
                     THEN [flight EXCEPT ![p] = @ \cup {On(p)}] ELSE flight
        /\ UNCHANGED <<mu, report>>
     \/ p \in Writes /\ Fail(p, "refused") /\ UNCHANGED <<sent, flight>>
  /\ UNCHANGED <<second, stage, closed, link, broken, hand, network, answer, effect, cookie>>

Forget(p) == answer' = [w \in Writes |-> IF w = p THEN "none" ELSE answer[w]]

\* The directory answers a change on a working connection: done, or refused.
WriteAnswered(w) ==
  /\ pc[w] = "await"
  /\ \/ /\ answer[w] = "ok"
        /\ Return(w, "done")
        /\ report' = [report EXCEPT ![w] = "applied"]
     \/ /\ answer[w] = "no" /\ line[On(w)] = "open"
        /\ Fail(w, "refused")
  /\ Forget(w)
  /\ UNCHANGED <<second, stage, closed, link, broken, hand, network, flight, effect, sent, cookie>>

\* The directory answers a search: no, or the last page, or a page and a cookie for the next,
\* which is asked for under a lock of its own.
ReadAnswered(p) ==
  /\ pc[p] = "await" /\ line[On(p)] = "open"
  /\ \/ Fail(p, "refused") /\ UNCHANGED <<sent, cookie>>
     \/ Return(p, "done") /\ UNCHANGED <<sent, cookie, report>>
     \/ /\ p \in Reads /\ cookie[p] = None
        /\ Return(p, "lock")
        /\ cookie' = [cookie EXCEPT ![p] = On(p)]
        /\ sent' = [sent EXCEPT ![p] = 0]
        /\ UNCHANGED report
  /\ UNCHANGED <<second, stage, closed, link, broken, hand, network, server>>

\* Mutated form: a later page is treated like a first one.
MayRepeatPages(p) == p \in Searchers /\ sent[p] = 1

\* Only the first page of a search may be sent again, once.
MayRepeat(p) == p \in Searchers /\ cookie[p] = None /\ sent[p] = 1

\* Mutated form: what is lost is taken for refused.
WhenLostRefused(p) == "refused"

\* What is reported of a request whose connection failed under it.
WhenLost(p) == IF p \in Writes THEN "unknown" ELSE "refused"

\* The connection fails with the request out: the network dropped it (even an answer that says no
\* is not believed then), no answer came in time, or the stream is out of step.  The link is
\* marked broken and its connection closed.  Only what was not out of step may be sent again.
Lose(p) ==
  /\ pc[p] = "await"
  /\ broken' = [broken EXCEPT ![connFor(p)] = TRUE]
  /\ line' = Shut({On(p)})
  /\ Forget(p)
  /\ \/ MayRepeat(p) /\ Goto(p, "ready") /\ UNCHANGED <<mu, report>>
     \/ /\ MayRepeat(p) => line[On(p)] = "open"
        /\ Fail(p, WhenLost(p))
  /\ UNCHANGED <<second, stage, closed, link, hand, ident, flight, effect, sent, cookie>>

-----------------------------------------------------------------------------
(* The network and the directory *)

Drop(c) ==
  /\ line[c] = "open"
  /\ line' = [line EXCEPT ![c] = "dropped"]
  /\ UNCHANGED <<client, calls, ident, server>>

\* The answer reaches Alder only on the connection it is waiting on.
Answer(w, c, a) ==
  answer' = IF pc[w] = "await" /\ c = On(w) /\ line[c] = "open"
            THEN [answer EXCEPT ![w] = a] ELSE answer

\* The directory deals with a change it has received, however late, or never sees it.
Handle(w) ==
  /\ \E c \in flight[w] :
       /\ flight' = [flight EXCEPT ![w] = @ \ {c}]
       /\ \/ effect' = [effect EXCEPT ![w] = @ + 1] /\ Answer(w, c, "ok")
          \/ UNCHANGED effect /\ Answer(w, c, "no")
          \/ line[c] # "open" /\ UNCHANGED <<effect, answer>>
  /\ UNCHANGED <<client, calls, network>>

-----------------------------------------------------------------------------
Step(p) == Lock(p) \/ Redial(p) \/ Bind(p) \/ Send(p) \/ Lose(p)

Next ==
  \/ \E l \in Links : OpenLink(l)
  \/ ReadRootDSE \/ Close
  \/ \E p \in Callers : Call(p)
  \/ \E p \in Writes \cup Searchers : Step(p)
  \/ \E p \in Searchers : ReadAnswered(p)
  \/ \E w \in Writes : WriteAnswered(w) \/ Handle(w)
  \/ \E c \in Conns : Drop(c)

Spec == Init /\ [][Next]_vars

\* A goroutine goes on, and the timeout of a connection ends a wait that nothing else ends.
\* sync.Mutex lets in everybody who waits; the network and the directory owe nothing.
FairSpec ==
  /\ Spec
  /\ \A p \in Writes \cup Searchers : WF_vars(Step(p))
  /\ WF_vars(Close)

-----------------------------------------------------------------------------
(* Properties *)

\* Who holds the lock is where it says, and a connection in hand is being bound.
LockOK ==
  /\ \A p \in Callers : mu = p <=> pc[p] \in {"ready", "bind", "await"}
  /\ hand # None <=> \E p \in Callers : pc[p] = "bind"
  /\ \A p \in Callers : pc[p] = "await" => ~broken[connFor(p)]
  /\ \A p \in Callers : pc[p] \in {"ready", "bind", "await"} => On(p) # None

\* The type invariant.
TypeOK ==
  /\ second \in BOOLEAN /\ closed \in BOOLEAN
  /\ stage \in {"dial", "rootdse", "cfgdial", "up", "failed"}
  /\ mu \in Callers \cup {None}
  /\ link \in [Links -> Conns \cup {None}]
  /\ broken \in [Links -> BOOLEAN]
  /\ line \in [Conns -> {"undialled", "open", "dropped", "shut"}]
  /\ ident \in [Conns -> Links \cup {None}]
  /\ pc \in [Callers -> {"idle", "lock", "ready", "bind", "await", "done", "failed"}]
  /\ hand \in Conns \cup {None}
  /\ sent \in [Callers -> 0..2]
  /\ cookie \in [Callers -> Conns \cup {None}]
  /\ flight \in [Writes -> SUBSET Conns]
  /\ answer \in [Writes -> {"none", "ok", "no"}]
  /\ effect \in [Writes -> 0..1]
  /\ report \in [Callers -> {"none", "applied", "refused", "unknown"}]
  /\ LockOK

\* "A change that was already sent is never sent again", and neither is a later page of a search;
\* a first page is sent twice at most.
NeverRepeated ==
  \A p \in Callers : sent[p] <= (IF p \in Writes \/ cookie[p] # None THEN 1 ELSE 2)

\* The two identities are different rights: whatever was lost and reopened on the way, every
\* request is out, and every change reaches the directory, under the identity of its tree.
OwnIdentity ==
  /\ \A p \in Callers : pc[p] = "await" => ident[On(p)] = connFor(p)
  /\ \A w \in Writes : \A c \in flight[w] : ident[c] = connFor(w)

\* No connection is left open without somebody to close it: it is a link's, or being bound, and
\* after the session was closed, or could not be opened, there is none.
NoStrayConnection ==
  \A c \in Conns : line[c] = "open" =>
    /\ c = hand \/ \E l \in Links : link[l] = c
    /\ ~closed

\* The session keeps the contract of directory.Driver about changes.
Contract == INSTANCE WriteContract WITH
  effect <- effect,
  report <- [w \in Writes |-> report[w]]
ImplementsContract == Contract!Spec

\* No call waits for ever: whatever the network loses, the lock comes free and the call returns.
EveryCallReturns ==
  \A p \in Callers \ {Connector} : pc[p] = "lock" ~> pc[p] \in {"done", "failed"}
=============================================================================
