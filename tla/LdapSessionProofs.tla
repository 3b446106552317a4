-------------------------- MODULE LdapSessionProofs --------------------------
(***************************************************************************)
(* What a session with a directory guarantees, for any number of calls and *)
(* of connections: the calls that share its connections, and the readers   *)
(* that share its parsed schema.                                           *)
(***************************************************************************)
EXTENDS LdapSession, SchemaCache, TLAPS

USE SessionConstants DEF Links, Searchers, Callers

-----------------------------------------------------------------------------
(* The inductive invariant *)

Locked == {"ready", "bind", "await"}

\* Connect has come far enough for whoever is inside.
StageInv ==
  /\ \A p \in Callers \ {Connector} : pc[p] # "idle" => stage = "up"
  /\ stage = "dial" => pc[Connector] = "idle" /\ link["data"] = None
  /\ stage \notin {"dial", "failed"} => link["data"] # None
  /\ stage = "up" /\ second => link["config"] # None
  /\ stage \in {"cfgdial", "up", "failed"} => pc[Connector] \notin Locked \cup {"lock"}
  /\ stage \in {"dial", "rootdse", "cfgdial"} => link["config"] = None
  /\ closed => mu = None /\ stage \in {"up", "failed"}

\* Which connections there are: a link's carries the link's identity, one in hand is nobody
\* else's, and one that is open is in hand or in a link of a session that is not closed.
LinkInv ==
  /\ \A l \in Links : link[l] # None => line[link[l]] # "undialled" /\ ident[link[l]] = l
  /\ \A w \in Writes : \A c \in flight[w] : line[c] # "undialled" /\ ident[c] = connFor(w)
  /\ hand # None =>
       /\ line[hand] # "undialled"
       /\ \A l \in Links : link[l] # hand
       /\ \A w \in Writes : hand \notin flight[w]
  /\ NoStrayConnection

\* A change is sent once, and what is known of it agrees with what happened to it.
WriteInv ==
  \A w \in Writes :
    /\ pc[w] \notin {"await", "done", "failed"} => sent[w] = 0
    /\ sent[w] = 0 => flight[w] = {} /\ effect[w] = 0
    /\ sent[w] <= 1
    /\ flight[w] # {} => effect[w] = 0
    /\ \A c, d \in flight[w] : c = d
    /\ answer[w] # "none" => pc[w] = "await"
    /\ answer[w] = "ok" => effect[w] = 1
    /\ answer[w] = "no" => effect[w] = 0 /\ flight[w] = {}
    /\ pc[w] \notin {"done", "failed"} => report[w] = "none"
    /\ report[w] = "applied" => effect[w] = 1
    /\ report[w] = "refused" => effect[w] = 0 /\ flight[w] = {}

\* A search's request is sent again only when it is its first page and was sent once.
ReadInv ==
  /\ \A p \in Searchers :
       /\ pc[p] \in {"idle", "lock"} => sent[p] = 0
       /\ pc[p] \in {"ready", "bind"} => sent[p] = 0 \/ (sent[p] = 1 /\ cookie[p] = None)
       /\ sent[p] <= (IF cookie[p] # None THEN 1 ELSE 2)
  /\ sent[Closer] = 0

IInv == TypeOK /\ StageInv /\ LinkInv /\ WriteInv /\ ReadInv

\* Initially nothing is open and nothing was sent.
LEMMA InitInv == Init => IInv
<1> SUFFICES ASSUME Init PROVE IInv
  OBVIOUS
<1> USE DEF Init
<1>1. LockOK
  BY DEF LockOK
<1>6. TypeOK
  <2>1. broken \in [Links -> BOOLEAN] /\ pc \in [Callers -> {"idle", "lock", "ready", "bind", "await", "done", "failed"}]
    OBVIOUS
  <2>2. link \in [Links -> Conns \cup {None}] /\ ident \in [Conns -> Links \cup {None}]
    OBVIOUS
  <2>3. /\ line \in [Conns -> {"undialled", "open", "dropped", "shut"}]
        /\ cookie \in [Callers -> Conns \cup {None}]
    OBVIOUS
  <2>4. sent \in [Callers -> 0..2] /\ effect \in [Writes -> 0..1] /\ flight \in [Writes -> SUBSET Conns]
    OBVIOUS
  <2>5. /\ answer \in [Writes -> {"none", "ok", "no"}]
        /\ report \in [Callers -> {"none", "applied", "refused", "unknown"}]
    OBVIOUS
  <2>6. second \in BOOLEAN /\ closed \in BOOLEAN
    OBVIOUS
  <2> QED
    BY <1>1, <2>1, <2>2, <2>3, <2>4, <2>5, <2>6 DEF TypeOK
<1>2. StageInv
  BY DEF StageInv, Locked
<1>3. LinkInv
  BY DEF LinkInv, NoStrayConnection
<1>4. WriteInv
  BY DEF WriteInv
<1>5. ReadInv
  BY DEF ReadInv
<1> QED
  BY <1>2, <1>3, <1>4, <1>5, <1>6 DEF IInv

\* Opening a link, or failing to.
LEMMA OpenLinkInv ==
  ASSUME IInv, NEW l \in Links, OpenLink(l)
  PROVE  IInv'
<1> USE DEF IInv, TypeOK, LockOK, StageInv, Locked, Opening, server
<1>1. /\ UNCHANGED <<second, mu, broken, hand, sent, cookie, report, flight, answer, effect>>
      /\ mu = None /\ hand = None /\ ~closed
      /\ \A p \in Callers : pc[p] \notin Locked
  BY DEF OpenLink
<1>2. ASSUME NEW c \in Conns, line[c] = "undialled", line' = [line EXCEPT ![c] = "open"],
             ident' = [ident EXCEPT ![c] = l], link' = [link EXCEPT ![l] = c], ~closed',
             IF l = "data" THEN stage' = "rootdse" /\ pc' = [pc EXCEPT ![Connector] = "lock"]
             ELSE stage' = "up" /\ UNCHANGED pc
      PROVE  IInv'
  <2>1. TypeOK'
    BY <1>1, <1>2 DEF OpenLink, On, connFor
  <2>2. StageInv'
    BY <1>1, <1>2 DEF OpenLink
  <2>3. LinkInv'
    BY <1>1, <1>2 DEF OpenLink, LinkInv, NoStrayConnection, connFor
  <2>4. WriteInv' /\ ReadInv'
    BY <1>1, <1>2 DEF OpenLink, WriteInv, ReadInv
  <2> QED
    BY <2>1, <2>2, <2>3, <2>4
<1>3. ASSUME stage' = "failed", closed' = TRUE, line' = Shut({link["data"]}),
             UNCHANGED <<ident, link, pc>>
      PROVE  IInv'
  <2>1. TypeOK'
    BY <1>1, <1>3 DEF Shut, On, connFor
  <2>2. StageInv'
    BY <1>1, <1>3 DEF OpenLink
  <2>3. LinkInv'
    BY <1>1, <1>3 DEF OpenLink, LinkInv, NoStrayConnection, connFor, Shut
  <2>4. WriteInv' /\ ReadInv'
    BY <1>1, <1>3 DEF WriteInv, ReadInv
  <2> QED
    BY <2>1, <2>2, <2>3, <2>4
<1>4. \/ /\ \E c \in Conns :
              /\ line[c] = "undialled"
              /\ line' = [line EXCEPT ![c] = "open"]
              /\ ident' = [ident EXCEPT ![c] = l]
              /\ link' = [link EXCEPT ![l] = c]
         /\ IF l = "data" THEN stage' = "rootdse" /\ pc' = [pc EXCEPT ![Connector] = "lock"]
            ELSE stage' = "up" /\ UNCHANGED pc
         /\ ~closed'
      \/ /\ stage' = "failed" /\ closed' = TRUE /\ line' = Shut({link["data"]})
         /\ UNCHANGED <<ident, link, pc>>
  BY <1>1, Zenon DEF OpenLink
<1> QED
  BY <1>2, <1>3, <1>4

\* Connect after its first search.
LEMMA ReadRootDSEInv ==
  ASSUME IInv, ReadRootDSE
  PROVE  IInv'
<1> USE DEF IInv, TypeOK, LockOK, StageInv, Locked, calls, server
<1>1. /\ UNCHANGED <<second, mu, link, broken, hand, ident, pc, sent, cookie, report>>
      /\ UNCHANGED <<flight, answer, effect>>
      /\ stage = "rootdse" /\ mu = None /\ hand = None /\ ~closed
      /\ pc[Connector] \in {"done", "failed"} /\ link["config"] = None
  BY DEF ReadRootDSE
<1>2. CASE stage' # "failed"
  <2>1. UNCHANGED <<closed, line>> /\ stage' = (IF second THEN "cfgdial" ELSE "up")
    BY <1>2 DEF ReadRootDSE
  <2>2. TypeOK' /\ StageInv'
    BY <1>1, <2>1 DEF On, connFor
  <2>3. LinkInv' /\ WriteInv' /\ ReadInv'
    BY <1>1, <2>1 DEF LinkInv, NoStrayConnection, WriteInv, ReadInv, connFor
  <2> QED
    BY <2>2, <2>3
<1>3. CASE stage' = "failed"
  <2>1. closed' = TRUE /\ line' = Shut({link["data"]})
    BY <1>3 DEF ReadRootDSE
  <2>2. TypeOK' /\ StageInv'
    BY <1>1, <1>3, <2>1 DEF On, connFor, Shut
  <2>3. LinkInv' /\ WriteInv' /\ ReadInv'
    BY <1>1, <1>3, <2>1 DEF LinkInv, NoStrayConnection, WriteInv, ReadInv, connFor, Shut
  <2> QED
    BY <2>2, <2>3
<1> QED
  BY <1>2, <1>3

\* Closing the session.
LEMMA CloseInv ==
  ASSUME IInv, Close
  PROVE  IInv'
<1> USE DEF IInv, TypeOK, LockOK, StageInv, Locked, Close, Shut, Goto, Return, client, calls, network, server
<1>1. TypeOK'
  BY DEF WriteInv, ReadInv, LinkInv, On, connFor
<1>2. StageInv'
  BY DEF On, connFor
<1>3. LinkInv'
  BY DEF LinkInv, NoStrayConnection, On, connFor
<1>4. WriteInv'
  BY DEF WriteInv, ReadInv, On
<1>5. ReadInv'
  BY DEF ReadInv, On
<1> QED
  BY <1>1, <1>2, <1>3, <1>4, <1>5

\* A call that arrives.
LEMMA CallInv ==
  ASSUME IInv, NEW p \in Callers, Call(p)
  PROVE  IInv'
<1> USE DEF IInv, TypeOK, LockOK, StageInv, Locked, Call, Goto, Return, client, calls, network, server
<1>1. TypeOK'
  BY DEF WriteInv, ReadInv, LinkInv, On, connFor
<1>2. StageInv'
  BY DEF On, connFor
<1>3. LinkInv'
  BY DEF LinkInv, NoStrayConnection, On, connFor
<1>4. WriteInv'
  BY DEF WriteInv, ReadInv, On
<1>5. ReadInv'
  BY DEF ReadInv, On
<1> QED
  BY <1>1, <1>2, <1>3, <1>4, <1>5

\* A call that gets the lock.
LEMMA LockInv ==
  ASSUME IInv, NEW p \in Writes \cup Searchers, Lock(p)
  PROVE  IInv'
<1> USE DEF IInv, TypeOK, LockOK, StageInv, Locked, Lock, Fail, Goto, Return, client, calls, network, server
<1>1. TypeOK'
  BY DEF WriteInv, ReadInv, LinkInv, On, connFor
<1>2. StageInv'
  BY DEF On, connFor
<1>3. LinkInv'
  BY DEF LinkInv, NoStrayConnection, On, connFor
<1>4. WriteInv'
  BY DEF WriteInv, ReadInv, On
<1>5. ReadInv'
  BY DEF ReadInv, On
<1> QED
  BY <1>1, <1>2, <1>3, <1>4, <1>5

\* Dialling a replacement.
LEMMA RedialInv ==
  ASSUME IInv, NEW p \in Writes \cup Searchers, Redial(p)
  PROVE  IInv'
<1> USE DEF IInv, TypeOK, LockOK, StageInv, Locked, Redial, Fail, connFor, On, Goto, Return, client, calls, network, server
<1>1. TypeOK'
  BY DEF WriteInv, ReadInv, LinkInv, On, connFor
<1>2. StageInv'
  BY DEF On, connFor
<1>3. LinkInv'
  BY DEF LinkInv, NoStrayConnection, On, connFor
<1>4. WriteInv'
  BY DEF WriteInv, ReadInv, On
<1>5. ReadInv'
  BY DEF ReadInv, On
<1> QED
  BY <1>1, <1>2, <1>3, <1>4, <1>5

\* Binding a replacement.
LEMMA BindInv ==
  ASSUME IInv, NEW p \in Writes \cup Searchers, Bind(p)
  PROVE  IInv'
<1> USE DEF IInv, TypeOK, LockOK, StageInv, Locked, Bind, Fail, Identity, Shut, Goto, Return, client, calls, network, server
<1>1. TypeOK'
  <2>1. hand \in Conns /\ pc[p] = "bind" /\ mu = p /\ hand' = None
    BY DEF LinkInv
  <2>2. \A q \in Callers : q # p => pc[q] \notin Locked
    BY <2>1
  <2>3. CASE line[hand] = "open" /\ line' = Shut({On(p)})
                                 /\ ident' = [ident EXCEPT ![hand] = Identity(connFor(p))]
                                 /\ link' = [link EXCEPT ![connFor(p)] = hand]
                                 /\ broken' = [broken EXCEPT ![connFor(p)] = FALSE]
                                 /\ pc' = [pc EXCEPT ![p] = "ready"] /\ UNCHANGED <<mu, report>>
    BY <2>1, <2>2, <2>3 DEF On, connFor
  <2>4. CASE Fail(p, "refused") /\ line' = Shut({hand}) /\ UNCHANGED <<ident, link, broken>>
    BY <2>1, <2>2, <2>4 DEF On, connFor
  <2> QED
    BY <2>3, <2>4
<1>2. StageInv'
  BY DEF On, connFor
<1>3. LinkInv'
  BY DEF LinkInv, NoStrayConnection, On, connFor
<1>4. WriteInv'
  BY DEF WriteInv, ReadInv, On
<1>5. ReadInv'
  BY DEF ReadInv, On
<1> QED
  BY <1>1, <1>2, <1>3, <1>4, <1>5

\* A request going out.
LEMMA SendInv ==
  ASSUME IInv, NEW p \in Writes \cup Searchers, Send(p)
  PROVE  IInv'
<1> USE DEF IInv, TypeOK, LockOK, StageInv, Locked, Send, Fail, Goto, Return, client, calls, network, server
<1>1. TypeOK'
  BY DEF WriteInv, ReadInv, LinkInv, On, connFor
<1>2. StageInv'
  BY DEF On, connFor
<1>3. LinkInv'
  BY DEF LinkInv, NoStrayConnection, On, connFor
<1>4. WriteInv'
  BY DEF WriteInv, ReadInv, On
<1>5. ReadInv'
  BY DEF ReadInv, On
<1> QED
  BY <1>1, <1>2, <1>3, <1>4, <1>5

\* A connection lost under a request.
LEMMA LoseInv ==
  ASSUME IInv, NEW p \in Writes \cup Searchers, Lose(p)
  PROVE  IInv'
<1> USE DEF IInv, TypeOK, LockOK, StageInv, Locked, Lose, Fail, Forget, MayRepeat, WhenLost, Shut, Goto, Return, client, calls, network, server
<1>1. TypeOK'
  BY DEF WriteInv, ReadInv, LinkInv, On, connFor
<1>2. StageInv'
  BY DEF On, connFor
<1>3. LinkInv'
  BY DEF LinkInv, NoStrayConnection, On, connFor
<1>4. WriteInv'
  BY DEF WriteInv, ReadInv, On
<1>5. ReadInv'
  BY DEF ReadInv, On
<1> QED
  BY <1>1, <1>2, <1>3, <1>4, <1>5

\* A search answered.
LEMMA ReadAnsweredInv ==
  ASSUME IInv, NEW p \in Searchers, ReadAnswered(p)
  PROVE  IInv'
<1> USE DEF IInv, TypeOK, LockOK, StageInv, Locked, ReadAnswered, Fail, Goto, Return, client, calls, network, server
<1>1. TypeOK'
  BY DEF WriteInv, ReadInv, LinkInv, On, connFor
<1>2. StageInv'
  BY DEF On, connFor
<1>3. LinkInv'
  BY DEF LinkInv, NoStrayConnection, On, connFor
<1>4. WriteInv'
  BY DEF WriteInv, ReadInv, On
<1>5. ReadInv'
  BY DEF ReadInv, On
<1> QED
  BY <1>1, <1>2, <1>3, <1>4, <1>5

\* A change answered.
LEMMA WriteAnsweredInv ==
  ASSUME IInv, NEW w \in Writes, WriteAnswered(w)
  PROVE  IInv'
<1> USE DEF IInv, TypeOK, LockOK, StageInv, Locked, WriteAnswered, Fail, Forget, Goto, Return, client, calls, network, server
<1>1. TypeOK'
  BY DEF WriteInv, ReadInv, LinkInv, On, connFor
<1>2. StageInv'
  BY DEF On, connFor
<1>3. LinkInv'
  BY DEF LinkInv, NoStrayConnection, On, connFor
<1>4. WriteInv'
  BY DEF WriteInv, ReadInv, On
<1>5. ReadInv'
  BY DEF ReadInv, On
<1> QED
  BY <1>1, <1>2, <1>3, <1>4, <1>5

\* The directory dealing with a change.
LEMMA HandleInv ==
  ASSUME IInv, NEW w \in Writes, Handle(w)
  PROVE  IInv'
<1> USE DEF IInv, TypeOK, LockOK, StageInv, Locked, Handle, Answer, Goto, Return, client, calls, network, server
<1>1. TypeOK'
  BY DEF WriteInv, ReadInv, LinkInv, On, connFor
<1>2. StageInv'
  BY DEF On, connFor
<1>3. LinkInv'
  BY DEF LinkInv, NoStrayConnection, On, connFor
<1>4. WriteInv'
  BY DEF WriteInv, ReadInv, On
<1>5. ReadInv'
  BY DEF ReadInv, On
<1> QED
  BY <1>1, <1>2, <1>3, <1>4, <1>5

\* The network dropping a connection.
LEMMA DropInv ==
  ASSUME IInv, NEW c \in Conns, Drop(c)
  PROVE  IInv'
<1> USE DEF IInv, TypeOK, LockOK, StageInv, Locked, Drop, Goto, Return, client, calls, network, server
<1>1. TypeOK'
  BY DEF WriteInv, ReadInv, LinkInv, On, connFor
<1>2. StageInv'
  BY DEF On, connFor
<1>3. LinkInv'
  BY DEF LinkInv, NoStrayConnection, On, connFor
<1>4. WriteInv'
  BY DEF WriteInv, ReadInv, On
<1>5. ReadInv'
  BY DEF ReadInv, On
<1> QED
  BY <1>1, <1>2, <1>3, <1>4, <1>5

\* Every step keeps the invariant.
LEMMA NextInv == IInv /\ [Next]_vars => IInv'
<1> SUFFICES ASSUME IInv, [Next]_vars PROVE IInv'
  OBVIOUS
<1>1. ASSUME UNCHANGED vars PROVE IInv'
  BY <1>1 DEF IInv, TypeOK, LockOK, StageInv, LinkInv, NoStrayConnection, WriteInv, ReadInv, Locked,
              On, connFor, vars, client, calls, network, server
<1>2. ASSUME NEW p \in Writes \cup Searchers, Step(p) PROVE IInv'
  BY <1>2, LockInv, RedialInv, BindInv, SendInv, LoseInv DEF Step
<1> QED
  BY <1>1, <1>2, OpenLinkInv, ReadRootDSEInv, CloseInv, CallInv, ReadAnsweredInv, WriteAnsweredInv,
     HandleInv, DropInv DEF Next

\* The lock, the links and the connections are what the type invariant says.
THEOREM TypeCorrect == Spec => []TypeOK
<1>1. IInv => TypeOK
  BY DEF IInv
<1> QED
  BY <1>1, InitInv, NextInv, PTL DEF Spec

\* No change, and no later page of a search, is ever sent twice.
THEOREM NeverSentAgain == Spec => []NeverRepeated
<1>1. IInv => NeverRepeated
  BY DEF IInv, NeverRepeated, WriteInv, ReadInv, TypeOK
<1> QED
  BY <1>1, InitInv, NextInv, PTL DEF Spec

\* Every request is made, and every change carried out, under the identity of its tree.
THEOREM IdentityKept == Spec => []OwnIdentity
<1>1. IInv => OwnIdentity
  BY DEF IInv, OwnIdentity, LinkInv, TypeOK, LockOK, On, connFor
<1> QED
  BY <1>1, InitInv, NextInv, PTL DEF Spec

\* An open connection is in a link or in hand, and a closed session has none.
THEOREM NoConnectionStrays == Spec => []NoStrayConnection
<1>1. IInv => NoStrayConnection
  BY DEF IInv, LinkInv
<1> QED
  BY <1>1, InitInv, NextInv, PTL DEF Spec

-----------------------------------------------------------------------------
(* The contract *)

\* r is a true report of the change p.
Truthful(p, r) ==
  \/ r = "unknown"
  \/ r = "refused" /\ effect[p] = 0
  \/ r = "applied" /\ effect[p] = 1

\* Telling a caller what the directory did with its change is a step of the contract, and telling
\* the caller of a search anything is none.
LEMMA ReportStep ==
  ASSUME IInv, NEW p \in Callers, NEW r, UNCHANGED effect,
         report' = [report EXCEPT ![p] = r],
         p \in Writes => report[p] = "none" /\ Truthful(p, r)
  PROVE  [Contract!Next]_(Contract!contract)
<1>1. \A w \in Writes : report'[w] = IF w = p THEN r ELSE report[w]
  BY DEF IInv, TypeOK
<1>2. CASE p \notin Writes
  BY <1>1, <1>2 DEF Contract!contract
<1>3. CASE p \in Writes
  <2>1. [w \in Writes |-> report'[w]] = [[w \in Writes |-> report[w]] EXCEPT ![p] = r]
    BY <1>1, <1>3
  <2> QED
    BY <1>3, <2>1 DEF Contract!Next, Contract!Report, Truthful
<1> QED
  BY <1>2, <1>3

\* A step that leaves the directory alone and reports nothing is none of the contract's.
LEMMA QuietStep ==
  ASSUME UNCHANGED <<effect, report>>
  PROVE  [Contract!Next]_(Contract!contract)
  BY DEF Contract!contract

\* A call that fails before its request went out, or whose request was lost.
LEMMA FailStep ==
  ASSUME IInv, NEW p \in Callers, NEW r, Fail(p, r), UNCHANGED effect,
         p \in Writes => \/ pc[p] \in {"lock", "ready", "bind"} /\ r = "refused"
                         \/ pc[p] = "await" /\ r = "unknown"
                         \/ pc[p] = "await" /\ r = "refused" /\ effect[p] = 0
  PROVE  [Contract!Next]_(Contract!contract)
<1>1. report' = [report EXCEPT ![p] = r]
  BY DEF Fail
<1>2. p \in Writes => report[p] = "none" /\ Truthful(p, r)
  BY DEF IInv, WriteInv, Truthful
<1> QED
  BY <1>1, <1>2, ReportStep

\* A change the directory still has in hand, and carries out, was not carried out before and not
\* reported refused.
LEMMA HandleStep ==
  ASSUME IInv, NEW w \in Writes, Handle(w)
  PROVE  [Contract!Next]_(Contract!contract)
<1>1. UNCHANGED report
  BY DEF Handle, calls
<1>2. CASE UNCHANGED effect
  BY <1>1, <1>2, QuietStep
<1>3. CASE effect' = [effect EXCEPT ![w] = @ + 1]
  <2>1. effect[w] = 0 /\ report[w] \in {"none", "unknown"}
    BY DEF Handle, IInv, TypeOK, WriteInv
  <2>2. effect' = [effect EXCEPT ![w] = 1]
    BY <1>3, <2>1 DEF IInv, TypeOK
  <2> QED
    BY <1>1, <2>1, <2>2 DEF Contract!Next, Contract!Happen
<1> QED
  BY <1>2, <1>3 DEF Handle

LEMMA ContractInit == Init => Contract!Init
  BY DEF Init, Contract!Init

\* Every step of the session is a step of the contract, or changes nothing the contract speaks of.
LEMMA ContractNext == IInv /\ [Next]_vars => [Contract!Next]_(Contract!contract)
<1> SUFFICES ASSUME IInv, [Next]_vars PROVE [Contract!Next]_(Contract!contract)
  OBVIOUS
<1>1. ASSUME NEW l \in Links, OpenLink(l) PROVE [Contract!Next]_(Contract!contract)
  BY <1>1, QuietStep DEF OpenLink, server
<1>2. CASE ReadRootDSE \/ Close
  BY <1>2, QuietStep DEF ReadRootDSE, Close, calls, server
<1>3. ASSUME NEW p \in Callers, Call(p) PROVE [Contract!Next]_(Contract!contract)
  BY <1>3, QuietStep DEF Call, server
<1>4. ASSUME NEW p \in Writes \cup Searchers, Step(p) PROVE [Contract!Next]_(Contract!contract)
  <2>1. CASE Lock(p)
    BY <2>1, QuietStep, FailStep DEF Lock, server
  <2>2. CASE Redial(p)
    BY <2>2, QuietStep, FailStep DEF Redial, server
  <2>3. CASE Bind(p)
    BY <2>3, QuietStep, FailStep DEF Bind, server
  <2>4. CASE Send(p)
    BY <2>4, QuietStep, FailStep DEF Send
  <2>5. CASE Lose(p)
    BY <2>5, QuietStep, FailStep DEF Lose, WhenLost
  <2> QED
    BY <1>4, <2>1, <2>2, <2>3, <2>4, <2>5 DEF Step
<1>5. ASSUME NEW p \in Searchers, ReadAnswered(p) PROVE [Contract!Next]_(Contract!contract)
  BY <1>5, QuietStep, FailStep DEF ReadAnswered, server
<1>6. ASSUME NEW w \in Writes, WriteAnswered(w) PROVE [Contract!Next]_(Contract!contract)
  <2>1. CASE answer[w] = "ok" /\ report' = [report EXCEPT ![w] = "applied"]
    <3>1. report[w] = "none" /\ effect[w] = 1
      BY <1>6, <2>1 DEF WriteAnswered, IInv, WriteInv
    <3> QED
      BY <1>6, <2>1, <3>1, ReportStep DEF WriteAnswered, Truthful
  <2>2. CASE answer[w] = "no" /\ Fail(w, "refused")
    <3>1. pc[w] = "await" /\ effect[w] = 0
      BY <1>6, <2>2 DEF WriteAnswered, IInv, WriteInv
    <3> QED
      BY <1>6, <2>2, <3>1, FailStep DEF WriteAnswered
  <2> QED
    BY <1>6, <2>1, <2>2 DEF WriteAnswered
<1>7. ASSUME NEW c \in Conns, Drop(c) PROVE [Contract!Next]_(Contract!contract)
  BY <1>7, QuietStep DEF Drop, calls, server
<1>8. CASE UNCHANGED vars
  BY <1>8, QuietStep DEF vars, calls, server
<1> QED
  BY <1>1, <1>2, <1>3, <1>4, <1>5, <1>6, <1>7, <1>8, HandleStep DEF Next

\* The session keeps the driver's contract: a change reaches the directory at most once, and
\* whatever Apply reports of it is true and stays true.
THEOREM SessionKeepsContract == Spec => ImplementsContract
  BY InitInv, NextInv, ContractInit, ContractNext, PTL DEF Spec, ImplementsContract, Contract!Spec

-----------------------------------------------------------------------------
(* The schema cache: its inductive invariant *)

HIDE SessionConstants DEF Links, Searchers, Callers
USE SchemaCacheConstants DEF Gens, Fresh, Ran

\* A generation is there for every change and refresh that was begun.
Room ==
  /\ begun \in Nat /\ begun <= MaxGens
  /\ holder = Nil => gen <= begun
  /\ holder # Nil => gen + 1 <= begun

\* Whoever runs a generation is the caller that took it, and loads.
Running ==
  /\ \A c \in Goroutines : mine[c] <= gen
  /\ \A c \in Goroutines : at[c] \in {"loading", "loaded"} => once[mine[c]] = c
  /\ \A g \in Gens : \A c \in Goroutines :
       once[g] = c => g = mine[c] /\ at[c] \in {"loading", "loaded"}

\* Nothing exceeds what the directory publishes.
Bounded ==
  /\ own <= version
  /\ \A c \in Goroutines : floor[c] <= version
  /\ \A c \in Goroutines : at[c] = "applied" => got[c] \in Nat /\ got[c] <= version

\* What is cached, and what a load of the current generation is about to cache, is at least own
\* and every floor.  A floor is set to own, which both already are at least, or to version by a
\* refresh, which begins a new generation; own moves with a new generation too.
AtLeast(v) == v >= own /\ \A c \in Goroutines : v >= floor[c]
CachedNow == cache \in Nat => AtLeast(cache)
LoadedNow == \A c \in Goroutines :
  at[c] = "loaded" /\ mine[c] = gen /\ got[c] \in Nat => AtLeast(got[c])

CacheInv == CacheTypeOK /\ Room /\ Running /\ Bounded /\ CachedNow /\ LoadedNow

\* Initially nothing is cached and every floor is 0.
LEMMA CacheInitInv == CacheInit => CacheInv
<1> SUFFICES ASSUME CacheInit PROVE CacheInv
  OBVIOUS
<1>1. CacheTypeOK
  BY DEF CacheInit, CacheTypeOK
<1>2. Room /\ Running /\ Bounded /\ CachedNow /\ LoadedNow
  BY DEF CacheInit, Room, Running, Bounded, CachedNow, LoadedNow
<1> QED
  BY <1>1, <1>2 DEF CacheInv

\* A caller takes a generation, which changes nothing of what is cached.
LEMMA SchemaInv == ASSUME CacheInv, NEW c \in Goroutines, Schema(c) PROVE CacheInv'
<1> USE DEF CacheInv, Schema
<1>1. CacheTypeOK'
  <2>1. /\ at' \in [Goroutines -> {"idle", "refreshing", "once", "loading", "loaded", "last", "applied"}]
        /\ mine' \in [Goroutines -> Nat] /\ floor' \in [Goroutines -> Nat]
    BY DEF CacheTypeOK
  <2>2. \A d \in Goroutines : d # c => at'[d] = at[d]
    BY DEF CacheTypeOK
  <2>3. at[c] \in {"idle", "refreshing"} /\ at'[c] = "once"
    BY DEF CacheTypeOK
  <2> QED BY <2>1, <2>2, <2>3 DEF CacheTypeOK
<1>2. Room'
  BY DEF Room
<1>3. Running'
  BY DEF Running, CacheTypeOK
<1>4. Bounded'
  BY DEF Bounded, CacheTypeOK
<1>5. \A v \in Nat : AtLeast(v) => AtLeast(v)'
  BY DEF AtLeast, CacheTypeOK
<1>6. CachedNow' /\ LoadedNow'
  BY <1>5 DEF CachedNow, LoadedNow, CacheTypeOK
<1> QED
  BY <1>1, <1>2, <1>3, <1>4, <1>6

\* A refresh raises its floor to version, and begins a generation nobody has loaded.
LEMMA RefreshInv == ASSUME CacheInv, NEW c \in Goroutines, RefreshSchema(c) PROVE CacheInv'
<1> USE DEF CacheInv, RefreshSchema, invalidateSchema
<1>1. CacheTypeOK'
  BY DEF CacheTypeOK
<1>2. Room'
  BY DEF Room, CacheTypeOK
<1>3. Running'
  BY DEF Running, CacheTypeOK
<1>4. Bounded'
  BY DEF Bounded, CacheTypeOK
<1>5. CachedNow' /\ LoadedNow'
  BY DEF CachedNow, LoadedNow, Running, CacheTypeOK
<1> QED
  BY <1>1, <1>2, <1>3, <1>4, <1>5

\* The first caller of a generation runs it, and the others find that it has run.
LEMMA DoInv == ASSUME CacheInv, NEW c \in Goroutines, Do(c) PROVE CacheInv'
<1> USE DEF CacheInv, Do
<1>1. mine[c] \in Gens
  BY DEF Running, Room, CacheTypeOK
<1>2. Running' /\ CacheTypeOK'
  <2>1. CASE /\ once[mine[c]] = "fresh"
             /\ once' = [once EXCEPT ![mine[c]] = c] /\ at' = [at EXCEPT ![c] = "loading"]
    <3>1. \A d \in Goroutines \ {c} : at[d] \in {"loading", "loaded"} => mine[d] # mine[c]
      BY <2>1 DEF Running
    <3>2. \A g \in Gens : once[g] # c
      BY DEF Running
    <3>3. once' \in [Gens -> {"fresh", "ran"} \cup Goroutines]
      BY <2>1, <1>1 DEF CacheTypeOK
    <3>4. \A g \in Gens : once'[g] = (IF g = mine[c] THEN c ELSE once[g])
      BY <2>1 DEF CacheTypeOK
    <3>5. \A d \in Goroutines : at'[d] = (IF d = c THEN "loading" ELSE at[d])
      BY <2>1 DEF CacheTypeOK
    <3>6. Running'
      BY <1>1, <3>1, <3>2, <3>4, <3>5 DEF Running, CacheTypeOK, Room
    <3>7. \A d \in Goroutines : at'[d] \in {"loading", "loaded"} => mine[d] \in Gens
      BY <1>1, <3>5, <3>6 DEF Running, CacheTypeOK, Room
    <3> QED
      BY <2>1, <3>3, <3>5, <3>6, <3>7 DEF CacheTypeOK, Running
  <2>2. CASE once[mine[c]] = "ran" /\ at' = [at EXCEPT ![c] = "last"] /\ UNCHANGED once
    <3>1. Running'
      BY <2>2 DEF Running, CacheTypeOK
    <3> QED
      BY <2>2, <3>1 DEF CacheTypeOK, Running
  <2> QED
    BY <2>1, <2>2
<1>3. Room' /\ Bounded'
  BY DEF Room, Bounded, CacheTypeOK
<1>4. CachedNow' /\ LoadedNow'
  BY DEF CachedNow, LoadedNow, AtLeast, CacheTypeOK
<1> QED
  BY <1>2, <1>3, <1>4

\* A load reads what the directory publishes, which nothing exceeds.
LEMMA LoadInv == ASSUME CacheInv, NEW c \in Goroutines, loadSchema(c) PROVE CacheInv'
<1> USE DEF CacheInv, loadSchema
<1>1. CacheTypeOK'
  BY DEF CacheTypeOK
<1>2. Room' /\ Running'
  BY DEF Room, Running, CacheTypeOK
<1>3. Bounded'
  BY DEF Bounded, CacheTypeOK
<1>4. AtLeast(version)
  BY DEF AtLeast, Bounded, CacheTypeOK
<1>5. CachedNow'
  BY DEF CachedNow, AtLeast
<1>6. LoadedNow'
  BY <1>4 DEF LoadedNow, AtLeast, CacheTypeOK
<1> QED
  BY <1>1, <1>2, <1>3, <1>5, <1>6

\* A load is cached only as the current generation's.
LEMMA StoreInv == ASSUME CacheInv, NEW c \in Goroutines, Store(c) PROVE CacheInv'
<1> USE DEF CacheInv, Store
<1>1. mine[c] \in Gens
  BY DEF Running, Room, CacheTypeOK
<1>2. Running'
  BY <1>1 DEF Running, CacheTypeOK
<1>3. CacheTypeOK'
  BY <1>1, <1>2 DEF CacheTypeOK, Running
<1>4. Room' /\ Bounded'
  BY DEF Room, Bounded, CacheTypeOK
<1>5. CachedNow' /\ LoadedNow'
  BY DEF CachedNow, LoadedNow, AtLeast, CacheTypeOK
<1> QED
  BY <1>2, <1>3, <1>4, <1>5

\* A call that returns takes its floor with it.
LEMMA ReturnInv == ASSUME CacheInv, NEW c \in Goroutines, ReturnSchema(c) PROVE CacheInv'
<1> USE DEF CacheInv, ReturnSchema
<1>1. Running'
  BY DEF Running, CacheTypeOK
<1>2. CacheTypeOK'
  BY DEF CacheTypeOK
<1>3. Room' /\ Bounded'
  BY DEF Room, Bounded, CacheTypeOK
<1>4. \A v \in Nat : AtLeast(v) => AtLeast(v)'
  BY DEF AtLeast, CacheTypeOK
<1>5. CachedNow' /\ LoadedNow'
  BY <1>4 DEF CachedNow, LoadedNow, CacheTypeOK
<1> QED
  BY <1>1, <1>2, <1>3, <1>5

\* A change is taken on by the directory, and while session.mu is held nothing else is.
LEMMA ApplyInv == ASSUME CacheInv, NEW c \in Goroutines, Apply(c) PROVE CacheInv'
<1> USE DEF CacheInv, Apply
<1>1. CacheTypeOK'
  BY DEF CacheTypeOK
<1>2. Room' /\ Running'
  BY DEF Room, Running, CacheTypeOK
<1>3. Bounded'
  BY DEF Bounded, CacheTypeOK
<1>4. CachedNow' /\ LoadedNow'
  BY DEF CachedNow, LoadedNow, AtLeast, CacheTypeOK
<1> QED
  BY <1>1, <1>2, <1>3, <1>4

\* A change that succeeded raises own, and begins a generation nobody has loaded.
LEMMA AppliedInv == ASSUME CacheInv, NEW c \in Goroutines, Applied(c) PROVE CacheInv'
<1> USE DEF CacheInv, Applied, invalidateSchema
<1>1. CacheTypeOK'
  BY DEF CacheTypeOK, Bounded
<1>2. Room' /\ Running'
  BY DEF Room, Running, CacheTypeOK
<1>3. Bounded'
  BY DEF Bounded, CacheTypeOK
<1>4. CachedNow' /\ LoadedNow'
  BY DEF CachedNow, LoadedNow, Running, CacheTypeOK
<1> QED
  BY <1>1, <1>2, <1>3, <1>4

\* A change whose answer is lost leaves the cache, and own, as they were.
LEMMA InterruptedInv == ASSUME CacheInv, NEW c \in Goroutines, Interrupted(c) PROVE CacheInv'
<1> USE DEF CacheInv, Interrupted
<1>1. CacheTypeOK'
  BY DEF CacheTypeOK
<1>2. Room' /\ Running'
  BY DEF Room, Running, CacheTypeOK
<1>3. Bounded'
  BY DEF Bounded, CacheTypeOK
<1>4. CachedNow' /\ LoadedNow'
  BY DEF CachedNow, LoadedNow, AtLeast, CacheTypeOK
<1> QED
  BY <1>1, <1>2, <1>3, <1>4

\* Somebody else's change raises only what the directory publishes.
LEMMA OtherInv == ASSUME CacheInv, Other PROVE CacheInv'
<1> USE DEF CacheInv, Other
<1>1. CacheTypeOK' /\ Room' /\ Running'
  BY DEF CacheTypeOK, Room, Running
<1>2. Bounded'
  BY DEF Bounded, CacheTypeOK
<1>3. CachedNow' /\ LoadedNow'
  BY DEF CachedNow, LoadedNow, AtLeast
<1> QED
  BY <1>1, <1>2, <1>3

\* Every step keeps the invariant.
LEMMA CacheNextInv == CacheInv /\ [CacheNext]_cacheVars => CacheInv'
<1> SUFFICES ASSUME CacheInv, [CacheNext]_cacheVars PROVE CacheInv'
  OBVIOUS
<1>1. ASSUME NEW c \in Goroutines, CallStep(c) PROVE CacheInv'
  BY <1>1, SchemaInv, RefreshInv, DoInv, LoadInv, StoreInv, ReturnInv, ApplyInv, AppliedInv,
     InterruptedInv DEF CallStep
<1>2. CASE UNCHANGED cacheVars
  BY <1>2 DEF cacheVars, CacheInv, CacheTypeOK, Room, Running, Bounded, CachedNow, LoadedNow, AtLeast
<1> QED
  BY <1>1, <1>2, OtherInv DEF CacheNext

-----------------------------------------------------------------------------
\* CacheTypeOK of every reachable state, for any callers and bounds.
THEOREM CacheTypeCorrect == CacheSpec => []CacheTypeOK
<1>1. CacheInv => CacheTypeOK
  BY DEF CacheInv
<1> QED
  BY <1>1, CacheInitInv, CacheNextInv, PTL DEF CacheSpec

\* CacheFresh: no reader is handed a schema older than the last change reported to it, nor a
\* refresh one older than itself, however loads, refreshes and changes overtake each other.
THEOREM NeverStale == CacheSpec => CacheFresh
<1>1. CacheInv => \A c \in Goroutines : cache \in Nat => cache >= floor[c]
  BY DEF CacheInv, CachedNow, AtLeast
<1>2. CacheInv /\ [CacheNext]_cacheVars => [\A c \in Goroutines : Returns(c) /\ cache \in Nat => cache >= floor[c]]_cacheVars
  BY <1>1
<1> QED
  BY <1>2, CacheInitInv, CacheNextInv, PTL DEF CacheSpec, CacheFresh
=============================================================================
