------------------------- MODULE SessionStoreProofs -------------------------
(* Proofs about SessionStore, for every number of requests, sessions and   *)
(* references, every limit and every timeout.                              *)
EXTENDS SessionStore, FiniteSetTheorems, TLAPS

USE StoreConstants DEF Conns, Procs, Labels

-----------------------------------------------------------------------------
(* The type invariant *)

\* The initial state is well typed.
LEMMA InitTypeOK == Init => TypeOK
  BY DEF Init, TypeOK, StageOK, AskingForRoom

\* A step of any process keeps every variable, and what each process carries, well typed.
LEMMA NextTypeOK == TypeOK /\ [Next]_vars => TypeOK'
<1> SUFFICES ASSUME TypeOK, [Next]_vars PROVE TypeOK'
  OBVIOUS
<1> USE DEF TypeOK, StageOK, AskingForRoom, shared, local, Goto, Finish, Remove
<1>1. ASSUME NEW p \in Requests, StartConnect(p) PROVE TypeOK'
  BY <1>1 DEF StartConnect, Cookies
<1>2. ASSUME NEW p \in Requests, StartDisconnect(p) PROVE TypeOK'
  BY <1>2 DEF StartDisconnect, Cookies
<1>3. ASSUME NEW p \in Requests, StartUse(p) PROVE TypeOK'
  BY <1>3 DEF StartUse
<1>4. ASSUME NEW p \in Requests, Check(p) PROVE TypeOK'
  BY <1>4 DEF Check, Proceed
<1>5. ASSUME NEW p \in Requests, Full(p) PROVE TypeOK'
  BY <1>5 DEF Full
<1>6. ASSUME NEW p \in Requests, Refull(p) PROVE TypeOK'
  BY <1>6 DEF Refull, Refuse
<1>7. ASSUME NEW p \in Requests, Dial(p) PROVE TypeOK'
  BY <1>7 DEF Dial
<1>8. ASSUME NEW p \in Requests, Insert(p) PROVE TypeOK'
  BY <1>8 DEF Insert, Refuse, Store
<1>9. ASSUME NEW p \in Requests, Attach(p) PROVE TypeOK'
  BY <1>9 DEF Attach, Refuse, CanAttach
<1>10. ASSUME NEW p \in Requests, Detach(p) PROVE TypeOK'
  BY <1>10 DEF Detach
<1>11. ASSUME NEW p \in Procs, Take(p) PROVE TypeOK'
  BY <1>11 DEF Take
<1>12. ASSUME NEW p \in Procs, CloseSession(p) PROVE TypeOK'
  BY <1>12 DEF CloseSession, Holding
<1>13. ASSUME NEW p \in Procs, CloseConn(p) PROVE TypeOK'
  BY <1>13 DEF CloseConn, Holding
<1>14. ASSUME NEW p \in Procs, Return(p) PROVE TypeOK'
  BY <1>14 DEF Return
<1>15. CASE Sweep
  BY <1>15 DEF Sweep
<1>16. CASE Drain
  BY <1>16 DEF Drain
<1>17. CASE Close
  BY <1>17 DEF Close
<1>18. CASE Tick
  BY <1>18 DEF Tick
<1>19. CASE UNCHANGED vars
  BY <1>19 DEF vars
<1> QED
  BY <1>1, <1>2, <1>3, <1>4, <1>5, <1>6, <1>7, <1>8, <1>9, <1>10, <1>11, <1>12, <1>13, <1>14, <1>15, <1>16, <1>17, <1>18, <1>19 DEF Next, Start, Serve, Cleanup

\* Every reachable state is well typed.
THEOREM TypeCorrect == Spec => []TypeOK
  BY InitTypeOK, NextTypeOK, PTL DEF Spec
-----------------------------------------------------------------------------
(* Ownership *)

\* What makes ownership inductive: a stored session is live, one not dialled, or dialled and not
\* stored yet, is new, and a goroutine never carries the connection it hopes to hand over among
\* those it has to close.
Ownership ==
  /\ OneOwner
  /\ ReferenceDiesWithSession
  /\ \A s \in store : phase[s] = "live"
  /\ \A s \in Sess : conn[s] = "undialled" => phase[s] = "new"
  /\ \A p \in Procs : fresh[p] \in Sess => phase[fresh[p]] = "new"
  /\ \A p \in Procs : fresh[p] \in Conns => fresh[p] \notin hands[p]

Owners == Sess \cup Procs

\* A step that moves no connection keeps ownership.
LEMMA OwnershipFrame ==
  ASSUME Ownership, UNCHANGED <<store, phase, ref, conn, fresh, hands>>
  PROVE  Ownership'
  BY DEF Ownership, OneOwner, ReferenceDiesWithSession, Owns

\* A step that hands the open connections D to the owners to[d], and leaves every other
\* connection where it is, keeps every connection with one owner.
LEMMA Handover ==
  ASSUME OneOwner, UNCHANGED conn,
         NEW D \in SUBSET Conns, NEW to \in [D -> Owners],
         \A d \in D : conn[d] = "open",
         \A o \in Owners, c \in Conns :
           Owns(o, c)' <=> (IF c \in D THEN o = to[c] ELSE Owns(o, c))
  PROVE  OneOwner'
<1>1. \A c \in Conns : conn'[c] = "open" <=> \E o \in Owners : Owns(o, c)'
  <2> TAKE c \in Conns
  <2>1. CASE c \in D
    BY <2>1 DEF Owners
  <2>2. CASE c \notin D
    BY <2>2 DEF OneOwner, Owners
  <2> QED
    BY <2>1, <2>2
<1>2. \A c \in Conns : \A o1, o2 \in Owners : Owns(o1, c)' /\ Owns(o2, c)' => o1 = o2
  <2> TAKE c \in Conns
  <2>1. CASE c \in D
    BY <2>1 DEF Owners
  <2>2. CASE c \notin D
    BY <2>2 DEF OneOwner, Owners
  <2> QED
    BY <2>1, <2>2
<1> QED
  BY <1>1, <1>2 DEF OneOwner, Owners

\* Refusing p moves the connection it dialled from its fresh ones to those it closes.
LEMMA RefuseOwnership ==
  ASSUME TypeOK, Ownership, NEW p \in Procs, Refuse(p), pc[p] # "removing",
         UNCHANGED <<store, phase, ref, conn>>
  PROVE  Ownership'
<1>1. /\ \A q \in Procs : fresh'[q] = IF q = p THEN None ELSE fresh[q]
      /\ \A q \in Procs : hands'[q] = IF q = p THEN {fresh[p]} \ {None} ELSE hands[q]
      /\ hands[p] = {}
  BY DEF Refuse, Remove, TypeOK, StageOK
<1>2. \A o \in Owners, c \in Conns : Owns(o, c)' <=> Owns(o, c)
  BY <1>1 DEF Owns, Owners
<1>3. OneOwner'
  BY <1>2 DEF Ownership, OneOwner, Owners
<1>4. ReferenceDiesWithSession'
  BY <1>1 DEF Ownership, ReferenceDiesWithSession
<1> QED
  BY <1>1, <1>3, <1>4 DEF Ownership

LEMMA DialOwnership ==
  ASSUME TypeOK, Ownership, NEW p \in Requests, Dial(p)
  PROVE  Ownership'
<1>1. CASE UNCHANGED <<conn, fresh>>
  BY <1>1, OwnershipFrame DEF Dial
<1>2. ASSUME NEW c \in Conns, conn[c] = "undialled",
             conn' = [conn EXCEPT ![c] = "open"], fresh' = [fresh EXCEPT ![p] = c],
             UNCHANGED <<store, phase, ref, hands>>, fresh[p] = None
      PROVE  Ownership'
  <2>1. /\ \A d \in Conns : conn'[d] = IF d = c THEN "open" ELSE conn[d]
        /\ \A q \in Procs : fresh'[q] = IF q = p THEN c ELSE fresh[q]
    BY <1>2 DEF TypeOK
  <2>2. \A o \in Owners : ~Owns(o, c)
    BY <1>2 DEF Ownership, OneOwner, Owners
  <2>3. \A o \in Owners, d \in Conns : Owns(o, d)' <=> (IF d = c THEN o = p ELSE Owns(o, d))
    BY <1>2, <2>1, <2>2 DEF Owns, Owners
  <2>4. OneOwner'
    BY <2>1, <2>3 DEF Ownership, OneOwner, Owners
  <2>5. c \in Sess => phase[c] = "new"
    BY <1>2 DEF Ownership
  <2>6. ReferenceDiesWithSession'
    BY <1>2 DEF Ownership, ReferenceDiesWithSession
  <2>7. \A q \in Procs : c \notin hands[q]
    BY <2>2 DEF Owns, Owners
  <2>8. \A s \in Sess : conn'[s] = "undialled" => phase'[s] = "new"
    BY <1>2, <2>1 DEF Ownership
  <2> QED
    BY <1>2, <2>1, <2>4, <2>5, <2>6, <2>7, <2>8 DEF Ownership
<1>3. fresh[p] = None
  BY DEF Dial, TypeOK, StageOK, AskingForRoom
<1>4. UNCHANGED <<store, phase, ref, hands>>
  BY DEF Dial
<1>5. \/ UNCHANGED <<conn, fresh>>
      \/ \E c \in Conns : /\ conn[c] = "undialled"
                          /\ conn' = [conn EXCEPT ![c] = "open"]
                          /\ fresh' = [fresh EXCEPT ![p] = c]
  BY Zenon DEF Dial
<1> QED
  BY <1>1, <1>2, <1>3, <1>4, <1>5

LEMMA InsertOwnership ==
  ASSUME TypeOK, Ownership, NEW p \in Requests, pc[p] = "insert", Store(p), UNCHANGED <<ref, conn>>
  PROVE  Ownership'
<1> DEFINE f == fresh[p]
           t == target[p]
           D == {f} \cup ({t} \cap store)
           to == [d \in D |-> IF d = f THEN f ELSE p]
<1>1. f \in Sess /\ hands[p] = {} /\ phase[f] = "new" /\ t \in Sess \cup {None} /\ store \subseteq Sess
  BY DEF TypeOK, StageOK, AskingForRoom, Ownership
<1>2. /\ store' = (store \ {t}) \cup {f}
      /\ \A s \in Sess : phase'[s] = IF s = f THEN "live" ELSE phase[s]
      /\ \A q \in Procs : fresh'[q] = IF q = p THEN None ELSE fresh[q]
      /\ \A q \in Procs : hands'[q] = IF q = p THEN {t} \cap store ELSE hands[q]
  BY <1>1 DEF Store, Remove, TypeOK
<1>3. Owns(p, f) /\ (t \in store => Owns(t, t)) /\ f \notin store /\ ref[f] = None
  BY <1>1 DEF Owns, Ownership, ReferenceDiesWithSession, TypeOK
<1>4. \A o1, o2 \in Owners, c \in Conns : Owns(o1, c) /\ Owns(o2, c) => o1 = o2 /\ conn[c] = "open"
  BY DEF Ownership, OneOwner, Owners
<1>5. /\ \A o \in Owners : Owns(o, f) => o = p
      /\ t \in store => \A o \in Owners : Owns(o, t) => o = t
      /\ conn[f] = "open"
      /\ t \in store => conn[t] = "open"
  BY <1>1, <1>3, <1>4 DEF Owners
<1>6. OneOwner'
  <2>1. D \in SUBSET Conns
    BY <1>1
  <2>2. to \in [D -> Owners]
    BY <1>1 DEF Owners
  <2>3. \A o \in Owners, c \in Conns : Owns(o, c)' <=> (IF c \in D THEN o = to[c] ELSE Owns(o, c))
    BY <1>1, <1>2, <1>3, <1>5 DEF Owns, Owners, TypeOK
  <2>4. \A d \in D : conn[d] = "open"
    BY <1>5
  <2> HIDE DEF D, to
  <2> QED
    BY <2>1, <2>2, <2>3, <2>4, Handover DEF Ownership
<1>7. ReferenceDiesWithSession'
  BY <1>1, <1>2, <1>3 DEF Ownership, ReferenceDiesWithSession, TypeOK
<1>8. \A q \in Procs : q # p => fresh[q] # f
  BY <1>5 DEF Owns, Owners
<1>9. \A s \in Sess : conn'[s] = "undialled" => phase'[s] = "new"
  <2>1. conn[f] = "open"
    BY <1>5
  <2> QED
    BY <1>2, <2>1 DEF Ownership
<1> QED
  BY <1>1, <1>2, <1>6, <1>7, <1>8, <1>9 DEF Ownership, TypeOK

\* Handing one connection over, or none.
LEMMA Move ==
  ASSUME OneOwner, UNCHANGED conn, NEW c, NEW from \in Owners, NEW to \in Owners,
         c \in Conns => Owns(from, c),
         \A o \in Owners, d \in Conns :
           Owns(o, d)' <=> (IF d = c THEN o = to ELSE Owns(o, d))
  PROVE  OneOwner'
<1> DEFINE D == {c} \cap Conns
           ton == [d \in D |-> to]
<1>1. D \in SUBSET Conns /\ ton \in [D -> Owners]
  OBVIOUS
<1>2. \A d \in D : conn[d] = "open"
  BY DEF OneOwner, Owners
<1>3. \A o \in Owners, d \in Conns : Owns(o, d)' <=> (IF d \in D THEN o = ton[d] ELSE Owns(o, d))
  OBVIOUS
<1> HIDE DEF D, ton
<1> QED
  BY <1>1, <1>2, <1>3, Handover

\* An attached reference passes from the request that dialled it to its session.
LEMMA AttachOwnership ==
  ASSUME TypeOK, Ownership, NEW p \in Requests, Attach(p)
  PROVE  Ownership'
<1> DEFINE r == fresh[p]
           t == target[p]
<1>1. pc[p] = "attach" /\ r \in Refs /\ hands[p] = {} /\ t \in Sess
  BY DEF Attach, TypeOK, StageOK, AskingForRoom
<1>2. CASE ~CanAttach(p)
  BY <1>1, <1>2, RefuseOwnership DEF Attach
<1>3. CASE CanAttach(p)
  <2>1. /\ \A s \in Sess : ref'[s] = IF s = t THEN r ELSE ref[s]
        /\ \A q \in Procs : fresh'[q] = IF q = p THEN None ELSE fresh[q]
        /\ UNCHANGED <<store, phase, conn, hands>>
        /\ t \in store /\ ref[t] = None /\ store \subseteq Sess
    BY <1>3 DEF Attach, CanAttach, TypeOK
  <2>2. Owns(p, r)
    BY <1>1 DEF Owns
  <2>3. \A o \in Owners : Owns(o, r) => o = p
    BY <1>1, <2>2 DEF Ownership, OneOwner, Owners
  <2>4. \A o \in Owners, d \in Conns : Owns(o, d)' <=> (IF d = r THEN o = t ELSE Owns(o, d))
    BY <1>1, <2>1, <2>2, <2>3 DEF Owns, Owners
  <2>5. OneOwner'
    BY <1>1, <2>1, <2>2, <2>4, Move DEF Ownership, Owners
  <2> QED
    BY <1>1, <2>1, <2>5 DEF Ownership, ReferenceDiesWithSession
<1> QED
  BY <1>2, <1>3

\* A detached reference passes from its session to the request that closes it.
LEMMA DetachOwnership ==
  ASSUME TypeOK, Ownership, NEW p \in Requests, Detach(p)
  PROVE  Ownership'
<1> DEFINE t == target[p]
           r == ref[t]
<1>1. t \in Sess /\ hands[p] = {} /\ fresh[p] = None /\ r \in Refs \cup {None}
  BY DEF Detach, TypeOK, StageOK, AskingForRoom
<1>2. /\ \A s \in Sess : ref'[s] = IF s = t THEN None ELSE ref[s]
      /\ \A q \in Procs : hands'[q] = IF q = p THEN {r} \ {None} ELSE hands[q]
      /\ UNCHANGED <<store, phase, conn, fresh>>
  BY DEF Detach, Remove, TypeOK
<1>3. Owns(t, r)
  BY <1>1 DEF Owns
<1>4. r \in Conns => \A o \in Owners : Owns(o, r) => o = t
  BY <1>1, <1>3 DEF Ownership, OneOwner, Owners
<1>5. \A o \in Owners, d \in Conns : Owns(o, d)' <=> (IF d = r THEN o = p ELSE Owns(o, d))
  BY <1>1, <1>2, <1>3, <1>4 DEF Owns, Owners, TypeOK
<1>6. OneOwner'
  BY <1>1, <1>2, <1>3, <1>5, Move DEF Ownership, Owners
<1>7. ReferenceDiesWithSession'
  BY <1>1, <1>2 DEF Ownership, ReferenceDiesWithSession
<1> QED
  BY <1>1, <1>2, <1>6, <1>7 DEF Ownership

\* A session taken out of the map passes from the store to the goroutine that closes it.
LEMMA TakeOwnership ==
  ASSUME TypeOK, Ownership, NEW p \in Procs, Take(p)
  PROVE  Ownership'
<1>1. PICK s \in todo[p] : store' = store \ {s} /\ hands' = [hands EXCEPT ![p] = {s} \cap store]
  BY DEF Take
<1>2. /\ s \in Sess /\ hands[p] = {}
      /\ \A q \in Procs : hands'[q] = IF q = p THEN {s} \cap store ELSE hands[q]
      /\ UNCHANGED <<phase, ref, conn, fresh>>
  BY <1>1 DEF Take, TypeOK
<1>3. CASE s \notin store
  <2>1. UNCHANGED <<store, hands>>
    BY <1>1, <1>2, <1>3 DEF TypeOK
  <2> QED
    BY <1>2, <2>1, OwnershipFrame
<1>4. CASE s \in store
  <2>1. Owns(s, s) /\ \A o \in Owners : Owns(o, s) => o = s
    BY <1>2, <1>4 DEF Owns, Ownership, OneOwner, Owners
  <2>2. \A o \in Owners, d \in Conns : Owns(o, d)' <=> (IF d = s THEN o = p ELSE Owns(o, d))
    BY <1>1, <1>2, <1>4, <2>1 DEF Owns, Owners, TypeOK
  <2>3. OneOwner'
    BY <1>2, <2>1, <2>2, Move DEF Ownership, Owners
  <2>4. ReferenceDiesWithSession'
    BY <1>1, <1>2, <1>4 DEF Ownership, ReferenceDiesWithSession
  <2>5. fresh[p] # s
    BY <1>2, <1>4 DEF Ownership
  <2> QED
    BY <1>1, <1>2, <1>4, <2>3, <2>4, <2>5 DEF Ownership
<1> QED
  BY <1>3, <1>4

\* The reference of a session that closes passes to the goroutine that closes the session.
LEMMA CloseSessionOwnership ==
  ASSUME TypeOK, Ownership, NEW p \in Procs, CloseSession(p)
  PROVE  Ownership'
<1>1. PICK s \in hands[p] \cap Sess :
        /\ phase[s] = "live"
        /\ phase' = [phase EXCEPT ![s] = "closed"]
        /\ hands' = [hands EXCEPT ![p] = @ \cup ({ref[s]} \ {None})]
        /\ ref' = [ref EXCEPT ![s] = None]
  BY DEF CloseSession
<1> DEFINE r == ref[s]
<1>2. /\ \A q \in Procs : hands'[q] = (IF q = p THEN hands[p] \cup ({r} \ {None}) ELSE hands[q])
      /\ \A x \in Sess : phase'[x] = IF x = s THEN "closed" ELSE phase[x]
      /\ \A x \in Sess : ref'[x] = IF x = s THEN None ELSE ref[x]
      /\ UNCHANGED <<store, conn, fresh>>
      /\ r \in Refs \cup {None} /\ store \subseteq Sess
  <2>1. \A q \in Procs : hands'[q] = (IF q = p THEN hands[p] \cup ({r} \ {None}) ELSE hands[q])
    BY <1>1 DEF TypeOK
  <2>2. \A x \in Sess : phase'[x] = IF x = s THEN "closed" ELSE phase[x]
    BY <1>1 DEF TypeOK
  <2>3. \A x \in Sess : ref'[x] = IF x = s THEN None ELSE ref[x]
    BY <1>1 DEF TypeOK
  <2>4. UNCHANGED <<store, conn, fresh>> /\ r \in Refs \cup {None} /\ store \subseteq Sess
    BY DEF CloseSession, TypeOK
  <2> QED
    BY <2>1, <2>2, <2>3, <2>4
<1>3. Owns(p, s) /\ Owns(s, r)
  BY <1>1 DEF Owns
<1>4. /\ r \in Conns => \A o \in Owners : Owns(o, r) => o = s
      /\ \A o \in Owners : Owns(o, s) => o = p
      /\ conn[s] = "open"
  BY <1>1, <1>2, <1>3 DEF Ownership, OneOwner, Owners
<1>5. s \notin store
  BY <1>1, <1>4 DEF Owns, Owners
<1>6. \A o \in Owners, d \in Conns : Owns(o, d)' <=> (IF d = r THEN o = p ELSE Owns(o, d))
  BY <1>1, <1>2, <1>3, <1>4 DEF Owns, Owners
<1>7. OneOwner'
  BY <1>1, <1>2, <1>3, <1>6, Move DEF Ownership, Owners
<1>8. ReferenceDiesWithSession'
  BY <1>1, <1>2 DEF Ownership, ReferenceDiesWithSession
<1>9. r \in Conns => \A q \in Procs : fresh[q] # r
  BY <1>4 DEF Owns, Owners
<1>10. \A q \in Procs : fresh[q] \in Sess => fresh[q] # s
  BY <1>1 DEF Ownership
<1>11. \A q \in Procs : fresh'[q] \in Conns => fresh'[q] \notin hands'[q]
  BY <1>2, <1>9 DEF Ownership
<1> QED
  BY <1>1, <1>2, <1>4, <1>5, <1>7, <1>8, <1>10, <1>11 DEF Ownership

\* A connection that is closed is nobody's.
LEMMA CloseConnOwnership ==
  ASSUME TypeOK, Ownership, NEW p \in Procs, CloseConn(p)
  PROVE  Ownership'
<1>1. PICK c \in hands[p] : /\ conn' = [conn EXCEPT ![c] = "closed"]
                            /\ hands' = [hands EXCEPT ![p] = @ \ {c}]
  BY DEF CloseConn
<1>2. /\ c \in Conns
      /\ \A d \in Conns : conn'[d] = IF d = c THEN "closed" ELSE conn[d]
      /\ \A q \in Procs : hands'[q] = IF q = p THEN hands[p] \ {c} ELSE hands[q]
      /\ UNCHANGED <<store, phase, ref, fresh>>
      /\ \A s \in hands[p] \cap Sess : phase[s] # "live"
  BY <1>1 DEF CloseConn, TypeOK
<1>3. Owns(p, c) /\ \A o \in Owners : Owns(o, c) => o = p
  BY <1>1, <1>2 DEF Owns, Ownership, OneOwner, Owners
<1>4. /\ c \notin store
      /\ \A s \in Sess : ref[s] # c
      /\ fresh[p] # c
  BY <1>1, <1>2, <1>3 DEF Owns, Owners, Ownership, TypeOK
<1>5. \A o \in Owners, d \in Conns : Owns(o, d)' <=> d # c /\ Owns(o, d)
  BY <1>1, <1>2, <1>3, <1>4 DEF Owns, Owners
<1>6. OneOwner'
  BY <1>2, <1>5 DEF Ownership, OneOwner, Owners
<1>7. ReferenceDiesWithSession'
  BY <1>1, <1>2 DEF Ownership, ReferenceDiesWithSession
<1> QED
  BY <1>1, <1>2, <1>6, <1>7 DEF Ownership

LEMMA InitOwnership == Init => Ownership
  BY DEF Init, Ownership, OneOwner, ReferenceDiesWithSession, Owns

\* Every step keeps every connection with its one owner.
LEMMA NextOwnership == TypeOK /\ Ownership /\ [Next]_vars => Ownership'
<1> SUFFICES ASSUME TypeOK, Ownership, [Next]_vars PROVE Ownership'
  OBVIOUS
<1>1. ASSUME NEW p \in Procs, pc[p] # "removing", NEW ids, NEW next, Remove(p, ids, {}, next)
      PROVE  UNCHANGED hands
  BY <1>1 DEF Remove, TypeOK, StageOK
<1>2. ASSUME NEW p \in Requests, Start(p) PROVE Ownership'
  BY <1>2, <1>1, OwnershipFrame DEF Start, StartConnect, StartDisconnect, StartUse, shared
<1>3. ASSUME NEW p \in Requests, Check(p) PROVE Ownership'
  BY <1>3, <1>1, OwnershipFrame DEF Check
<1>4. ASSUME NEW p \in Requests, Full(p) PROVE Ownership'
  BY <1>4, <1>1, OwnershipFrame DEF Full, shared
<1>5. ASSUME NEW p \in Requests, Refull(p) PROVE Ownership'
  BY <1>5, RefuseOwnership, OwnershipFrame DEF Refull, shared
<1>6. ASSUME NEW p \in Requests, Insert(p) PROVE Ownership'
  BY <1>6, RefuseOwnership, InsertOwnership DEF Insert
<1>7. ASSUME NEW p \in Requests, Serve(p) PROVE Ownership'
  BY <1>3, <1>4, <1>5, <1>6, <1>7, DialOwnership, AttachOwnership, DetachOwnership DEF Serve
<1>8. ASSUME NEW p \in Procs, Cleanup(p) PROVE Ownership'
  BY <1>8, TakeOwnership, CloseSessionOwnership, CloseConnOwnership, OwnershipFrame
     DEF Cleanup, Return, shared
<1>9. CASE Sweep
  BY <1>9, <1>1, OwnershipFrame DEF Sweep, shared
<1>10. CASE Close
  BY <1>10, <1>1, OwnershipFrame DEF Close
<1>11. CASE Drain \/ Tick \/ UNCHANGED vars
  BY <1>11, OwnershipFrame DEF Drain, Tick, vars, shared, local
<1> QED
  BY <1>2, <1>7, <1>8, <1>9, <1>10, <1>11 DEF Next

\* However requests, the sweeper and shutdown interleave, every open connection has exactly
\* one owner, a closed one none, and no reference outlives its session.
THEOREM OwnershipHolds == Spec => [](OneOwner /\ ReferenceDiesWithSession)
<1>1. Ownership => OneOwner /\ ReferenceDiesWithSession
  BY DEF Ownership
<1> QED
  BY <1>1, InitTypeOK, NextTypeOK, InitOwnership, NextOwnership, PTL DEF Spec
-----------------------------------------------------------------------------
(* The limit *)

WithRef == {s \in store : ref[s] # None}

\* The number of connections is a number, and the store's sets are finite.
LimitInv ==
  /\ LimitHeld
  /\ IsFiniteSet(store)

LEMMA CountIsNat ==
  ASSUME IsFiniteSet(store)
  PROVE  /\ IsFiniteSet(WithRef)
         /\ Cardinality(store) \in Nat /\ Cardinality(WithRef) \in Nat
         /\ Connections = Cardinality(store) + Cardinality(WithRef)
  BY FS_Subset, FS_CardinalityType DEF WithRef, Connections

\* Taking one element out of a finite set.
LEMMA RemoveOne ==
  ASSUME NEW S, IsFiniteSet(S), NEW x
  PROVE  /\ IsFiniteSet(S \ {x})
         /\ Cardinality(S \ {x}) = Cardinality(S) - (IF x \in S THEN 1 ELSE 0)
  BY FS_RemoveElement, FS_CardinalityType

\* A step that only takes sessions or references out of the store keeps the limit.
LEMMA Shrinking ==
  ASSUME LimitInv, store' \subseteq store, WithRef' \subseteq WithRef
  PROVE  LimitInv'
<1>1. /\ IsFiniteSet(store') /\ Cardinality(store') <= Cardinality(store)
      /\ IsFiniteSet(WithRef') /\ Cardinality(WithRef') <= Cardinality(WithRef)
  BY FS_Subset, CountIsNat DEF LimitInv
<1>2. Connections' = Cardinality(store') + Cardinality(WithRef')
  BY DEF Connections, WithRef
<1>3. Cardinality(store') \in Nat /\ Cardinality(WithRef') \in Nat
  BY <1>1, FS_CardinalityType
<1> QED
  BY <1>1, <1>2, <1>3, CountIsNat DEF LimitInv, LimitHeld

\* AddReplacing counts under the lock what it puts in and what it takes out.
LEMMA InsertLimit ==
  ASSUME TypeOK, Ownership, LimitInv, NEW p \in Requests, pc[p] = "insert",
         ~FullFor(target[p]), Store(p), UNCHANGED ref
  PROVE  LimitInv'
<1> DEFINE f == fresh[p]
           t == target[p]
<1>1. /\ f \in Sess /\ phase[f] = "new" /\ store \subseteq Sess
      /\ f \notin store /\ ref[f] = None
      /\ store' = (store \ {t}) \cup {f}
  BY DEF Store, TypeOK, StageOK, AskingForRoom, Ownership, ReferenceDiesWithSession
<1>2. WithRef' = WithRef \ {t}
  BY <1>1 DEF WithRef
<1>3. /\ IsFiniteSet(store \ {t})
      /\ Cardinality(store \ {t}) = Cardinality(store) - (IF t \in store THEN 1 ELSE 0)
  BY RemoveOne DEF LimitInv
<1>4. IsFiniteSet(store') /\ Cardinality(store') = Cardinality(store \ {t}) + 1
  BY <1>1, <1>3, FS_AddElement
<1>5. Cardinality(WithRef') = Cardinality(WithRef) - (IF t \in WithRef THEN 1 ELSE 0)
  <2>1. IsFiniteSet(WithRef) /\ Cardinality(WithRef) \in Nat
    BY CountIsNat DEF LimitInv
  <2>2. Cardinality(WithRef \ {t}) = Cardinality(WithRef) - (IF t \in WithRef THEN 1 ELSE 0)
    BY <2>1, RemoveOne
  <2> QED
    BY <1>2, <2>2
<1>6. Connections' = Cardinality(store') + Cardinality(WithRef')
  BY DEF Connections, WithRef
<1>7. (t \in WithRef) <=> (t \in store /\ ref[t] # None)
  BY DEF WithRef
<1>8. Limit > 0 => Connections - (IF t \in store THEN Own(t) ELSE 0) < Limit
  BY CountIsNat DEF FullFor, Own, LimitInv
<1> QED
  BY <1>3, <1>4, <1>5, <1>6, <1>7, <1>8, CountIsNat DEF LimitInv, LimitHeld, Own

\* AttachReference counts again under the lock.
LEMMA AttachLimit ==
  ASSUME TypeOK, LimitInv, NEW p \in Requests, Attach(p)
  PROVE  LimitInv'
<1>1. CASE ~CanAttach(p)
  <2>1. UNCHANGED <<store, ref>>
    BY <1>1 DEF Attach
  <2> QED
    BY <2>1, Shrinking DEF WithRef
<1>2. CASE CanAttach(p)
  <2> DEFINE t == target[p]
  <2>1. /\ fresh[p] # None /\ t \in store /\ ref[t] = None
        /\ \A s \in Sess : ref'[s] = IF s = t THEN fresh[p] ELSE ref[s]
        /\ store' = store /\ store \subseteq Sess
    BY <1>2 DEF Attach, CanAttach, TypeOK, StageOK, AskingForRoom
  <2>2. WithRef' = WithRef \cup {t} /\ t \notin WithRef
    BY <2>1 DEF WithRef
  <2>3. Cardinality(WithRef') = Cardinality(WithRef) + 1
    BY <2>2, FS_AddElement, CountIsNat DEF LimitInv
  <2>4. Connections' = Cardinality(store') + Cardinality(WithRef')
    BY DEF Connections, WithRef
  <2>5. Limit > 0 => Connections < Limit
    <3>1. ~FullFor(None) /\ None \notin store
      BY <1>2 DEF CanAttach, TypeOK
    <3> QED
      BY <3>1, CountIsNat DEF FullFor, LimitInv
  <2> QED
    BY <2>1, <2>3, <2>4, <2>5, CountIsNat DEF LimitInv, LimitHeld
<1> QED
  BY <1>1, <1>2

LEMMA InitLimit == Init => LimitInv
<1> SUFFICES ASSUME Init PROVE LimitInv
  OBVIOUS
<1>1. store = {} /\ WithRef = {}
  BY DEF Init, WithRef
<1>2. IsFiniteSet(store) /\ Connections = 0
  BY <1>1, FS_EmptySet DEF Connections, WithRef
<1> QED
  BY <1>2 DEF LimitInv, LimitHeld

LEMMA NextLimit == TypeOK /\ Ownership /\ LimitInv /\ [Next]_vars => LimitInv'
<1> SUFFICES ASSUME TypeOK, Ownership, LimitInv, [Next]_vars PROVE LimitInv'
  OBVIOUS
<1>1. ASSUME UNCHANGED <<store, ref>> PROVE LimitInv'
  BY <1>1, Shrinking DEF WithRef
<1>2. ASSUME NEW p \in Requests, Start(p) PROVE LimitInv'
  BY <1>2, <1>1 DEF Start, StartConnect, StartDisconnect, StartUse, shared
<1>3. ASSUME NEW p \in Requests, Insert(p) PROVE LimitInv'
  BY <1>3, <1>1, InsertLimit DEF Insert
<1>4. ASSUME NEW p \in Requests, Detach(p) PROVE LimitInv'
  BY <1>4, Shrinking DEF Detach, WithRef, TypeOK
<1>5. ASSUME NEW p \in Requests, Check(p) \/ Full(p) \/ Refull(p) \/ Dial(p) PROVE LimitInv'
  BY <1>5, <1>1 DEF Check, Full, Refull, Dial, shared
<1>6. ASSUME NEW p \in Requests, Serve(p) PROVE LimitInv'
  BY <1>3, <1>4, <1>5, <1>6, AttachLimit DEF Serve
<1>7. ASSUME NEW p \in Procs, Take(p) PROVE LimitInv'
  BY <1>7, Shrinking DEF Take, WithRef
<1>8. ASSUME NEW p \in Procs, CloseSession(p) PROVE LimitInv'
  BY <1>8, Shrinking DEF CloseSession, WithRef, TypeOK
<1>9. ASSUME NEW p \in Procs, CloseConn(p) \/ Return(p) PROVE LimitInv'
  BY <1>9, <1>1 DEF CloseConn, Return, shared
<1>10. CASE Sweep \/ Close \/ Drain \/ Tick \/ UNCHANGED vars
  BY <1>10, <1>1 DEF Sweep, Close, Drain, Tick, vars, shared
<1> QED
  BY <1>2, <1>6, <1>7, <1>8, <1>9, <1>10 DEF Next, Cleanup

\* Whatever the limit and however many requests connect, reconnect and attach at once, the
\* store never holds more connections than --max-sessions.
THEOREM LimitAlwaysHeld == Spec => []LimitHeld
<1>1. LimitInv => LimitHeld
  BY DEF LimitInv
<1> QED
  BY <1>1, InitTypeOK, NextTypeOK, InitOwnership, NextOwnership, InitLimit, NextLimit, PTL DEF Spec
-----------------------------------------------------------------------------
(* Expiry *)

\* A session that is about to be removed is never one about to be stored, which a sweep
\* would then remove although it has just been used, and neither is one that Get looked up.
ExpiryInv ==
  /\ MarkedStaysExpired
  /\ \A p \in Procs : \A s \in todo[p] : phase[s] # "new"
  /\ \A p \in Procs : pc[p] = "check" => phase[target[p]] # "new"

NoLookup == \A p \in Procs : pc'[p] = "check" => pc[p] = "check" /\ target'[p] = target[p]

\* A step that stores no session, marks none, and uses none that is expired.
LEMMA ExpiryKept ==
  ASSUME TypeOK, ExpiryInv,
         store' \subseteq store,
         \A p \in Procs : todo'[p] \subseteq todo[p],
         \A p \in Procs : todo'[p] # {} => after'[p] = after[p],
         \A s \in Sess : phase[s] # "new" => phase'[s] # "new",
         \A s \in store : Dead(s) => Dead(s)',
         NoLookup
  PROVE  ExpiryInv'
<1>1. MarkedStaysExpired'
  <2> SUFFICES ASSUME NEW p \in Procs, p = Sweeper \/ after'[p] = "refull",
                      NEW s \in todo'[p] \cap store'
               PROVE  Dead(s)'
    BY DEF MarkedStaysExpired
  <2>1. s \in todo[p] \cap store /\ (p = Sweeper \/ after[p] = "refull")
    OBVIOUS
  <2>2. Dead(s)
    BY <2>1 DEF ExpiryInv, MarkedStaysExpired
  <2> QED
    BY <2>1, <2>2
<1>2. \A p \in Procs : \A s \in todo'[p] : phase'[s] # "new"
  BY DEF ExpiryInv, TypeOK
<1>3. \A p \in Procs : pc'[p] = "check" => phase'[target'[p]] # "new"
  BY DEF ExpiryInv, NoLookup, TypeOK, StageOK
<1> QED
  BY <1>1, <1>2, <1>3 DEF ExpiryInv

\* The same, for a step that leaves the clock and the sessions alone.
LEMMA ExpiryFrame ==
  ASSUME TypeOK, ExpiryInv, UNCHANGED <<now, phase, used, born>>,
         store' \subseteq store,
         \A p \in Procs : todo'[p] \subseteq todo[p],
         \A p \in Procs : todo'[p] # {} => after'[p] = after[p],
         NoLookup
  PROVE  ExpiryInv'
<1>1. \A s \in store : Dead(s) => Dead(s)'
  BY DEF Dead, Expired
<1> QED
  BY <1>1, ExpiryKept

\* A step by which p alone goes on to remove the sessions ids.
LEMMA ExpiryMark ==
  ASSUME TypeOK, ExpiryInv, UNCHANGED <<now, store, phase, used, born>>,
         NEW p \in Procs, NEW ids \in SUBSET Sess, NEW conns, NEW next, Remove(p, ids, conns, next),
         \A s \in ids : phase[s] # "new",
         p = Sweeper \/ next = "refull" => \A s \in ids \cap store : Dead(s),
         NoLookup
  PROVE  ExpiryInv'
<1>1. /\ \A q \in Procs : todo'[q] = IF q = p THEN ids ELSE todo[q]
      /\ \A q \in Procs : after'[q] = IF q = p THEN next ELSE after[q]
  BY DEF Remove, TypeOK
<1>2. \A s \in Sess : Dead(s)' <=> Dead(s)
  BY DEF Dead, Expired
<1>3. \A q \in Procs : pc'[q] = "check" => phase'[target'[q]] # "new"
  BY DEF ExpiryInv, NoLookup
<1> QED
  BY <1>1, <1>2, <1>3 DEF ExpiryInv, MarkedStaysExpired, TypeOK

\* A session is used only when it is not expired.
LEMMA CheckExpiry ==
  ASSUME TypeOK, Ownership, ExpiryInv, NEW p \in Requests, Check(p)
  PROVE  ExpiryInv'
<1> DEFINE t == target[p]
<1>1. t \in Sess /\ pc[p] = "check" /\ todo[p] = {}
  BY DEF Check, TypeOK, StageOK
<1>2. CASE Dead(t)
  <2>1. phase[t] # "new"
    BY <1>1 DEF ExpiryInv
  <2>2. Remove(p, {t}, {}, "idle") /\ UNCHANGED <<now, store, phase, used, born, target>>
    BY <1>2 DEF Check
  <2>3. NoLookup
    BY <2>2 DEF NoLookup, Remove, Goto, TypeOK
  <2>4. p # Sweeper
    OBVIOUS
  <2> QED
    BY <1>1, <2>1, <2>2, <2>3, <2>4, ExpiryMark
<1>3. CASE ~Dead(t)
  <2>1. /\ \A s \in Sess : s # t => used'[s] = used[s]
        /\ UNCHANGED <<now, store, phase, born, todo>>
    BY <1>3 DEF Check, TypeOK
  <2>2. \A s \in store : Dead(s) => Dead(s)'
    BY <1>3, <2>1 DEF Dead, Expired, TypeOK
  <2>3. \A q \in Procs : todo[q] # {} => after'[q] = after[q]
    BY <1>1, <1>3 DEF Check, Proceed, Goto, Finish, TypeOK
  <2>4. NoLookup
    BY <1>1, <1>3 DEF NoLookup, Check, Proceed, Goto, Finish, TypeOK
  <2> QED
    BY <2>1, <2>2, <2>3, <2>4, ExpiryKept
<1> QED
  BY <1>2, <1>3

\* A session that is stored is new, and no goroutine has it to remove.
LEMMA InsertExpiry ==
  ASSUME TypeOK, Ownership, ExpiryInv, NEW p \in Requests, Insert(p)
  PROVE  ExpiryInv'
<1> DEFINE f == fresh[p]
<1>1. /\ f \in Sess /\ phase[f] = "new" /\ todo[p] = {} /\ pc[p] = "insert"
      /\ UNCHANGED <<now, target>>
  BY DEF Insert, TypeOK, StageOK, AskingForRoom, Ownership
<1>2. /\ todo' = [todo EXCEPT ![p] = {}] /\ after' = [after EXCEPT ![p] = "idle"]
      /\ pc' = [pc EXCEPT ![p] = "removing"]
  BY DEF Insert, Refuse, Store, Remove, Goto
<1>3. NoLookup
  BY <1>1, <1>2 DEF NoLookup, TypeOK
<1>4. CASE UNCHANGED <<store, phase, used, born>>
  <2>1. \A q \in Procs : todo'[q] \subseteq todo[q] /\ (todo'[q] # {} => after'[q] = after[q])
    BY <1>1, <1>2 DEF TypeOK
  <2> QED
    BY <1>1, <1>3, <1>4, <2>1, ExpiryFrame
<1>5. CASE Store(p)
  <2>1. /\ \A s \in Sess : s # f => phase'[s] = phase[s] /\ used'[s] = used[s] /\ born'[s] = born[s]
        /\ phase'[f] = "live" /\ store' \subseteq store \cup {f}
    BY <1>1, <1>5 DEF Store, TypeOK
  <2>2. \A q \in Procs : f \notin todo'[q]
    BY <1>1, <1>2 DEF ExpiryInv, TypeOK
  <2>3. \A s \in Sess : s # f => (Dead(s)' <=> Dead(s))
    BY <1>1, <2>1 DEF Dead, Expired
  <2>4. MarkedStaysExpired'
    <3> SUFFICES ASSUME NEW q \in Procs, q = Sweeper \/ after'[q] = "refull",
                        NEW s \in todo'[q] \cap store'
                 PROVE  Dead(s)'
      BY DEF MarkedStaysExpired
    <3>1. q # p /\ todo'[q] = todo[q] /\ after'[q] = after[q]
      BY <1>2 DEF TypeOK
    <3>2. s \in Sess /\ s # f /\ s \in store
      BY <2>1, <2>2, <3>1 DEF TypeOK
    <3> QED
      BY <2>3, <3>1, <3>2 DEF ExpiryInv, MarkedStaysExpired
  <2>5. \A q \in Procs : \A s \in todo'[q] : phase'[s] # "new"
    BY <1>1, <1>2, <2>1 DEF ExpiryInv, TypeOK
  <2>6. \A q \in Procs : pc'[q] = "check" => phase'[target'[q]] # "new"
    BY <1>1, <1>3, <2>1 DEF ExpiryInv, NoLookup, TypeOK, StageOK
  <2> QED
    BY <2>4, <2>5, <2>6 DEF ExpiryInv
<1> QED
  BY <1>4, <1>5 DEF Insert

LEMMA InitExpiry == Init => ExpiryInv
  BY DEF Init, ExpiryInv, MarkedStaysExpired

LEMMA NextExpiry == TypeOK /\ Ownership /\ ExpiryInv /\ [Next]_vars => ExpiryInv'
<1> SUFFICES ASSUME TypeOK, Ownership, ExpiryInv, [Next]_vars PROVE ExpiryInv'
  OBVIOUS
<1> USE DEF Goto, Finish, shared, local
<1>1. ASSUME NEW p \in Requests, StartConnect(p) PROVE ExpiryInv'
  <2>1. NoLookup /\ \A q \in Procs : todo'[q] \subseteq todo[q]
    BY <1>1 DEF StartConnect, NoLookup, TypeOK
  <2> QED
    BY <1>1, <2>1, ExpiryFrame DEF StartConnect
<1>2. ASSUME NEW p \in Requests, StartDisconnect(p) PROVE ExpiryInv'
  <2>1. PICK id \in Cookies : Remove(p, {id}, {}, "idle")
    BY <1>2 DEF StartDisconnect
  <2>2. NoLookup
    BY <1>2 DEF StartDisconnect, Remove, NoLookup, TypeOK
  <2>3. p # Sweeper /\ {id} \in SUBSET Sess /\ phase[id] # "new"
    BY <2>1 DEF Cookies
  <2> QED
    BY <1>2, <2>1, <2>2, <2>3, ExpiryMark DEF StartDisconnect
<1>3. ASSUME NEW p \in Requests, StartUse(p) PROVE ExpiryInv'
  <2>1. PICK id \in store : target' = [target EXCEPT ![p] = id]
    BY <1>3 DEF StartUse
  <2>2. id \in Sess /\ phase[id] # "new"
    BY <2>1 DEF Ownership, TypeOK
  <2>3. UNCHANGED <<now, store, phase, used, born, todo, after>>
    BY <1>3 DEF StartUse
  <2>4. \A s \in Sess : Dead(s)' <=> Dead(s)
    BY <2>3 DEF Dead, Expired
  <2>5. \A q \in Procs : pc'[q] = "check" => phase'[target'[q]] # "new"
    BY <1>3, <2>1, <2>2 DEF StartUse, ExpiryInv, TypeOK
  <2> QED
    BY <2>3, <2>4, <2>5 DEF ExpiryInv, MarkedStaysExpired, TypeOK
<1>4. ASSUME NEW p \in Requests, Full(p) PROVE ExpiryInv'
  <2>1. NoLookup
    BY <1>4 DEF Full, Remove, NoLookup, TypeOK, StageOK, AskingForRoom
  <2>2. CASE FullFor(Replacing(p))
    <3>1. \A s \in store : phase[s] # "new"
      BY DEF Ownership
    <3>2. {s \in store : Dead(s)} \in SUBSET Sess
      BY DEF TypeOK
    <3> QED
      BY <1>4, <2>1, <2>2, <3>1, <3>2, ExpiryMark DEF Full
  <2>3. CASE ~FullFor(Replacing(p))
    BY <1>4, <2>1, <2>3, ExpiryFrame DEF Full
  <2> QED
    BY <2>2, <2>3
<1>5. ASSUME NEW p \in Requests, Refull(p) \/ Dial(p) \/ Attach(p) \/ Detach(p) PROVE ExpiryInv'
  <2>1. todo[p] = {} /\ pc[p] # "removing"
    BY <1>5 DEF Refull, Dial, Attach, Detach, TypeOK, StageOK
  <2>2. \A q \in Procs : todo'[q] = todo[q] /\ (q # p => after'[q] = after[q])
    BY <1>5, <2>1 DEF Refull, Dial, Attach, Detach, Refuse, Remove, TypeOK
  <2>3. NoLookup
    BY <1>5 DEF Refull, Dial, Attach, Detach, Refuse, Remove, NoLookup, TypeOK, StageOK, AskingForRoom
  <2>4. UNCHANGED <<now, store, phase, used, born>>
    BY <1>5 DEF Refull, Dial, Attach, Detach
  <2> QED
    BY <2>1, <2>2, <2>3, <2>4, ExpiryFrame
<1>6. ASSUME NEW p \in Requests, Start(p) \/ Serve(p) PROVE ExpiryInv'
  BY <1>1, <1>2, <1>3, <1>4, <1>5, <1>6, CheckExpiry, InsertExpiry DEF Start, Serve
<1>7. ASSUME NEW p \in Procs, Take(p) \/ CloseConn(p) \/ Return(p) PROVE ExpiryInv'
  <2>1. \A q \in Procs : todo'[q] \subseteq todo[q] /\ (todo'[q] # {} => after'[q] = after[q])
    BY <1>7 DEF Take, CloseConn, Return, TypeOK
  <2>2. NoLookup /\ store' \subseteq store
    BY <1>7 DEF Take, CloseConn, Return, NoLookup, TypeOK
  <2>3. UNCHANGED <<now, phase, used, born>>
    BY <1>7 DEF Take, CloseConn, Return
  <2> QED
    BY <2>1, <2>2, <2>3, ExpiryFrame
<1>8. ASSUME NEW p \in Procs, CloseSession(p) PROVE ExpiryInv'
  <2>1. PICK s \in Sess : phase' = [phase EXCEPT ![s] = "closed"] /\ used' = [used EXCEPT ![s] = 0]
                          /\ born' = [born EXCEPT ![s] = 0]
    BY <1>8 DEF CloseSession
  <2>2. UNCHANGED <<now, store, todo, after, pc, target>>
    BY <1>8 DEF CloseSession
  <2>3. \A x \in store : Dead(x) => Dead(x)'
    BY <2>1, <2>2 DEF Dead, Expired, TypeOK
  <2>4. \A x \in Sess : phase[x] # "new" => phase'[x] # "new"
    BY <2>1 DEF TypeOK
  <2> QED
    BY <2>2, <2>3, <2>4, ExpiryKept DEF NoLookup
<1>9. CASE Sweep
  <2>1. NoLookup
    BY <1>9 DEF Sweep, Remove, NoLookup, TypeOK
  <2>2. {s \in store : Dead(s)} \in SUBSET Sess /\ \A s \in store : phase[s] # "new"
    BY DEF TypeOK, Ownership
  <2> QED
    BY <1>9, <2>1, <2>2, ExpiryMark DEF Sweep
<1>10. CASE Close
  <2>1. NoLookup
    BY <1>10 DEF Close, Remove, NoLookup, TypeOK
  <2>2. store \in SUBSET Sess /\ \A s \in store : phase[s] # "new"
    BY DEF TypeOK, Ownership
  <2> QED
    BY <1>10, <2>1, <2>2, ExpiryMark DEF Close
<1>11. CASE Tick
  <2>1. \A s \in store : Dead(s) => Dead(s)'
    BY <1>11 DEF Tick, Dead, Expired, TypeOK
  <2> QED
    BY <1>11, <2>1, ExpiryKept DEF Tick, NoLookup
<1>12. CASE Drain \/ UNCHANGED vars
  BY <1>12, ExpiryFrame DEF Drain, vars, NoLookup
<1> QED
  BY <1>6, <1>7, <1>8, <1>9, <1>10, <1>11, <1>12 DEF Next, Cleanup

\* A session that a reap has marked expired stays expired until it is taken out, whatever
\* requests use it meanwhile.
THEOREM MarkedSessionsStayExpired == Spec => []MarkedStaysExpired
<1>1. ExpiryInv => MarkedStaysExpired
  BY DEF ExpiryInv
<1> QED
  BY <1>1, InitTypeOK, NextTypeOK, InitOwnership, NextOwnership, InitExpiry, NextExpiry, PTL DEF Spec
-----------------------------------------------------------------------------
(* The connection ledger *)

OpenConns == {c \in Conns : conn[c] = "open"}
GoneConns == {c \in Conns : conn[c] = "closed"}
LedgerStep == [Ledger!Next]_(Ledger!ledger)

\* Sessions and their references are no more connections than the store counts.
LEMMA HeldCount ==
  ASSUME NEW S, IsFiniteSet(S), NEW r, NEW R, R = {s \in S : r[s] # None}
  PROVE  /\ IsFiniteSet(S \cup ({r[s] : s \in S} \ {None}))
         /\ Cardinality(S \cup ({r[s] : s \in S} \ {None})) <= Cardinality(S) + Cardinality(R)
<1> DEFINE T == {r[s] : s \in S} \ {None}
           f == [s \in R |-> r[s]]
<1>1. IsFiniteSet(R)
  BY FS_Subset
<1>2. f \in Surjection(R, T)
  BY DEF Surjection
<1>3. IsFiniteSet(T) /\ Cardinality(T) <= Cardinality(R)
  <2> HIDE DEF T, f
  <2> QED
    BY <1>1, <1>2, FS_Surjection
<1>4. /\ IsFiniteSet(S \cup T)
      /\ Cardinality(S \cup T) = Cardinality(S) + Cardinality(T) - Cardinality(S \cap T)
  BY <1>3, FS_Union
<1>5. IsFiniteSet(S \cap T)
  BY FS_Intersection
<1>6. {Cardinality(S), Cardinality(T), Cardinality(R), Cardinality(S \cap T)} \subseteq Nat
  BY <1>1, <1>3, <1>5, FS_CardinalityType
<1> QED
  BY <1>3, <1>4, <1>6

\* A connection some goroutine carries is open, and the store does not hold it.
LEMMA CarriedNotHeld ==
  ASSUME TypeOK, Ownership, NEW p \in Procs, NEW c \in Conns, Owns(p, c)
  PROVE  c \in OpenConns /\ c \notin HeldConns
<1>1. conn[c] = "open" /\ \A o \in Owners : Owns(o, c) => o = p
  BY DEF Ownership, OneOwner, Owners
<1>2. \A s \in Sess : ~Owns(s, c)
  BY <1>1 DEF Owners
<1>3. store \subseteq Sess
  BY DEF TypeOK
<1> QED
  BY <1>1, <1>2, <1>3 DEF OpenConns, HeldConns, Owns

\* A step that opens and closes nothing, and by which the store takes in nothing.
LEMMA ReleaseStep ==
  ASSUME UNCHANGED conn, HeldConns' \subseteq HeldConns
  PROVE  LedgerStep
  BY DEF LedgerStep, Ledger!Next, Ledger!Release

\* The same where the store keeps all it has.
LEMMA StillStep ==
  ASSUME UNCHANGED <<store, ref, conn>>
  PROVE  LedgerStep
  BY ReleaseStep DEF HeldConns

\* The ledger counts as the store does.
LEMMA LedgerCardinality == \A S : Ledger!Cardinality(S) = Cardinality(S)
  BY Zenon DEF Cardinality, Ledger!Cardinality, IsFiniteSet, Ledger!IsFiniteSet

\* The store takes in the connection a goroutine has dialled, within the limit.
LEMMA HoldStep ==
  ASSUME TypeOK, Ownership, LimitInv', UNCHANGED conn,
         NEW p \in Procs, NEW c \in Conns, Owns(p, c),
         c \in HeldConns', HeldConns' \subseteq HeldConns \cup {c}
  PROVE  LedgerStep
<1> DEFINE replaced == HeldConns \ HeldConns'
<1>1. c \in OpenConns \ HeldConns
  BY CarriedNotHeld
<1>2. replaced \in SUBSET HeldConns /\ HeldConns' = (HeldConns \ replaced) \cup {c}
  BY <1>1
<1>3. Limit <= 0 \/ Cardinality(HeldConns') <= Limit
  <2>1. IsFiniteSet(store') /\ LimitHeld' /\ Connections' = Cardinality(store') + Cardinality(WithRef')
    BY DEF LimitInv, Connections, WithRef
  <2>2. /\ IsFiniteSet(HeldConns')
        /\ Cardinality(HeldConns') <= Cardinality(store') + Cardinality(WithRef')
    BY <2>1, HeldCount DEF HeldConns, WithRef
  <2>3. {Cardinality(HeldConns'), Cardinality(store'), Cardinality(WithRef')} \subseteq Nat
    <3>1. IsFiniteSet(WithRef')
      BY <2>1, FS_Subset DEF WithRef
    <3> QED
      BY <2>1, <2>2, <3>1, FS_CardinalityType
  <2> QED
    BY <2>1, <2>2, <2>3 DEF LimitHeld
<1>4. /\ c \in {d \in Conns : conn[d] = "open"} \ HeldConns
      /\ \E r \in SUBSET HeldConns : HeldConns' = (HeldConns \ r) \cup {c}
  <2> HIDE DEF replaced
  <2> QED
    BY <1>1, <1>2 DEF OpenConns
<1>5. Ledger!Hold(c)
  BY <1>3, <1>4, LedgerCardinality DEF Ledger!Hold, Ledger!WithinLimit
<1> QED
  BY <1>5 DEF LedgerStep, Ledger!Next

\* AddReplacing takes in the session's connection, and lets go of what it replaces.
LEMMA InsertStep ==
  ASSUME TypeOK, Ownership, LimitInv', NEW p \in Requests, Insert(p)
  PROVE  LedgerStep
<1> DEFINE f == fresh[p]
           t == target[p]
<1>1. f \in Sess /\ phase[f] = "new" /\ store \subseteq Sess /\ UNCHANGED <<ref, conn>>
  BY DEF Insert, TypeOK, StageOK, AskingForRoom, Ownership
<1>2. CASE UNCHANGED store
  BY <1>1, <1>2, StillStep
<1>3. CASE Store(p)
  <2>1. store' = (store \ {t}) \cup {f} /\ ref[f] = None
    BY <1>1, <1>3 DEF Store, Ownership, ReferenceDiesWithSession
  <2>2. f \in HeldConns' /\ HeldConns' \subseteq HeldConns \cup {f}
    BY <1>1, <2>1 DEF HeldConns
  <2>3. Owns(p, f)
    BY <1>1 DEF Owns
  <2> QED
    BY <1>1, <2>2, <2>3, HoldStep
<1> QED
  BY <1>2, <1>3 DEF Insert

\* AttachReference takes in the reference.
LEMMA AttachStep ==
  ASSUME TypeOK, Ownership, LimitInv', NEW p \in Requests, Attach(p)
  PROVE  LedgerStep
<1> DEFINE r == fresh[p]
           t == target[p]
<1>1. r \in Refs /\ t \in Sess /\ UNCHANGED <<store, conn>> /\ store \subseteq Sess
  BY DEF Attach, TypeOK, StageOK, AskingForRoom
<1>2. CASE UNCHANGED ref
  BY <1>1, <1>2, StillStep
<1>3. CASE CanAttach(p)
  <2>1. /\ t \in store /\ ref[t] = None
        /\ \A s \in Sess : ref'[s] = IF s = t THEN r ELSE ref[s]
    BY <1>1, <1>3 DEF Attach, CanAttach, TypeOK
  <2>2. r \in HeldConns' /\ HeldConns' \subseteq HeldConns \cup {r}
    BY <1>1, <2>1 DEF HeldConns
  <2>3. Owns(p, r)
    BY <1>1 DEF Owns
  <2> QED
    BY <1>1, <2>2, <2>3, HoldStep
<1> QED
  BY <1>2, <1>3 DEF Attach

\* A reference that is detached, a session that is taken out or closed: the store lets go.
LEMMA LetGoStep ==
  ASSUME TypeOK, NEW p \in Procs, Detach(p) \/ Take(p) \/ CloseSession(p)
  PROVE  LedgerStep
<1>1. UNCHANGED conn /\ store' \subseteq store /\ store \subseteq Sess
  BY DEF Detach, Take, CloseSession, TypeOK
<1>2. \A s \in Sess : ref'[s] \in {ref[s], None}
  BY DEF Detach, Take, CloseSession, TypeOK
<1>3. HeldConns' \subseteq HeldConns
  BY <1>1, <1>2 DEF HeldConns
<1> QED
  BY <1>1, <1>3, ReleaseStep

\* driver.Connect opens a connection that nobody holds, or none.
LEMMA DialStep ==
  ASSUME TypeOK, NEW p \in Requests, Dial(p)
  PROVE  LedgerStep
<1>1. UNCHANGED <<store, ref>>
  BY DEF Dial
<1>2. CASE UNCHANGED conn
  BY <1>1, <1>2, StillStep
<1>3. ASSUME NEW c \in Conns, conn[c] = "undialled", conn' = [conn EXCEPT ![c] = "open"]
      PROVE  LedgerStep
  <2>1. /\ c \notin OpenConns \cup GoneConns
        /\ OpenConns' = OpenConns \cup {c} /\ GoneConns' = GoneConns /\ HeldConns' = HeldConns
    BY <1>1, <1>3 DEF OpenConns, GoneConns, HeldConns, TypeOK
  <2> QED
    BY <2>1 DEF LedgerStep, Ledger!Next, Ledger!Dial, OpenConns, GoneConns
<1> QED
  BY <1>2, <1>3 DEF Dial

\* What is closed is a connection some goroutine carries, so the store does not hold it.
LEMMA CloseConnStep ==
  ASSUME TypeOK, Ownership, NEW p \in Procs, CloseConn(p)
  PROVE  LedgerStep
<1>1. PICK c \in hands[p] : conn' = [conn EXCEPT ![c] = "closed"]
  BY DEF CloseConn
<1>2. c \in Conns /\ UNCHANGED <<store, ref>>
  BY DEF CloseConn, TypeOK
<1>3. c \in OpenConns /\ c \notin HeldConns
  BY <1>2, CarriedNotHeld DEF Owns
<1>4. /\ OpenConns' = OpenConns \ {c} /\ GoneConns' = GoneConns \cup {c}
      /\ HeldConns' = HeldConns
  BY <1>1, <1>2 DEF OpenConns, GoneConns, HeldConns, TypeOK
<1> QED
  BY <1>2, <1>3, <1>4 DEF LedgerStep, Ledger!Next, Ledger!CloseOne, OpenConns, GoneConns

LEMMA LedgerInit == Init => Ledger!Init
  BY DEF Init, Ledger!Init, HeldConns

\* Every step of the store is a step of the ledger, or changes nothing the ledger speaks of.
LEMMA LedgerNext == TypeOK /\ Ownership /\ LimitInv' /\ [Next]_vars => LedgerStep
<1> SUFFICES ASSUME TypeOK, Ownership, LimitInv', [Next]_vars PROVE LedgerStep
  OBVIOUS
<1>1. ASSUME NEW p \in Requests, Start(p) PROVE LedgerStep
  BY <1>1, StillStep DEF Start, StartConnect, StartDisconnect, StartUse, shared
<1>2. ASSUME NEW p \in Requests, Check(p) \/ Full(p) \/ Refull(p) PROVE LedgerStep
  BY <1>2, StillStep DEF Check, Full, Refull, shared
<1>3. ASSUME NEW p \in Requests, Serve(p) PROVE LedgerStep
  BY <1>2, <1>3, DialStep, InsertStep, AttachStep, LetGoStep DEF Serve
<1>4. ASSUME NEW p \in Procs, Cleanup(p) PROVE LedgerStep
  BY <1>4, StillStep, LetGoStep, CloseConnStep DEF Cleanup, Return, shared
<1>5. CASE Sweep \/ Close \/ Drain \/ Tick \/ UNCHANGED vars
  BY <1>5, StillStep DEF Sweep, Close, Drain, Tick, vars, shared
<1> QED
  BY <1>1, <1>3, <1>4, <1>5 DEF Next

\* The store implements the ledger: whatever sessions, cookies, locks and goroutines do, an operator
\* sees connections dialled, held within --max-sessions, let go of, and closed once.
THEOREM StoreImplementsLedger == Spec => ImplementsLedger
<1>1. TypeOK /\ Ownership /\ LimitInv' /\ [Next]_vars => [Ledger!Next]_(Ledger!ledger)
  BY LedgerNext DEF LedgerStep
<1> QED
  BY <1>1, LedgerInit, InitTypeOK, NextTypeOK, InitOwnership, NextOwnership, InitLimit, NextLimit, PTL
     DEF Spec, ImplementsLedger, Ledger!Spec
=============================================================================
