------------------------- MODULE ChangePackageProofs -------------------------
(***************************************************************************)
(* The order of a package respects its dependencies, and there is none     *)
(* exactly when the dependencies have no order, for any dependencies among *)
(* up to 99 changes, whatever their number; and building a package and     *)
(* promoting it takes the steps of that order and no others, whatever was  *)
(* staged and whatever the target answers.  What the target has taken it   *)
(* goes on showing, and is not sent again.                                 *)
(***************************************************************************)
EXTENDS ChangePackage, DataProofs

USE PackageOrderConstants

-----------------------------------------------------------------------------
(* The inductive invariant *)

OrderTypeOK ==
  /\ needs \in Graphs
  /\ indegree \in [DOMAIN needs -> Nat]
  /\ out \in Seq(DOMAIN needs)
  /\ ready \subseteq DOMAIN needs
  /\ ordering \in {"idle", "walking", "ordered", "refused"}

\* What is left of the dependencies of a change is counted, and a change is ready when none is.
Counted ==
  /\ ~Dangling(needs)
  /\ \A i \in DOMAIN needs : indegree[i] = Cardinality(needs[i] \ Placed)
  /\ ready = {i \in DOMAIN needs : i \notin Placed /\ indegree[i] = 0}

\* A change that depends in a circle is never placed.
CirclesStayOut == \A S \in SUBSET DOMAIN needs : Circular(S) => S \cap Placed = {}

IInv ==
  /\ OrderTypeOK
  /\ OrderRespects
  /\ ordering = "idle" => out = <<>>
  /\ ordering \in {"walking", "ordered"} => Counted /\ CirclesStayOut
  /\ RefusedWhenUnusable

-----------------------------------------------------------------------------
(* Sequences and sets *)

\* Placing one more change adds it to those placed and keeps the others where they are.
LEMMA OneMorePlaced ==
  ASSUME NEW S, NEW s \in Seq(S), NEW t \in Seq(S), NEW x \in S, t = Append(s, x)
  PROVE  /\ DOMAIN t = 1..(Len(s) + 1) /\ DOMAIN s = 1..Len(s)
         /\ \A i \in DOMAIN s : t[i] = s[i]
         /\ t[Len(s) + 1] = x
         /\ {t[i] : i \in DOMAIN t} = {s[i] : i \in DOMAIN s} \cup {x}
<1>1. /\ DOMAIN t = 1..(Len(s) + 1) /\ DOMAIN s = 1..Len(s)
      /\ \A i \in DOMAIN s : t[i] = s[i]
      /\ t[Len(s) + 1] = x
  OBVIOUS
<1>2. {t[i] : i \in DOMAIN t} = {s[i] : i \in DOMAIN s} \cup {x}
  <2>1. Len(s) \in Nat
    OBVIOUS
  <2>2. DOMAIN t = DOMAIN s \cup {Len(s) + 1}
    BY <1>1, <2>1
  <2>3. {t[i] : i \in DOMAIN t} = {t[i] : i \in DOMAIN s} \cup {t[Len(s) + 1]}
    BY <2>2
  <2> QED BY <2>3, <1>1
<1> QED BY <1>1, <1>2

\* Changes and their dependencies are finite sets.
LEMMA FiniteGraph ==
  ASSUME NEW g \in Graphs
  PROVE  /\ DOMAIN g \subseteq Ids /\ IsFiniteSet(DOMAIN g)
         /\ \A i \in DOMAIN g : g[i] \subseteq Ids /\ IsFiniteSet(g[i])
<1>1. DOMAIN g \subseteq Ids /\ \A i \in DOMAIN g : g[i] \subseteq Ids
  BY DEF Graphs
<1> QED BY <1>1, FS_Subset

LEMMA UpTo == ASSUME NEW n \in Nat PROVE Cardinality(1..n) = n
  BY FS_Interval

\* Each once.
LEMMA OutInjective ==
  ASSUME OrderRespects, out \in [1..Len(out) -> DOMAIN needs]
  PROVE  out \in Injection(1..Len(out), DOMAIN needs)
<1>1. DOMAIN out = 1..Len(out)
  OBVIOUS
<1>2. \A i, j \in 1..Len(out) : out[i] = out[j] => i = j
  BY <1>1 DEF OrderRespects
<1> QED BY <1>1, <1>2 DEF Injection, IsInjective

\* As many placed as there are, each once: all of them.
LEMMA AllPlaced ==
  ASSUME OrderTypeOK, OrderRespects, Len(out) = Cardinality(DOMAIN needs)
  PROVE  Placed = DOMAIN needs
<1>1. IsFiniteSet(DOMAIN needs)
  BY FiniteGraph DEF OrderTypeOK
<1>2. Len(out) \in Nat /\ DOMAIN out = 1..Len(out) /\ out \in [1..Len(out) -> DOMAIN needs]
  BY DEF OrderTypeOK
<1>3. out \in Injection(1..Len(out), DOMAIN needs)
  BY <1>2, OutInjective
<1>4. Cardinality(1..Len(out)) = Len(out)
  BY <1>2, UpTo
<1>5. out \in Surjection(1..Len(out), DOMAIN needs)
  <2> DEFINE P == 1..Len(out)
             D == DOMAIN needs
  <2>1. IsFiniteSet(D) /\ out \in Injection(P, D) /\ Cardinality(P) = Cardinality(D)
    BY <1>1, <1>3, <1>4
  <2> HIDE DEF P, D
  <2>2. out \in Surjection(P, D)
    BY <2>1, FS_Injection
  <2> QED BY <2>2 DEF P, D
<1>6. \A n \in DOMAIN needs : \E i \in DOMAIN out : out[i] = n
  BY <1>2, <1>5 DEF Surjection
<1>7. \A i \in DOMAIN out : out[i] \in DOMAIN needs
  BY <1>2
<1> QED BY <1>6, <1>7 DEF Placed

-----------------------------------------------------------------------------
(* The steps *)

LEMMA StartKeeps == ASSUME IInv, NEW g \in Graphs, Start(g) PROVE IInv'
<1> USE DEF Start
<1>1. /\ \A i \in DOMAIN g : IsFiniteSet(g[i]) /\ Cardinality(g[i]) \in Nat
      /\ out' = <<>> /\ needs' = g
  BY FiniteGraph, FS_CardinalityType
<1>2. OrderTypeOK'
  BY <1>1 DEF OrderTypeOK
<1>3. OrderRespects' /\ Placed' = {}
  BY <1>1 DEF OrderRespects, Placed
<1>4. ordering' \in {"walking", "ordered"} => Counted' /\ CirclesStayOut'
  BY <1>1, <1>3 DEF Counted, CirclesStayOut, Dangling
<1>5. RefusedWhenUnusable'
  BY DEF RefusedWhenUnusable, Dangling
<1>6. ordering' # "idle"
  OBVIOUS
<1> QED BY <1>2, <1>3, <1>4, <1>5, <1>6 DEF IInv

LEMMA PlaceKeeps == ASSUME IInv, Place PROVE IInv'
<1> USE DEF Place
<1>1. PICK id \in ready :
        /\ out' = Append(out, id)
        /\ indegree' = [i \in DOMAIN needs |-> IF id \in needs[i] THEN indegree[i] - 1 ELSE indegree[i]]
        /\ ready' = (ready \ {id}) \cup {i \in DOMAIN needs : id \in needs[i] /\ indegree[i] = 1}
  OBVIOUS
<1>2. /\ OrderTypeOK /\ OrderRespects /\ Counted /\ CirclesStayOut
      /\ ordering = "walking" /\ ordering' = ordering /\ needs' = needs
  BY DEF IInv
<1>3. /\ id \in DOMAIN needs /\ id \notin Placed /\ indegree[id] = 0
      /\ id \notin needs[id] /\ needs[id] \subseteq DOMAIN needs
  BY <1>2 DEF Counted, Dangling
<1>4. \A i \in DOMAIN needs : IsFiniteSet(needs[i]) /\ IsFiniteSet(needs[i] \ Placed)
  BY <1>2, FiniteGraph, FS_Subset DEF OrderTypeOK
<1>5. needs[id] \subseteq Placed
  <2>1. Cardinality(needs[id] \ Placed) = 0 /\ IsFiniteSet(needs[id] \ Placed)
    BY <1>2, <1>3, <1>4 DEF Counted
  <2>2. needs[id] \ Placed = {}
    BY <2>1, FS_EmptySet
  <2> QED BY <2>2
<1>6. out' \in Seq(DOMAIN needs)
  BY <1>1, <1>2, <1>3 DEF OrderTypeOK
<1>7. /\ DOMAIN out' = 1..(Len(out) + 1) /\ DOMAIN out = 1..Len(out) /\ Len(out) \in Nat
      /\ \A i \in DOMAIN out : out'[i] = out[i]
      /\ out'[Len(out) + 1] = id
      /\ Placed' = Placed \cup {id}
  <2> DEFINE D == DOMAIN needs
  <2>0. out \in Seq(D) /\ out' \in Seq(D) /\ id \in D /\ out' = Append(out, id)
    BY <1>1, <1>2, <1>3, <1>6 DEF OrderTypeOK
  <2> HIDE DEF D
  <2>1. /\ DOMAIN out' = 1..(Len(out) + 1) /\ DOMAIN out = 1..Len(out)
        /\ \A i \in DOMAIN out : out'[i] = out[i]
        /\ out'[Len(out) + 1] = id
        /\ {out'[i] : i \in DOMAIN out'} = {out[i] : i \in DOMAIN out} \cup {id}
    BY <2>0, OneMorePlaced
  <2>2. Len(out) \in Nat
    BY <1>2 DEF OrderTypeOK
  <2> QED BY <2>1, <2>2 DEF Placed
<1>8. \A i \in DOMAIN needs : needs[i] \ Placed' = (needs[i] \ Placed) \ {id}
  BY <1>7
<1>9. \A i \in DOMAIN needs : indegree'[i] = Cardinality(needs[i] \ Placed') /\ indegree'[i] \in Nat
  <2> TAKE i \in DOMAIN needs
  <2>1. /\ Cardinality((needs[i] \ Placed) \ {id}) =
             IF id \in needs[i] \ Placed THEN Cardinality(needs[i] \ Placed) - 1 ELSE Cardinality(needs[i] \ Placed)
        /\ IsFiniteSet((needs[i] \ Placed) \ {id})
    BY <1>4, FS_RemoveElement
  <2>2. indegree'[i] = IF id \in needs[i] THEN indegree[i] - 1 ELSE indegree[i]
    BY <1>1
  <2>3. indegree[i] = Cardinality(needs[i] \ Placed)
    BY <1>2 DEF Counted
  <2>4. indegree'[i] = Cardinality((needs[i] \ Placed) \ {id})
    BY <2>1, <2>2, <2>3, <1>3
  <2>5. Cardinality((needs[i] \ Placed) \ {id}) \in Nat
    BY <2>1, FS_CardinalityType
  <2>6. needs[i] \ Placed' = (needs[i] \ Placed) \ {id}
    BY <1>8
  <2> QED BY <2>4, <2>5, <2>6
<1>10. OrderTypeOK'
  BY <1>1, <1>2, <1>6, <1>9 DEF OrderTypeOK
<1>11. OrderRespects'
  <2> SUFFICES ASSUME NEW i \in DOMAIN out'
               PROVE  /\ needs[out'[i]] \subseteq {out'[j] : j \in 1..(i - 1)}
                      /\ \A j \in DOMAIN out' : out'[i] = out'[j] => i = j
    BY <1>2 DEF OrderRespects
  <2>1. CASE i \in DOMAIN out
    <3>1. needs[out[i]] \subseteq {out[j] : j \in 1..(i - 1)} /\ out'[i] = out[i]
      BY <2>1, <1>2, <1>7 DEF OrderRespects
    <3>2. \A j \in 1..(i - 1) : j \in DOMAIN out /\ out'[j] = out[j]
      BY <2>1, <1>7
    <3>3. needs[out'[i]] \subseteq {out'[j] : j \in 1..(i - 1)}
      BY <3>1, <3>2
    <3>4. \A j \in DOMAIN out' : out'[i] = out'[j] => i = j
      <4> TAKE j \in DOMAIN out'
      <4>1. CASE j \in DOMAIN out
        BY <4>1, <2>1, <3>1, <1>2, <1>7 DEF OrderRespects
      <4>2. CASE j = Len(out) + 1
        BY <4>2, <2>1, <3>1, <1>3, <1>7 DEF Placed
      <4> QED BY <4>1, <4>2, <1>7
    <3> QED BY <3>3, <3>4
  <2>2. CASE i = Len(out) + 1
    <3>1. out'[i] = id /\ 1..(i - 1) = DOMAIN out
      BY <2>2, <1>7
    <3>2. {out'[j] : j \in 1..(i - 1)} = Placed
      BY <3>1, <1>7 DEF Placed
    <3>3. \A j \in DOMAIN out : out'[j] # id
      BY <1>3, <1>7 DEF Placed
    <3> QED BY <3>1, <3>2, <3>3, <1>5, <1>7, <2>2
  <2>3. i \in DOMAIN out \/ i = Len(out) + 1
    BY <1>7
  <2> QED BY <2>1, <2>2, <2>3
<1>12. Counted'
  <2>1. \A i \in DOMAIN needs : indegree[i] \in Nat
    BY <1>2 DEF OrderTypeOK
  <2>2. \A i \in DOMAIN needs : i \in ready' <=> i \notin Placed' /\ indegree'[i] = 0
    <3> TAKE i \in DOMAIN needs
    <3>1. i \in ready <=> i \notin Placed /\ indegree[i] = 0
      BY <1>2 DEF Counted
    <3>2. indegree'[i] = IF id \in needs[i] THEN indegree[i] - 1 ELSE indegree[i]
      BY <1>1
    <3>3. id \in needs[i] => i # id /\ id \in needs[i] \ Placed
      BY <1>3
    <3>4. i \in Placed => needs[i] \subseteq Placed
      BY <1>2, <1>7 DEF OrderRespects, Placed
    <3>5. id \in needs[i] => i \notin Placed /\ indegree[i] # 0
      <4>1. SUFFICES ASSUME id \in needs[i] PROVE indegree[i] # 0
        BY <3>3, <3>4
      <4>2. needs[i] \ Placed # {}
        BY <4>1, <3>3
      <4> QED BY <4>2, <1>2, <1>4, FS_EmptySet DEF Counted
    <3>6. i \in ready' <=> (i \in ready /\ i # id) \/ (id \in needs[i] /\ indegree[i] = 1)
      BY <1>1
    <3>7. CASE id \in needs[i]
      BY <3>7, <3>1, <3>2, <3>3, <3>5, <3>6, <1>7, <2>1
    <3>8. CASE id \notin needs[i]
      BY <3>8, <3>1, <3>2, <3>6, <1>7
    <3> QED BY <3>7, <3>8
  <2>3. ready' \subseteq DOMAIN needs
    BY <1>10, <1>2 DEF OrderTypeOK
  <2>4. ~Dangling(needs)
    BY <1>2 DEF Counted
  <2> QED BY <2>2, <2>3, <2>4, <1>2, <1>9 DEF Counted
<1>13. CirclesStayOut'
  <2> SUFFICES ASSUME NEW S \in SUBSET DOMAIN needs, Circular(S)
               PROVE  S \cap Placed' = {}
    BY <1>2 DEF CirclesStayOut, Circular
  <2>1. S \cap Placed = {}
    BY <1>2 DEF CirclesStayOut
  <2>2. id \notin S
    BY <2>1, <1>5 DEF Circular
  <2> QED BY <2>1, <2>2, <1>7
<1>14. RefusedWhenUnusable' /\ ordering' # "idle"
  BY <1>2 DEF RefusedWhenUnusable
<1> QED BY <1>2, <1>10, <1>11, <1>12, <1>13, <1>14 DEF IInv

LEMMA FinishKeeps == ASSUME IInv, Finish PROVE IInv'
<1> USE DEF Finish
<1>1. /\ OrderTypeOK /\ OrderRespects /\ Counted /\ CirclesStayOut /\ ready = {}
      /\ needs' = needs /\ out' = out /\ Placed' = Placed
  BY DEF IInv, Placed
<1>2. OrderTypeOK' /\ OrderRespects' /\ ordering' # "idle"
  BY <1>1 DEF OrderTypeOK, OrderRespects
<1>3. Counted' /\ CirclesStayOut'
  BY <1>1 DEF Counted, CirclesStayOut, Circular
<1>4. CASE Len(out) = Cardinality(DOMAIN needs)
  <2>1. Placed = DOMAIN needs
    BY <1>1, <1>4, AllPlaced
  <2>2. \A S \in SUBSET DOMAIN needs : ~Circular(S)
    BY <1>1, <2>1 DEF CirclesStayOut, Circular
  <2>3. RefusedWhenUnusable'
    BY <1>1, <1>4, <2>1, <2>2 DEF RefusedWhenUnusable, Counted, Circular
  <2> QED BY <2>3, <1>2, <1>3 DEF IInv
<1>5. CASE Len(out) # Cardinality(DOMAIN needs)
  <2> DEFINE S == DOMAIN needs \ Placed
  <2>1. S # {}
    <3>1. SUFFICES ASSUME S = {} PROVE FALSE
      OBVIOUS
    <3>3. Len(out) \in Nat /\ DOMAIN out = 1..Len(out) /\ out \in [1..Len(out) -> DOMAIN needs]
      BY <1>1 DEF OrderTypeOK
    <3>2. Placed = DOMAIN needs
      <4>1. DOMAIN needs \subseteq Placed
        BY <3>1
      <4>2. Placed \subseteq DOMAIN needs
        BY <3>3 DEF Placed
      <4> QED BY <4>1, <4>2
    <3>4. out \in Injection(1..Len(out), DOMAIN needs)
      BY <1>1, <3>3, OutInjective
    <3>5. out \in Surjection(1..Len(out), DOMAIN needs)
      BY <3>2, <3>3 DEF Surjection, Placed
    <3>6. IsFiniteSet(DOMAIN needs)
      BY <1>1, FiniteGraph DEF OrderTypeOK
    <3>7. Cardinality(1..Len(out)) = Len(out)
      <4>1. Len(out) \in Nat
        BY <3>3
      <4> QED BY <4>1, UpTo
    <3>8. Cardinality(1..Len(out)) = Cardinality(DOMAIN needs)
      BY <3>4, <3>5, <3>6, FS_Injection
    <3> QED BY <3>7, <3>8, <1>5
  <2>2. \A i \in S : needs[i] \cap S # {}
    <3> TAKE i \in S
    <3>1. indegree[i] # 0
      BY <1>1 DEF Counted
    <3>2. needs[i] \ Placed # {}
      BY <3>1, <1>1, FS_EmptySet DEF Counted
    <3>3. needs[i] \subseteq DOMAIN needs
      BY <1>1 DEF Counted, Dangling
    <3> QED BY <3>2, <3>3
  <2>3. Circular(S) /\ S \in SUBSET DOMAIN needs
    BY <2>1, <2>2 DEF Circular
  <2>4. ordering' = "refused" /\ \E T \in SUBSET DOMAIN needs' : Circular(T)'
    BY <1>1, <1>5, <2>3 DEF Circular
  <2>5. RefusedWhenUnusable'
    BY <2>4 DEF RefusedWhenUnusable
  <2> QED BY <2>4, <2>5, <1>2 DEF IInv
<1> QED BY <1>4, <1>5

LEMMA OrderStarts == OrderInit => IInv
<1> SUFFICES ASSUME OrderInit PROVE IInv
  OBVIOUS
<1>1. needs \in Graphs /\ DOMAIN needs = {} /\ DOMAIN out = {}
  <2>1. needs \in [{} -> SUBSET Ids] /\ {} \in SUBSET Ids
    BY DEF OrderInit
  <2> QED BY <2>1 DEF Graphs, OrderInit
<1>2. OrderTypeOK
  BY <1>1 DEF OrderInit, OrderTypeOK
<1> QED BY <1>1, <1>2 DEF OrderInit, IInv, OrderRespects, RefusedWhenUnusable

LEMMA OrderInductive == IInv /\ [OrderNext]_orderVars => IInv'
<1> SUFFICES ASSUME IInv, [OrderNext]_orderVars PROVE IInv'
  OBVIOUS
<1>1. ASSUME NEW g \in Graphs, Start(g) PROVE IInv'
  BY <1>1, StartKeeps
<1>2. CASE Place
  BY <1>2, PlaceKeeps
<1>3. CASE Finish
  BY <1>3, FinishKeeps
<1>4. CASE UNCHANGED orderVars
  <2>1. needs' = needs /\ indegree' = indegree /\ ready' = ready /\ out' = out /\ ordering' = ordering
    BY <1>4 DEF orderVars
  <2>2. OrderTypeOK' /\ OrderRespects' /\ Placed' = Placed
    BY <2>1 DEF IInv, OrderTypeOK, OrderRespects, Placed
  <2>3. ordering \in {"walking", "ordered"} => Counted' /\ CirclesStayOut'
    BY <2>1, <2>2 DEF IInv, Counted, CirclesStayOut, Circular
  <2>4. RefusedWhenUnusable'
    BY <2>1, <2>2 DEF IInv, RefusedWhenUnusable, Circular
  <2> QED BY <2>1, <2>2, <2>3, <2>4 DEF IInv
<1> QED BY <1>1, <1>2, <1>3, <1>4 DEF OrderNext

-----------------------------------------------------------------------------
(* The theorems *)

\* Whatever the dependencies and the identifiers, no change is placed before one it depends on, and
\* none twice.
THEOREM OrderIsRespected == OrderSpec => []OrderRespects
<1>1. IInv => OrderRespects
  BY DEF IInv
<1> QED BY <1>1, OrderStarts, OrderInductive, PTL DEF OrderSpec

\* A package is refused exactly when its dependencies have no order: the loop that runs dry before
\* every change is placed has found a cycle, and one that places them all has shown there is none.
THEOREM CyclesAreRefused == OrderSpec => []RefusedWhenUnusable
<1>1. IInv => RefusedWhenUnusable
  BY DEF IInv
<1> QED BY <1>1, OrderStarts, OrderInductive, PTL DEF OrderSpec

-----------------------------------------------------------------------------
(* Packages take the steps of the order *)

USE ChangePackageConstants

\* The numbers a package gives its changes are among those there may be.
LEMMA Numbered ==
  ASSUME NEW s \in Baskets
  PROVE  DOMAIN packageItems(s) \subseteq Ids
<1>1. PICK n \in 1..MaxStaged : s \in [1..n -> Menu]
  BY DEF Baskets
<1>2. SUFFICES ASSUME NEW k \in Kept(s) PROVE number(s, k) \in Ids
  BY DEF packageItems
<1> DEFINE J == {j \in Kept(s) : j <= k}
<1>3. n \in Nat /\ J \subseteq 1..n /\ k \in J
  BY <1>1 DEF Kept
<1>4. IsFiniteSet(1..n) /\ Cardinality(1..n) = n
  BY <1>3, UpTo, FS_Interval
<1>5. IsFiniteSet(J) /\ Cardinality(J) <= n /\ Cardinality(J) \in Nat
  BY <1>3, <1>4, FS_Subset, FS_CardinalityType
<1>6. Cardinality(J) # 0
  BY <1>3, <1>5, FS_EmptySet
<1>7. number(s, k) = Earlier + Cardinality(J)
  BY DEF number
<1> QED BY <1>1, <1>5, <1>6, <1>7

\* A change depends on changes of the package only.
LEMMA NeedsWithin ==
  ASSUME NEW cs, NEW c
  PROVE  dataNeeds(cs, c) \subseteq DOMAIN cs
<1>1. \A x : entryAdds(cs, x) \subseteq DOMAIN cs /\ entryDeletes(cs, x) \subseteq DOMAIN cs
  BY DEF entryAdds, entryDeletes, LastOf
<1> QED BY <1>1 DEF dataNeeds

\* What comes after the order: a package is what it was built as from then on.
Onwards ==
  \/ Validate \/ CheckNext \/ Stage \/ CheckPlan \/ PlanOne \/ Apply \/ Close
  \/ checkPlannedChanges \/ Promote \/ Promoted \/ Other

LEMMA OnwardsOnly == Onwards => UNCHANGED <<orderVars, items, edited>>
<1>1. Validate \/ CheckNext \/ Stage => UNCHANGED <<orderVars, items, edited>>
  BY DEF Validate, CheckNext, Stage
<1>2. CheckPlan \/ PlanOne \/ Apply \/ Close => UNCHANGED <<orderVars, items, edited>>
  BY DEF CheckPlan, PlanOne, Apply, Close
<1>3. checkPlannedChanges \/ Promote \/ Promoted \/ Other => UNCHANGED <<orderVars, items, edited>>
  BY DEF checkPlannedChanges, Promote, Promoted, Other
<1> QED BY <1>1, <1>2, <1>3 DEF Onwards

\* Every step of a promotion is a step of the order, or leaves it alone.
LEMMA StepsOfTheOrder == [Next]_vars => [OrderNext]_orderVars
<1> SUFFICES ASSUME [Next]_vars PROVE [OrderNext]_orderVars
  OBVIOUS
<1>1. CASE BuildPackage
  <2>1. PICK s \in Baskets :
          LET cs == packageItems(s)
          IN \/ Start(Derive(cs))
             \/ \E i \in DOMAIN cs, n \in Ids : Start([Derive(cs) EXCEPT ![i] = @ \cup {n}])
    BY <1>1 DEF BuildPackage
  <2> DEFINE cs == packageItems(s)
  <2>2. DOMAIN cs \subseteq Ids
    BY Numbered
  <2> HIDE DEF cs
  <2>3. Derive(cs) \in [DOMAIN cs -> SUBSET Ids]
    BY <2>2, NeedsWithin DEF Derive
  <2>4. \A i \in DOMAIN cs, n \in Ids : [Derive(cs) EXCEPT ![i] = @ \cup {n}] \in [DOMAIN cs -> SUBSET Ids]
    BY <2>3
  <2>5. Derive(cs) \in Graphs
    BY <2>2, <2>3 DEF Graphs
  <2>6. \A i \in DOMAIN cs, n \in Ids : [Derive(cs) EXCEPT ![i] = @ \cup {n}] \in Graphs
    BY <2>2, <2>4 DEF Graphs
  <2> QED BY <2>1, <2>5, <2>6 DEF OrderNext, cs
<1>2. CASE Order
  BY <1>2 DEF Order, OrderNext
<1>3. CASE Onwards
  BY <1>3, OnwardsOnly
<1>4. CASE UNCHANGED vars
  BY <1>4 DEF vars
<1> QED BY <1>1, <1>2, <1>3, <1>4 DEF Next, Onwards

\* Building and promoting a package implements the ordering of it.
THEOREM ImplementsOrder == Spec => OrderSpec
<1>1. Init => OrderInit
  BY DEF Init
<1> QED BY <1>1, StepsOfTheOrder, PTL DEF Spec, OrderSpec

\* Nothing is checked, staged or sent before a change it depends on, whatever was staged: the order
\* every later step follows respects the dependencies.
THEOREM PackagesRespectOrder == Spec => []OrderRespects
  BY ImplementsOrder, OrderIsRespected, PTL

\* A package is refused exactly when its dependencies have no order.
THEOREM PackagesRefuseCycles == Spec => []RefusedWhenUnusable
  BY ImplementsOrder, CyclesAreRefused, PTL

-----------------------------------------------------------------------------
(* What is derived has an order *)

\* Of finitely many things, none is above one of them.
LEMMA SomeHighest ==
  ASSUME NEW D, IsFiniteSet(D), D # {}, NEW f \in [D -> Nat]
  PROVE  \E i \in D : \A j \in D : ~(f[i] < f[j])
<1> DEFINE Higher(i) == {j \in D : f[i] < f[j]}
           Counts == {Cardinality(Higher(i)) : i \in D}
<1>1. \A i \in D : IsFiniteSet(Higher(i)) /\ Cardinality(Higher(i)) \in Nat
  BY FS_Subset, FS_CardinalityType
<1>2. Counts \in SUBSET Nat /\ Counts # {}
  BY <1>1
<1>3. PICK c \in Counts : \A m \in Counts : c <= m
  BY <1>2, Least
<1>4. PICK i \in D : c = Cardinality(Higher(i))
  BY <1>3
<1> SUFFICES ASSUME NEW j \in D, f[i] < f[j] PROVE FALSE
  OBVIOUS
<1>5. Higher(j) \subseteq Higher(i) /\ j \in Higher(i) /\ j \notin Higher(j)
  <2>1. \A k \in D : f[k] \in Nat
    OBVIOUS
  <2> QED BY <2>1
<1> HIDE DEF Higher
<1>6. Cardinality(Higher(j)) <= Cardinality(Higher(i)) /\ Cardinality(Higher(j)) # Cardinality(Higher(i))
  BY <1>1, <1>5, FS_Subset
<1>7. Cardinality(Higher(i)) <= Cardinality(Higher(j))
  BY <1>3, <1>4
<1> QED BY <1>1, <1>6, <1>7

\* A DN below another is longer.
LEMMA BelowIsLonger ==
  ASSUME NEW x \in DNs, NEW y \in DNs, IsStrictPrefix(x, y)
  PROVE  Len(x) < Len(y) /\ Len(x) \in Nat /\ Len(y) \in Nat
<1>1. Len(x) \in Nat /\ Len(y) \in Nat
  BY DEF DNs
<1>2. Len(x) <= Len(y) /\ SubSeq(x, 1, Len(x)) = SubSeq(y, 1, Len(x)) /\ x # y
  BY DEF IsStrictPrefix, IsPrefix
<1>3. ASSUME Len(x) = Len(y) PROVE FALSE
  <2>1. SubSeq(x, 1, Len(x)) = x /\ SubSeq(y, 1, Len(y)) = y
    BY DEF DNs
  <2> QED BY <1>2, <1>3, <2>1
<1> QED BY <1>1, <1>2, <1>3

\* A DN above another is shorter.
LEMMA AboveIsShorter ==
  ASSUME NEW x \in DNs, NEW y \in Above(x)
  PROVE  Len(y) < Len(x) /\ Len(y) \in Nat /\ Len(x) \in Nat
<1>1. PICK n \in 1..(Len(x) - 1) : y = SubSeq(x, 1, n)
  BY DEF Above
<1>2. Len(x) \in Nat /\ Len(SubSeq(x, 1, n)) = n
  BY DEF DNs
<1> QED BY <1>1, <1>2

\* Changes of a package, by their numbers.
Changes(cs) == DOMAIN cs \subseteq Ids /\ \A i \in DOMAIN cs : cs[i] \in ChangeRecords

\* An added entry waits for additions above it; what is not a deletion waits for additions, and a
\* deletion for deletions below it.
LEMMA DerivedNeeds ==
  ASSUME NEW cs, Changes(cs), NEW i \in DOMAIN cs, NEW n \in Derive(cs)[i]
  PROVE  /\ n \in DOMAIN cs /\ n # i
         /\ cs[i].type = "add" => cs[n].type = "add" /\ cs[n].dn \in Above(cs[i].dn)
         /\ cs[i].type # "delete" => cs[n].type = "add"
         /\ cs[i].type = "delete" => cs[n].type = "delete" /\ IsStrictPrefix(cs[i].dn, cs[n].dn)
<1>1. n \in dataNeeds(cs, cs[i]) /\ n # i
  BY DEF Derive
<1>2. \A x : \A m \in entryAdds(cs, x) : m \in DOMAIN cs /\ cs[m].type = "add" /\ cs[m].dn = x
  BY DEF entryAdds, LastOf
<1>3. \A x : \A m \in entryDeletes(cs, x) : m \in DOMAIN cs /\ cs[m].type = "delete" /\ cs[m].dn = x
  BY DEF entryDeletes, LastOf
<1>4. cs[i].type \in {"add", "modify", "delete", "modrdn", "setpassword"}
  BY DEF Changes, ChangeRecords
<1>5. CASE cs[i].type = "add"
  <2>1. PICK x \in Above(cs[i].dn) : n \in entryAdds(cs, x)
    BY <1>1, <1>5 DEF dataNeeds
  <2> QED BY <1>1, <1>2, <1>5, <2>1
<1>6. CASE cs[i].type = "modify"
  <2>1. n \in entryAdds(cs, cs[i].dn)
    BY <1>1, <1>6 DEF dataNeeds
  <2> QED BY <1>1, <1>2, <1>6, <2>1
<1>7. CASE cs[i].type = "modrdn"
  <2>1. \E x : n \in entryAdds(cs, x)
    BY <1>1, <1>7 DEF dataNeeds
  <2> QED BY <1>1, <1>2, <1>7, <2>1
<1>8. CASE cs[i].type = "delete"
  <2>1. PICK j \in DOMAIN cs : IsStrictPrefix(cs[i].dn, cs[j].dn) /\ n \in entryDeletes(cs, cs[j].dn)
    BY <1>1, <1>8 DEF dataNeeds
  <2>2. n \in DOMAIN cs /\ cs[n].type = "delete" /\ cs[n].dn = cs[j].dn
    BY <1>3, <2>1
  <2> QED BY <1>1, <1>8, <2>1, <2>2
<1>9. CASE cs[i].type = "setpassword"
  BY <1>1, <1>9 DEF dataNeeds
<1> QED BY <1>4, <1>5, <1>6, <1>7, <1>8, <1>9

\* Changes each of which depends on another of them, in a graph.
CircleIn(g, S) == S # {} /\ \A i \in S : g[i] \cap S # {}

\* Whatever the changes, what is derived from them names no change outside them and has no circle:
\* of deletions in a circle, the one of the longest DN would wait for a longer one; without
\* deletions, the additions in it would hold one of the shortest DN that waits for a shorter one.
LEMMA DerivedIsOrderly ==
  ASSUME NEW cs, Changes(cs)
  PROVE  ~Dangling(Derive(cs)) /\ \A S \in SUBSET DOMAIN cs : ~CircleIn(Derive(cs), S)
<1> DEFINE g == Derive(cs)
<1>0. DOMAIN g = DOMAIN cs
  BY DEF Derive
<1>1. ~Dangling(g)
  BY <1>0, DerivedNeeds DEF Dangling
<1>2. \A i \in DOMAIN cs : cs[i].dn \in DNs
  BY DEF Changes, ChangeRecords
<1>3. ASSUME NEW S \in SUBSET DOMAIN cs, CircleIn(g, S) PROVE FALSE
  <2>1. IsFiniteSet(S)
    BY FS_Subset DEF Changes
  <2>2. \A i \in S : \E n \in g[i] : n \in S
    BY <1>3 DEF CircleIn
  <2>3. CASE \E i \in S : cs[i].type = "delete"
    <3> DEFINE D == {i \in S : cs[i].type = "delete"}
               f == [i \in D |-> Len(cs[i].dn)]
    <3>1. D # {} /\ IsFiniteSet(D)
      BY <2>1, <2>3, FS_Subset
    <3>2. f \in [D -> Nat]
      BY <1>2 DEF DNs
    <3> HIDE DEF f
    <3>3. PICK i \in D : \A j \in D : ~(f[i] < f[j])
      BY <3>1, <3>2, SomeHighest
    <3>4. PICK n \in g[i] : n \in S
      BY <2>2, <3>3
    <3>5. n \in D /\ IsStrictPrefix(cs[i].dn, cs[n].dn)
      BY <3>3, <3>4, DerivedNeeds
    <3>6. Len(cs[i].dn) < Len(cs[n].dn)
      BY <1>2, <3>3, <3>5, BelowIsLonger
    <3> QED BY <3>3, <3>5, <3>6 DEF f
  <2>4. CASE \A i \in S : cs[i].type # "delete"
    <3> DEFINE A == {i \in S : cs[i].type = "add"}
               L == {Len(cs[i].dn) : i \in A}
    <3>1. PICK i0 \in S : TRUE
      BY <1>3 DEF CircleIn
    <3>2. PICK n0 \in g[i0] : n0 \in S
      BY <2>2, <3>1
    <3>3. n0 \in A
      BY <2>4, <3>1, <3>2, DerivedNeeds
    <3>4. L \in SUBSET Nat /\ L # {}
      <4>1. \A i \in A : Len(cs[i].dn) \in Nat
        BY <1>2 DEF DNs
      <4> QED BY <3>3, <4>1
    <3>5. PICK l \in L : \A m \in L : l <= m
      BY <3>4, Least
    <3>6. PICK i \in A : l = Len(cs[i].dn)
      BY <3>5
    <3>7. PICK n \in g[i] : n \in S
      BY <2>2, <3>6
    <3>8. n \in A /\ cs[n].dn \in Above(cs[i].dn)
      BY <3>6, <3>7, DerivedNeeds
    <3>9. Len(cs[n].dn) < Len(cs[i].dn) /\ Len(cs[n].dn) \in Nat /\ Len(cs[i].dn) \in Nat
      BY <1>2, <3>6, <3>8, AboveIsShorter
    <3>10. Len(cs[n].dn) \in L
      BY <3>8
    <3> HIDE DEF L
    <3>11. Len(cs[i].dn) <= Len(cs[n].dn)
      BY <3>5, <3>6, <3>10
    <3> QED BY <3>9, <3>11
  <2> QED BY <2>3, <2>4
<1> QED BY <1>1, <1>3

\* What is staged is a list of changes as records.
LEMMA PackageChanges == ASSUME NEW s \in Baskets PROVE Changes(packageItems(s))
<1>1. PICK n \in 1..MaxStaged : s \in [1..n -> Menu]
  BY DEF Baskets
<1>2. DOMAIN packageItems(s) \subseteq Ids
  BY Numbered
<1>3. ASSUME NEW i \in DOMAIN packageItems(s) PROVE packageItems(s)[i] \in ChangeRecords
  <2>1. \E k \in Kept(s) : number(s, k) = i
    BY DEF packageItems
  <2>2. (CHOOSE k \in Kept(s) : number(s, k) = i) \in Kept(s)
    BY <2>1
  <2>3. PICK k \in Kept(s) : packageItems(s)[i] = s[k]
    BY <2>2 DEF packageItems
  <2>4. s[k] \in Menu
    BY <1>1 DEF Kept
  <2> QED BY <2>3, <2>4 DEF Valid
<1> QED BY <1>2, <1>3 DEF Changes

\* The dependencies of a package nobody edited have an order.
Orderly ==
  ~edited => ~Dangling(needs) /\ \A S \in SUBSET DOMAIN needs : ~Circular(S)

LEMMA OrderlyInductive == (Init => Orderly) /\ (Orderly /\ [Next]_vars => Orderly')
<1>1. Init => Orderly
  BY DEF Init, OrderInit, Orderly, Dangling, Circular
<1>2. ASSUME Orderly, [Next]_vars PROVE Orderly'
  <2>1. CASE BuildPackage
    <3>1. PICK s \in Baskets :
            LET cs == packageItems(s)
            IN \/ Start(Derive(cs)) /\ edited' = FALSE
               \/ \E i \in DOMAIN cs, n \in Ids : Start([Derive(cs) EXCEPT ![i] = @ \cup {n}]) /\ edited' = TRUE
      BY <2>1 DEF BuildPackage
    <3> DEFINE cs == packageItems(s)
    <3>2. Changes(cs)
      BY PackageChanges
    <3> HIDE DEF cs
    <3>3. ASSUME ~edited' PROVE needs' = Derive(cs)
      BY <3>1, <3>3 DEF Start, cs
    <3>4. ~Dangling(Derive(cs)) /\ \A S \in SUBSET DOMAIN cs : ~CircleIn(Derive(cs), S)
      BY <3>2, DerivedIsOrderly
    <3>5. DOMAIN Derive(cs) = DOMAIN cs
      BY DEF Derive
    <3>6. ASSUME ~edited' PROVE ~Dangling(needs)' /\ \A S \in SUBSET DOMAIN needs' : ~Circular(S)'
      <4>1. ~Dangling(needs)'
        BY <3>3, <3>4, <3>6 DEF Dangling
      <4> QED BY <3>3, <3>4, <3>5, <3>6, <4>1 DEF Circular, CircleIn
    <3> QED BY <3>6 DEF Orderly, Circular
  <2>2. CASE UNCHANGED <<needs, edited>>
    BY <1>2, <2>2 DEF Orderly, Dangling, Circular
  <2>3. CASE Order
    BY <2>2, <2>3 DEF Order, Place, Finish
  <2>4. CASE Onwards \/ UNCHANGED vars
    BY <2>2, <2>4, OnwardsOnly DEF vars, orderVars
  <2> QED BY <1>2, <2>1, <2>3, <2>4 DEF Next, Onwards
<1> QED BY <1>1, <1>2

\* What Alder derives from a changeset always has an order: only a package whose document was
\* written into by hand can be refused for its dependencies, whatever was staged.
THEOREM DerivedAlwaysOrdered == Spec => []DerivedHasOrder
<1>1. Spec => []Orderly
  BY OrderlyInductive, PTL DEF Spec
<1>2. Orderly /\ RefusedWhenUnusable => DerivedHasOrder
  BY DEF Orderly, RefusedWhenUnusable, DerivedHasOrder
<1> QED BY <1>1, <1>2, PackagesRefuseCycles, PTL


-----------------------------------------------------------------------------
(* What is promoted *)

Running == phase \notin {"staging", "building"}
Applied == phase \in {"promoting", "promoted"}

\* A package is asked about and sent once it has an order, and only then.
Begun ==
  /\ rounds \in Nat /\ pos \in Nat \ {0} /\ landed \in Seq(Ids)
  /\ rounds = 0 <=> ~Running
  /\ rounds = 0 => landed = <<>>
  /\ Running => ordering = "ordered"

\* The changes with a verdict are the first of the order; all have one when the package is sent.
Checked ==
  Running =>
    /\ IsFiniteSet(DOMAIN status) /\ Cardinality(DOMAIN status) <= Len(out)
    /\ DOMAIN status = {out[k] : k \in 1..Cardinality(DOMAIN status)}
    /\ phase # "validating" => Cardinality(DOMAIN status) = Len(out)

\* A verdict that lets a change through was given when those it depends on had one too.
NeedsMet ==
  Running => \A i \in DOMAIN status : status[i] \in Met =>
    \A n \in needs[i] : n \in DOMAIN status /\ status[n] \in Met

\* The first time, what was carried out is what comes first of what was sent.
Sent ==
  /\ phase \notin {"verifying", "promoting", "promoted"} => pos = 1
  /\ ~Applied /\ rounds = 1 => landed = <<>>
  /\ Applied /\ rounds = 1 =>
       /\ Len(landed) <= Len(sentItems)
       /\ \A k \in DOMAIN landed : landed[k] = sentItems[k]
       /\ pos <= Len(sentItems) => pos = Len(landed) + 1

\* The browser or the shell sends, and the shell no plan with a conflict.
Whole ==
  /\ phase \in {"staged", "planning", "reviewing", "refused", "verifying"} \/ Applied =>
       client \in {"browser", "shell"}
  /\ phase = "verifying" \/ Applied => (client = "shell" => ~Blocked)

PInv == Begun /\ Checked /\ NeedsMet /\ Sent /\ Whole

\* The ready changes are changes of the package, at the places the order gives them.
ReadyAt == {k \in DOMAIN out : status[out[k]] = "ready"}

LEMMA ReadyChanges ==
  ASSUME OrderTypeOK
  PROVE  /\ readyChanges \in Seq(DOMAIN needs)
         /\ DOMAIN readyChanges = 1..Len(readyChanges) /\ Len(readyChanges) \in Nat
         /\ Increasing(InOrder(ReadyAt)) /\ DOMAIN InOrder(ReadyAt) = DOMAIN readyChanges
         /\ \A k \in DOMAIN readyChanges : /\ InOrder(ReadyAt)[k] \in ReadyAt
                                           /\ readyChanges[k] = out[InOrder(ReadyAt)[k]]
         /\ \A j \in ReadyAt : \E k \in DOMAIN readyChanges : InOrder(ReadyAt)[k] = j
<1>1. out \in Seq(DOMAIN needs) /\ ReadyAt \in SUBSET DOMAIN out
  BY DEF OrderTypeOK, ReadyAt
<1>2. readyChanges = Selected(out, ReadyAt)
  BY DEF readyChanges, ReadyAt
<1>3. Len(out) \in Nat /\ ReadyAt \in SUBSET (1..Len(out))
  BY <1>1
<1> HIDE DEF ReadyAt
<1>4. /\ readyChanges \in Seq(DOMAIN needs)
      /\ Len(readyChanges) = Cardinality(ReadyAt)
      /\ DOMAIN readyChanges = 1..Cardinality(ReadyAt)
      /\ \A k \in DOMAIN readyChanges : InOrder(ReadyAt)[k] \in ReadyAt /\ readyChanges[k] = out[InOrder(ReadyAt)[k]]
      /\ \A j \in ReadyAt : \E k \in DOMAIN readyChanges : InOrder(ReadyAt)[k] = j
  BY <1>1, <1>2, SelectedIs
<1>5. Increasing(InOrder(ReadyAt)) /\ InOrder(ReadyAt) \in [1..Cardinality(ReadyAt) -> ReadyAt]
  BY <1>3, InOrderIs
<1>6. Len(readyChanges) \in Nat
  BY <1>4
<1> QED BY <1>4, <1>5, <1>6

\* What is sent is of the ready changes, in their order; what is left out the plan has nothing to
\* send for.
LEMMA SentItems ==
  ASSUME OrderTypeOK
  PROVE  /\ sentItems \in Seq(DOMAIN needs)
         /\ DOMAIN sentItems = 1..Len(sentItems) /\ Len(sentItems) \in Nat
         /\ SentAt \subseteq DOMAIN readyChanges
         /\ Increasing(InOrder(SentAt)) /\ DOMAIN InOrder(SentAt) = DOMAIN sentItems
         /\ \A k \in DOMAIN sentItems : /\ InOrder(SentAt)[k] \in SentAt
                                        /\ sentItems[k] = readyChanges[InOrder(SentAt)[k]]
         /\ \A j \in SentAt : \E k \in DOMAIN sentItems : InOrder(SentAt)[k] = j
<1>1. /\ readyChanges \in Seq(DOMAIN needs) /\ DOMAIN readyChanges = 1..Len(readyChanges)
      /\ Len(readyChanges) \in Nat
  BY ReadyChanges
<1>2. sentItems = Selected(readyChanges, SentAt) /\ SentAt \in SUBSET DOMAIN readyChanges
  BY DEF sentItems, SentAt
<1>3. SentAt \in SUBSET (1..Len(readyChanges))
  BY <1>1, <1>2
<1> HIDE DEF SentAt, sentItems, readyChanges
<1>4. /\ sentItems \in Seq(DOMAIN needs)
      /\ Len(sentItems) = Cardinality(SentAt)
      /\ DOMAIN sentItems = 1..Cardinality(SentAt)
      /\ \A k \in DOMAIN sentItems : InOrder(SentAt)[k] \in SentAt /\ sentItems[k] = readyChanges[InOrder(SentAt)[k]]
      /\ \A j \in SentAt : \E k \in DOMAIN sentItems : InOrder(SentAt)[k] = j
  BY <1>1, <1>2, SelectedIs
<1>5. Increasing(InOrder(SentAt)) /\ InOrder(SentAt) \in [1..Cardinality(SentAt) -> SentAt]
  BY <1>1, <1>3, InOrderIs
<1>6. Len(sentItems) \in Nat
  BY <1>4
<1> QED BY <1>2, <1>4, <1>5, <1>6

LEMMA SentLength == OrderTypeOK => Len(sentItems) \in Nat
  BY SentItems

LEMMA PackageStarts == Init => PInv
<1> SUFFICES ASSUME Init PROVE PInv
  OBVIOUS
<1>1. landed = <<>> /\ landed \in Seq(Ids) /\ phase = "staging" /\ rounds = 0 /\ pos = 1
  BY DEF Init
<1> QED BY <1>1 DEF PInv, Begun, Checked, NeedsMet, Sent, Whole, Running, Applied

\* A verdict is about the next change of the order.
LEMMA CheckKeeps == ASSUME IInv, PInv, CheckNext PROVE PInv'
<1> DEFINE v == Cardinality(DOMAIN status)
           i == out[v + 1]
<1>0. /\ OrderTypeOK /\ OrderRespects /\ Begun /\ Checked /\ NeedsMet /\ Sent
      /\ phase = "validating" /\ v < Len(out) /\ Running
      /\ Whole /\ UNCHANGED <<orderVars, phase, client, plan, pos, landed, rounds>>
  BY DEF IInv, PInv, CheckNext, Running, desk
<1>1. PICK failing : status' = [j \in DOMAIN status \cup {i} |-> IF j = i THEN check(i, failing) ELSE status[j]]
  BY DEF CheckNext
<1>2. /\ Len(out) \in Nat /\ DOMAIN out = 1..Len(out) /\ \A k \in DOMAIN out : out[k] \in DOMAIN needs
  BY <1>0 DEF OrderTypeOK
<1>3. v \in Nat /\ IsFiniteSet(DOMAIN status) /\ DOMAIN status = {out[k] : k \in 1..v}
  BY <1>0, FS_CardinalityType DEF Checked
<1>4. Cardinality(DOMAIN status) = v
  OBVIOUS
<1> HIDE DEF v
<1>5. v + 1 \in DOMAIN out /\ 1..v \subseteq DOMAIN out /\ 1..(v + 1) = (1..v) \cup {v + 1} /\ v + 1 \notin 1..v
  BY <1>0, <1>2, <1>3
<1>6. i \notin DOMAIN status
  BY <1>0, <1>3, <1>5 DEF OrderRespects
<1>7. DOMAIN status' = DOMAIN status \cup {i}
  BY <1>1
<1>8. IsFiniteSet(DOMAIN status') /\ Cardinality(DOMAIN status') = v + 1
  <2> HIDE DEF i
  <2>1. /\ IsFiniteSet(DOMAIN status \cup {i})
        /\ Cardinality(DOMAIN status \cup {i}) = Cardinality(DOMAIN status) + 1
    BY <1>3, <1>6, FS_AddElement
  <2> QED BY <1>4, <1>7, <2>1
<1>9. DOMAIN status' = {out[k] : k \in 1..(v + 1)}
  BY <1>3, <1>5, <1>7
<1>10. Checked'
  <2>1. v + 1 <= Len(out)
    BY <1>0, <1>2, <1>3
  <2>2. phase' = "validating" /\ out' = out
    BY <1>0 DEF orderVars
  <2> QED BY <1>8, <1>9, <2>1, <2>2 DEF Checked
<1>11. needs[i] \subseteq DOMAIN status
  <2>1. needs[out[v + 1]] \subseteq {out[j] : j \in 1..((v + 1) - 1)}
    BY <1>0, <1>5 DEF OrderRespects
  <2>2. (v + 1) - 1 = v
    BY <1>3
  <2> QED BY <1>3, <2>1, <2>2
<1> HIDE DEF i
<1>12. /\ \A j \in DOMAIN status : j \in DOMAIN status' /\ status'[j] = status[j]
       /\ status'[i] = check(i, failing)
  BY <1>1, <1>6
<1>13. ASSUME status'[i] \in Met PROVE \A n \in needs[i] : status[n] \in Met
  <2>1. "dependency_missing" \notin Met
    BY DEF Met, AlreadySatisfied
  <2> QED BY <1>12, <1>13, <2>1 DEF check
<1>14. NeedsMet'
  <2> SUFFICES ASSUME NEW j \in DOMAIN status', status'[j] \in Met, NEW n \in needs[j]
               PROVE  n \in DOMAIN status' /\ status'[n] \in Met
    BY <1>0 DEF NeedsMet, orderVars, Met
  <2>1. CASE j = i
    BY <1>11, <1>12, <1>13, <2>1
  <2>2. CASE j \in DOMAIN status
    <3>1. n \in DOMAIN status /\ status[n] \in Met
      BY <1>0, <1>12, <2>2 DEF NeedsMet
    <3> QED BY <1>12, <3>1
  <2> QED BY <1>7, <2>1, <2>2
<1>15. Begun' /\ Sent' /\ Whole'
  BY <1>0 DEF Begun, Sent, Whole, Running, Applied, orderVars
<1> QED BY <1>10, <1>14, <1>15 DEF PInv

\* A change is carried out at its turn, or none is any more.
LEMMA PromoteKeeps == ASSUME IInv, PInv, Promote PROVE PInv'
<1> DEFINE l == sentItems
<1>0. /\ OrderTypeOK /\ Begun /\ Checked /\ NeedsMet /\ Sent /\ Whole /\ Running
      /\ phase = "promoting" /\ pos <= Len(l)
      /\ UNCHANGED <<orderVars, phase, status, client, plan, rounds>>
      /\ \/ landed' = Append(landed, l[pos]) /\ pos' = pos + 1
         \/ landed' = landed /\ pos' = Len(l) + 1
  BY DEF IInv, PInv, Promote, Running, bounds
<1>1. /\ l \in Seq(DOMAIN needs) /\ Len(l) \in Nat /\ DOMAIN l = 1..Len(l)
      /\ needs \in Graphs
  BY <1>0, SentItems DEF OrderTypeOK
<1>2. l' = l
  BY <1>0 DEF sentItems, SentAt, readyChanges, orderVars
<1> HIDE DEF l
<1>3. Checked' /\ NeedsMet' /\ Whole'
  BY <1>0 DEF Checked, NeedsMet, Whole, Blocked, Running, Applied, orderVars
<1>4. /\ landed \in Seq(Ids) /\ Len(landed) \in Nat /\ DOMAIN landed = 1..Len(landed)
      /\ pos \in Nat \ {0} /\ rounds \in Nat /\ rounds # 0
  BY <1>0 DEF Begun
<1>5. CASE landed' = landed /\ pos' = Len(l) + 1
  <2>1. ~(pos' <= Len(l)) /\ pos' \in Nat \ {0}
    BY <1>1, <1>5
  <2>2. Begun'
    BY <1>0, <1>4, <1>5, <2>1 DEF Begun, Running, orderVars
  <2>3. Sent'
    BY <1>0, <1>2, <1>5, <2>1 DEF Sent, Applied, l
  <2> QED BY <1>3, <2>2, <2>3 DEF PInv
<1>6. CASE landed' = Append(landed, l[pos]) /\ pos' = pos + 1
  <2>1. rounds = 1 => pos = Len(landed) + 1
    BY <1>0 DEF Sent, Applied, l
  <2>2. Len(landed') = Len(landed) + 1 /\ DOMAIN landed' = 1..(Len(landed) + 1)
    BY <1>4, <1>6
  <2>3. /\ \A k \in DOMAIN landed : landed'[k] = landed[k]
        /\ landed'[Len(landed) + 1] = l[pos]
    BY <1>4, <1>6
  <2>4. Begun'
    <3>0. pos \in DOMAIN l
      BY <1>0, <1>1, <1>4
    <3>1. DOMAIN needs \subseteq Ids
      BY <1>1, FiniteGraph
    <3>2. l[pos] \in Ids
      BY <1>1, <3>0, <3>1
    <3> QED BY <1>0, <1>4, <1>6, <3>2 DEF Begun, Running, orderVars
  <2>5. Sent'
    <3> SUFFICES ASSUME rounds = 1
                 PROVE  /\ Len(landed') <= Len(l) /\ pos' = Len(landed') + 1
                        /\ \A k \in DOMAIN landed' : landed'[k] = l[k]
      BY <1>0, <1>2 DEF Sent, Applied, l
    <3>1. Len(landed') <= Len(l) /\ pos' = Len(landed') + 1
      BY <1>0, <1>1, <1>4, <1>6, <2>1, <2>2
    <3>2. \A k \in DOMAIN landed : landed[k] = l[k]
      BY <1>0 DEF Sent, Applied, l
    <3>3. \A k \in DOMAIN landed' : k \in DOMAIN landed \/ k = Len(landed) + 1
      BY <1>4, <2>2
    <3> QED BY <2>1, <2>3, <3>1, <3>2, <3>3
  <2> QED BY <1>3, <2>4, <2>5 DEF PInv
<1> QED BY <1>0, <1>5, <1>6

\* Staging, planning, verifying and closing change nothing that was carried out.
LEMMA DeskKeeps ==
  ASSUME IInv, PInv, Stage \/ CheckPlan \/ PlanOne \/ Apply \/ Close \/ checkPlannedChanges
  PROVE  PInv'
<1>0. OrderTypeOK /\ Begun /\ Checked /\ NeedsMet /\ Sent /\ Whole
  BY DEF IInv, PInv
<1>1. /\ UNCHANGED <<orderVars, status, landed, rounds>>
      /\ Running /\ Running' /\ ~Applied /\ phase' # "validating"
      /\ phase = "validating" => Cardinality(DOMAIN status) = Len(out)
  <2>1. CASE Stage
    BY <2>1 DEF Stage, Running, Applied, bounds
  <2>2. CASE CheckPlan \/ PlanOne
    BY <2>2 DEF CheckPlan, PlanOne, Running, Applied, bounds
  <2>3. CASE Apply
    BY <2>3 DEF Apply, Running, Applied, target, bounds
  <2>4. CASE Close
    BY <2>4 DEF Close, Running, Applied, bounds
  <2>5. CASE checkPlannedChanges
    BY <2>5 DEF checkPlannedChanges, Running, Applied
  <2> QED BY <2>1, <2>2, <2>3, <2>4, <2>5
<1>2. /\ pos' \in Nat \ {0}
      /\ phase' # "verifying" => pos' = 1
  <2>1. pos \in Nat \ {0} /\ (phase # "verifying" => pos = 1)
    BY <1>0, <1>1 DEF Begun, Sent, Applied
  <2>2. CASE Stage \/ CheckPlan \/ PlanOne \/ Apply \/ Close
    <3>1. pos' = pos /\ phase # "verifying"
      BY <2>2 DEF Stage, CheckPlan, PlanOne, Apply, Close, target, desk
    <3> QED BY <2>1, <3>1
  <2>3. CASE checkPlannedChanges
    <3>1. (pos' = pos + 1 /\ phase' = "verifying") \/ pos' = 1
      BY <2>3 DEF checkPlannedChanges
    <3> QED BY <2>1, <3>1
  <2> QED BY <2>2, <2>3
<1>3. Begun' /\ Checked' /\ NeedsMet'
  BY <1>0, <1>1, <1>2 DEF Begun, Checked, NeedsMet, Running, orderVars
<1>4. Sent'
  <2>1. rounds = 1 => landed = <<>>
    BY <1>0, <1>1 DEF Sent
  <2>2. (Len(sentItems) \in Nat)'
    <3>1. OrderTypeOK'
      BY <1>0, <1>1 DEF OrderTypeOK, orderVars, Graphs
    <3> QED BY <3>1, SentLength, PTL
  <2>3. rounds' = 1 => landed' = <<>> /\ Len(landed') = 0 /\ DOMAIN landed' = {}
    BY <1>1, <2>1
  <2>4. Applied' => pos' = 1
    BY <1>2 DEF Applied
  <2> QED BY <1>2, <2>2, <2>3, <2>4 DEF Sent
<1>5. Whole'
  <2>1. CASE Stage
    BY <2>1 DEF Stage, Whole, Applied
  <2>2. CASE CheckPlan
    BY <1>0, <2>2 DEF CheckPlan, Whole, Applied
  <2>3. CASE PlanOne
    BY <1>0, <2>3 DEF PlanOne, Whole, Applied
  <2>4. CASE Apply
    BY <1>0, <2>4 DEF Apply, Whole, Blocked, Applied, target, desk
  <2>5. CASE Close
    BY <2>5 DEF Close, Whole, Applied
  <2>6. CASE checkPlannedChanges
    BY <1>0, <2>6 DEF checkPlannedChanges, Whole, Blocked, Applied
  <2> QED BY <2>1, <2>2, <2>3, <2>4, <2>5, <2>6
<1> QED BY <1>3, <1>4, <1>5 DEF PInv

\* Every other step leaves what the invariant reads, or starts it.
LEMMA PackageInductive == IInv /\ PInv /\ [Next]_vars => PInv'
<1> SUFFICES ASSUME IInv, PInv, [Next]_vars PROVE PInv'
  OBVIOUS
<1>0. OrderTypeOK /\ Begun /\ Checked /\ NeedsMet /\ Sent /\ Whole
  BY DEF IInv, PInv
<1>1. CASE BuildPackage \/ Order
  <2>1. ~Running /\ ~Running' /\ UNCHANGED <<landed, rounds, pos>>
    BY <1>1 DEF BuildPackage, Order, Running, target, desk, bounds
  <2>2. ~Applied' /\ phase' \in {"staging", "building"}
    BY <2>1 DEF Running, Applied
  <2>3. pos' = 1
    BY <1>0, <2>1 DEF Sent, Running
  <2> QED BY <1>0, <2>1, <2>2, <2>3 DEF PInv, Begun, Checked, NeedsMet, Sent, Whole
<1>2. CASE Validate
  <2>1. /\ phase' = "validating" /\ rounds' = rounds + 1 /\ pos' = 1 /\ status' = <<>>
        /\ ordering = "ordered" /\ UNCHANGED <<orderVars, landed>>
    BY <1>2 DEF Validate
  <2>2. DOMAIN status' = {} /\ IsFiniteSet(DOMAIN status') /\ Cardinality(DOMAIN status') = 0
    BY <2>1, FS_EmptySet
  <2>3. Len(out) \in Nat /\ 1..0 = {}
    BY <1>0 DEF OrderTypeOK
  <2>4. Begun'
    BY <1>0, <2>1 DEF Begun, Running, orderVars
  <2>5. Checked'
    BY <2>1, <2>2, <2>3 DEF Checked, orderVars
  <2>6. NeedsMet' /\ Sent' /\ Whole'
    BY <1>0, <2>1, <2>2 DEF NeedsMet, Sent, Whole, Begun, Applied
  <2> QED BY <2>4, <2>5, <2>6 DEF PInv
<1>3. CASE CheckNext
  BY <1>3, CheckKeeps
<1>4. CASE Stage \/ CheckPlan \/ PlanOne \/ Apply \/ Close \/ checkPlannedChanges
  BY <1>4, DeskKeeps
<1>5. CASE Promote
  BY <1>5, PromoteKeeps
<1>6. CASE Promoted \/ Other \/ UNCHANGED vars
  <2>1. /\ UNCHANGED <<orderVars, status, client, plan, pos, landed, rounds>>
        /\ phase' = phase \/ (phase = "promoting" /\ phase' = "promoted")
    BY <1>6 DEF Promoted, Other, vars, target, desk, bounds
  <2>2. Begun' /\ Checked' /\ NeedsMet' /\ Whole'
    BY <1>0, <2>1 DEF Begun, Checked, NeedsMet, Whole, Blocked, Running, Applied, orderVars
  <2>3. Sent'
    <3>1. sentItems' = sentItems
      BY <2>1 DEF sentItems, SentAt, readyChanges, orderVars
    <3> QED BY <1>0, <2>1, <3>1 DEF Sent, Applied
  <2> QED BY <2>2, <2>3 DEF PInv
<1> QED BY <1>1, <1>2, <1>3, <1>4, <1>5, <1>6 DEF Next

\* What was carried out is ready and at its turn, and so is what it depends on: the order puts that
\* before it, and among what is sent too, unless the plan has it as done already or as a conflict,
\* with which the shell sends nothing.
LEMMA PromotedHaveTheirNeeds == IInv /\ PInv => NothingWithoutItsNeeds
<1> SUFFICES ASSUME IInv, PInv, rounds = 1, NEW k \in DOMAIN landed, NEW n \in needs[landed[k]],
                    status[n] # AlreadySatisfied
             PROVE  \/ \E m \in 1..(k - 1) : landed[m] = n
                    \/ FoundBy(n, "unchanged")
                    \/ client = "browser" /\ FoundBy(n, "conflict")
  BY DEF NothingWithoutItsNeeds
<1> DEFINE l == sentItems  at == InOrder(SentAt)  r == readyChanges  rat == InOrder(ReadyAt)
<1>0. OrderTypeOK /\ OrderRespects /\ Begun /\ Checked /\ NeedsMet /\ Sent /\ Whole
  BY DEF IInv, PInv
<1>1. /\ Applied /\ Running /\ phase # "validating"
      /\ landed \in Seq(Ids) /\ Len(landed) \in Nat /\ DOMAIN landed = 1..Len(landed)
  <2>1. landed \in Seq(Ids) /\ Running /\ landed # <<>>
    BY <1>0 DEF Begun
  <2>2. Applied
    BY <1>0, <2>1 DEF Sent
  <2> QED BY <2>1, <2>2 DEF Applied
<1>2. Len(landed) <= Len(l) /\ \A j \in DOMAIN landed : landed[j] = l[j]
  BY <1>0, <1>1 DEF Sent
<1>3. /\ DOMAIN l = 1..Len(l) /\ Len(l) \in Nat
      /\ Increasing(at) /\ DOMAIN at = DOMAIN l /\ SentAt \subseteq DOMAIN r
      /\ \A j \in DOMAIN l : at[j] \in SentAt /\ l[j] = r[at[j]]
      /\ \A j \in SentAt : \E m \in DOMAIN l : at[m] = j
  BY <1>0, SentItems
<1>4. /\ DOMAIN r = 1..Len(r) /\ Len(r) \in Nat
      /\ Increasing(rat) /\ DOMAIN rat = DOMAIN r
      /\ \A j \in DOMAIN r : rat[j] \in ReadyAt /\ r[j] = out[rat[j]]
      /\ \A j \in ReadyAt : \E m \in DOMAIN r : rat[m] = j
  BY <1>0, ReadyChanges
<1>5. /\ Len(out) \in Nat /\ DOMAIN out = 1..Len(out)
      /\ ReadyAt \subseteq DOMAIN out /\ \A j \in DOMAIN out : j \in ReadyAt <=> status[out[j]] = "ready"
  BY <1>0 DEF OrderTypeOK, ReadyAt
<1>6. DOMAIN status = {out[j] : j \in DOMAIN out}
  BY <1>0, <1>1, <1>5 DEF Checked
<1>7. \A j \in DOMAIN r : j \notin SentAt => j \in DOMAIN plan /\ AppliesNothing(plan[j].action)
  BY DEF SentAt
<1> HIDE DEF l, at, r, rat
<1> DEFINE p == at[k]
<1>8. k \in DOMAIN l /\ landed[k] = l[k] /\ l[k] = r[p] /\ p \in DOMAIN r
      /\ r[p] = out[rat[p]] /\ rat[p] \in DOMAIN out /\ status[out[rat[p]]] = "ready"
  <2>1. k \in DOMAIN l /\ landed[k] = l[k]
    BY <1>1, <1>2, <1>3
  <2>2. p \in DOMAIN r /\ l[k] = r[p]
    BY <1>3, <2>1
  <2>3. rat[p] \in ReadyAt /\ r[p] = out[rat[p]]
    BY <1>4, <2>2
  <2> QED BY <1>5, <2>1, <2>2, <2>3
<1> HIDE DEF p
<1>9. n \in DOMAIN status /\ status[n] \in Met
  BY <1>0, <1>1, <1>6, <1>8 DEF NeedsMet, Met
<1>10. PICK j \in 1..(rat[p] - 1) : n = out[j]
  BY <1>0, <1>8 DEF OrderRespects
<1>11. j \in ReadyAt /\ j < rat[p]
  <2>1. rat[p] \in 1..Len(out) /\ Len(out) \in Nat
    BY <1>5, <1>8
  <2>2. j \in 1..Len(out) /\ j < rat[p]
    BY <2>1
  <2>3. status[out[j]] = "ready"
    BY <1>9, <1>10 DEF Met
  <2> QED BY <1>5, <2>2, <2>3
<1>12. PICK q \in DOMAIN r : rat[q] = j
  BY <1>4, <1>11
<1>13. r[q] = n
  BY <1>4, <1>10, <1>12
<1>14. q < p
  <2>1. Increasing(rat) /\ DOMAIN rat = DOMAIN r
    BY <1>4
  <2>2. rat[p] \in Nat /\ j \in Nat
    BY <1>5, <1>8, <1>11
  <2>3. q # p /\ ~(p < q)
    <3>1. p \in DOMAIN rat /\ q \in DOMAIN rat /\ rat[q] # rat[p] /\ ~(rat[p] < rat[q])
      BY <1>8, <1>11, <1>12, <2>1, <2>2
    <3> QED BY <2>1, <3>1 DEF Increasing
  <2> QED BY <1>4, <1>8, <1>12, <2>3
<1>15. CASE q \in SentAt
  <2>1. PICK m \in DOMAIN l : at[m] = q
    BY <1>3, <1>15
  <2>2. m < k
    <3>1. p = at[k]
      BY DEF p
    <3>2. Increasing(at) /\ DOMAIN at = DOMAIN l /\ q \in Nat /\ p \in Nat
      <4>1. Increasing(at) /\ DOMAIN at = DOMAIN l
        BY <1>3
      <4>2. DOMAIN r = 1..Len(r) /\ Len(r) \in Nat
        BY <1>4
      <4> QED BY <1>8, <1>12, <4>1, <4>2
    <3>3. m # k /\ ~(k < m)
      <4>1. k \in DOMAIN at /\ m \in DOMAIN at /\ at[m] < at[k] /\ at[m] # at[k] /\ ~(at[k] < at[m])
        BY <1>8, <1>14, <2>1, <3>1, <3>2
      <4> QED BY <3>2, <4>1 DEF Increasing
    <3> QED BY <1>3, <1>8, <2>1, <3>3
  <2>3. m \in 1..(k - 1) /\ m \in DOMAIN landed
    <3>1. m \in Nat /\ 1 <= m
      BY <1>3, <2>1
    <3>2. k \in Nat /\ k <= Len(landed) /\ Len(landed) \in Nat
      BY <1>1
    <3>3. m \in 1..(k - 1) /\ m \in 1..Len(landed)
      BY <2>2, <3>1, <3>2
    <3> QED BY <1>1, <3>3
  <2>4. landed[m] = n
    BY <1>2, <1>3, <1>13, <2>1, <2>3
  <2> QED BY <2>3, <2>4
<1>16. CASE q \notin SentAt
  <2>1. q \in DOMAIN plan /\ plan[q].action \in {"unchanged", "conflict"}
    BY <1>7, <1>12, <1>16 DEF AppliesNothing
  <2>2. FoundBy(n, plan[q].action)
    BY <1>13, <2>1 DEF FoundBy, r
  <2>3. plan[q].action = "conflict" => client = "browser"
    BY <1>0, <1>1, <2>1 DEF Whole, Blocked
  <2> QED BY <2>1, <2>2, <2>3
<1> QED BY <1>15, <1>16

\* The first time a package is promoted, by whatever way its changes reach the target, a change is
\* carried out only after everything it depends on was, or with it there already; only the browser
\* may go on without one that the plan it applies shows as a conflict.  This is so for every graph
\* of dependencies, derived or written by hand, every verdict a read that fails or other people bring
\* about, every plan that goes stale and every refusal of the target.
THEOREM NeedsComeFirst == Spec => []NothingWithoutItsNeeds
<1>1. IInv /\ [Next]_vars => IInv'
  BY StepsOfTheOrder, OrderInductive
<1>2. Init => IInv
  BY OrderStarts DEF Init
<1> QED BY <1>1, <1>2, PackageStarts, PackageInductive, PromotedHaveTheirNeeds, PTL DEF Spec

-----------------------------------------------------------------------------
(* What a target shows of the changes it has carried out *)

\* What is read of an entry is an entry.
LEMMA ReadHere ==
  ASSUME NEW d, NEW x \in DOMAIN d, WellFormed(d)
  PROVE  /\ Read(d, x, UserAttrs) # NoEntry
         /\ \A a \in Attrs : a \notin ServerOwned => Read(d, x, UserAttrs)[a] = d[x][a]
<1>1. d[x] \in [Attrs -> SUBSET Values]
  BY DEF WellFormed, Entries
<1>2. Read(d, x, UserAttrs) = [a \in Attrs |-> IF a \in UserAttrs THEN d[x][a] ELSE {}]
  BY DEF Read
<1>3. Read(d, x, UserAttrs) \in [Attrs -> SUBSET Values]
  BY <1>1, <1>2
<1>4. NoEntry \notin [Attrs -> SUBSET Values]
  BY DirectoryConstants
<1> QED BY <1>2, <1>3, <1>4 DEF UserAttrs

\* An attribute that names no entry stays as it is when references follow, and so does every one
\* when no name that can be referred to is left.
LEMMA NotRepointed ==
  ASSUME NEW d, NEW gone, NEW renames, NEW x \in DOMAIN d, NEW a \in Attrs, d[x] \in Entries,
         a # RefAttr \/ (gone = {} /\ DOMAIN renames = {})
  PROVE  Repointed(d, gone, renames)[x][a] = d[x][a]
<1> DEFINE S == {v \in d[x][RefAttr] : \A y \in gone : v # Ref[y]}
           T == UNION {IF Ref[y] \in d[x][RefAttr] THEN {Ref[renames[y]]} ELSE {} : y \in DOMAIN renames}
<1>1. Repointed(d, gone, renames)[x] = [d[x] EXCEPT ![RefAttr] = S \cup T]
  BY DEF Repointed
<1>2. d[x] \in [Attrs -> SUBSET Values]
  BY DEF Entries
<1>3. CASE a # RefAttr
  <2> HIDE DEF S, T
  <2> QED BY <1>1, <1>2, <1>3
<1>4. CASE gone = {} /\ DOMAIN renames = {}
  <2>1. S = d[x][RefAttr]
    BY <1>4
  <2>2. T = {}
    BY <1>4
  <2> HIDE DEF S, T
  <2> QED BY <1>1, <1>2, <2>1, <2>2
<1> QED BY <1>3, <1>4

\* What a rename does to the entries neither at its old name nor at its new one.
LEMMA RenamedElsewhere ==
  ASSUME NEW d, WellFormed(d), NEW c \in ValidChanges, c.type = "modrdn",
         NEW x \in DNs, ~Touches(c, x)
  PROVE  /\ x \in DOMAIN Done(d, c) <=> x \in DOMAIN d
         /\ x \in DOMAIN d => \A a \in Attrs :
              a # RefAttr \/ ~Repoints(c) => Done(d, c)[x][a] = d[x][a]
<1> DEFINE under == {y \in DOMAIN d : IsUnder(y, c.dn)}
           named == under \cap DOMAIN Ref
           follow == {y \in named : Moved(y, c.dn, c.to) \in DOMAIN Ref}
           there == (DOMAIN d \ under) \cup {Moved(y, c.dn, c.to) : y \in under}
           source(y) == IF y \in DOMAIN d \ under THEN y ELSE Moved(y, c.to, c.dn)
           entry == [d[c.dn] EXCEPT ![NamingAttr] = Renamed(d[c.dn][NamingAttr], c.dn, c.to, c.deleteOld)]
           moved == [y \in there |-> IF y = c.to THEN entry ELSE d[source(y)]]
           renames == [y \in follow |-> Moved(y, c.dn, c.to)]
<1>1. Done(d, c) = Repointed(moved, named, renames)
  BY DEF Done
<1>2. c.dn \in DNs /\ c.to \in DNs /\ ~IsUnder(x, c.dn) /\ ~IsUnder(x, c.to)
  BY Kinds DEF Touches
<1>3. \A y \in under : x # Moved(y, c.dn, c.to)
  <2> SUFFICES ASSUME NEW y \in under PROVE IsUnder(Moved(y, c.dn, c.to), c.to)
    BY <1>2
  <2>1. y \in DNs /\ IsUnder(y, c.dn)
    BY DEF WellFormed
  <2> QED BY <1>2, <2>1, MovedBack
<1>4. x \in there <=> x \in DOMAIN d
  BY <1>2, <1>3
<1>5. x # c.to
  BY <1>2, UnderItself
<1>6. x \in DOMAIN d => moved[x] = d[x] /\ d[x] \in Entries
  BY <1>2, <1>4, <1>5 DEF WellFormed
<1>7. ~Repoints(c) => named = {} /\ DOMAIN renames = {}
  BY DEF Repoints
<1>8. DOMAIN moved = there
  OBVIOUS
<1> HIDE DEF moved, there, entry, named, renames
<1>9. DOMAIN Done(d, c) = there
  BY <1>1, <1>8 DEF Repointed
<1>10. ASSUME x \in DOMAIN d, NEW a \in Attrs, a # RefAttr \/ ~Repoints(c)
       PROVE  Done(d, c)[x][a] = d[x][a]
  <2>1. a # RefAttr \/ (named = {} /\ DOMAIN renames = {})
    BY <1>7, <1>10
  <2>2. x \in DOMAIN moved /\ moved[x] \in Entries
    BY <1>4, <1>6, <1>8, <1>10
  <2>3. Repointed(moved, named, renames)[x][a] = moved[x][a]
    BY <2>1, <2>2, NotRepointed
  <2> QED BY <1>1, <1>6, <1>10, <2>3
<1> QED BY <1>4, <1>9, <1>10

\* What a change does to the entries it does not touch.
LEMMA DoneElsewhere ==
  ASSUME NEW d, WellFormed(d), NEW c \in ValidChanges, NEW x \in DNs, ~Touches(c, x)
  PROVE  /\ x \in DOMAIN Done(d, c) <=> x \in DOMAIN d
         /\ x \in DOMAIN d => \A a \in Attrs :
              a # RefAttr \/ ~Repoints(c) => Done(d, c)[x][a] = d[x][a]
<1>1. c.type \in {"add", "modify", "delete", "modrdn", "setpassword"} /\ c.dn \in DNs
  BY Kinds
<1>2. c.type # "modrdn" => x # c.dn
  BY DEF Touches
<1>3. CASE c.type = "add"
  BY <1>2, <1>3 DEF Done, Over
<1>4. CASE c.type = "modify"
  BY <1>2, <1>4 DEF Done
<1>5. CASE c.type = "setpassword"
  BY <1>2, <1>5 DEF Done
<1>6. CASE c.type = "modrdn"
  BY <1>6, RenamedElsewhere
<1>7. CASE c.type = "delete"
  <2> DEFINE rest == [y \in DOMAIN d \ {c.dn} |-> d[y]]
             gone == {c.dn} \cap DOMAIN Ref
             none == <<>>
  <2>1. Done(d, c) = Repointed(rest, gone, none)
    BY <1>7 DEF Done
  <2>2. DOMAIN Done(d, c) = DOMAIN rest /\ DOMAIN rest = DOMAIN d \ {c.dn} /\ DOMAIN none = {}
    BY <2>1 DEF Repointed
  <2>3. x \in DOMAIN d => x \in DOMAIN rest /\ rest[x] = d[x] /\ d[x] \in Entries
    BY <1>2, <1>7 DEF WellFormed
  <2>4. ~Repoints(c) => gone = {}
    BY <1>1, <1>7, UnderItself DEF Repoints
  <2> HIDE DEF rest, gone, none
  <2>5. ASSUME x \in DOMAIN d, NEW a \in Attrs, a # RefAttr \/ ~Repoints(c)
        PROVE  Done(d, c)[x][a] = d[x][a]
    <3>1. a # RefAttr \/ (gone = {} /\ DOMAIN none = {})
      BY <2>2, <2>4, <2>5
    <3>2. Repointed(rest, gone, none)[x][a] = rest[x][a]
      BY <2>3, <2>5, <3>1, NotRepointed
    <3> QED BY <2>1, <2>3, <2>5, <3>2
  <2> QED BY <1>2, <1>7, <2>2, <2>5
<1> QED BY <1>1, <1>3, <1>4, <1>5, <1>6, <1>7

\* What a directory shows of a change it has carried out.
Taken(d, c) ==
  /\ c.type \in {"add", "modify"} => c.dn \in DOMAIN d
  /\ c.type = "add" => \A a \in Named(c) : d[c.dn][a] = c.attrs[a]
  /\ c.type = "modify" => modsSatisfied(d[c.dn], c)
  /\ c.type \in {"delete", "modrdn"} => c.dn \notin DOMAIN d
  /\ c.type = "modrdn" => c.to \in DOMAIN d

\* A modification that is allowed leaves what it asks for.
LEMMA SatisfiedAfter ==
  ASSUME NEW e, NEW S \in SUBSET Values, NEW m \in Mods, ModAllowed(S, m), e[m.attr] = AfterMod(S, m)
  PROVE  modSatisfied(e, m)
<1>1. m.op \in {"add", "delete", "replace"} /\ m.vals \subseteq Values
  BY DEF Mods
<1>2. CASE m.op = "replace"
  BY <1>2 DEF modSatisfied, AfterMod
<1>3. CASE m.op = "add"
  <2>1. Keys(m.vals) \cap Keys(S) = {}
    BY <1>3 DEF ModAllowed
  <2>2. \A v \in m.vals : Key[v] \in Keys(m.vals)
    BY DEF Keys
  <2>3. m.vals \subseteq Without(m.vals, S)
    BY <2>1, <2>2 DEF Without
  <2>4. e[m.attr] = S \cup Without(m.vals, S)
    BY <1>3 DEF AfterMod
  <2> QED BY <1>3, <2>3, <2>4 DEF modSatisfied
<1>4. CASE m.op = "delete" /\ m.vals = {}
  BY <1>4 DEF modSatisfied, AfterMod
<1>5. CASE m.op = "delete" /\ m.vals # {}
  <2>1. e[m.attr] = Without(S, m.vals)
    BY <1>5 DEF AfterMod
  <2>2. m.vals \cap Without(S, m.vals) = {}
    BY DEF Without, Keys
  <2> QED BY <1>5, <2>1, <2>2 DEF modSatisfied
<1> QED BY <1>1, <1>2, <1>3, <1>4, <1>5

\* A modify that names each attribute once leaves what each of its modifications asks for.
LEMMA ModifyTaken ==
  ASSUME NEW d, WellFormed(d), NEW c \in ValidChanges, c.type = "modify", Recognisable(c), Accepts(d, c)
  PROVE  modsSatisfied(Done(d, c)[c.dn], c)
<1> DEFINE e == Done(d, c)[c.dn]
           S(i) == d[c.dn][c.mods[i].attr]
<1>1. /\ c.mods \in Seq(Mods) /\ \A i \in DOMAIN c.mods : c.mods[i] \in Mods
      /\ DOMAIN c.mods = 1..Len(c.mods) /\ Len(c.mods) \in Nat
  BY ModsOfChange, ListIs
<1>2. c.dn \in DOMAIN d /\ d[c.dn] \in [Attrs -> SUBSET Values]
  BY DEF Accepts, WellFormed, Entries
<1>3. e = [a \in Attrs |-> applyMods(d[c.dn][a], a, c.mods)]
  BY DoneModify
<1>4. ModsAllowed(d[c.dn], c.mods)
  BY DEF Accepts
<1>5. \A i, j \in DOMAIN c.mods : c.mods[i].attr = c.mods[j].attr => i = j
  BY DEF Recognisable
<1> HIDE DEF e
<1>6. ASSUME NEW i \in DOMAIN c.mods PROVE modSatisfied(e, c.mods[i])
  <2> DEFINE a == c.mods[i].attr
             before == SubSeq(c.mods, 1, i - 1)
  <2>1. a \in Attrs /\ S(i) \in SUBSET Values /\ S(i) = d[c.dn][a]
    BY <1>1, <1>2 DEF Mods
  <2>2. i \in Nat /\ i - 1 \in Nat /\ i - 1 <= Len(c.mods)
    BY <1>1
  <2>3. /\ before \in Seq(Mods) /\ Len(before) = i - 1
        /\ \A k \in 1..Len(before) : before[k] = c.mods[k]
    BY <1>1, <2>2
  <2>4. \A k \in 1..Len(before) : before[k].attr # a
    <3> SUFFICES ASSUME NEW k \in 1..(i - 1) PROVE c.mods[k].attr # a
      BY <2>3
    <3>1. k \in DOMAIN c.mods /\ k # i
      BY <1>1, <2>2
    <3> QED BY <1>5, <3>1
  <2>5. \A k \in DOMAIN c.mods : c.mods[k].attr = a <=> k = i
    BY <1>5
  <2>6. ModAllowed(applyMods(S(i), a, before), c.mods[i])
    BY <1>4 DEF ModsAllowed
  <2> HIDE DEF a, before, S
  <2>7. applyMods(S(i), a, before) = S(i)
    BY <2>3, <2>4, ModsElsewhere
  <2>8. applyMods(S(i), a, c.mods) = AfterMod(S(i), c.mods[i])
    <3> DEFINE T == S(i)
               ms == c.mods
    <3>1. T \in SUBSET Values /\ a \in Attrs /\ ms \in Seq(Mods) /\ i \in DOMAIN ms
      BY <1>1, <2>1
    <3>2. \A k \in DOMAIN ms : ms[k].attr = a <=> k = i
      BY <2>5
    <3> HIDE DEF T, ms
    <3>3. applyMods(T, a, ms) = AfterMod(T, ms[i])
      BY <3>1, <3>2, AppliedOnce
    <3> QED BY <3>3 DEF T, ms
  <2>9. e[a] = AfterMod(S(i), c.mods[i])
    BY <1>3, <2>1, <2>8
  <2> QED BY <1>1, <2>1, <2>6, <2>7, <2>9, SatisfiedAfter DEF a
<1> QED BY <1>6 DEF modsSatisfied, e

\* A directory that carries out a change has taken it.
LEMMA LandedTaken ==
  ASSUME NEW d, WellFormed(d), Tree(d), NEW c \in ValidChanges, Recognisable(c), Accepts(d, c)
  PROVE  Taken(Done(d, c), c)
<1>1. c.type \in {"add", "modify", "delete", "modrdn", "setpassword"} /\ c.dn \in DNs
  BY Kinds
<1>2. CASE c.type = "add"
  <2>0. Created(d, c, Done(d, c))
    BY <1>2, DoneAdd
  <2>1. /\ c.dn \in DOMAIN Done(d, c)
        /\ \A a \in Attrs : Done(d, c)[c.dn][a] =
             IF a = NamingAttr THEN c.attrs[a] \cup Without({Last(c.dn)}, c.attrs[a]) ELSE c.attrs[a]
    BY <2>0 DEF Created
  <2>2. Named(c) = {a \in Attrs : c.attrs[a] # {}}
    BY <1>2 DEF Named
  <2>3. NamingAttr \in Named(c) => Without({Last(c.dn)}, c.attrs[NamingAttr]) = {}
    BY <1>2, <2>2 DEF Recognisable, Without
  <2>4. ASSUME NEW a \in Named(c) PROVE Done(d, c)[c.dn][a] = c.attrs[a]
    BY <2>1, <2>2, <2>3
  <2> QED BY <1>2, <2>1, <2>4 DEF Taken
<1>3. CASE c.type = "modify"
  BY <1>3, ModifyTaken, DoneModify DEF Taken
<1>4. CASE c.type = "delete"
  BY <1>4, DoneNames DEF Taken
<1>5. CASE c.type = "modrdn"
  <2>1. c.to # c.dn /\ c.dn \in DOMAIN d /\ c.to \in DNs
    BY <1>5, Kinds DEF Recognisable, Accepts
  <2>2. DOMAIN d \ DOMAIN Done(d, c) = Subtree(d, c.dn)
    BY <1>5, <2>1, MovedAway
  <2>3. IsUnder(c.dn, c.dn) /\ Moved(c.dn, c.dn, c.to) = c.to
    BY <1>1, <2>1, UnderItself, MovedBack
  <2>4. c.dn \in Subtree(d, c.dn)
    BY <2>1, <2>3 DEF Subtree
  <2>5. c.to \in Destination(d, c.dn, c.to)
    BY <2>3, <2>4 DEF Destination
  <2>6. DOMAIN Done(d, c) = (DOMAIN d \ Subtree(d, c.dn)) \cup Destination(d, c.dn, c.to)
    BY <1>5, DoneNames
  <2> QED BY <1>5, <2>2, <2>4, <2>5, <2>6 DEF Taken
<1>6. CASE c.type = "setpassword"
  BY <1>6 DEF Taken
<1> QED BY <1>1, <1>2, <1>3, <1>4, <1>5, <1>6

\* What an entry shows of a modify is a matter of the attributes it names.
LEMMA SatisfiedByNamed ==
  ASSUME NEW c \in ValidChanges, c.type = "modify", NEW e, NEW f, \A a \in Named(c) : e[a] = f[a],
         modsSatisfied(e, c)
  PROVE  modsSatisfied(f, c)
<1> SUFFICES ASSUME NEW i \in DOMAIN c.mods PROVE modSatisfied(f, c.mods[i])
  BY DEF modsSatisfied
<1>1. c.mods[i].attr \in Named(c)
  BY ModsOfChange
<1>2. modSatisfied(e, c.mods[i])
  BY DEF modsSatisfied
<1> DEFINE m == c.mods[i]
<1>3. e[m.attr] = f[m.attr]
  BY <1>1
<1> HIDE DEF m
<1>4. modSatisfied(e, m) = modSatisfied(f, m)
  BY <1>3 DEF modSatisfied
<1> QED BY <1>2, <1>4 DEF m

LEMMA NamedAreAttrs == ASSUME NEW c \in ValidChanges PROVE Named(c) \subseteq Attrs
<1>1. CASE c.type = "modify"
  BY <1>1, ModsOfChange
<1>2. CASE c.type # "modify"
  BY <1>2 DEF Named
<1> QED BY <1>1, <1>2

\* A change that was taken stays so, whatever is carried out that does not disturb what it left.
LEMMA StaysTaken ==
  ASSUME NEW d, WellFormed(d), NEW c \in ValidChanges, Taken(d, c),
         NEW l \in ValidChanges, ~Disturbs(l, c)
  PROVE  Taken(Done(d, l), c)
<1> DEFINE D == Done(d, l)
<1>1. /\ c.dn \in DNs /\ (c.type = "modrdn" => c.to \in DNs)
      /\ c.type \in {"add", "modify", "delete", "modrdn", "setpassword"}
  BY Kinds
<1>2. /\ ~Touches(l, c.dn) /\ (c.type = "modrdn" => ~Touches(l, c.to))
      /\ RefAttr \in Named(c) => ~Repoints(l)
  BY DEF Disturbs, Target
<1>3. /\ c.dn \in DOMAIN D <=> c.dn \in DOMAIN d
      /\ c.dn \in DOMAIN d => \A a \in Attrs : a # RefAttr \/ ~Repoints(l) => D[c.dn][a] = d[c.dn][a]
  BY <1>1, <1>2, DoneElsewhere
<1>4. c.type = "modrdn" => (c.to \in DOMAIN D <=> c.to \in DOMAIN d)
  BY <1>1, <1>2, DoneElsewhere
<1> HIDE DEF D
<1>5. c.dn \in DOMAIN d => \A a \in Named(c) : D[c.dn][a] = d[c.dn][a]
  BY <1>2, <1>3, NamedAreAttrs
<1>6. CASE c.type = "modify"
  <2>1. c.dn \in DOMAIN d /\ modsSatisfied(d[c.dn], c)
    BY <1>6 DEF Taken
  <2>2. \A a \in Named(c) : d[c.dn][a] = D[c.dn][a]
    BY <1>5, <2>1
  <2>3. modsSatisfied(D[c.dn], c)
    BY <1>6, <2>1, <2>2, SatisfiedByNamed
  <2> QED BY <1>3, <1>6, <2>1, <2>3 DEF Taken, D
<1>7. CASE c.type # "modify"
  BY <1>3, <1>4, <1>5, <1>7 DEF Taken, D
<1> QED BY <1>6, <1>7

\* Validation answers that what the target has taken is already satisfied, where no read fails.
LEMMA TakenIsSatisfied ==
  ASSUME WellFormed(dir), NEW c \in ValidChanges, c.type # "setpassword", Recognisable(c), Taken(dir, c)
  PROVE  checkData(c, {}) = AlreadySatisfied
<1> DEFINE live == Read(dir, c.dn, UserAttrs)
<1>1. /\ c.type \in {"add", "modify", "delete", "modrdn"} /\ c.dn \in DNs
      /\ Named(c) \subseteq Attrs \ ServerOwned
  BY Kinds, NamedAreAttrs DEF Recognisable
<1>2. c.dn \in DOMAIN dir => live # NoEntry /\ \A a \in Named(c) : live[a] = dir[c.dn][a]
  BY <1>1, ReadHere
<1>3. c.dn \notin DOMAIN dir => live = NoEntry
  BY DEF Read
<1>4. /\ c.type = "add" => checkData(c, {}) = checkAdd(c, live, {})
      /\ c.type = "modify" => checkData(c, {}) = checkModify(c, live)
      /\ c.type = "delete" => checkData(c, {}) = IF live = NoEntry THEN AlreadySatisfied ELSE "ready"
      /\ c.type = "modrdn" => checkData(c, {}) = checkRename(c, live, {})
  BY DEF checkData
<1> HIDE DEF live
<1>5. CASE c.type = "add"
  <2>1. c.dn \in DOMAIN dir /\ \A a \in Named(c) : dir[c.dn][a] = c.attrs[a]
    BY <1>5 DEF Taken
  <2>2. live # NoEntry /\ entryHolds(live, c)
    BY <1>2, <2>1 DEF entryHolds
  <2> QED BY <1>4, <1>5, <2>2 DEF checkAdd
<1>6. CASE c.type = "modify"
  <2>1. c.dn \in DOMAIN dir /\ modsSatisfied(dir[c.dn], c)
    BY <1>6 DEF Taken
  <2>2. live # NoEntry /\ \A a \in Named(c) : dir[c.dn][a] = live[a]
    BY <1>2, <2>1
  <2>3. modsSatisfied(live, c)
    BY <1>6, <2>1, <2>2, SatisfiedByNamed
  <2> QED BY <1>4, <1>6, <2>2, <2>3 DEF checkModify
<1>7. CASE c.type = "delete"
  BY <1>3, <1>4, <1>7 DEF Taken
<1>8. CASE c.type = "modrdn"
  <2>1. live = NoEntry /\ c.to \in DOMAIN dir
    BY <1>3, <1>8 DEF Taken
  <2>2. Exists(c.to, {})
    BY <2>1 DEF Exists, Present
  <2> QED BY <1>4, <1>8, <2>1, <2>2 DEF checkRename
<1> QED BY <1>1, <1>5, <1>6, <1>7, <1>8

-----------------------------------------------------------------------------
(* What is promoted again *)

\* A target is a directory, and a package is made of changes that may travel, each with what it needs.
Built ==
  /\ others \in Nat /\ faults \in Nat
  /\ WellFormed(dir) /\ Tree(dir)
  /\ \A i \in DOMAIN items : items[i] \in ValidChanges /\ items[i].type # "setpassword"
  /\ phase # "staging" => DOMAIN needs = DOMAIN items
  /\ landed \in Seq(DOMAIN items)

\* Nothing the target carried out after the kth change disturbs what that one left.
Undisturbed(k) == \A m \in (k + 1)..Len(landed) : ~Disturbs(items[landed[m]], items[landed[k]])

\* The target shows what it has taken and nothing disturbed, while nobody else writes.
StillTaken ==
  Alone => \A k \in DOMAIN landed :
    Recognisable(items[landed[k]]) /\ Undisturbed(k) => Taken(dir, items[landed[k]])

\* What the target shows is answered so.
Answered ==
  phase = "validating" /\ Alone => \A i \in DOMAIN status :
    Recognisable(items[i]) /\ Taken(dir, items[i]) /\ (\A n \in needs[i] : status[n] \in Met) =>
      status[i] = AlreadySatisfied

TInv == Built /\ StillTaken /\ Answered

LEMMA TakenStarts == Init => TInv
<1> SUFFICES ASSUME Init PROVE TInv
  OBVIOUS
<1>1. /\ dir \in Starts /\ items = <<>> /\ landed = <<>> /\ phase = "staging"
      /\ others = 0 /\ faults = 0
  BY DEF Init
<1>2. WellFormed(dir) /\ Tree(dir)
  BY <1>1, ChangePackageConstants
<1>3. landed \in Seq(DOMAIN items) /\ DOMAIN landed = {} /\ DOMAIN items = {}
  BY <1>1
<1> QED BY <1>1, <1>2, <1>3 DEF TInv, Built, StillTaken, Answered

\* Only changes that may travel are packed.
LEMMA PackedChanges ==
  ASSUME NEW s \in Baskets, NEW i \in DOMAIN packageItems(s)
  PROVE  packageItems(s)[i] \in ValidChanges /\ packageItems(s)[i].type # "setpassword"
<1>1. PICK n \in 1..MaxStaged : s \in [1..n -> Menu]
  BY DEF Baskets
<1>2. \E k \in Kept(s) : number(s, k) = i
  BY DEF packageItems
<1>3. (CHOOSE k \in Kept(s) : number(s, k) = i) \in Kept(s)
  BY <1>2
<1>4. PICK k \in Kept(s) : packageItems(s)[i] = s[k]
  BY <1>3 DEF packageItems
<1>5. s[k] \in Menu /\ Portable(s[k])
  BY <1>1 DEF Kept
<1>6. Valid(s[k])
  BY <1>5, ChangePackageConstants
<1> QED BY <1>4, <1>5, <1>6 DEF ValidChanges, Valid, Portable

LEMMA BuildTaken == ASSUME PInv, TInv, BuildPackage PROVE TInv'
<1>1. /\ phase = "staging" /\ phase' = "building" /\ UNCHANGED <<dir, landed, others, faults>>
      /\ rounds \in Nat /\ (rounds = 0 <=> ~Running) /\ (rounds = 0 => landed = <<>>)
  BY DEF BuildPackage, PInv, Begun, bounds
<1>2. PICK s \in Baskets :
        /\ items' = packageItems(s)
        /\ \/ Start(Derive(packageItems(s)))
           \/ \E i \in DOMAIN packageItems(s), n \in Ids :
                Start([Derive(packageItems(s)) EXCEPT ![i] = @ \cup {n}])
  BY DEF BuildPackage
<1>3. landed' = <<>>
  BY <1>1 DEF Running
<1>4. DOMAIN needs' = DOMAIN items'
  <2> DEFINE cs == packageItems(s)
  <2>1. DOMAIN Derive(cs) = DOMAIN cs
    BY DEF Derive
  <2> DEFINE g == Derive(cs)
  <2> HIDE DEF g
  <2>2. needs' = g \/ \E i \in DOMAIN cs, n \in Ids : needs' = [g EXCEPT ![i] = @ \cup {n}]
    BY <1>2 DEF Start, g
  <2>3. DOMAIN needs' = DOMAIN g
    BY <2>2
  <2> QED BY <1>2, <2>1, <2>3 DEF g
<1>5. \A i \in DOMAIN items' : items'[i] \in ValidChanges /\ items'[i].type # "setpassword"
  BY <1>2, PackedChanges
<1>6. landed' \in Seq(DOMAIN items') /\ DOMAIN landed' = {}
  BY <1>3
<1> QED BY <1>1, <1>4, <1>5, <1>6 DEF TInv, Built, StillTaken, Answered

\* The answer about the next change of the order is what the target shows of it.
LEMMA CheckTaken == ASSUME IInv, PInv, TInv, CheckNext PROVE TInv'
<1> DEFINE v == Cardinality(DOMAIN status)
           i == out[v + 1]
<1>0. /\ OrderTypeOK /\ OrderRespects /\ Checked /\ Built /\ StillTaken /\ Answered
      /\ phase = "validating" /\ v < Len(out) /\ Running
      /\ UNCHANGED <<orderVars, dir, items, phase, landed, others>>
  BY DEF IInv, PInv, TInv, CheckNext, Running
<1>1. PICK failing \in {{}} \cup {{x} : x \in {items[i].dn, Target(items[i]), Parent(Target(items[i]))}} :
        /\ faults' = faults + Cardinality(failing)
        /\ status' = [j \in DOMAIN status \cup {i} |-> IF j = i THEN check(i, failing) ELSE status[j]]
  BY DEF CheckNext
<1>2. /\ Len(out) \in Nat /\ DOMAIN out = 1..Len(out) /\ \A k \in DOMAIN out : out[k] \in DOMAIN needs
  BY <1>0 DEF OrderTypeOK
<1>3. v \in Nat /\ DOMAIN status = {out[k] : k \in 1..v}
  BY <1>0, FS_CardinalityType DEF Checked
<1> HIDE DEF v
<1>4. v + 1 \in DOMAIN out /\ 1..v \subseteq DOMAIN out /\ v + 1 \notin 1..v /\ \A k \in 1..v : 1..(k - 1) \subseteq 1..v
  BY <1>0, <1>2, <1>3
<1>5. i \notin DOMAIN status /\ i \in DOMAIN needs /\ i \in DOMAIN items
  <2>1. i \in DOMAIN needs
    BY <1>2, <1>4
  <2>2. DOMAIN needs = DOMAIN items
    BY <1>0 DEF Built
  <2>3. \A j \in DOMAIN out : out[v + 1] = out[j] => v + 1 = j
    BY <1>0, <1>4 DEF OrderRespects
  <2>4. i \notin DOMAIN status
    BY <1>3, <1>4, <2>3
  <2> QED BY <2>1, <2>2, <2>4
<1>6. needs[i] \subseteq DOMAIN status
  <2>1. needs[out[v + 1]] \subseteq {out[j] : j \in 1..((v + 1) - 1)}
    BY <1>0, <1>4 DEF OrderRespects
  <2>2. (v + 1) - 1 = v
    BY <1>3
  <2> QED BY <1>3, <2>1, <2>2
<1>7. \A j \in DOMAIN status : needs[j] \subseteq DOMAIN status
  <2> SUFFICES ASSUME NEW k \in 1..v PROVE needs[out[k]] \subseteq DOMAIN status
    BY <1>3
  <2>1. needs[out[k]] \subseteq {out[j] : j \in 1..(k - 1)}
    BY <1>0, <1>4 DEF OrderRespects
  <2> QED BY <1>3, <1>4, <2>1
<1> HIDE DEF i
<1>8. /\ \A j \in DOMAIN status : status'[j] = status[j]
      /\ status'[i] = check(i, failing) /\ DOMAIN status' = DOMAIN status \cup {i}
  BY <1>1, <1>5
<1>9. IsFiniteSet(failing) /\ Cardinality(failing) \in Nat /\ (Cardinality(failing) = 0 => failing = {})
  <2>1. IsFiniteSet(failing)
    BY <1>1, FS_EmptySet, FS_Singleton
  <2> QED BY <2>1, FS_EmptySet, FS_CardinalityType
<1>10. others \in Nat /\ faults \in Nat /\ faults' \in Nat
  BY <1>0, <1>1, <1>9 DEF Built
<1>11. Alone' => Alone /\ failing = {}
  BY <1>0, <1>1, <1>9, <1>10 DEF Alone
<1>12. Built'
  BY <1>0, <1>10 DEF Built, orderVars
<1>13. StillTaken'
  BY <1>0, <1>11 DEF StillTaken, Undisturbed
<1>14. Answered'
  <2> SUFFICES ASSUME Alone', NEW j \in DOMAIN status', Recognisable(items[j]), Taken(dir, items[j]),
                      \A n \in needs[j] : status'[n] \in Met
               PROVE  status'[j] = AlreadySatisfied
    BY <1>0 DEF Answered, orderVars
  <2>1. CASE j = i
    <3>1. \A n \in needs[i] : status[n] \in Met
      BY <1>6, <1>8, <2>1
    <3>2. items[i] \in ValidChanges /\ items[i].type # "setpassword" /\ WellFormed(dir)
      BY <1>0, <1>5 DEF Built
    <3>3. checkData(items[i], {}) = AlreadySatisfied
      BY <2>1, <3>2, TakenIsSatisfied
    <3> QED BY <1>8, <1>11, <2>1, <3>1, <3>3 DEF check
  <2>2. CASE j \in DOMAIN status
    <3>1. \A n \in needs[j] : status[n] \in Met
      BY <1>7, <1>8, <2>2
    <3> QED BY <1>0, <1>8, <1>11, <2>2, <3>1 DEF Answered
  <2> QED BY <1>8, <2>1, <2>2
<1> QED BY <1>12, <1>13, <1>14 DEF TInv

\* What the target carries out it shows, and it goes on showing what that does not disturb.
LEMMA PromoteTaken == ASSUME IInv, PInv, TInv, Promote PROVE TInv'
<1> DEFINE i == sentItems[pos]
<1>0. /\ OrderTypeOK /\ Begun /\ Built /\ StillTaken /\ phase = "promoting" /\ pos <= Len(sentItems)
      /\ UNCHANGED <<orderVars, items, phase, others, faults>>
      /\ \/ Accepts(dir, items[i]) /\ dir' = Done(dir, items[i]) /\ landed' = Append(landed, i)
         \/ UNCHANGED <<dir, landed>>
  BY DEF IInv, PInv, TInv, Promote, bounds
<1>1. i \in DOMAIN items
  <2>1. sentItems \in Seq(DOMAIN needs) /\ DOMAIN sentItems = 1..Len(sentItems) /\ Len(sentItems) \in Nat
    BY <1>0, SentItems
  <2>2. pos \in DOMAIN sentItems
    BY <1>0, <2>1 DEF Begun
  <2>3. DOMAIN needs = DOMAIN items
    BY <1>0 DEF Built
  <2> HIDE DEF sentItems
  <2> QED BY <2>1, <2>2, <2>3
<1> HIDE DEF i
<1>2. Answered'
  BY <1>0 DEF Answered
<1>3. CASE UNCHANGED <<dir, landed>>
  <2>1. Built' /\ StillTaken'
    BY <1>0, <1>3 DEF Built, StillTaken, Undisturbed, Alone, orderVars
  <2> QED BY <1>2, <2>1 DEF TInv
<1>4. CASE Accepts(dir, items[i]) /\ dir' = Done(dir, items[i]) /\ landed' = Append(landed, i)
  <2>1. /\ WellFormed(dir) /\ Tree(dir) /\ items[i] \in ValidChanges /\ items[i].type # "setpassword"
        /\ landed \in Seq(DOMAIN items)
    BY <1>0, <1>1 DEF Built
  <2>2. /\ Len(landed) \in Nat /\ DOMAIN landed = 1..Len(landed)
        /\ Len(landed') = Len(landed) + 1 /\ DOMAIN landed' = 1..(Len(landed) + 1)
        /\ \A k \in DOMAIN landed : landed'[k] = landed[k] /\ landed[k] \in DOMAIN items
        /\ landed'[Len(landed) + 1] = i /\ landed' \in Seq(DOMAIN items)
    BY <1>1, <1>4, <2>1
  <2>3. Built'
    <3>1. WellFormed(dir') /\ Tree(dir')
      BY <1>4, <2>1, DoneTyped, DoneTree
    <3> QED BY <1>0, <2>2, <3>1 DEF Built, orderVars
  <2>4. StillTaken'
    <3> SUFFICES ASSUME Alone', NEW k \in DOMAIN landed', Recognisable(items[landed'[k]]), Undisturbed(k)'
                 PROVE  Taken(dir', items[landed'[k]])
      BY <1>0 DEF StillTaken
    <3>1. CASE k = Len(landed) + 1
      BY <1>4, <2>1, <2>2, <3>1, LandedTaken
    <3>2. CASE k \in DOMAIN landed
      <4> DEFINE c == items[landed[k]]
      <4>1. c \in ValidChanges /\ landed'[k] = landed[k] /\ Recognisable(c)
        BY <1>0, <2>2, <3>2 DEF Built
      <4>2. \A m \in (k + 1)..(Len(landed) + 1) : ~Disturbs(items[landed'[m]], c)
        BY <1>0, <2>2, <4>1 DEF Undisturbed
      <4>3. Len(landed) + 1 \in (k + 1)..(Len(landed) + 1)
        BY <2>2, <3>2
      <4>4. ~Disturbs(items[i], c)
        BY <2>2, <4>2, <4>3
      <4>5. \A m \in (k + 1)..Len(landed) : m \in (k + 1)..(Len(landed) + 1) /\ m \in DOMAIN landed
        BY <2>2, <3>2
      <4>6. Undisturbed(k)
        BY <2>2, <4>2, <4>5 DEF Undisturbed
      <4>7. Alone
        BY <1>0 DEF Alone
      <4>8. Taken(dir, c)
        BY <1>0, <3>2, <4>1, <4>6, <4>7 DEF StillTaken
      <4> HIDE DEF c
      <4>9. Taken(Done(dir, items[i]), c)
        BY <2>1, <4>1, <4>4, <4>8, StaysTaken
      <4> QED BY <1>4, <4>1, <4>9 DEF c
    <3> QED BY <2>2, <3>1, <3>2
  <2> QED BY <1>2, <2>3, <2>4 DEF TInv
<1> QED BY <1>0, <1>3, <1>4

LEMMA TakenInductive == IInv /\ PInv /\ TInv /\ [Next]_vars => TInv'
<1> SUFFICES ASSUME IInv, PInv, TInv, [Next]_vars PROVE TInv'
  OBVIOUS
<1>0. Begun /\ Built /\ StillTaken /\ Answered
  BY DEF PInv, TInv
<1>1. CASE BuildPackage
  BY <1>1, BuildTaken
<1>2. CASE Order
  <2>1. /\ phase = "building" /\ phase' = phase /\ UNCHANGED <<dir, items, landed, others, faults, needs>>
    BY <1>2 DEF Order, Place, Finish, bounds
  <2> QED BY <1>0, <2>1 DEF TInv, Built, StillTaken, Answered, Undisturbed, Alone
<1>3. CASE Validate
  <2>1. /\ phase # "staging" /\ status' = <<>> /\ UNCHANGED <<needs, dir, items, landed, others, faults>>
    BY <1>3 DEF Validate, orderVars
  <2>2. DOMAIN status' = {}
    BY <2>1
  <2> QED BY <1>0, <2>1, <2>2 DEF TInv, Built, StillTaken, Answered, Undisturbed, Alone
<1>4. CASE CheckNext
  BY <1>4, CheckTaken
<1>5. CASE Stage \/ CheckPlan \/ PlanOne \/ Apply \/ Close \/ Promoted
  <2>1. /\ phase # "staging" /\ phase' # "validating" /\ UNCHANGED <<needs, dir, items, landed, others, faults>>
    BY <1>5 DEF Stage, CheckPlan, PlanOne, Apply, Close, Promoted, bounds, orderVars
  <2> QED BY <1>0, <2>1 DEF TInv, Built, StillTaken, Answered, Undisturbed, Alone
<1>6. CASE checkPlannedChanges
  <2>1. /\ phase # "staging" /\ phase' # "validating" /\ UNCHANGED <<needs, dir, items, landed, others>>
        /\ faults' = faults \/ faults' = faults + 1
    BY <1>6 DEF checkPlannedChanges, orderVars
  <2>2. faults' \in Nat /\ (Alone' => Alone)
    BY <1>0, <2>1 DEF Built, Alone
  <2> QED BY <1>0, <2>1, <2>2 DEF TInv, Built, StillTaken, Answered, Undisturbed
<1>7. CASE Promote
  BY <1>7, PromoteTaken
<1>8. CASE Other
  <2>1. PICK c \in Foreign : Accepts(dir, c) /\ dir' = Done(dir, c)
    BY <1>8 DEF Other
  <2>2. /\ phase # "staging" /\ others' = others + 1 /\ UNCHANGED <<needs, items, landed, faults>>
    BY <1>8 DEF Other, orderVars
  <2>3. c \in ValidChanges
    BY ChangePackageConstants DEF ValidChanges, Valid
  <2>4. WellFormed(dir') /\ Tree(dir')
    BY <1>0, <2>1, <2>3, DoneTyped, DoneTree DEF Built
  <2>5. others' \in Nat /\ ~Alone'
    BY <1>0, <2>2 DEF Built, Alone
  <2> QED BY <1>0, <2>2, <2>4, <2>5 DEF TInv, Built, StillTaken, Answered
<1>9. CASE UNCHANGED vars
  <2>1. UNCHANGED <<needs, dir, items, landed, others, faults, phase, status>>
    BY <1>9 DEF vars, orderVars, target, bounds
  <2> QED BY <1>0, <2>1 DEF TInv, Built, StillTaken, Answered, Undisturbed, Alone
<1> QED BY <1>1, <1>2, <1>3, <1>4, <1>5, <1>6, <1>7, <1>8, <1>9 DEF Next

\* Promoted again, a change the target has taken is already satisfied, unless one after it undid or
\* redid what it did or one it depends on cannot be met now: for whatever was staged, every target
\* and every way its changes depend on each other, as often as the package is promoted.
THEOREM PromotedStaysSatisfied == Spec => []PromotedIsSatisfied
<1>1. TInv => PromotedIsSatisfied
  <2> SUFFICES ASSUME TInv, Alone, NEW k \in DOMAIN landed, NEW i \in DOMAIN status,
                      phase = "validating", landed[k] = i,
                      Recognisable(items[i]), \A n \in needs[i] : status[n] \in Met,
                      \A m \in (k + 1)..Len(landed) : ~Disturbs(items[landed[m]], items[i])
               PROVE  status[i] = AlreadySatisfied
    BY DEF PromotedIsSatisfied
  <2>1. Taken(dir, items[i])
    BY DEF TInv, StillTaken, Undisturbed
  <2> QED BY <2>1 DEF TInv, Answered
<1>2. IInv /\ [Next]_vars => IInv'
  BY StepsOfTheOrder, OrderInductive
<1>3. Init => IInv
  BY OrderStarts DEF Init
<1> QED BY <1>1, <1>2, <1>3, PackageStarts, PackageInductive, TakenStarts, TakenInductive, PTL DEF Spec
=============================================================================
