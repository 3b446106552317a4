--------------------------- MODULE DataProofs ---------------------------
(***************************************************************************)
(* What the other proofs rest on: that natural numbers have a least one,   *)
(* which is all the induction they need; the positions of a list put in    *)
(* order, and what a list holds at some of them; folds over lists and      *)
(* sets, step by step; what a change is and what its modifications do, one *)
(* after the other; names, and what a directory is once it has carried out *)
(* a change.                                                               *)
(***************************************************************************)
EXTENDS Directory, Positions, FiniteSetTheorems, WellFoundedInduction, TLAPS

\* A set of natural numbers that is not empty has a least element.
LEMMA Least ==
  ASSUME NEW S \in SUBSET Nat, S # {}
  PROVE  \E n \in S : \A m \in S : n <= m
<1>1. PICK n \in S : \A m \in S : ~ (<<m, n>> \in OpToRel(<, Nat))
  BY NatLessThanWellFounded, WFMin
<1>2. \A m \in S : ~ (m < n)
  BY <1>1 DEF OpToRel
<1> QED BY <1>2

\* Induction: a set of numbers with zero, and with the successor of each, has them all.
LEMMA AllNumbers ==
  ASSUME NEW S \in SUBSET Nat, 0 \in S, \A n \in S : n + 1 \in S
  PROVE  S = Nat
<1> SUFFICES ASSUME Nat \ S # {} PROVE FALSE
  OBVIOUS
<1>1. PICK n \in Nat \ S : \A m \in Nat \ S : n <= m
  BY Least
<1> QED BY <1>1

Increasing(s) == \A j, k \in DOMAIN s : j < k => s[j] < s[k]

\* Positions up to any number can be put in order.
LEMMA OrderExists ==
  ASSUME NEW n \in Nat, NEW I \in SUBSET (1..n)
  PROVE  \E s \in [1..Cardinality(I) -> I] : Increasing(s)
<1> DEFINE Orders(J) == \E s \in [1..Cardinality(J) -> J] : Increasing(s)
           N == {m \in Nat : \A J \in SUBSET (1..m) : Orders(J)}
<1>1. 0 \in N
  <2> SUFFICES ASSUME NEW J \in SUBSET (1..0) PROVE Orders(J)
    OBVIOUS
  <2>0. 1..0 = {}
    OBVIOUS
  <2>1. J = {} /\ Cardinality(J) = 0 /\ 1..0 = {}
    BY <2>0, FS_EmptySet
  <2>2. [x \in {} |-> x] \in [1..Cardinality(J) -> J]
    BY <2>1
  <2>3. Increasing([x \in {} |-> x])
    BY DEF Increasing
  <2> QED BY <2>2, <2>3
<1>2. ASSUME NEW m \in N PROVE m + 1 \in N
  <2> SUFFICES ASSUME NEW J \in SUBSET (1..(m + 1)) PROVE Orders(J)
    OBVIOUS
  <2>1. CASE m + 1 \notin J
    <3>1. J \in SUBSET (1..m)
      BY <2>1
    <3> QED BY <3>1
  <2>2. CASE m + 1 \in J
    <3> DEFINE K == J \ {m + 1}
               c == Cardinality(K)
    <3>1. K \in SUBSET (1..m) /\ J = K \cup {m + 1} /\ m + 1 \notin K
      BY <2>2
    <3>2. IsFiniteSet(K) /\ c \in Nat /\ Cardinality(J) = c + 1
      <4>1. IsFiniteSet(1..m)
        BY FS_Interval
      <4>2. IsFiniteSet(K)
        BY <4>1, <3>1, FS_Subset
      <4> QED BY <4>2, <3>1, FS_CardinalityType, FS_AddElement
    <3>3. PICK s \in [1..c -> K] : Increasing(s)
      BY <3>1
    <3> HIDE DEF K, c
    <3> DEFINE t == [k \in 1..(c + 1) |-> IF k = c + 1 THEN m + 1 ELSE s[k]]
    <3>4. t \in [1..Cardinality(J) -> J]
      BY <3>1, <3>2
    <3>5. Increasing(t)
      <4> SUFFICES ASSUME NEW j \in 1..(c + 1), NEW k \in 1..(c + 1), j < k PROVE t[j] < t[k]
        BY DEF Increasing
      <4>0. j \in 1..c /\ c + 1 # j
        BY <3>2
      <4>1. j \in 1..c /\ t[j] = s[j] /\ s[j] \in 1..m
        BY <4>0, <3>1
      <4>2. CASE k = c + 1
        BY <4>1, <4>2
      <4>3. CASE k \in 1..c
        BY <4>1, <4>3, <3>2, <3>3 DEF Increasing
      <4> QED BY <4>2, <4>3, <3>2
    <3> QED BY <3>4, <3>5
  <2> QED BY <2>1, <2>2
<1>3. N = Nat
  <2> HIDE DEF N
  <2> QED BY <1>1, <1>2, AllNumbers DEF N
<1> QED BY <1>3

\* What InOrder(I) is: each position of I, once.
LEMMA InOrderIs ==
  ASSUME NEW n \in Nat, NEW I \in SUBSET (1..n)
  PROVE  /\ Cardinality(I) \in 0..n
         /\ InOrder(I) \in [1..Cardinality(I) -> I]
         /\ Increasing(InOrder(I))
         /\ \A j, k \in 1..Cardinality(I) : InOrder(I)[j] = InOrder(I)[k] => j = k
         /\ \A i \in I : \E k \in 1..Cardinality(I) : InOrder(I)[k] = i
<1>1. IsFiniteSet(I) /\ Cardinality(I) \in 0..n
  <2>1. IsFiniteSet(1..n) /\ Cardinality(1..n) = n
    BY FS_Interval
  <2>2. IsFiniteSet(I) /\ Cardinality(I) <= n
    BY <2>1, FS_Subset
  <2> QED BY <2>2, FS_CardinalityType
<1>2. InOrder(I) \in [1..Cardinality(I) -> I] /\ Increasing(InOrder(I))
  BY OrderExists DEF InOrder, Increasing
<1>3. \A j, k \in 1..Cardinality(I) : InOrder(I)[j] = InOrder(I)[k] => j = k
  <2> DEFINE s == InOrder(I)  c == Cardinality(I)
  <2>1. s \in [1..c -> 1..n] /\ c \in Nat /\ \A j, k \in 1..c : j < k => s[j] < s[k]
    <3>1. c \in Nat
      BY <1>1
    <3>2. s \in [1..c -> I] /\ Increasing(s)
      BY <1>2
    <3> HIDE DEF s, c
    <3> QED BY <3>1, <3>2 DEF Increasing
  <2> HIDE DEF s, c
  <2>2. SUFFICES ASSUME NEW j \in 1..c, NEW k \in 1..c, s[j] = s[k], j < k PROVE FALSE
    BY <2>1 DEF s, c
  <2>3. s[j] < s[k] /\ s[j] \in 1..n
    BY <2>1, <2>2
  <2> QED BY <2>2, <2>3
<1>4. \A i \in I : \E k \in 1..Cardinality(I) : InOrder(I)[k] = i
  <2> DEFINE D == 1..Cardinality(I)
  <2>1. InOrder(I) \in Injection(D, I)
    BY <1>2, <1>3 DEF Injection, IsInjective
  <2>2. Cardinality(D) = Cardinality(I)
    BY <1>1, FS_Interval
  <2>3. InOrder(I) \in Surjection(D, I)
    BY <1>1, <2>1, <2>2, FS_Injection
  <2> QED BY <2>3 DEF Surjection
<1> QED BY <1>1, <1>2, <1>3, <1>4

\* What is selected from a list: in its order, the elements at the positions given, and no others.
LEMMA SelectedIs ==
  ASSUME NEW S, NEW s \in Seq(S), NEW I \in SUBSET DOMAIN s
  PROVE  /\ Selected(s, I) \in Seq(S)
         /\ Len(Selected(s, I)) = Cardinality(I) /\ Cardinality(I) \in 0..Len(s)
         /\ DOMAIN Selected(s, I) = 1..Cardinality(I)
         /\ \A k \in DOMAIN Selected(s, I) : InOrder(I)[k] \in I /\ Selected(s, I)[k] = s[InOrder(I)[k]]
         /\ \A i \in I : \E k \in DOMAIN Selected(s, I) : InOrder(I)[k] = i /\ Selected(s, I)[k] = s[i]
         /\ \A j, k \in DOMAIN Selected(s, I) : InOrder(I)[j] = InOrder(I)[k] => j = k
<1>1. DOMAIN s = 1..Len(s) /\ Len(s) \in Nat
  OBVIOUS
<1> DEFINE n == Len(s)  c == Cardinality(I)  at == InOrder(I)
<1>2. /\ n \in Nat /\ I \in SUBSET (1..n)
  BY <1>1
<1>3. /\ c \in 0..n /\ at \in [1..c -> I]
      /\ \A j, k \in 1..c : at[j] = at[k] => j = k
      /\ \A i \in I : \E k \in 1..c : at[k] = i
  <2> HIDE DEF n
  <2> QED BY <1>2, InOrderIs
<1>4. Selected(s, I) = [k \in 1..c |-> s[at[k]]]
  BY <1>3 DEF Selected
<1> HIDE DEF c, at
<1>5. \A k \in 1..c : s[at[k]] \in S
  BY <1>1, <1>2, <1>3
<1>6. Selected(s, I) \in [1..c -> S] /\ c \in Nat
  BY <1>3, <1>4, <1>5
<1>7. Selected(s, I) \in Seq(S) /\ Len(Selected(s, I)) = c
  BY <1>6
<1> QED BY <1>3, <1>4, <1>7 DEF at, c, n

\* The elements selected are those at the positions given, and different ones stay different.
LEMMA SelectedElements ==
  ASSUME NEW S, NEW s \in Seq(S), NEW I \in SUBSET DOMAIN s
  PROVE  /\ {Selected(s, I)[k] : k \in DOMAIN Selected(s, I)} = {s[i] : i \in I}
         /\ (\A i, j \in DOMAIN s : s[i] = s[j] => i = j) =>
              \A j, k \in DOMAIN Selected(s, I) : Selected(s, I)[j] = Selected(s, I)[k] => j = k
<1> DEFINE t == Selected(s, I)  at == InOrder(I)
<1>1. /\ \A k \in DOMAIN t : at[k] \in I /\ t[k] = s[at[k]]
      /\ \A i \in I : \E k \in DOMAIN t : at[k] = i /\ t[k] = s[i]
      /\ \A j, k \in DOMAIN t : at[j] = at[k] => j = k
  BY SelectedIs
<1> HIDE DEF t, at
<1>2. {t[k] : k \in DOMAIN t} = {s[i] : i \in I}
  BY <1>1
<1>3. (\A i, j \in DOMAIN s : s[i] = s[j] => i = j) => \A j, k \in DOMAIN t : t[j] = t[k] => j = k
  BY <1>1
<1> QED BY <1>2, <1>3 DEF t

\* All positions in order are the positions as they are, and selecting all of a list is the list.
LEMMA SelectedAll ==
  ASSUME NEW S, NEW s \in Seq(S)
  PROVE  Selected(s, DOMAIN s) = s
<1> DEFINE n == Len(s)  at == InOrder(1..n)
<1>0. n \in Nat /\ DOMAIN s = 1..n
  OBVIOUS
<1>1. Cardinality(1..n) = n
  BY <1>0, FS_Interval
<1>2. /\ at \in [1..n -> 1..n]
      /\ \A j, k \in 1..n : j < k => at[j] < at[k]
      /\ \A i \in 1..n : \E k \in 1..n : at[k] = i
  <2> HIDE DEF n
  <2>1. /\ at \in [1..Cardinality(1..n) -> 1..n] /\ Increasing(at)
        /\ \A i \in 1..n : \E k \in 1..Cardinality(1..n) : at[k] = i
    BY <1>0, InOrderIs
  <2> HIDE DEF at
  <2> QED BY <2>1, <1>1 DEF Increasing
<1> HIDE DEF at, n
<1>3. \A k \in 1..n : at[k] = k
  <2> DEFINE Off == {k \in 1..n : at[k] # k}
  <2> SUFFICES ASSUME Off # {} PROVE FALSE
    OBVIOUS
  <2>1. Off \in SUBSET Nat
    BY <1>0
  <2>2. PICK k \in Off : \A m \in Off : k <= m
    BY <2>1, Least
  <2>3. PICK m \in 1..n : at[m] = k
    BY <1>2
  <2>4. \A j \in 1..n : j < k => at[j] = j
    BY <1>0, <2>2
  <2>5. m > k
    BY <1>0, <2>2, <2>3, <2>4
  <2>6. at[k] < k /\ at[k] \in 1..n
    BY <1>0, <1>2, <2>2, <2>3, <2>5
  <2>7. at[at[k]] = at[k] /\ at[at[k]] < at[k]
    BY <1>0, <1>2, <2>2, <2>4, <2>6
  <2> QED BY <1>0, <2>6, <2>7
<1>4. Selected(s, DOMAIN s) = [k \in 1..n |-> s[k]]
  BY <1>0, <1>2, <1>3 DEF Selected, at
<1> QED BY <1>0, <1>4 DEF n

\* A list is a function on 1..n, and such a function is a list.
LEMMA ListIs ==
  ASSUME NEW S, NEW s \in Seq(S)
  PROVE  Len(s) \in Nat /\ DOMAIN s = 1..Len(s) /\ \A k \in DOMAIN s : s[k] \in S
  OBVIOUS
LEMMA IsList ==
  ASSUME NEW S, NEW n \in Nat, NEW s \in [1..n -> S]
  PROVE  s \in Seq(S) /\ Len(s) = n
  OBVIOUS

\* A list of some things is a list of more.
LEMMA ListGrows == ASSUME NEW S, NEW T, S \subseteq T PROVE Seq(S) \subseteq Seq(T)
  OBVIOUS

\* Lists joined are a list.
LEMMA Joined ==
  ASSUME NEW S, NEW s \in Seq(S), NEW t \in Seq(S)
  PROVE  s \o t \in Seq(S) /\ Len(s \o t) = Len(s) + Len(t)
  OBVIOUS

\* A finite set can be put into a list.
LEMMA SetToSeqIs ==
  ASSUME NEW S, IsFiniteSet(S)
  PROVE  Cardinality(S) \in Nat /\ SetToSeq(S) \in [1..Cardinality(S) -> S]
<1>1. Cardinality(S) \in Nat /\ \E f : f \in Bijection(1..Cardinality(S), S)
  BY FS_CardinalityType DEF ExistsBijection
<1>2. PICK f : f \in Bijection(1..Cardinality(S), S)
  BY <1>1
<1>3. f \in [1..Cardinality(S) -> S] /\ IsInjective(f)
  BY <1>2 DEF Bijection, Injection, IsInjective
<1> QED BY <1>1, <1>3 DEF SetToSeq

\* An enumeration leaves nothing out.
LEMMA SetToSeqAll ==
  ASSUME NEW S, IsFiniteSet(S), NEW x \in S
  PROVE  \E k \in DOMAIN SetToSeq(S) : SetToSeq(S)[k] = x
<1> DEFINE n == Cardinality(S)
           t == SetToSeq(S)
<1>1. n \in Nat /\ \E f : f \in Bijection(1..n, S)
  BY FS_CardinalityType DEF ExistsBijection
<1>2. PICK f : f \in Bijection(1..n, S)
  BY <1>1
<1>3. f \in [1..n -> S] /\ IsInjective(f)
  BY <1>2 DEF Bijection, Injection, IsInjective
<1>4. t \in [1..n -> S] /\ IsInjective(t)
  BY <1>3 DEF SetToSeq
<1> HIDE DEF t
<1>5. t \in Injection(1..n, S)
  BY <1>4 DEF Injection, IsInjective
<1>6. IsFiniteSet(1..n) /\ Cardinality(1..n) = n
  <2>1. 1 \in Int /\ n \in Int /\ IsFiniteSet(1..n)
    BY <1>1, FS_Interval
  <2>2. Cardinality(1..n) = IF 1 > n THEN 0 ELSE n - 1 + 1
    BY <2>1, FS_Interval
  <2> HIDE DEF n
  <2> QED BY <1>1, <2>1, <2>2
<1>7. t \in Surjection(1..n, S)
  BY <1>5, <1>6, FS_Injection
<1>8. \E k \in 1..n : t[k] = x
  BY <1>7 DEF Surjection
<1>9. DOMAIN t = 1..n
  BY <1>4
<1> QED BY <1>8, <1>9 DEF t

-----------------------------------------------------------------------------
(* Folds *)

LEMMA LastIsMax ==
  ASSUME NEW n \in Nat, NEW S \in SUBSET (1..(n + 1)), n + 1 \in S
  PROVE  Max(S) = n + 1
<1>1. \A y \in S : n + 1 >= y
  OBVIOUS
<1>2. \A x \in S : (\A y \in S : x >= y) => x = n + 1
  OBVIOUS
<1> QED BY <1>1, <1>2 DEF Max

LEMMA MaxAmong ==
  ASSUME NEW n \in Nat, NEW S \in SUBSET (1..n), S # {}
  PROVE  Max(S) \in S
<1> DEFINE N == {m \in Nat : \A T \in SUBSET (1..m) : T # {} => Max(T) \in T}
<1>1. 0 \in N
  <2>1. 1..0 = {}
    OBVIOUS
  <2> QED BY <2>1
<1>2. ASSUME NEW m \in N PROVE m + 1 \in N
  <2> SUFFICES ASSUME NEW T \in SUBSET (1..(m + 1)), T # {} PROVE Max(T) \in T
    OBVIOUS
  <2>1. CASE m + 1 \in T
    BY <2>1, LastIsMax
  <2>2. CASE m + 1 \notin T
    <3>1. T \in SUBSET (1..m)
      BY <2>2
    <3> QED BY <3>1
  <2> QED BY <2>1, <2>2
<1>3. N = Nat
  <2> HIDE DEF N
  <2> QED BY <1>1, <1>2, AllNumbers DEF N
<1> QED BY <1>3

\* What g makes of each set of positions: base, and the step of each position, in order.
Links(g, n, base, F) ==
  \A S \in SUBSET (1..n) : g[S] = IF S = {} THEN base ELSE F[Max(S)][g[S \ {Max(S)}]]

\* Step functions can be carried out one after the other.
LEMMA Chained ==
  ASSUME NEW U, NEW base \in U, NEW n \in Nat, NEW F \in [1..n -> [U -> U]]
  PROVE  \E g \in [SUBSET (1..n) -> U] : Links(g, n, base, F)
<1> DEFINE Chain(m) == \E g \in [SUBSET (1..m) -> U] : Links(g, m, base, F)
           N == {m \in Nat : m <= n => Chain(m)}
<1> HIDE DEF Chain
<1>1. Chain(0)
  <2> DEFINE g == [S \in SUBSET (1..0) |-> base]
  <2>0. 1..0 = {}
    OBVIOUS
  <2>1. g \in [SUBSET (1..0) -> U] /\ Links(g, 0, base, F)
    BY <2>0 DEF Links
  <2> HIDE DEF g
  <2> QED BY <2>1 DEF Chain
<1>2. ASSUME NEW m \in Nat, Chain(m), m + 1 <= n PROVE Chain(m + 1)
  <2>1. PICK g \in [SUBSET (1..m) -> U] : Links(g, m, base, F)
    BY <1>2 DEF Chain
  <2>2. /\ m + 1 \in 1..n
        /\ \A S \in SUBSET (1..(m + 1)) : S \ {m + 1} \in SUBSET (1..m) /\ m + 1 \notin S \ {m + 1}
        /\ \A S \in SUBSET (1..(m + 1)) : m + 1 \notin S => S \in SUBSET (1..m)
    BY <1>2
  <2> DEFINE h == [S \in SUBSET (1..(m + 1)) |-> IF m + 1 \in S THEN F[m + 1][g[S \ {m + 1}]] ELSE g[S]]
  <2>3. h \in [SUBSET (1..(m + 1)) -> U]
    <3> SUFFICES ASSUME NEW S \in SUBSET (1..(m + 1))
                 PROVE (IF m + 1 \in S THEN F[m + 1][g[S \ {m + 1}]] ELSE g[S]) \in U
      OBVIOUS
    <3>1. CASE m + 1 \in S
      <4>1. g[S \ {m + 1}] \in U
        BY <2>2
      <4>2. F[m + 1] \in [U -> U]
        BY <2>2
      <4> QED BY <3>1, <4>1, <4>2
    <3>2. CASE m + 1 \notin S
      BY <3>2, <2>2
    <3> QED BY <3>1, <3>2
  <2>4. \A S \in SUBSET (1..(m + 1)) : h[S] = IF m + 1 \in S THEN F[m + 1][g[S \ {m + 1}]] ELSE g[S]
    OBVIOUS
  <2> HIDE DEF h
  <2>5. \A S \in SUBSET (1..(m + 1)) : h[S] = IF S = {} THEN base ELSE F[Max(S)][h[S \ {Max(S)}]]
    <3> TAKE S \in SUBSET (1..(m + 1))
    <3>1. CASE m + 1 \in S
      <4>1. Max(S) = m + 1
        BY <3>1, LastIsMax
      <4>2. S \ {m + 1} \in SUBSET (1..(m + 1)) /\ m + 1 \notin S \ {m + 1}
        OBVIOUS
      <4>3. h[S \ {m + 1}] = g[S \ {m + 1}]
        BY <2>4, <4>2
      <4>4. h[S] = F[m + 1][g[S \ {m + 1}]]
        BY <2>4, <3>1
      <4>5. h[S] = F[Max(S)][h[S \ {Max(S)}]]
        BY <4>1, <4>3, <4>4
      <4> QED BY <3>1, <4>5
    <3>2. CASE m + 1 \notin S
      <4>0. S \in SUBSET (1..m)
        BY <3>2, <2>2
      <4> DEFINE T == S \ {Max(S)}
      <4>1. T \in SUBSET (1..(m + 1)) /\ m + 1 \notin T
        <5>1. T \subseteq S
          OBVIOUS
        <5> HIDE DEF T
        <5> QED BY <5>1, <4>0
      <4>2. h[S] = g[S] /\ h[T] = g[T]
        BY <2>4, <4>0, <4>1, <3>2
      <4>3. g[S] = IF S = {} THEN base ELSE F[Max(S)][g[S \ {Max(S)}]]
        BY <4>0, <2>1 DEF Links
      <4> QED BY <4>2, <4>3
    <3> QED BY <3>1, <3>2
  <2> QED BY <2>3, <2>5 DEF Chain, Links
<1>3. \A m \in N : m + 1 \in N
  BY <1>2
<1>4. N = Nat
  <2>1. N \in SUBSET Nat /\ 0 \in N
    BY <1>1
  <2> HIDE DEF N
  <2> QED BY <2>1, <1>3, AllNumbers
<1>5. Chain(n)
  BY <1>4
<1> QED BY <1>5 DEF Chain

LEMMA UpToLast ==
  ASSUME NEW k \in Nat \ {0}
  PROVE  Max(1..k) = k /\ (1..k) \ {k} = 1..(k - 1) /\ 1..k # {}
<1>1. k - 1 \in Nat /\ (k - 1) + 1 = k
  OBVIOUS
<1>2. Max(1..k) = k
  <2> DEFINE j == k - 1
  <2>1. j \in Nat /\ j + 1 = k
    BY <1>1
  <2> HIDE DEF j
  <2>2. 1..(j + 1) \in SUBSET (1..(j + 1)) /\ j + 1 \in 1..(j + 1)
    BY <2>1
  <2>3. Max(1..(j + 1)) = j + 1
    BY <2>1, <2>2, LastIsMax
  <2> QED BY <2>1, <2>3
<1> QED BY <1>1, <1>2

-----------------------------------------------------------------------------
(* Folding a finite set *)

AnyOf(T) == CHOOSE x \in T : TRUE

\* What g makes of each set: base, and the step of one of its elements after the others'.
Peels(g, S, base, F) ==
  \A T \in SUBSET S : g[T] = IF T = {} THEN base ELSE F[AnyOf(T)][g[T \ {AnyOf(T)}]]

\* How many elements a set has, and how many once one is taken away.
Smaller(T) ==
  /\ Cardinality(T) \in Nat /\ (Cardinality(T) = 0 <=> T = {})
  /\ T # {} => AnyOf(T) \in T /\ Cardinality(T \ {AnyOf(T)}) = Cardinality(T) - 1

\* A finite set with an element taken away is finite, and smaller by one.
LEMMA SubsetsSmaller ==
  ASSUME NEW S, IsFiniteSet(S), NEW T \in SUBSET S
  PROVE  Smaller(T)
<1>1. IsFiniteSet(T)
  BY FS_Subset
<1>2. T # {} => AnyOf(T) \in T
  BY DEF AnyOf
<1>3. Cardinality(T) \in Nat /\ (Cardinality(T) = 0 <=> T = {})
  BY <1>1, FS_CardinalityType, FS_EmptySet
<1>4. T # {} => Cardinality(T \ {AnyOf(T)}) = Cardinality(T) - 1
  BY <1>1, <1>2, FS_RemoveElement
<1> QED BY <1>2, <1>3, <1>4 DEF Smaller

\* Step functions can be carried out for the elements of a finite set, one after the other.
LEMMA Peeled ==
  ASSUME NEW S, IsFiniteSet(S), NEW U, NEW base \in U, NEW F \in [S -> [U -> U]]
  PROVE  \E g \in [SUBSET S -> U] : Peels(g, S, base, F)
<1> DEFINE Upto(m) == {T \in SUBSET S : Cardinality(T) <= m}
           Step(g, T) == IF T = {} THEN base ELSE F[AnyOf(T)][g[T \ {AnyOf(T)}]]
           Peel(m) == \E g \in [Upto(m) -> U] : \A T \in Upto(m) : g[T] = Step(g, T)
           N == {m \in Nat : Peel(m)}
<1>1. \A T \in SUBSET S : Smaller(T)
  BY SubsetsSmaller
<1>2. Peel(0)
  <2> DEFINE g == [T \in Upto(0) |-> base]
  <2>1. \A T \in Upto(0) : T = {}
    <3> TAKE T \in Upto(0)
    <3>1. Smaller(T) /\ Cardinality(T) <= 0
      BY <1>1
    <3> QED BY <3>1 DEF Smaller
  <2>2. g \in [Upto(0) -> U] /\ \A T \in Upto(0) : g[T] = Step(g, T)
    BY <2>1
  <2> QED BY <2>2
<1>3. ASSUME NEW m \in Nat, Peel(m) PROVE Peel(m + 1)
  <2>1. PICK g \in [Upto(m) -> U] : \A T \in Upto(m) : g[T] = Step(g, T)
    BY <1>3
  <2> DEFINE h == [T \in Upto(m + 1) |-> IF T \in Upto(m) THEN g[T] ELSE Step(g, T)]
  <2>2. \A T \in SUBSET S : T # {} => /\ AnyOf(T) \in S
                                      /\ T \in Upto(m + 1) => T \ {AnyOf(T)} \in Upto(m)
    <3> TAKE T \in SUBSET S
    <3>1. Smaller(T) /\ T \ {AnyOf(T)} \in SUBSET S
      BY <1>1
    <3>2. ASSUME T # {} PROVE AnyOf(T) \in S
      BY <3>1, <3>2 DEF Smaller
    <3>3. ASSUME T # {}, Cardinality(T) <= m + 1 PROVE Cardinality(T \ {AnyOf(T)}) <= m
      BY <3>1, <3>3 DEF Smaller
    <3> QED BY <3>1, <3>2, <3>3
  <2>3. \A T \in Upto(m) : T \in Upto(m + 1)
    <3> TAKE T \in Upto(m)
    <3>1. Cardinality(T) <= m /\ Cardinality(T) \in Nat
      BY <1>1 DEF Smaller
    <3> QED BY <3>1
  <2> HIDE DEF Upto
  <2>5. \A T \in Upto(m + 1) : T \in SUBSET S
    BY DEF Upto
  <2>6. \A T \in Upto(m + 1) : Step(g, T) \in U
    <3> TAKE T \in Upto(m + 1)
    <3>1. T = {} => Step(g, T) \in U
      OBVIOUS
    <3>2. T # {} => g[T \ {AnyOf(T)}] \in U /\ F[AnyOf(T)] \in [U -> U]
      BY <2>2, <2>5
    <3> QED BY <3>1, <3>2
  <2>7. h \in [Upto(m + 1) -> U]
    BY <2>6
  <2>8. \A T \in Upto(m) : h[T] = g[T]
    BY <2>3
  <2>9. \A T \in Upto(m + 1) : h[T] = Step(g, T)
    BY <2>1
  <2>10. \A T \in Upto(m + 1) : Step(g, T) = Step(h, T)
    BY <2>2, <2>5, <2>8
  <2> HIDE DEF h, Step
  <2>11. \A T \in Upto(m + 1) : h[T] = Step(h, T)
    BY <2>9, <2>10
  <2> QED BY <2>7, <2>11
<1> HIDE DEF Peel
<1>4. N = Nat
  <2>1. N \in SUBSET Nat /\ 0 \in N /\ \A m \in N : m + 1 \in N
    BY <1>2, <1>3
  <2> HIDE DEF N
  <2> QED BY <2>1, AllNumbers
<1>5. Cardinality(S) \in Nat /\ \A T \in SUBSET S : Cardinality(T) <= Cardinality(S)
  BY FS_CardinalityType, FS_Subset
<1>6. Upto(Cardinality(S)) = SUBSET S
  BY <1>5
<1>7. Peel(Cardinality(S))
  BY <1>4, <1>5
<1>8. PICK g \in [SUBSET S -> U] : \A T \in SUBSET S : g[T] = Step(g, T)
  BY <1>6, <1>7 DEF Peel
<1> QED BY <1>8 DEF Peels

\* What a property of the empty set, and of a set of which it holds without one element, holds of.
LEMMA SubsetsAll ==
  ASSUME NEW S, IsFiniteSet(S), NEW P \in SUBSET SUBSET S,
         {} \in P, \A T \in SUBSET S : T # {} /\ T \ {AnyOf(T)} \in P => T \in P
  PROVE  S \in P
<1> DEFINE N == {m \in Nat : \A T \in SUBSET S : Cardinality(T) = m => T \in P}
<1>1. \A T \in SUBSET S : Smaller(T)
  BY SubsetsSmaller
<1>2. 0 \in N
  BY <1>1 DEF Smaller
<1>3. ASSUME NEW m \in N PROVE m + 1 \in N
  <2> SUFFICES ASSUME NEW T \in SUBSET S, Cardinality(T) = m + 1 PROVE T \in P
    OBVIOUS
  <2>1. T # {}
    BY <1>1 DEF Smaller
  <2>2. T \ {AnyOf(T)} \in SUBSET S /\ Cardinality(T \ {AnyOf(T)}) = m
    BY <1>1, <2>1 DEF Smaller
  <2> QED BY <2>1, <2>2
<1>4. N = Nat
  <2> HIDE DEF N
  <2> QED BY <1>2, <1>3, AllNumbers DEF N
<1> QED BY <1>1, <1>4 DEF Smaller

-----------------------------------------------------------------------------
(* Changes, and modifications carried out in order *)

ValidChanges == {c \in ChangeRecords : Valid(c)}

\* The modifications a valid change may hold.
Wellformed == {m \in Mods : m.op = "add" => m.vals # {}}

\* The five kinds of change, and what each holds.
LEMMA Kinds ==
  ASSUME NEW c \in ValidChanges
  PROVE  /\ c.type \in {"add", "modify", "delete", "modrdn", "setpassword"}
         /\ c.dn \in DNs /\ c.dn # <<>>
         /\ c.type = "add" => c = Add(c.dn, c.attrs) /\ c.attrs \in Entries
         /\ c.type = "modify" => c = Modify(c.dn, c.mods) /\ c.mods \in Seq(Wellformed) /\ c.mods # <<>>
         /\ c.type = "delete" => c = Delete(c.dn)
         /\ c.type = "modrdn" => c = Rename(c.dn, c.to, c.deleteOld) /\ c.to \in DNs /\ c.to # <<>>
         /\ c.type = "setpassword" => c = SetPassword(c.dn, c.new) /\ c.new \in SUBSET Values
<1>1. c \in ChangeRecords /\ Valid(c)
  BY DEF ValidChanges
<1>2. CASE c \in [type : {"add"}, dn : DNs, attrs : Entries]
  BY <1>1, <1>2 DEF Valid, Add
<1>3. CASE c \in [type : {"modify"}, dn : DNs, mods : Seq(Mods)]
  <2>1. c.mods \in Seq(Mods) /\ c.type = "modify"
    BY <1>3
  <2>2. \A i \in DOMAIN c.mods : c.mods[i] \in Wellformed
    BY <2>1, <1>1 DEF Valid, Wellformed
  <2>3. c.mods \in Seq(Wellformed)
    BY <2>1, <2>2
  <2> QED BY <1>1, <1>3, <2>1, <2>3 DEF Valid, Modify
<1>4. CASE c \in [type : {"delete"}, dn : DNs]
  BY <1>1, <1>4 DEF Valid, Delete
<1>5. CASE c \in [type : {"modrdn"}, dn : DNs, to : DNs, deleteOld : BOOLEAN]
  BY <1>1, <1>5 DEF Valid, Rename
<1>6. CASE c \in [type : {"setpassword"}, dn : DNs, new : SUBSET Values]
  BY <1>1, <1>6 DEF Valid, SetPassword
<1> QED BY <1>1, <1>2, <1>3, <1>4, <1>5, <1>6 DEF ChangeRecords

LEMMA ModifyValid ==
  ASSUME NEW x \in DNs, x # <<>>, NEW ms \in Seq(Wellformed), ms # <<>>
  PROVE  Modify(x, ms) \in ValidChanges
<1>1. \A i \in DOMAIN ms : ms[i] \in Mods /\ (ms[i].op = "add" => ms[i].vals # {})
  BY DEF Wellformed
<1>2. ms \in Seq(Mods)
  BY <1>1
<1> QED BY <1>1, <1>2 DEF ValidChanges, Modify, ChangeRecords, Valid

LEMMA AfterModTyped ==
  ASSUME NEW S \in SUBSET Values, NEW m \in Mods
  PROVE  AfterMod(S, m) \in SUBSET Values
<1>1. m.op \in {"add", "delete", "replace"} /\ m.vals \in SUBSET Values
  BY DEF Mods
<1> QED BY <1>1 DEF AfterMod, Without

\* What the attribute holds after each of them, all of it in U.
CarriedOut(h, S, a, ms, U) ==
  /\ h \in [0..Len(ms) -> U]
  /\ h[0] = S /\ h[Len(ms)] = applyMods(S, a, ms)
  /\ \A k \in 1..Len(ms) : h[k] = IF ms[k].attr = a THEN AfterMod(h[k - 1], ms[k]) ELSE h[k - 1]

LEMMA ModsSteps ==
  ASSUME NEW X, NEW ms \in Seq(X), NEW a, NEW U, NEW S \in U,
         \A k \in 1..Len(ms) : ms[k].attr = a => \A T \in U : AfterMod(T, ms[k]) \in U
  PROVE  \E h : CarriedOut(h, S, a, ms, U)
<1> DEFINE n == Len(ms)
           op(T, k) == IF ms[k].attr = a THEN AfterMod(T, ms[k]) ELSE T
           F == [k \in 1..n |-> [T \in U |-> op(T, k)]]
           Eq(g) == g = [I \in SUBSET (1..n) |-> IF I = {} THEN S ELSE op(g[I \ {Max(I)}], Max(I))]
<1>1. n \in Nat /\ DOMAIN ms = 1..n /\ \A k \in 1..n, T \in U : op(T, k) \in U
  BY ListIs
<1>2. F \in [1..n -> [U -> U]]
  BY <1>1
<1>3. \A k \in 1..n : \A T \in U : F[k][T] = op(T, k)
  OBVIOUS
<1>4. applyMods(S, a, ms) = (CHOOSE g : Eq(g))[1..n]
  BY <1>1 DEF applyMods, FoldLeft, MapThenFoldSet
<1> HIDE DEF F, n, op
<1>5. PICK g \in [SUBSET (1..n) -> U] : Links(g, n, S, F)
  <2> HIDE DEF Eq
  <2>1. n \in Nat
    BY <1>1
  <2> QED BY <2>1, <1>2, Chained
<1>6. Eq(g)
  <2>1. \A I \in SUBSET (1..n) : g[I] = IF I = {} THEN S ELSE op(g[I \ {Max(I)}], Max(I))
    <3> TAKE I \in SUBSET (1..n)
    <3>1. CASE I # {}
      <4>1. Max(I) \in 1..n
        BY <1>1, <3>1, MaxAmong
      <4>2. g[I \ {Max(I)}] \in U
        BY <1>5
      <4> QED BY <4>1, <4>2, <1>3, <1>5 DEF Links
    <3> QED BY <3>1, <1>5 DEF Links
  <2> QED BY <2>1
<1>7. PICK f : f = (CHOOSE h : Eq(h)) /\ Eq(f)
  BY <1>6
<1>8. /\ f[{}] = S
      /\ \A k \in 1..n : f[1..k] = op(f[1..(k - 1)], k)
  <2>1. \A I \in SUBSET (1..n) : f[I] = IF I = {} THEN S ELSE op(f[I \ {Max(I)}], Max(I))
    BY <1>7
  <2>2. f[{}] = S
    BY <2>1
  <2>3. ASSUME NEW k \in 1..n PROVE f[1..k] = op(f[1..(k - 1)], k)
    <3>1. 1..k \in SUBSET (1..n) /\ k \in Nat \ {0}
      BY <1>1
    <3>2. f[1..k] = op(f[(1..k) \ {Max(1..k)}], Max(1..k))
      BY <2>1, <3>1, UpToLast
    <3> QED BY <3>1, <3>2, UpToLast
  <2> QED BY <2>2, <2>3
<1> DEFINE h == [k \in 0..n |-> f[1..k]]
<1>9. /\ h[0] = S /\ h[n] = applyMods(S, a, ms)
      /\ \A k \in 1..n : h[k] = op(h[k - 1], k)
  <2>1. 1..0 = {}
    OBVIOUS
  <2>2. applyMods(S, a, ms) = f[1..n]
    BY <1>4, <1>7
  <2>3. \A k \in 1..n : k - 1 \in 0..n /\ k \in 0..n
    BY <1>1
  <2> HIDE DEF Eq
  <2> QED BY <1>1, <1>8, <2>1, <2>2, <2>3
<1>10. h \in [0..n -> U]
  <2> DEFINE N == {k \in Nat : k <= n => h[k] \in U}
  <2> HIDE DEF h
  <2>1. 0 \in N
    BY <1>9
  <2>2. ASSUME NEW k \in N PROVE k + 1 \in N
    <3> SUFFICES ASSUME k + 1 <= n PROVE h[k + 1] \in U
      OBVIOUS
    <3>1. k + 1 \in 1..n /\ (k + 1) - 1 = k /\ h[k] \in U
      BY <1>1
    <3>2. h[k + 1] = op(h[k], k + 1)
      BY <1>9, <3>1
    <3> QED BY <3>1, <3>2, <1>1
  <2>3. N \in SUBSET Nat
    OBVIOUS
  <2>4. N = Nat
    <3> HIDE DEF N
    <3> QED BY <2>1, <2>2, <2>3, AllNumbers
  <2>5. \A k \in 0..n : h[k] \in U
    BY <1>1, <2>4
  <2> QED BY <2>5 DEF h
<1> HIDE DEF h
<1>11. CarriedOut(h, S, a, ms, U)
  BY <1>9, <1>10 DEF op, n, CarriedOut
<1> QED BY <1>11

\* What no modification takes out of U stays in it.
LEMMA ModsWithin ==
  ASSUME NEW X, NEW ms \in Seq(X), NEW a, NEW U, NEW S \in U,
         \A k \in 1..Len(ms) : ms[k].attr = a => \A T \in U : AfterMod(T, ms[k]) \in U
  PROVE  applyMods(S, a, ms) \in U
<1>1. PICK h : CarriedOut(h, S, a, ms, U)
  BY ModsSteps
<1>2. Len(ms) \in 0..Len(ms)
  OBVIOUS
<1> QED BY <1>1, <1>2 DEF CarriedOut

\* An attribute that no modification is of stays as it is.
LEMMA ModsElsewhere ==
  ASSUME NEW X, NEW ms \in Seq(X), NEW a, NEW S, \A k \in 1..Len(ms) : ms[k].attr # a
  PROVE  applyMods(S, a, ms) = S
<1> DEFINE U == {S}
<1>1. S \in U /\ \A k \in 1..Len(ms) : ms[k].attr = a => \A T \in U : AfterMod(T, ms[k]) \in U
  OBVIOUS
<1> HIDE DEF U
<1>2. applyMods(S, a, ms) \in U
  BY <1>1, ModsWithin
<1> QED BY <1>2 DEF U

\* An attribute that is only ever replaced is as it was, or as one of the replacements has it.
LEMMA ModsReplace ==
  ASSUME NEW X, NEW ms \in Seq(X), NEW a, NEW S,
         \A k \in 1..Len(ms) : ms[k].attr = a => ms[k].op = "replace"
  PROVE  applyMods(S, a, ms) = S \/ \E k \in 1..Len(ms) : ms[k].attr = a /\ applyMods(S, a, ms) = ms[k].vals
<1> DEFINE U == {S} \cup {ms[k].vals : k \in {k \in 1..Len(ms) : ms[k].attr = a}}
<1>1. S \in U /\ \A k \in 1..Len(ms) : ms[k].attr = a => \A T \in U : AfterMod(T, ms[k]) \in U
  <2> SUFFICES ASSUME NEW k \in 1..Len(ms), ms[k].attr = a, NEW T \in U PROVE AfterMod(T, ms[k]) \in U
    OBVIOUS
  <2>1. AfterMod(T, ms[k]) = ms[k].vals
    BY DEF AfterMod
  <2> QED BY <2>1
<1> HIDE DEF U
<1>2. applyMods(S, a, ms) \in U
  BY <1>1, ModsWithin
<1> QED BY <1>2 DEF U

\* An attribute that one modification replaces, and every other by the same, is as they have it.
LEMMA ModsReplaced ==
  ASSUME NEW X, NEW ms \in Seq(X), NEW a, NEW S, NEW j \in 1..Len(ms), ms[j].attr = a,
         \A k \in 1..Len(ms) : ms[k].attr = a => ms[k].op = "replace" /\ ms[k].vals = ms[j].vals
  PROVE  applyMods(S, a, ms) = ms[j].vals
<1> DEFINE V == ms[j].vals
           U == {S, V}
           n == Len(ms)
<1>1. \A T : \A k \in 1..n : ms[k].attr = a => AfterMod(T, ms[k]) = V
  BY DEF AfterMod
<1>2. S \in U /\ \A k \in 1..n : ms[k].attr = a => \A T \in U : AfterMod(T, ms[k]) \in U
  BY <1>1
<1> HIDE DEF U
<1>3. PICK h : CarriedOut(h, S, a, ms, U)
  BY <1>2, ModsSteps
<1>4. /\ h[n] = applyMods(S, a, ms)
      /\ \A k \in 1..n : h[k] = IF ms[k].attr = a THEN V ELSE h[k - 1]
  BY <1>1, <1>3 DEF CarriedOut
<1>5. n \in Nat
  OBVIOUS
<1> HIDE DEF n
<1> DEFINE N == {k \in Nat : j <= k /\ k <= n => h[k] = V}
<1>6. 0 \in N
  OBVIOUS
<1>7. ASSUME NEW k \in N PROVE k + 1 \in N
  <2> SUFFICES ASSUME j <= k + 1, k + 1 <= n PROVE h[k + 1] = V
    OBVIOUS
  <2>1. k + 1 \in 1..n /\ (k + 1) - 1 = k /\ k \in Nat
    BY <1>5
  <2>2. h[k + 1] = IF ms[k + 1].attr = a THEN V ELSE h[k]
    BY <1>4, <2>1
  <2>3. CASE k + 1 = j
    BY <2>2, <2>3
  <2>4. CASE k + 1 # j
    <3>1. j <= k /\ k <= n
      BY <1>5, <2>1, <2>4 DEF n
    <3>2. h[k] = V
      BY <2>1, <3>1
    <3> QED BY <2>2, <3>2
  <2> QED BY <2>3, <2>4
<1>8. N = Nat
  <2>1. N \in SUBSET Nat
    OBVIOUS
  <2> HIDE DEF N
  <2> QED BY <1>6, <1>7, <2>1, AllNumbers
<1>9. h[n] = V
  <2>1. j <= n
    BY <1>5 DEF n
  <2> QED BY <1>5, <1>8, <2>1
<1> QED BY <1>4, <1>9

\* The same of an attribute's values and typed modifications.
LEMMA ModsTyped ==
  ASSUME NEW S \in SUBSET Values, NEW a \in Attrs, NEW ms \in Seq(Mods)
  PROVE  \E h : CarriedOut(h, S, a, ms, SUBSET Values)
<1>1. S \in SUBSET Values /\ \A k \in 1..Len(ms) : ms[k].attr = a =>
                                \A T \in SUBSET Values : AfterMod(T, ms[k]) \in SUBSET Values
  BY AfterModTyped
<1> QED BY <1>1, ModsSteps

\* An attribute that one modification names is as that one leaves it, and one that none names as it was.
LEMMA AppliedOnce ==
  ASSUME NEW S \in SUBSET Values, NEW a \in Attrs, NEW ms \in Seq(Mods)
  PROVE  /\ (\A k \in DOMAIN ms : ms[k].attr # a) => applyMods(S, a, ms) = S
         /\ \A i \in DOMAIN ms : (\A k \in DOMAIN ms : ms[k].attr = a <=> k = i) =>
              applyMods(S, a, ms) = AfterMod(S, ms[i])
<1> DEFINE n == Len(ms)
<1>1. n \in Nat /\ DOMAIN ms = 1..n
  BY ListIs
<1>2. PICK h : CarriedOut(h, S, a, ms, SUBSET Values)
  BY ModsTyped
<1>3. /\ h[0] = S /\ h[n] = applyMods(S, a, ms)
      /\ \A k \in 1..n : h[k] = IF ms[k].attr = a THEN AfterMod(h[k - 1], ms[k]) ELSE h[k - 1]
  BY <1>2 DEF CarriedOut
<1> HIDE DEF n
<1>4. ASSUME \A k \in DOMAIN ms : ms[k].attr # a
      PROVE  h[n] = S
  <2> DEFINE N == {k \in Nat : k <= n => h[k] = S}
  <2>1. 0 \in N
    BY <1>3
  <2>2. ASSUME NEW k \in N PROVE k + 1 \in N
    <3> SUFFICES ASSUME k + 1 <= n PROVE h[k + 1] = S
      OBVIOUS
    <3>1. k + 1 \in 1..n /\ (k + 1) - 1 = k /\ h[k] = S
      BY <1>1
    <3> QED BY <3>1, <1>1, <1>3, <1>4
  <2>3. N \in SUBSET Nat
    OBVIOUS
  <2>4. N = Nat
    <3> HIDE DEF N
    <3> QED BY <2>1, <2>2, <2>3, AllNumbers
  <2> QED BY <1>1, <2>4
<1>5. ASSUME NEW i \in DOMAIN ms, \A k \in DOMAIN ms : ms[k].attr = a <=> k = i
      PROVE  h[n] = AfterMod(S, ms[i])
  <2> DEFINE N == {k \in Nat : k <= n => h[k] = IF k < i THEN S ELSE AfterMod(S, ms[i])}
  <2>0. i \in 1..n
    BY <1>1
  <2>1. 0 \in N
    BY <1>3, <2>0
  <2>2. ASSUME NEW k \in N PROVE k + 1 \in N
    <3> SUFFICES ASSUME k + 1 <= n PROVE h[k + 1] = IF k + 1 < i THEN S ELSE AfterMod(S, ms[i])
      OBVIOUS
    <3>1. k + 1 \in 1..n /\ (k + 1) - 1 = k /\ h[k] = IF k < i THEN S ELSE AfterMod(S, ms[i])
      BY <1>1
    <3>2. h[k + 1] = IF k + 1 = i THEN AfterMod(h[k], ms[k + 1]) ELSE h[k]
      BY <3>1, <1>1, <1>3, <1>5
    <3>3. CASE k + 1 = i
      BY <3>1, <3>2, <3>3
    <3>4. CASE k + 1 # i
      <4>1. k < i <=> k + 1 < i
        BY <3>4, <2>0
      <4> QED BY <4>1, <3>1, <3>2, <3>4
    <3> QED BY <3>3, <3>4
  <2>3. N \in SUBSET Nat
    OBVIOUS
  <2>4. N = Nat
    <3> HIDE DEF N
    <3> QED BY <2>1, <2>2, <2>3, AllNumbers
  <2>5. n \in Nat /\ n <= n /\ ~(n < i)
    BY <1>1, <2>0
  <2> QED BY <2>4, <2>5
<1> QED BY <1>3, <1>4, <1>5

LEMMA AppliedTyped ==
  ASSUME NEW S \in SUBSET Values, NEW a \in Attrs, NEW ms \in Seq(Mods)
  PROVE  applyMods(S, a, ms) \in SUBSET Values
<1>1. S \in SUBSET Values /\ \A k \in 1..Len(ms) : ms[k].attr = a =>
                                \A T \in SUBSET Values : AfterMod(T, ms[k]) \in SUBSET Values
  BY AfterModTyped
<1> QED BY <1>1, ModsWithin

LEMMA ModsOfChange ==
  ASSUME NEW c \in ValidChanges, c.type = "modify"
  PROVE  /\ c.mods \in Seq(Mods) /\ \A i \in DOMAIN c.mods : c.mods[i] \in Mods
         /\ Named(c) = {c.mods[i].attr : i \in DOMAIN c.mods}
         /\ Named(c) \subseteq Attrs /\ IsFiniteSet(Named(c))
<1>1. c.mods \in Seq(Wellformed)
  BY Kinds
<1>2. c.mods \in Seq(Mods) /\ \A i \in DOMAIN c.mods : c.mods[i] \in Mods
  BY <1>1 DEF Wellformed
<1>3. Named(c) = {c.mods[i].attr : i \in DOMAIN c.mods}
  BY DEF Named
<1>4. Named(c) \subseteq Attrs
  BY <1>2, <1>3 DEF Mods
<1>5. IsFiniteSet(DOMAIN c.mods)
  <2>1. DOMAIN c.mods = 1..Len(c.mods) /\ Len(c.mods) \in Nat
    BY <1>2
  <2> QED BY <2>1, FS_Interval
<1>6. IsFiniteSet(Named(c))
  <2> DEFINE f == [i \in DOMAIN c.mods |-> c.mods[i].attr]
  <2>1. f \in Surjection(DOMAIN c.mods, Named(c))
    BY <1>3 DEF Surjection
  <2> QED BY <2>1, <1>5, FS_Surjection
<1> QED BY <1>2, <1>3, <1>4, <1>6

LEMMA KeysOf ==
  ASSUME NEW S, NEW T
  PROVE  Keys(S \cup T) = Keys(S) \cup Keys(T) /\ Keys(Without(S, T)) = Keys(S) \ Keys(T)
  BY DEF Keys, Without

\* What is equal by rule is so once it has been modified.
LEMMA KeysAfterMod ==
  ASSUME NEW S, NEW T, Keys(S) = Keys(T), NEW m \in Mods
  PROVE  Keys(AfterMod(S, m)) = Keys(AfterMod(T, m))
<1>1. CASE m.op = "replace"
  BY <1>1 DEF AfterMod
<1>2. CASE m.op = "add"
  <2>1. AfterMod(S, m) = S \cup Without(m.vals, S) /\ AfterMod(T, m) = T \cup Without(m.vals, T)
    BY <1>2 DEF AfterMod
  <2>2. /\ Keys(Without(m.vals, S)) = Keys(m.vals) \ Keys(S)
        /\ Keys(Without(m.vals, T)) = Keys(m.vals) \ Keys(T)
    BY KeysOf
  <2>3. /\ Keys(S \cup Without(m.vals, S)) = Keys(S) \cup Keys(Without(m.vals, S))
        /\ Keys(T \cup Without(m.vals, T)) = Keys(T) \cup Keys(Without(m.vals, T))
    BY KeysOf
  <2> QED BY <2>1, <2>2, <2>3
<1>3. CASE m.op = "delete" /\ m.vals = {}
  BY <1>3 DEF AfterMod
<1>4. CASE m.op = "delete" /\ m.vals # {}
  <2>1. AfterMod(S, m) = Without(S, m.vals) /\ AfterMod(T, m) = Without(T, m.vals)
    BY <1>4 DEF AfterMod
  <2>2. /\ Keys(Without(S, m.vals)) = Keys(S) \ Keys(m.vals)
        /\ Keys(Without(T, m.vals)) = Keys(T) \ Keys(m.vals)
    BY KeysOf
  <2> QED BY <2>1, <2>2
<1> QED BY <1>1, <1>2, <1>3, <1>4 DEF Mods

LEMMA KeysApplied ==
  ASSUME NEW S \in SUBSET Values, NEW T \in SUBSET Values, Keys(S) = Keys(T),
         NEW a \in Attrs, NEW ms \in Seq(Mods)
  PROVE  Keys(applyMods(S, a, ms)) = Keys(applyMods(T, a, ms))
<1>1. PICK g : CarriedOut(g, S, a, ms, SUBSET Values)
  BY ModsTyped
<1>2. PICK h : CarriedOut(h, T, a, ms, SUBSET Values)
  BY ModsTyped
<1> DEFINE n == Len(ms)
           N == {k \in Nat : k <= n => Keys(g[k]) = Keys(h[k])}
<1>3. n \in Nat /\ \A k \in 1..n : ms[k] \in Mods
  OBVIOUS
<1>4. g[0] = S /\ h[0] = T /\ g[n] = applyMods(S, a, ms) /\ h[n] = applyMods(T, a, ms)
  BY <1>1, <1>2 DEF CarriedOut
<1>5. \A k \in 1..n : /\ g[k] = IF ms[k].attr = a THEN AfterMod(g[k - 1], ms[k]) ELSE g[k - 1]
                      /\ h[k] = IF ms[k].attr = a THEN AfterMod(h[k - 1], ms[k]) ELSE h[k - 1]
  BY <1>1, <1>2 DEF CarriedOut
<1> HIDE DEF n
<1>6. 0 \in N
  BY <1>4
<1>7. ASSUME NEW k \in N PROVE k + 1 \in N
  <2> SUFFICES ASSUME k + 1 <= n PROVE Keys(g[k + 1]) = Keys(h[k + 1])
    OBVIOUS
  <2>1. k \in Nat /\ Keys(g[k]) = Keys(h[k]) /\ k + 1 \in 1..n /\ (k + 1) - 1 = k
    BY <1>3, <1>7
  <2>2. /\ g[k + 1] = IF ms[k + 1].attr = a THEN AfterMod(g[k], ms[k + 1]) ELSE g[k]
        /\ h[k + 1] = IF ms[k + 1].attr = a THEN AfterMod(h[k], ms[k + 1]) ELSE h[k]
    BY <1>5, <2>1
  <2>3. ms[k + 1] \in Mods
    BY <1>3, <2>1
  <2>4. Keys(AfterMod(g[k], ms[k + 1])) = Keys(AfterMod(h[k], ms[k + 1]))
    BY <2>1, <2>3, KeysAfterMod
  <2>5. CASE ms[k + 1].attr = a
    BY <2>2, <2>4, <2>5
  <2>6. CASE ms[k + 1].attr # a
    BY <2>1, <2>2, <2>6
  <2> QED BY <2>5, <2>6
<1>8. N = Nat
  <2>1. N \in SUBSET Nat
    OBVIOUS
  <2> HIDE DEF N
  <2> QED BY <1>6, <1>7, <2>1, AllNumbers
<1> QED BY <1>3, <1>4, <1>8

-----------------------------------------------------------------------------
(* Names and directories *)

LEMMA UnderIs ==
  ASSUME NEW x \in DNs, NEW top \in DNs
  PROVE  IsUnder(x, top) <=> Len(top) <= Len(x) /\ \A i \in 1..Len(top) : x[i] = top[i]
<1>1. Len(x) \in Nat /\ Len(top) \in Nat
  BY DEF DNs
<1>2. SubSeq(top, 1, Len(top)) = [i \in 1..Len(top) |-> top[i]]
  BY <1>1 DEF DNs
<1>3. Len(top) <= Len(x) => SubSeq(x, 1, Len(top)) = [i \in 1..Len(top) |-> x[i]]
  BY <1>1 DEF DNs
<1> QED BY <1>1, <1>2, <1>3 DEF IsUnder, IsPrefix

\* Every name is under itself.
LEMMA UnderItself == ASSUME NEW x \in DNs PROVE IsUnder(x, x)
<1>1. Len(x) \in Nat
  BY DEF DNs
<1> QED BY <1>1, UnderIs

\* A name that moves with an entry above it, element by element.
LEMMA MovedIs ==
  ASSUME NEW x \in DNs, NEW from \in DNs, NEW to \in DNs, IsUnder(x, from)
  PROVE  /\ Moved(x, from, to) \in DNs
         /\ Len(Moved(x, from, to)) = Len(to) + (Len(x) - Len(from))
         /\ \A i \in 1..Len(Moved(x, from, to)) :
              Moved(x, from, to)[i] = IF i <= Len(to) THEN to[i] ELSE x[i - Len(to) + Len(from)]
<1>1. Len(x) \in Nat /\ Len(from) \in Nat /\ Len(to) \in Nat /\ Len(from) <= Len(x)
  BY UnderIs DEF DNs
<1> DEFINE r == SubSeq(x, Len(from) + 1, Len(x))
<1>2. r \in Seq(Values) /\ Len(r) = Len(x) - Len(from) /\ \A i \in 1..Len(r) : r[i] = x[i + Len(from)]
  BY <1>1 DEF DNs
<1> HIDE DEF r
<1>3. Moved(x, from, to) = to \o r
  BY DEF Moved, r
<1>4. to \o r \in Seq(Values) /\ Len(to \o r) = Len(to) + Len(r)
  BY <1>2, Joined DEF DNs
<1>5. \A i \in 1..(Len(to) + Len(r)) : (to \o r)[i] = IF i <= Len(to) THEN to[i] ELSE r[i - Len(to)]
  BY <1>1, <1>2 DEF DNs
<1>6. ASSUME NEW i \in 1..(Len(to) + Len(r))
      PROVE  (to \o r)[i] = IF i <= Len(to) THEN to[i] ELSE x[i - Len(to) + Len(from)]
  <2>1. CASE i <= Len(to)
    BY <1>5, <2>1
  <2>2. CASE ~(i <= Len(to))
    <3>1. i - Len(to) \in 1..Len(r)
      BY <1>1, <1>2, <2>2
    <3> QED BY <3>1, <1>2, <1>5, <2>2
  <2> QED BY <2>1, <2>2
<1> QED BY <1>2, <1>3, <1>4, <1>6 DEF DNs

LEMMA SameNames ==
  ASSUME NEW x \in DNs, NEW y \in DNs, Len(x) = Len(y), \A i \in 1..Len(x) : x[i] = y[i]
  PROVE  x = y
<1>1. x \in [1..Len(x) -> Values] /\ y \in [1..Len(y) -> Values]
  BY DEF DNs
<1> QED BY <1>1

\* An entry that moves is under its new name, and moving it back gives its old one.
LEMMA MovedBack ==
  ASSUME NEW x \in DNs, NEW from \in DNs, NEW to \in DNs, IsUnder(x, from)
  PROVE  /\ Moved(x, from, to) \in DNs /\ IsUnder(Moved(x, from, to), to)
         /\ Moved(Moved(x, from, to), to, from) = x
         /\ Moved(from, from, to) = to
<1> DEFINE y == Moved(x, from, to)
<1>1. Len(x) \in Nat /\ Len(from) \in Nat /\ Len(to) \in Nat /\ Len(from) <= Len(x)
      /\ \A i \in 1..Len(from) : x[i] = from[i]
  BY UnderIs DEF DNs
<1>2. /\ y \in DNs /\ Len(y) = Len(to) + (Len(x) - Len(from))
      /\ \A i \in 1..Len(y) : y[i] = IF i <= Len(to) THEN to[i] ELSE x[i - Len(to) + Len(from)]
  BY MovedIs
<1> HIDE DEF y
<1>3. IsUnder(y, to)
  <2>1. Len(to) <= Len(y) /\ \A i \in 1..Len(to) : y[i] = to[i]
    BY <1>1, <1>2
  <2> QED BY <2>1, <1>2, UnderIs
<1> DEFINE z == Moved(y, to, from)
<1>4. /\ z \in DNs /\ Len(z) = Len(from) + (Len(y) - Len(to))
      /\ \A i \in 1..Len(z) : z[i] = IF i <= Len(from) THEN from[i] ELSE y[i - Len(from) + Len(to)]
  BY <1>2, <1>3, MovedIs
<1> HIDE DEF z
<1>5. z = x
  <2>1. Len(z) = Len(x)
    BY <1>1, <1>2, <1>4
  <2>2. ASSUME NEW i \in 1..Len(z) PROVE z[i] = x[i]
    <3>1. CASE i <= Len(from)
      BY <1>1, <1>4, <3>1
    <3>2. CASE ~(i <= Len(from))
      <4> DEFINE j == i - Len(from) + Len(to)
      <4>1. j \in 1..Len(y) /\ ~(j <= Len(to)) /\ j - Len(to) + Len(from) = i
        BY <1>1, <1>2, <2>1, <3>2
      <4>2. z[i] = y[j]
        BY <1>4, <3>2
      <4> HIDE DEF j
      <4> QED BY <4>1, <4>2, <1>2
    <3> QED BY <3>1, <3>2
  <2> QED BY <2>1, <2>2, <1>4, SameNames
<1>6. Moved(from, from, to) = to
  <2> DEFINE w == Moved(from, from, to)
  <2>1. /\ w \in DNs /\ Len(w) = Len(to) + (Len(from) - Len(from))
        /\ \A i \in 1..Len(w) : w[i] = IF i <= Len(to) THEN to[i] ELSE from[i - Len(to) + Len(from)]
    BY UnderItself, MovedIs
  <2> HIDE DEF w
  <2>2. Len(w) = Len(to) /\ \A i \in 1..Len(w) : w[i] = to[i]
    BY <1>1, <2>1
  <2>3. w = to
    BY <2>1, <2>2, SameNames
  <2> QED BY <2>3 DEF w
<1> QED BY <1>2, <1>3, <1>5, <1>6 DEF y, z

\* The name above a name.
LEMMA ParentIs ==
  ASSUME NEW x \in DNs, x # <<>>
  PROVE  /\ Parent(x) \in DNs /\ Len(x) \in Nat \ {0} /\ Len(Parent(x)) = Len(x) - 1
         /\ \A i \in 1..(Len(x) - 1) : Parent(x)[i] = x[i]
         /\ IsUnder(x, Parent(x))
<1>1. x \in Seq(Values) /\ Len(x) \in Nat /\ Len(x) # 0
  BY DEF DNs
<1> DEFINE p == SubSeq(x, 1, Len(x) - 1)
<1>2. p \in Seq(Values) /\ Len(p) = Len(x) - 1 /\ \A i \in 1..(Len(x) - 1) : p[i] = x[i]
  <2> DEFINE n == Len(x) - 1
  <2>1. p = [i \in 1..n |-> x[i]]
    BY <1>1
  <2>2. n \in Nat /\ \A i \in 1..n : x[i] \in Values
    BY <1>1
  <2> HIDE DEF n, p
  <2>3. p \in [1..n -> Values]
    BY <2>1, <2>2
  <2>4. p \in Seq(Values) /\ Len(p) = n
    BY <2>2, <2>3, IsList
  <2> QED BY <2>1, <2>4 DEF n
<1>3. Parent(x) = p
  BY DEF Parent, Front
<1> HIDE DEF p
<1>4. p \in DNs
  BY <1>2 DEF DNs
<1>5. Len(p) <= Len(x) /\ \A i \in 1..Len(p) : x[i] = p[i]
  BY <1>1, <1>2
<1>6. IsUnder(x, p)
  BY <1>4, <1>5, UnderIs
<1> QED BY <1>1, <1>2, <1>3, <1>4, <1>6

\* A name is under another, if the name above it is; and the name above it is, if it is further down.
LEMMA ParentUnder ==
  ASSUME NEW x \in DNs, x # <<>>, NEW top \in DNs
  PROVE  /\ IsUnder(Parent(x), top) => IsUnder(x, top)
         /\ IsUnder(x, top) /\ x # top => IsUnder(Parent(x), top)
<1>1. /\ Parent(x) \in DNs /\ Len(x) \in Nat /\ Len(top) \in Nat /\ Len(Parent(x)) = Len(x) - 1
      /\ \A i \in 1..(Len(x) - 1) : Parent(x)[i] = x[i]
  BY ParentIs DEF DNs
<1>2. IsUnder(Parent(x), top) <=> Len(top) <= Len(x) - 1 /\ \A i \in 1..Len(top) : Parent(x)[i] = top[i]
  BY <1>1, UnderIs
<1>3. IsUnder(x, top) <=> Len(top) <= Len(x) /\ \A i \in 1..Len(top) : x[i] = top[i]
  BY UnderIs
<1>4. Len(top) <= Len(x) - 1 => \A i \in 1..Len(top) : i \in 1..(Len(x) - 1)
  BY <1>1
<1>5. IsUnder(Parent(x), top) => IsUnder(x, top)
  BY <1>1, <1>2, <1>3, <1>4
<1>6. ASSUME IsUnder(x, top), x # top PROVE IsUnder(Parent(x), top)
  <2>1. Len(top) # Len(x)
    BY <1>3, <1>6, SameNames
  <2>2. Len(top) <= Len(x) - 1
    BY <1>1, <1>3, <1>6, <2>1
  <2> QED BY <1>1, <1>2, <1>3, <1>4, <1>6, <2>2
<1> QED BY <1>5, <1>6

\* What is above a name that moves with its entry moves too.
LEMMA ParentMoves ==
  ASSUME NEW x \in DNs, NEW from \in DNs, from # <<>>, NEW to \in DNs, IsUnder(x, from), x # from
  PROVE  /\ IsUnder(Parent(x), from) /\ Parent(x) \in DNs /\ Parent(x) # <<>>
         /\ Moved(x, from, to) # <<>> /\ Parent(Moved(x, from, to)) = Moved(Parent(x), from, to)
<1> DEFINE p == Parent(x)
           y == Moved(x, from, to)
           z == Moved(p, from, to)
<1>1. Len(x) \in Nat /\ Len(from) \in Nat \ {0} /\ Len(to) \in Nat /\ Len(from) <= Len(x)
  BY UnderIs DEF DNs
<1>2. x # <<>>
  BY <1>1
<1>3. /\ p \in DNs /\ Len(p) = Len(x) - 1 /\ \A i \in 1..(Len(x) - 1) : p[i] = x[i]
  BY <1>2, ParentIs
<1>4. IsUnder(p, from)
  BY <1>2, ParentUnder
<1>5. Len(from) <= Len(p)
  BY <1>3, <1>4, UnderIs
<1>6. p # <<>>
  BY <1>1, <1>5
<1>7. /\ y \in DNs /\ Len(y) = Len(to) + (Len(x) - Len(from))
      /\ \A i \in 1..Len(y) : y[i] = IF i <= Len(to) THEN to[i] ELSE x[i - Len(to) + Len(from)]
  BY MovedIs
<1>8. /\ z \in DNs /\ Len(z) = Len(to) + (Len(p) - Len(from))
      /\ \A i \in 1..Len(z) : z[i] = IF i <= Len(to) THEN to[i] ELSE p[i - Len(to) + Len(from)]
  BY <1>3, <1>4, MovedIs
<1> HIDE DEF p, y, z
<1>9. Len(y) \in Nat \ {0} /\ y # <<>> /\ Len(z) = Len(y) - 1
  BY <1>1, <1>3, <1>5, <1>7, <1>8
<1>10. /\ Parent(y) \in DNs /\ Len(Parent(y)) = Len(y) - 1
       /\ \A i \in 1..(Len(y) - 1) : Parent(y)[i] = y[i]
  BY <1>7, <1>9, ParentIs
<1>11. ASSUME NEW i \in 1..Len(z) PROVE Parent(y)[i] = z[i]
  <2>1. i \in 1..(Len(y) - 1) /\ i \in 1..Len(y)
    BY <1>9
  <2>2. ~(i <= Len(to)) => p[i - Len(to) + Len(from)] = x[i - Len(to) + Len(from)]
    <3>1. ~(i <= Len(to)) => i - Len(to) + Len(from) \in 1..(Len(x) - 1)
      BY <1>1, <1>3, <1>8, <1>5
    <3> QED BY <3>1, <1>3
  <2> QED BY <2>1, <2>2, <1>7, <1>8, <1>10
<1>12. Parent(y) = z
  BY <1>8, <1>9, <1>10, <1>11, SameNames
<1> QED BY <1>3, <1>4, <1>6, <1>9, <1>12 DEF p, y, z

\* Referential integrity keeps a directory a directory, with the entries it had.
LEMMA RepointedTyped ==
  ASSUME NEW d, WellFormed(d), NEW gone, NEW renames,
         \A y \in DOMAIN renames : renames[y] \in DOMAIN Ref
  PROVE  WellFormed(Repointed(d, gone, renames)) /\ DOMAIN Repointed(d, gone, renames) = DOMAIN d
<1> DEFINE follow(S) == UNION {IF Ref[y] \in S THEN {Ref[renames[y]]} ELSE {} : y \in DOMAIN renames}
           left(S) == {v \in S : \A y \in gone : v # Ref[y]}
<1>1. ASSUME NEW x \in DOMAIN d
      PROVE  [d[x] EXCEPT ![RefAttr] = left(d[x][RefAttr]) \cup follow(d[x][RefAttr])] \in Entries
  <2>1. d[x] \in [Attrs -> SUBSET Values] /\ RefAttr \in Attrs
    BY DirectoryConstants DEF WellFormed, Entries
  <2>2. left(d[x][RefAttr]) \subseteq Values
    BY <2>1
  <2>3. \A y \in DOMAIN renames : Ref[renames[y]] \in Values
    BY DirectoryConstants
  <2>4. follow(d[x][RefAttr]) \subseteq Values
    BY <2>3
  <2> HIDE DEF left, follow
  <2> QED BY <2>1, <2>2, <2>4 DEF Entries
<1>2. Repointed(d, gone, renames) =
        [x \in DOMAIN d |-> [d[x] EXCEPT ![RefAttr] = left(d[x][RefAttr]) \cup follow(d[x][RefAttr])]]
  BY DEF Repointed
<1> HIDE DEF left, follow
<1> QED BY <1>1, <1>2 DEF WellFormed

LEMMA WithoutTyped == ASSUME NEW S, NEW T, S \subseteq Values PROVE Without(S, T) \subseteq Values
  BY DEF Without

LEMMA LastTyped == ASSUME NEW x \in DNs, x # <<>> PROVE Last(x) \in Values
  BY DEF DNs, Last

\* A change a directory accepts leaves a directory.
LEMMA DoneTyped ==
  ASSUME NEW d, WellFormed(d), NEW c \in ValidChanges, Accepts(d, c)
  PROVE  WellFormed(Done(d, c))
<1>1. /\ DOMAIN d \subseteq DNs /\ \A x \in DOMAIN d : d[x] \in [Attrs -> SUBSET Values]
      /\ NamingAttr \in Attrs
  BY DirectoryConstants DEF WellFormed, Entries
<1>2. /\ c.dn \in DNs /\ c.dn # <<>> /\ Last(c.dn) \in Values
      /\ c.type \in {"add", "modify", "delete", "modrdn", "setpassword"}
  BY Kinds, LastTyped
<1>3. c.type # "add" => c.dn \in DOMAIN d
  BY DEF Accepts
<1>4. CASE c.type = "add"
  <2> DEFINE S == c.attrs[NamingAttr] \cup Without({Last(c.dn)}, c.attrs[NamingAttr])
             e == [c.attrs EXCEPT ![NamingAttr] = S]
  <2>1. c.attrs \in [Attrs -> SUBSET Values]
    BY <1>4, Kinds DEF Entries
  <2>2. S \in SUBSET Values
    <3>1. Without({Last(c.dn)}, c.attrs[NamingAttr]) \subseteq Values
      BY <1>2, WithoutTyped
    <3> QED BY <1>1, <2>1, <3>1
  <2>3. Done(d, c) = Over(d, [x \in {c.dn} |-> e])
    BY <1>4 DEF Done
  <2> HIDE DEF S
  <2>4. e \in [Attrs -> SUBSET Values]
    BY <2>1, <2>2
  <2> HIDE DEF e
  <2> QED BY <1>1, <1>2, <2>3, <2>4 DEF WellFormed, Over, Entries
<1>5. CASE c.type = "modify"
  <2> DEFINE e == [a \in Attrs |-> applyMods(d[c.dn][a], a, c.mods)]
  <2>1. e \in [Attrs -> SUBSET Values]
    BY <1>1, <1>3, <1>5, ModsOfChange, AppliedTyped
  <2>2. Done(d, c) = [d EXCEPT ![c.dn] = e]
    BY <1>5 DEF Done
  <2> HIDE DEF e
  <2> QED BY <1>1, <2>1, <2>2 DEF WellFormed, Entries
<1>6. CASE c.type = "delete"
  <2> DEFINE left == [x \in DOMAIN d \ {c.dn} |-> d[x]]
  <2>1. WellFormed(left)
    BY <1>1 DEF WellFormed, Entries
  <2>2. Done(d, c) = Repointed(left, {c.dn} \cap DOMAIN Ref, <<>>)
    BY <1>6 DEF Done
  <2>3. DOMAIN <<>> = {}
    OBVIOUS
  <2> HIDE DEF left
  <2> QED BY <2>1, <2>2, <2>3, RepointedTyped
<1>7. CASE c.type = "modrdn"
  <2> DEFINE under == {x \in DOMAIN d : IsUnder(x, c.dn)}
             named == under \cap DOMAIN Ref
             follow == {x \in named : Moved(x, c.dn, c.to) \in DOMAIN Ref}
             there == (DOMAIN d \ under) \cup {Moved(x, c.dn, c.to) : x \in under}
             source(y) == IF y \in DOMAIN d \ under THEN y ELSE Moved(y, c.to, c.dn)
             first == [d[c.dn] EXCEPT ![NamingAttr] = Renamed(d[c.dn][NamingAttr], c.dn, c.to, c.deleteOld)]
             moved == [y \in there |-> IF y = c.to THEN first ELSE d[source(y)]]
             renames == [x \in follow |-> Moved(x, c.dn, c.to)]
  <2>1. Done(d, c) = Repointed(moved, named, renames)
    BY <1>7 DEF Done
  <2>2. c.to \in DNs /\ c.to # <<>> /\ Last(c.to) \in Values
    BY <1>7, Kinds, LastTyped
  <2>3. first \in [Attrs -> SUBSET Values]
    <3>1. d[c.dn] \in [Attrs -> SUBSET Values]
      BY <1>1, <1>3, <1>7
    <3> DEFINE S == d[c.dn][NamingAttr]
               R == Renamed(S, c.dn, c.to, c.deleteOld)
               kept == IF c.deleteOld THEN Without(S, {Last(c.dn)}) ELSE S
    <3>2. S \subseteq Values
      BY <1>1, <3>1
    <3>3. kept \subseteq Values
      BY <3>2, WithoutTyped
    <3>4. Without({Last(c.to)}, kept) \subseteq Values
      BY <2>2, WithoutTyped
    <3>5. R \in SUBSET Values
      BY <3>3, <3>4 DEF Renamed
    <3>6. first = [d[c.dn] EXCEPT ![NamingAttr] = R]
      OBVIOUS
    <3> HIDE DEF R, first
    <3> QED BY <1>1, <3>1, <3>5, <3>6
  <2>4. there \subseteq DNs
    <3>1. \A x \in under : Moved(x, c.dn, c.to) \in DNs
      BY <1>1, <1>2, <2>2, MovedBack
    <3> HIDE DEF under
    <3> QED BY <1>1, <3>1
  <2>5. \A y \in there : source(y) \in DOMAIN d
    <3> TAKE y \in there
    <3>1. CASE y \in DOMAIN d \ under
      BY <3>1
    <3>2. CASE y \notin DOMAIN d \ under
      <4>1. PICK x \in under : y = Moved(x, c.dn, c.to)
        BY <3>2
      <4>2. x \in DOMAIN d /\ x \in DNs /\ IsUnder(x, c.dn)
        BY <1>1
      <4>3. Moved(y, c.to, c.dn) = x
        BY <4>1, <4>2, <1>2, <2>2, MovedBack
      <4> QED BY <3>2, <4>2, <4>3
    <3> QED BY <3>1, <3>2
  <2>6. \A y \in DOMAIN renames : renames[y] \in DOMAIN Ref
    OBVIOUS
  <2> HIDE DEF first, there, source, renames, named
  <2>7. WellFormed(moved)
    <3>1. \A y \in there : (IF y = c.to THEN first ELSE d[source(y)]) \in [Attrs -> SUBSET Values]
      BY <1>1, <2>3, <2>5
    <3> QED BY <2>4, <3>1 DEF WellFormed, Entries
  <2> HIDE DEF moved
  <2> QED BY <2>1, <2>6, <2>7, RepointedTyped
<1>8. CASE c.type = "setpassword"
  <2> DEFINE e == [a \in Attrs |-> IF a \in Sensitive THEN c.new ELSE d[c.dn][a]]
  <2>1. e \in [Attrs -> SUBSET Values]
    BY <1>1, <1>3, <1>8, Kinds
  <2>2. Done(d, c) = [d EXCEPT ![c.dn] = e]
    BY <1>8 DEF Done
  <2> HIDE DEF e
  <2> QED BY <1>1, <2>1, <2>2 DEF WellFormed, Entries
<1> QED BY <1>2, <1>4, <1>5, <1>6, <1>7, <1>8

\* What a modify does, to the entry it is of and to no other.
LEMMA DoneModify ==
  ASSUME NEW d, NEW c \in ValidChanges, c.type = "modify", Accepts(d, c)
  PROVE  /\ DOMAIN Done(d, c) = DOMAIN d /\ c.dn \in DOMAIN d
         /\ \A x \in DOMAIN d : x # c.dn => Done(d, c)[x] = d[x]
         /\ Done(d, c)[c.dn] = [a \in Attrs |-> applyMods(d[c.dn][a], a, c.mods)]
<1>1. c.dn \in DOMAIN d
  BY DEF Accepts
<1> DEFINE e == [a \in Attrs |-> applyMods(d[c.dn][a], a, c.mods)]
<1>2. Done(d, c) = [d EXCEPT ![c.dn] = e]
  BY DEF Done
<1> HIDE DEF e
<1>3. /\ DOMAIN Done(d, c) = DOMAIN d
      /\ \A x \in DOMAIN d : x # c.dn => Done(d, c)[x] = d[x]
      /\ Done(d, c)[c.dn] = e
  BY <1>1, <1>2
<1> QED BY <1>1, <1>3 DEF e

\* A directory with the entry that an add creates: as given, with its naming value.
Created(d, c, after) ==
  /\ c.dn \notin DOMAIN d /\ DOMAIN after = DOMAIN d \cup {c.dn}
  /\ \A x \in DOMAIN d : after[x] = d[x]
  /\ \A a \in Attrs : after[c.dn][a] =
       IF a = NamingAttr THEN c.attrs[a] \cup Without({Last(c.dn)}, c.attrs[a]) ELSE c.attrs[a]

LEMMA DoneAdd ==
  ASSUME NEW d, NEW c \in ValidChanges, c.type = "add", Accepts(d, c)
  PROVE  Created(d, c, Done(d, c))
<1>1. c.dn \notin DOMAIN d
  BY DEF Accepts
<1> DEFINE S == c.attrs[NamingAttr] \cup Without({Last(c.dn)}, c.attrs[NamingAttr])
           e == [c.attrs EXCEPT ![NamingAttr] = S]
<1>2. Done(d, c) = Over(d, [x \in {c.dn} |-> e])
  BY DEF Done
<1>3. c.attrs \in [Attrs -> SUBSET Values]
  BY Kinds DEF Entries
<1>4. \A a \in Attrs : e[a] = IF a = NamingAttr THEN S ELSE c.attrs[a]
  BY <1>3
<1> HIDE DEF e
<1> QED BY <1>1, <1>2, <1>4 DEF Over, Created

\* What a rename does to the entry it is of: nothing, to an attribute that neither names nor refers.
LEMMA DoneRename ==
  ASSUME NEW d, WellFormed(d), NEW c \in ValidChanges, c.type = "modrdn", Accepts(d, c),
         NEW a \in Attrs, a # NamingAttr, a # RefAttr
  PROVE  c.to \in DOMAIN Done(d, c) /\ Done(d, c)[c.to][a] = d[c.dn][a]
<1> DEFINE under == {x \in DOMAIN d : IsUnder(x, c.dn)}
           named == under \cap DOMAIN Ref
           follow == {x \in named : Moved(x, c.dn, c.to) \in DOMAIN Ref}
           there == (DOMAIN d \ under) \cup {Moved(x, c.dn, c.to) : x \in under}
           source(y) == IF y \in DOMAIN d \ under THEN y ELSE Moved(y, c.to, c.dn)
           first == [d[c.dn] EXCEPT ![NamingAttr] = Renamed(d[c.dn][NamingAttr], c.dn, c.to, c.deleteOld)]
           moved == [y \in there |-> IF y = c.to THEN first ELSE d[source(y)]]
           renames == [x \in follow |-> Moved(x, c.dn, c.to)]
<1>1. Done(d, c) = Repointed(moved, named, renames)
  BY DEF Done
<1>2. c.dn \in DNs /\ c.to \in DNs /\ c.dn \in DOMAIN d
  BY Kinds DEF Accepts
<1>3. Moved(c.dn, c.dn, c.to) = c.to /\ IsUnder(c.dn, c.dn)
  BY <1>2, UnderItself, MovedBack
<1>4. c.to \in there
  BY <1>2, <1>3
<1>5. moved[c.to] = first /\ DOMAIN moved = there
  BY <1>4
<1>6. d[c.dn] \in [Attrs -> SUBSET Values]
  BY <1>2 DEF WellFormed, Entries
<1>7. first[a] = d[c.dn][a] /\ DOMAIN first = Attrs
  BY <1>6
<1> HIDE DEF moved, there, first, named, renames
<1>8. Done(d, c)[c.to][a] = moved[c.to][a] /\ c.to \in DOMAIN Done(d, c)
  BY <1>1, <1>4, <1>5, <1>7 DEF Repointed
<1> QED BY <1>5, <1>7, <1>8

-----------------------------------------------------------------------------
(* A directory is a tree, and stays one *)

LEMMA TreeIs ==
  ASSUME NEW d, Tree(d)
  PROVE  /\ IsFiniteSet(DOMAIN d) /\ DOMAIN d \subseteq DNs /\ <<>> \notin DOMAIN d
         /\ \A x \in DOMAIN d : Parent(x) = <<>> \/ Parent(x) \in DOMAIN d
  BY DEF Tree, Present

\* Above what is there, down from the suffix, everything is there.
LEMMA AncestorsThere ==
  ASSUME NEW d, Tree(d), NEW top \in DNs, top # <<>>
  PROVE  \A x \in DOMAIN d : IsUnder(x, top) => top \in DOMAIN d
<1> DEFINE N == {n \in Nat : \A x \in DOMAIN d : Len(x) = n /\ IsUnder(x, top) => top \in DOMAIN d}
<1>1. 0 \in N
  <2> SUFFICES ASSUME NEW x \in DOMAIN d, Len(x) = 0 PROVE FALSE
    OBVIOUS
  <2>1. x \in DNs /\ x # <<>>
    BY TreeIs
  <2> QED BY <2>1 DEF DNs
<1>2. ASSUME NEW n \in N PROVE n + 1 \in N
  <2> SUFFICES ASSUME NEW x \in DOMAIN d, Len(x) = n + 1, IsUnder(x, top), x # top PROVE top \in DOMAIN d
    BY <1>2
  <2>1. x \in DNs /\ x # <<>>
    BY TreeIs
  <2>2. IsUnder(Parent(x), top) /\ Parent(x) \in DNs /\ Len(Parent(x)) = n
    BY <1>2, <2>1, ParentUnder, ParentIs
  <2>3. Len(top) <= Len(Parent(x)) /\ Len(top) \in Nat \ {0}
    BY <2>2, UnderIs DEF DNs
  <2>4. Parent(x) # <<>>
    BY <2>3
  <2>5. Parent(x) \in DOMAIN d
    BY <2>4, TreeIs
  <2> QED BY <1>2, <2>2, <2>5
<1>3. N = Nat
  <2>1. N \in SUBSET Nat
    OBVIOUS
  <2> HIDE DEF N
  <2> QED BY <1>1, <1>2, <2>1, AllNumbers
<1> QED
  <2> SUFFICES ASSUME NEW x \in DOMAIN d, IsUnder(x, top) PROVE top \in DOMAIN d
    OBVIOUS
  <2>1. x \in DNs
    BY TreeIs
  <2>2. Len(x) \in N
    BY <1>3, <2>1 DEF DNs
  <2> QED BY <2>2

\* What is at a name and below it, and where it goes.
Subtree(d, x) == {y \in DOMAIN d : IsUnder(y, x)}
Destination(d, from, to) == {Moved(x, from, to) : x \in Subtree(d, from)}

\* The names there are once a change has been carried out.
LEMMA DoneNames ==
  ASSUME NEW d, NEW c \in ValidChanges
  PROVE  /\ c.type = "add" => DOMAIN Done(d, c) = DOMAIN d \cup {c.dn}
         /\ c.type \in {"modify", "setpassword"} => DOMAIN Done(d, c) = DOMAIN d
         /\ c.type = "delete" => DOMAIN Done(d, c) = DOMAIN d \ {c.dn}
         /\ c.type = "modrdn" =>
              DOMAIN Done(d, c) = (DOMAIN d \ Subtree(d, c.dn)) \cup Destination(d, c.dn, c.to)
<1>1. c.type = "add" => DOMAIN Done(d, c) = DOMAIN d \cup {c.dn}
  BY DEF Done, Over
<1>2. c.type = "modify" => DOMAIN Done(d, c) = DOMAIN d
  BY DEF Done
<1>3. c.type = "setpassword" => DOMAIN Done(d, c) = DOMAIN d
  BY DEF Done
<1>4. c.type = "delete" => DOMAIN Done(d, c) = DOMAIN d \ {c.dn}
  BY DEF Done, Repointed
<1>5. c.type = "modrdn" =>
        DOMAIN Done(d, c) = (DOMAIN d \ Subtree(d, c.dn)) \cup Destination(d, c.dn, c.to)
  BY DEF Done, Repointed, Subtree, Destination
<1> QED BY <1>1, <1>2, <1>3, <1>4, <1>5

\* A change a directory accepts leaves the names a tree.
LEMMA DoneTree ==
  ASSUME NEW d, Tree(d), NEW c \in ValidChanges, Accepts(d, c)
  PROVE  Tree(Done(d, c))
<1> DEFINE D == DOMAIN d
           E == DOMAIN Done(d, c)
<1> HIDE DEF D, E
<1>1. /\ IsFiniteSet(D) /\ D \subseteq DNs /\ <<>> \notin D
      /\ \A x \in D : Parent(x) = <<>> \/ Parent(x) \in D
  BY TreeIs DEF D
<1>2. /\ c.dn \in DNs /\ c.dn # <<>>
      /\ c.type \in {"add", "modify", "delete", "modrdn", "setpassword"}
  BY Kinds
<1>3. SUFFICES /\ IsFiniteSet(E) /\ E \subseteq DNs /\ <<>> \notin E
               /\ \A x \in E : Parent(x) = <<>> \/ Parent(x) \in E
  BY DEF E, Tree, Present
<1>4. CASE c.type = "add"
  <2>1. E = D \cup {c.dn}
    BY <1>4, DoneNames DEF D, E
  <2>2. Parent(c.dn) = <<>> \/ Parent(c.dn) \in D
    BY <1>4 DEF Accepts, Present, D
  <2>3. IsFiniteSet(E)
    BY <1>1, <2>1, FS_AddElement
  <2> QED BY <1>1, <1>2, <2>1, <2>2, <2>3
<1>5. CASE c.type \in {"modify", "setpassword"}
  <2>1. E = D
    BY <1>5, DoneNames DEF D, E
  <2> QED BY <1>1, <2>1
<1>6. CASE c.type = "delete"
  <2>1. E = D \ {c.dn}
    BY <1>6, DoneNames DEF D, E
  <2>2. IsFiniteSet(E)
    BY <1>1, <2>1, FS_RemoveElement
  <2>3. ASSUME NEW x \in E PROVE Parent(x) # c.dn
    <3>1. x \in DNs /\ x # <<>> /\ x # c.dn /\ x \in D
      BY <1>1, <2>1
    <3>2. IsUnder(x, Parent(x))
      BY <3>1, ParentIs
    <3>3. IsUnder(x, c.dn) => x = c.dn
      BY <1>6, <3>1 DEF Accepts, D
    <3> QED BY <3>1, <3>2, <3>3
  <2> QED BY <1>1, <2>1, <2>2, <2>3
<1>7. CASE c.type = "modrdn"
  <2> DEFINE U == Subtree(d, c.dn)
             V == Destination(d, c.dn, c.to)
  <2>1. E = (D \ U) \cup V
    BY <1>7, DoneNames DEF D, E
  <2>2. c.to \in DNs /\ c.to # <<>>
    BY <1>7, Kinds
  <2>3. U \subseteq D /\ \A x \in D : x \in U <=> IsUnder(x, c.dn)
    BY DEF Subtree, D
  <2>4. V = {Moved(x, c.dn, c.to) : x \in U}
    BY DEF Destination
  <2>5. c.dn \in D /\ Moved(c.dn, c.dn, c.to) = c.to
    <3>1. c.dn \in D
      BY <1>7 DEF Accepts, D
    <3>2. Moved(c.dn, c.dn, c.to) = c.to
      BY <1>2, <2>2, UnderItself, MovedBack
    <3> QED BY <3>1, <3>2
  <2>6. Parent(c.to) = <<>> \/ Parent(c.to) \in D
    BY <1>7 DEF Accepts, Present, D
  <2>7. c.to # c.dn => ~IsUnder(c.to, c.dn)
    BY <1>7 DEF Accepts
  <2> HIDE DEF U, V
  <2>8. IsFiniteSet(U) /\ IsFiniteSet(V) /\ IsFiniteSet(E)
    <3>1. IsFiniteSet(U)
      BY <1>1, <2>3, FS_Subset
    <3> DEFINE f == [x \in U |-> Moved(x, c.dn, c.to)]
    <3>2. f \in Surjection(U, V)
      BY <2>4 DEF Surjection
    <3>3. IsFiniteSet(V)
      BY <3>1, <3>2, FS_Surjection
    <3>4. IsFiniteSet(D \ U)
      BY <1>1, FS_Subset
    <3> QED BY <2>1, <3>1, <3>3, <3>4, FS_Union
  <2>9. ASSUME NEW x \in U
        PROVE  /\ Moved(x, c.dn, c.to) \in DNs /\ Moved(x, c.dn, c.to) # <<>>
               /\ x # c.dn => Parent(Moved(x, c.dn, c.to)) \in V
    <3>1. x \in DNs /\ IsUnder(x, c.dn) /\ x \in D
      BY <1>1, <2>3, <2>9
    <3>2. Moved(x, c.dn, c.to) \in DNs
      BY <1>2, <2>2, <3>1, MovedBack
    <3>3. CASE x = c.dn
      BY <2>2, <2>5, <3>2, <3>3
    <3>4. CASE x # c.dn
      <4>1. /\ IsUnder(Parent(x), c.dn) /\ Parent(x) # <<>> /\ Moved(x, c.dn, c.to) # <<>>
            /\ Parent(Moved(x, c.dn, c.to)) = Moved(Parent(x), c.dn, c.to)
        BY <1>2, <2>2, <3>1, <3>4, ParentMoves
      <4>2. Parent(x) \in U
        BY <1>1, <2>3, <3>1, <4>1
      <4> QED BY <2>4, <3>2, <4>1, <4>2
    <3> QED BY <3>3, <3>4
  <2>10. Parent(c.to) = <<>> \/ Parent(c.to) \in E
    <3>1. ASSUME Parent(c.to) \in D, Parent(c.to) \in U PROVE FALSE
      <4>1. IsUnder(Parent(c.to), c.dn) /\ IsUnder(c.to, c.dn)
        BY <1>2, <2>2, <2>3, <3>1, ParentUnder
      <4>2. c.to = c.dn
        BY <2>7, <4>1
      <4>3. Len(Parent(c.dn)) = Len(c.dn) - 1 /\ Len(c.dn) \in Nat /\ Parent(c.dn) \in DNs
        BY <1>2, ParentIs
      <4>4. Len(c.dn) <= Len(Parent(c.dn))
        BY <1>2, <4>1, <4>2, <4>3, UnderIs
      <4> QED BY <4>3, <4>4
    <3> QED BY <2>1, <2>6, <3>1
  <2>11. ASSUME NEW y \in E PROVE y \in DNs /\ y # <<>> /\ (Parent(y) = <<>> \/ Parent(y) \in E)
    <3>1. CASE y \in D \ U
      <4>1. y \in DNs /\ y # <<>> /\ (Parent(y) = <<>> \/ Parent(y) \in D)
        BY <1>1, <3>1
      <4>2. ASSUME Parent(y) \in U PROVE FALSE
        <5>1. IsUnder(Parent(y), c.dn)
          BY <2>3, <4>2
        <5>2. IsUnder(y, c.dn)
          BY <1>2, <4>1, <5>1, ParentUnder
        <5> QED BY <2>3, <3>1, <5>2
      <4> QED BY <2>1, <4>1, <4>2
    <3>2. CASE y \notin D \ U
      <4>1. PICK x \in U : y = Moved(x, c.dn, c.to)
        BY <2>1, <2>4, <3>2
      <4>2. CASE x = c.dn
        BY <2>2, <2>5, <2>10, <4>1, <4>2
      <4>3. CASE x # c.dn
        BY <2>1, <2>9, <4>1, <4>3
      <4> QED BY <4>2, <4>3
    <3> QED BY <3>1, <3>2
  <2> QED BY <2>8, <2>11
<1> QED BY <1>2, <1>4, <1>5, <1>6, <1>7

\* An entry that moves to another name takes what is below it along and leaves nothing behind.
LEMMA MovedAway ==
  ASSUME NEW d, Tree(d), NEW c \in ValidChanges, Accepts(d, c), c.type = "modrdn", c.to # c.dn
  PROVE  DOMAIN d \ DOMAIN Done(d, c) = Subtree(d, c.dn)
<1>1. DOMAIN Done(d, c) = (DOMAIN d \ Subtree(d, c.dn)) \cup Destination(d, c.dn, c.to)
  BY DoneNames
<1>2. c.dn \in DNs /\ c.dn # <<>> /\ c.to \in DNs /\ c.to # <<>> /\ c.dn \in DOMAIN d
  BY Kinds DEF Accepts
<1>3. c.to \notin DOMAIN d /\ ~IsUnder(c.to, c.dn)
  BY DEF Accepts
<1>4. ASSUME NEW y \in Subtree(d, c.dn), y \in Destination(d, c.dn, c.to) PROVE FALSE
  <2>1. y \in DOMAIN d /\ y \in DNs /\ IsUnder(y, c.dn)
    BY TreeIs DEF Subtree
  <2>2. PICK x \in DOMAIN d : IsUnder(x, c.dn) /\ y = Moved(x, c.dn, c.to)
    BY <1>4 DEF Destination, Subtree
  <2>3. x \in DNs
    BY TreeIs
  <2>4. IsUnder(y, c.to)
    BY <1>2, <2>2, <2>3, MovedBack
  <2> QED BY <1>2, <1>3, <2>1, <2>4, AncestorsThere
<1>5. Subtree(d, c.dn) \subseteq DOMAIN d
  BY DEF Subtree
<1> QED BY <1>1, <1>4, <1>5
=============================================================================
