--------------------------- MODULE ChangesetProofs ---------------------------
(***************************************************************************)
(* What a changeset's request promises, for every menu, every directory    *)
(* and any number of changes, other writers and faults.                    *)
(***************************************************************************)
EXTENDS Changeset, DataProofs

-----------------------------------------------------------------------------
(* What a bundle holds *)

Expectations ==
  {NoExpect} \cup [attrs : UNION {[A -> SUBSET Values] : A \in SUBSET Attrs}, exhaustive : BOOLEAN]

Compensations == [change : ValidChanges, expect : Expectations]

\* Where merge stands: the modifications it remembers are in what it has put out.
Merging ==
  {acc \in [out : Seq(Compensations), run : UNION {[X -> Nat] : X \in SUBSET DNs}] :
     \A y \in DOMAIN acc.run : acc.run[y] \in DOMAIN acc.out /\ acc.out[acc.run[y]].change.type = "modify"}

\* A list without an element is a list.
LEMMA RemoveAtIs ==
  ASSUME NEW S, NEW s \in Seq(S), NEW i \in DOMAIN s
  PROVE  RemoveAt(s, i) \in Seq(S)
<1>1. SubSeq(s, 1, i - 1) \in Seq(S) /\ SubSeq(s, i + 1, Len(s)) \in Seq(S)
  OBVIOUS
<1> QED BY <1>1, Joined DEF RemoveAt

LEMMA mergeExpectTyped ==
  ASSUME NEW first \in Expectations, NEW second \in Expectations
  PROVE  mergeExpect(first, second) \in Expectations
<1>1. CASE first = NoExpect \/ second = NoExpect
  BY <1>1 DEF mergeExpect
<1>2. CASE first # NoExpect /\ second # NoExpect
  <2>1. /\ first.exhaustive \in BOOLEAN /\ second.exhaustive \in BOOLEAN
        /\ \E A \in SUBSET Attrs : first.attrs \in [A -> SUBSET Values]
        /\ \E A \in SUBSET Attrs : second.attrs \in [A -> SUBSET Values]
    BY <1>2 DEF Expectations
  <2> DEFINE e == Over(first.attrs, second.attrs)
  <2>2. \E A \in SUBSET Attrs : e \in [A -> SUBSET Values]
    <3>1. PICK A \in SUBSET Attrs : first.attrs \in [A -> SUBSET Values]
      BY <2>1
    <3>2. PICK B \in SUBSET Attrs : second.attrs \in [B -> SUBSET Values]
      BY <2>1
    <3>3. e = [x \in A \cup B |-> IF x \in A THEN first.attrs[x] ELSE second.attrs[x]]
      BY <3>1, <3>2 DEF Over
    <3>4. e \in [A \cup B -> SUBSET Values]
      BY <3>1, <3>2, <3>3
    <3> HIDE DEF e
    <3> QED BY <3>4
  <2>3. mergeExpect(first, second) = Expecting(e, first.exhaustive \/ second.exhaustive)
    BY <1>2 DEF mergeExpect
  <2> HIDE DEF e
  <2> QED BY <2>1, <2>2, <2>3 DEF Expecting, Expectations
<1> QED BY <1>1, <1>2

LEMMA MergeOneTyped ==
  ASSUME NEW acc \in Merging, NEW x \in Compensations
  PROVE  MergeOne(acc, x) \in Merging
<1> DEFINE c == x.change
           at == acc.run[c.dn]
           earlier == acc.out[at]
           alone == [out |-> Append(acc.out, x), run |-> <<>>]
           seen == c.type \in {"modify", "delete"} /\ c.dn \in DOMAIN acc.run
<1>1. /\ c \in ValidChanges /\ x.expect \in Expectations
      /\ acc.out \in Seq(Compensations) /\ \E X \in SUBSET DNs : acc.run \in [X -> Nat]
      /\ \A y \in DOMAIN acc.run : acc.run[y] \in DOMAIN acc.out /\ acc.out[acc.run[y]].change.type = "modify"
      /\ acc = [out |-> acc.out, run |-> acc.run]
  BY DEF Compensations, Merging
<1> DEFINE Fits(out, run) ==
             /\ out \in Seq(Compensations) /\ \E X \in SUBSET DNs : run \in [X -> Nat]
             /\ \A y \in DOMAIN run : run[y] \in DOMAIN out /\ out[run[y]].change.type = "modify"
<1>2. \A out, run : Fits(out, run) => [out |-> out, run |-> run] \in Merging
  BY DEF Merging
<1>3. /\ c.dn \in DNs /\ c.dn # <<>> /\ c.type \in {"add", "modify", "delete", "modrdn", "setpassword"}
      /\ c.type = "modify" => c.mods \in Seq(Wellformed) /\ c.mods # <<>>
  BY <1>1, Kinds
<1>4. \A out \in Seq(Compensations) : Fits(out, <<>>)
  <2>1. <<>> \in [{} -> Nat] /\ DOMAIN <<>> = {}
    OBVIOUS
  <2> QED BY <2>1
<1>5. Append(acc.out, x) \in Seq(Compensations) /\ alone \in Merging
  <2>1. Append(acc.out, x) \in Seq(Compensations)
    BY <1>1
  <2> HIDE DEF Fits
  <2> QED BY <2>1, <1>2, <1>4
<1>6. seen => /\ at \in DOMAIN acc.out /\ earlier \in Compensations
              /\ earlier.change \in ValidChanges /\ earlier.expect \in Expectations
              /\ earlier.change.mods \in Seq(Wellformed) /\ earlier.change.mods # <<>>
  <2> SUFFICES ASSUME seen PROVE /\ at \in DOMAIN acc.out /\ earlier \in Compensations
              /\ earlier.change \in ValidChanges /\ earlier.expect \in Expectations
              /\ earlier.change.mods \in Seq(Wellformed) /\ earlier.change.mods # <<>>
    OBVIOUS
  <2>1. at \in DOMAIN acc.out /\ earlier.change.type = "modify"
    BY <1>1
  <2>2. earlier \in Compensations
    BY <1>1, <2>1
  <2>3. earlier.change \in ValidChanges /\ earlier.expect \in Expectations
    BY <2>2 DEF Compensations
  <2> QED BY <2>1, <2>2, <2>3, Kinds
<1>7. CASE c.type = "modify" /\ touchesAccessRule(c)
  BY <1>5, <1>7 DEF MergeOne
<1>8. CASE c.type = "modify" /\ ~touchesAccessRule(c) /\ seen
  <2> DEFINE ms == earlier.change.mods \o c.mods
             y == Compensating(Modify(c.dn, ms), mergeExpect(earlier.expect, x.expect))
             out == [acc.out EXCEPT ![at] = y]
  <2>1. MergeOne(acc, x) = [acc EXCEPT !.out[at] = y]
    BY <1>8 DEF MergeOne
  <2>2. MergeOne(acc, x) = [out |-> out, run |-> acc.run]
    <3> HIDE DEF y, at
    <3> QED BY <2>1, <1>1
  <2>3. ms \in Seq(Wellformed) /\ ms # <<>>
    <3>1. c.mods \in Seq(Wellformed) /\ earlier.change.mods \in Seq(Wellformed) /\ earlier.change.mods # <<>>
      BY <1>8, <1>3, <1>6
    <3> HIDE DEF earlier, c
    <3> QED BY <3>1
  <2>4. y \in Compensations /\ y.change.type = "modify"
    <3>1. mergeExpect(earlier.expect, x.expect) \in Expectations
      BY <1>1, <1>6, <1>8, mergeExpectTyped
    <3>2. Modify(c.dn, ms) \in ValidChanges
      <4> HIDE DEF ms
      <4> QED BY <2>3, <1>3, ModifyValid
    <3>3. Modify(c.dn, ms).type = "modify"
      BY DEF Modify
    <3> HIDE DEF ms, c, earlier
    <3> QED BY <3>1, <3>2, <3>3 DEF Compensating, Compensations
  <2>5. Fits(out, acc.run)
    <3> HIDE DEF y
    <3>1. at \in DOMAIN acc.out
      BY <1>6, <1>8
    <3> HIDE DEF at, seen, alone
    <3>2. out \in Seq(Compensations) /\ DOMAIN out = DOMAIN acc.out
      BY <1>1, <2>4, <3>1
    <3>3. \A i \in DOMAIN acc.out : out[i] = IF i = at THEN y ELSE acc.out[i]
      BY <3>1
    <3> HIDE DEF out
    <3>4. \A i \in DOMAIN acc.run : acc.run[i] \in DOMAIN out /\ out[acc.run[i]].change.type = "modify"
      BY <1>1, <2>4, <3>2, <3>3
    <3> QED BY <1>1, <3>2, <3>4
  <2> HIDE DEF out, Fits
  <2> QED BY <1>2, <2>2, <2>5
<1>9. CASE c.type = "modify" /\ ~touchesAccessRule(c) /\ ~seen
  <2> DEFINE out == Append(acc.out, x)
             run == Over(acc.run, [y \in {c.dn} |-> Len(out)])
  <2>1. MergeOne(acc, x) = [out |-> out, run |-> run]
    BY <1>9 DEF MergeOne
  <2>2. /\ Len(out) = Len(acc.out) + 1 /\ Len(acc.out) \in Nat
        /\ DOMAIN out = 1..Len(out) /\ DOMAIN acc.out = 1..Len(acc.out)
        /\ out[Len(out)] = x /\ \A i \in DOMAIN acc.out : out[i] = acc.out[i]
    BY <1>1
  <2>3. c.dn \notin DOMAIN acc.run
    BY <1>9
  <2>4. DOMAIN run = DOMAIN acc.run \cup {c.dn}
    BY DEF Over
  <2>5. \A y \in DOMAIN run : run[y] = IF y \in DOMAIN acc.run THEN acc.run[y] ELSE Len(out)
    <3> HIDE DEF out
    <3> QED BY DEF Over
  <2> HIDE DEF out, c, seen, alone, at, earlier
  <2>6. run = [y \in DOMAIN run |-> run[y]]
    BY DEF Over
  <2> HIDE DEF run
  <2>7. \A y \in DOMAIN run : run[y] \in DOMAIN out /\ out[run[y]].change.type = "modify"
    BY <1>1, <1>9, <2>2, <2>4, <2>5 DEF c
  <2>8. DOMAIN run \in SUBSET DNs /\ run \in [DOMAIN run -> Nat]
    <3>1. \A y \in DOMAIN run : run[y] \in Nat
      BY <2>2, <2>7
    <3> QED BY <1>1, <1>3, <2>4, <2>6, <3>1
  <2>9. Fits(out, run)
    BY <1>5, <2>7, <2>8 DEF out
  <2> HIDE DEF Fits
  <2> QED BY <1>2, <2>1, <2>9
<1>10. CASE c.type = "delete" /\ seen
  <2> DEFINE y == Compensating(c, mergeExpect(earlier.expect, x.expect))
             out == Append(RemoveAt(acc.out, at), y)
  <2>1. MergeOne(acc, x) = [out |-> out, run |-> <<>>]
    BY <1>10 DEF MergeOne
  <2>2. y \in Compensations
    <3>1. mergeExpect(earlier.expect, x.expect) \in Expectations
      BY <1>1, <1>6, <1>10, mergeExpectTyped
    <3> HIDE DEF c, earlier
    <3> QED BY <1>1, <3>1 DEF Compensating, Compensations
  <2>3. RemoveAt(acc.out, at) \in Seq(Compensations)
    <3> HIDE DEF at
    <3> QED BY <1>1, <1>6, <1>10, RemoveAtIs
  <2>4. out \in Seq(Compensations)
    <3> HIDE DEF y, at
    <3> QED BY <2>2, <2>3
  <2> HIDE DEF out, Fits
  <2> QED BY <1>2, <1>4, <2>1, <2>4
<1>11. CASE /\ ~(c.type = "modify" /\ touchesAccessRule(c))
            /\ ~(c.type = "modify" /\ ~touchesAccessRule(c) /\ seen)
            /\ ~(c.type = "modify" /\ ~touchesAccessRule(c) /\ ~seen)
            /\ ~(c.type = "delete" /\ seen)
  BY <1>5, <1>11 DEF MergeOne
<1> QED BY <1>7, <1>8, <1>9, <1>10, <1>11

\* merge keeps a bundle a list of compensations.
LEMMA mergeTyped ==
  ASSUME NEW s \in Seq(Compensations)
  PROVE  merge(s) \in Seq(Compensations)
<1> DEFINE n == Len(s)
           base == [out |-> <<>>, run |-> <<>>]
           F == [k \in 1..n |-> [acc \in Merging |-> MergeOne(acc, s[k])]]
           Eq(g) == g = [I \in SUBSET (1..n) |-> IF I = {} THEN base ELSE MergeOne(g[I \ {Max(I)}], s[Max(I)])]
<1>1. n \in Nat /\ DOMAIN s = 1..n /\ \A k \in 1..n : s[k] \in Compensations
  BY ListIs
<1>2. base \in Merging
  <2>1. <<>> \in [{} -> Nat] /\ DOMAIN <<>> = {} /\ <<>> \in Seq(Compensations)
    OBVIOUS
  <2>2. <<>> \in UNION {[X -> Nat] : X \in SUBSET DNs}
    BY <2>1
  <2> QED BY <2>1, <2>2 DEF Merging
<1>3. F \in [1..n -> [Merging -> Merging]] /\ \A k \in 1..n : \A acc \in Merging : F[k][acc] = MergeOne(acc, s[k])
  BY <1>1, MergeOneTyped
<1>4. merge(s) = (CHOOSE g : Eq(g))[1..n].out
  BY <1>1 DEF merge, FoldLeft, MapThenFoldSet
<1> HIDE DEF F, n, base
<1>5. PICK g \in [SUBSET (1..n) -> Merging] : Links(g, n, base, F)
  BY <1>1, <1>2, <1>3, Chained
<1>6. Eq(g)
  <2>1. \A I \in SUBSET (1..n) : g[I] = IF I = {} THEN base ELSE MergeOne(g[I \ {Max(I)}], s[Max(I)])
    <3> TAKE I \in SUBSET (1..n)
    <3>1. CASE I # {}
      <4>1. Max(I) \in 1..n
        BY <1>1, <3>1, MaxAmong
      <4>2. g[I \ {Max(I)}] \in Merging
        BY <1>5
      <4> QED BY <4>1, <4>2, <1>3, <1>5 DEF Links
    <3> QED BY <3>1, <1>5 DEF Links
  <2> QED BY <2>1
<1>7. PICK f : f = (CHOOSE h : Eq(h)) /\ Eq(f)
  BY <1>6
<1>8. \A k \in 0..n : f[1..k] \in Merging
  <2> DEFINE N == {k \in Nat : k <= n => f[1..k] \in Merging}
  <2>1. \A I \in SUBSET (1..n) : f[I] = IF I = {} THEN base ELSE MergeOne(f[I \ {Max(I)}], s[Max(I)])
    BY <1>7
  <2> HIDE DEF Eq
  <2>2. 0 \in N
    <3>1. 1..0 = {} /\ {} \in SUBSET (1..n)
      OBVIOUS
    <3> QED BY <3>1, <2>1, <1>2
  <2>3. ASSUME NEW k \in N PROVE k + 1 \in N
    <3> SUFFICES ASSUME k + 1 <= n PROVE f[1..(k + 1)] \in Merging
      OBVIOUS
    <3>1. 1..(k + 1) \in SUBSET (1..n) /\ k + 1 \in Nat \ {0} /\ (k + 1) - 1 = k /\ k + 1 \in 1..n
      BY <1>1
    <3>2. f[1..(k + 1)] = MergeOne(f[1..k], s[k + 1])
      BY <2>1, <3>1, UpToLast
    <3>3. f[1..k] \in Merging
      BY <1>1
    <3> QED BY <3>1, <3>2, <3>3, <1>1, MergeOneTyped
  <2>4. N \in SUBSET Nat
    OBVIOUS
  <2>5. N = Nat
    <3> HIDE DEF N
    <3> QED BY <2>2, <2>3, <2>4, AllNumbers
  <2> QED BY <1>1, <2>5
<1>9. f[1..n] \in Merging
  BY <1>1, <1>8
<1> QED BY <1>4, <1>7, <1>9 DEF Merging

\* Lists joined one after the other are a list.
LEMMA FlattenTyped ==
  ASSUME NEW S, NEW ss \in Seq(Seq(S))
  PROVE  FlattenSeq(ss) \in Seq(S)
<1> DEFINE n == Len(ss)
           Eq(g) == g = [i \in 1..n |-> IF i = 1 THEN ss[i] ELSE g[i - 1] \o ss[i]]
           Makes(m) == \E g \in [1..m -> Seq(S)] : \A i \in 1..m : g[i] = IF i = 1 THEN ss[i] ELSE g[i - 1] \o ss[i]
           N == {m \in Nat : m <= n => Makes(m)}
<1>1. n \in Nat /\ \A i \in 1..n : ss[i] \in Seq(S)
  OBVIOUS
<1>2. CASE n = 0
  <2>1. ss = <<>>
    BY <1>2
  <2>2. FlattenSeq(ss) = <<>>
    BY <2>1 DEF FlattenSeq
  <2> QED BY <2>2
<1>3. CASE n # 0
  <2>1. FlattenSeq(ss) = (CHOOSE g : Eq(g))[n]
    BY <1>3 DEF FlattenSeq
  <2> HIDE DEF n, Makes
  <2>2. 0 \in N
    <3>1. Makes(0)
      <4>1. 1..0 = {}
        OBVIOUS
      <4>2. [i \in 1..0 |-> <<>>] \in [1..0 -> Seq(S)]
        BY <4>1
      <4> QED BY <4>1, <4>2 DEF Makes
    <3> QED BY <3>1
  <2>3. ASSUME NEW m \in Nat, Makes(m), m + 1 <= n PROVE Makes(m + 1)
    <3>1. PICK g \in [1..m -> Seq(S)] : \A i \in 1..m : g[i] = IF i = 1 THEN ss[i] ELSE g[i - 1] \o ss[i]
      BY <2>3 DEF Makes
    <3> DEFINE last == IF m = 0 THEN ss[1] ELSE g[m] \o ss[m + 1]
               h == [i \in 1..(m + 1) |-> IF i = m + 1 THEN last ELSE g[i]]
    <3>2. last \in Seq(S)
      <4>1. ss[m + 1] \in Seq(S)
        BY <1>1, <2>3
      <4>2. m # 0 => g[m] \in Seq(S)
        OBVIOUS
      <4> QED BY <4>1, <4>2, Joined
    <3>3. \A i \in 1..(m + 1) : i # m + 1 => i \in 1..m /\ (i # 1 => i - 1 \in 1..m)
      OBVIOUS
    <3>4. \A i \in 1..(m + 1) : h[i] = IF i = m + 1 THEN last ELSE g[i]
      OBVIOUS
    <3>5. h \in [1..(m + 1) -> Seq(S)]
      BY <3>2, <3>3
    <3> HIDE DEF h
    <3>6. \A i \in 1..(m + 1) : h[i] = IF i = 1 THEN ss[i] ELSE h[i - 1] \o ss[i]
      <4> TAKE i \in 1..(m + 1)
      <4>1. CASE i = m + 1 /\ m = 0
        BY <4>1, <3>4
      <4>2. CASE i = m + 1 /\ m # 0
        <5>1. i - 1 = m /\ m \in 1..(m + 1) /\ m # m + 1 /\ i # 1
          BY <4>2
        <5> QED BY <4>2, <5>1, <3>4
      <4>3. CASE i # m + 1
        <5>1. i \in 1..m /\ (i # 1 => i - 1 \in 1..(m + 1) /\ i - 1 # m + 1)
          BY <4>3
        <5> QED BY <4>3, <5>1, <3>1, <3>4
      <4> QED BY <4>1, <4>2, <4>3
    <3> QED BY <3>5, <3>6 DEF Makes
  <2>4. N = Nat
    <3>1. N \in SUBSET Nat /\ \A m \in N : m + 1 \in N
      BY <2>3, <1>1
    <3> HIDE DEF N
    <3> QED BY <2>2, <3>1, AllNumbers
  <2>5. PICK g \in [1..n -> Seq(S)] : \A i \in 1..n : g[i] = IF i = 1 THEN ss[i] ELSE g[i - 1] \o ss[i]
    <3>0. n \in Nat /\ n <= n
      BY <1>1
    <3>1. Makes(n)
      BY <3>0, <2>4
    <3> QED BY <3>1 DEF Makes
  <2>6. Eq(g)
    BY <2>5
  <2> HIDE DEF Eq
  <2>7. PICK f : f = (CHOOSE h : Eq(h)) /\ Eq(f)
    <3>1. \E h : Eq(h)
      BY <2>6
    <3>2. Eq(CHOOSE h : Eq(h))
      BY <3>1, Zenon
    <3> DEFINE c == CHOOSE h : Eq(h)
    <3>3. c = (CHOOSE h : Eq(h)) /\ Eq(c)
      BY <3>2
    <3> HIDE DEF c
    <3> QED BY <3>3
  <2>8. \A i \in 1..n : f[i] = IF i = 1 THEN ss[i] ELSE f[i - 1] \o ss[i]
    BY <2>7 DEF Eq
  <2> DEFINE K == {k \in Nat : k \in 1..n => f[k] \in Seq(S)}
  <2>9. 0 \in K
    OBVIOUS
  <2>10. ASSUME NEW k \in K PROVE k + 1 \in K
    <3> SUFFICES ASSUME k + 1 \in 1..n PROVE f[k + 1] \in Seq(S)
      OBVIOUS
    <3>1. ss[k + 1] \in Seq(S)
      BY <1>1
    <3>2. CASE k = 0
      BY <2>8, <3>1, <3>2
    <3>3. CASE k # 0
      <4>1. f[k] \in Seq(S) /\ (k + 1) - 1 = k /\ k + 1 # 1
        BY <1>1, <3>3
      <4>2. f[k + 1] = f[k] \o ss[k + 1]
        BY <2>8, <4>1
      <4> QED BY <3>1, <4>1, <4>2, Joined
    <3> QED BY <3>2, <3>3
  <2>11. K = Nat
    <3>1. K \in SUBSET Nat
      OBVIOUS
    <3> HIDE DEF K
    <3> QED BY <2>9, <2>10, <3>1, AllNumbers
  <2>12. f[n] \in Seq(S)
    <3>1. n \in Nat /\ n \in 1..n
      BY <1>1, <1>3
    <3> QED BY <3>1, <2>11
  <2> QED BY <2>1, <2>7, <2>12
<1> QED BY <1>2, <1>3

-----------------------------------------------------------------------------
(* What is derived *)

LEMMA UndoTyped ==
  ASSUME NEW a \in Attrs, NEW S \in SUBSET Values, NEW T \in SUBSET Values
  PROVE  Undo(a, S, T) \in Seq(Wellformed)
<1> DEFINE One(m) == <<m>>
<1>1. \A m \in Wellformed : <<m>> \in Seq(Wellformed)
  OBVIOUS
<1>2. <<>> \in Seq(Wellformed)
  OBVIOUS
<1>3. \A V \in SUBSET Values : /\ Mod("replace", a, V) \in Wellformed /\ Mod("delete", a, V) \in Wellformed
                               /\ V # {} => Mod("add", a, V) \in Wellformed
  BY DEF Mod, Wellformed, Mods
<1>4. Without(S, T) \in SUBSET Values /\ Without(T, S) \in SUBSET Values
  BY DEF Without
<1>5. CASE SameByRule(S, T)
  BY <1>1, <1>2, <1>3, <1>5 DEF Undo
<1>6. CASE ~SameByRule(S, T) /\ S = {}
  BY <1>1, <1>3, <1>6 DEF Undo
<1>7. CASE ~SameByRule(S, T) /\ S # {} /\ T = {}
  BY <1>1, <1>3, <1>7 DEF Undo
<1>8. CASE ~SameByRule(S, T) /\ S # {} /\ T # {}
  <2> DEFINE s == IF Without(T, S) = {} THEN <<>> ELSE <<Mod("delete", a, Without(T, S))>>
             t == IF Without(S, T) = {} THEN <<>> ELSE <<Mod("add", a, Without(S, T))>>
  <2>1. s \in Seq(Wellformed) /\ t \in Seq(Wellformed)
    BY <1>1, <1>2, <1>3, <1>4
  <2>2. Undo(a, S, T) = s \o t
    BY <1>8 DEF Undo
  <2> HIDE DEF s, t
  <2> QED BY <2>1, <2>2, Joined
<1> QED BY <1>5, <1>6, <1>7, <1>8

LEMMA deriveModifyTyped ==
  ASSUME NEW c \in ValidChanges, c.type = "modify", NEW was \in Entries
  PROVE  deriveModify(c, was).change = c /\ deriveModify(c, was).comps \in Seq(Compensations)
<1> DEFINE found(a) == applyMods(was[a], a, c.mods)
           changed == {a \in Named(c) \cap Comparable : found(a) # was[a]}
           parts == [i \in 1..Cardinality(changed) |->
                       LET a == SetToSeq(changed)[i] IN Undo(a, was[a], found(a))]
           mods == FlattenSeq(parts)
           ex == Expecting([a \in changed |-> found(a)], FALSE)
           comps == IF mods = <<>> THEN <<>> ELSE <<Compensating(Modify(c.dn, mods), ex)>>
<1>1. deriveModify(c, was) = Step(c, level(Named(c) \ Comparable, Named(c)), comps)
  BY DEF deriveModify
<1>2. \A a \in Attrs : was[a] \in SUBSET Values /\ found(a) \in SUBSET Values
  BY ModsOfChange, AppliedTyped DEF Entries
<1>3. changed \subseteq Attrs /\ IsFiniteSet(changed)
  <2>1. changed \subseteq Named(c)
    OBVIOUS
  <2> HIDE DEF changed
  <2> QED BY <2>1, ModsOfChange, FS_Subset
<1>4. mods \in Seq(Wellformed)
  <2> HIDE DEF changed, found
  <2>1. /\ Cardinality(changed) \in Nat
        /\ \A i \in 1..Cardinality(changed) : SetToSeq(changed)[i] \in Attrs
    BY <1>3, SetToSeqIs
  <2>2. \A i \in 1..Cardinality(changed) : parts[i] \in Seq(Wellformed)
    BY <2>1, <1>2, UndoTyped
  <2>3. parts \in Seq(Seq(Wellformed))
    BY <2>1, <2>2
  <2> HIDE DEF parts
  <2> QED BY <2>3, FlattenTyped
<1> HIDE DEF mods
<1>5. ex \in Expectations
  <2> HIDE DEF changed, found
  <2> QED BY <1>2, <1>3 DEF Expecting, Expectations
<1> HIDE DEF ex
<1>6. comps \in Seq(Compensations)
  <2>1. CASE mods = <<>>
    BY <2>1
  <2>2. CASE mods # <<>>
    <3>1. Modify(c.dn, mods) \in ValidChanges
      BY <2>2, <1>4, Kinds, ModifyValid
    <3>2. Compensating(Modify(c.dn, mods), ex) \in Compensations
      BY <3>1, <1>5 DEF Compensating, Compensations
    <3> QED BY <2>2, <3>2
  <2> QED BY <2>1, <2>2
<1> HIDE DEF comps
<1> QED BY <1>1, <1>6 DEF Step

\* A step keeps the change it compensates, and offers valid changes with expectations to check.
LEMMA DeriveTyped ==
  ASSUME NEW c \in ValidChanges, NEW was \in Entries \cup {NoEntry}
  PROVE  Derive(c, was).change = c /\ Derive(c, was).comps \in Seq(Compensations)
<1>0. unavailable(c).change = c /\ unavailable(c).comps \in Seq(Compensations)
  BY DEF unavailable, Step
<1>1. /\ c.dn \in DNs /\ c.dn # <<>> /\ Last(c.dn) \in Values
      /\ Delete(c.dn) \in ValidChanges
      /\ NoExpect \in Expectations
  <2>1. c.dn \in DNs /\ c.dn # <<>>
    BY Kinds
  <2>2. Last(c.dn) \in Values
    BY <2>1 DEF DNs, Last
  <2> QED BY <2>1, <2>2 DEF Delete, ValidChanges, ChangeRecords, Valid, Expectations
<1>2. \A x \in Compensations : <<x>> \in Seq(Compensations)
  OBVIOUS
<1>3. CASE c.type = "setpassword"
  BY <1>0, <1>3 DEF Derive
<1>4. CASE c.type = "add"
  <2> DEFINE held == {a \in Comparable : c.attrs[a] # {}} \cup {NamingAttr}
             e == [a \in held |-> IF c.attrs[a] = {} THEN {Last(c.dn)} ELSE c.attrs[a]]
  <2>1. held \subseteq Attrs
    BY DirectoryConstants DEF Comparable
  <2>2. \A a \in Attrs : c.attrs[a] \in SUBSET Values
    BY <1>4, Kinds DEF Entries
  <2>3. e \in [held -> SUBSET Values]
    <3> HIDE DEF held
    <3> QED BY <2>1, <2>2, <1>1
  <2> HIDE DEF held
  <2>4. Expecting(e, TRUE) \in Expectations
    <3> HIDE DEF e
    <3> QED BY <2>1, <2>3 DEF Expecting, Expectations
  <2>5. Derive(c, was) = Step(c, "exact", <<Compensating(Delete(c.dn), Expecting(e, TRUE))>>)
    BY <1>4 DEF Derive, deriveAdd, held
  <2> HIDE DEF e
  <2>6. Compensating(Delete(c.dn), Expecting(e, TRUE)) \in Compensations
    BY <1>1, <2>4 DEF Compensating, Compensations
  <2> DEFINE comps == <<Compensating(Delete(c.dn), Expecting(e, TRUE))>>
  <2>7. comps \in Seq(Compensations)
    BY <1>2, <2>6
  <2> HIDE DEF comps
  <2>8. Derive(c, was) = Step(c, "exact", comps)
    BY <2>5 DEF comps
  <2> QED BY <2>7, <2>8 DEF Step
<1>5. CASE c.type \in {"modify", "delete", "modrdn"} /\ was = NoEntry
  BY <1>0, <1>5 DEF Derive
<1>6. CASE c.type = "modify" /\ was # NoEntry
  <2>1. Derive(c, was) = deriveModify(c, was) /\ was \in Entries
    BY <1>6 DEF Derive
  <2>2. deriveModify(c, was).change = c /\ deriveModify(c, was).comps \in Seq(Compensations)
    BY <2>1, <1>6, deriveModifyTyped
  <2> QED BY <2>1, <2>2
<1>7. CASE c.type = "delete" /\ was # NoEntry
  <2> DEFINE e == [a \in Attrs |-> IF a \in Comparable THEN was[a] ELSE {}]
  <2>1. e \in Entries
    BY <1>7 DEF Entries
  <2>2. Derive(c, was) = Step(c, "partial", <<Compensating(Add(c.dn, e), NoExpect)>>)
    BY <1>7 DEF Derive, deriveDelete
  <2> HIDE DEF e
  <2>3. Add(c.dn, e) \in ValidChanges
    BY <1>1, <2>1 DEF Add, ValidChanges, ChangeRecords, Valid
  <2>4. Compensating(Add(c.dn, e), NoExpect) \in Compensations
    BY <1>1, <2>3 DEF Compensating, Compensations
  <2> QED BY <1>2, <2>2, <2>4 DEF Step
<1>8. CASE c.type = "modrdn" /\ was # NoEntry
  <2> DEFINE held == Key[Last(c.to)] \in Keys(was[NamingAttr])
             back == Rename(c.to, c.dn, ~held)
  <2>1. Derive(c, was) = Step(c, "exact", <<Compensating(back, NoExpect)>>)
    BY <1>8 DEF Derive, deriveRename
  <2>2. c.to \in DNs /\ c.to # <<>>
    BY <1>8, Kinds
  <2>3. back \in ValidChanges
    BY <1>1, <2>2 DEF Rename, ValidChanges, ChangeRecords, Valid
  <2> HIDE DEF back
  <2>4. Compensating(back, NoExpect) \in Compensations
    BY <1>1, <2>3 DEF Compensating, Compensations
  <2> QED BY <1>2, <2>1, <2>4 DEF Step
<1> QED BY <1>3, <1>4, <1>5, <1>6, <1>7, <1>8, Kinds

\* The changes of a bundle are valid ones with expectations.
LEMMA ChangesTyped ==
  ASSUME NEW s, NEW n \in Nat, DOMAIN s = 1..n, Len(s) = n, \A i \in 1..n : s[i].comps \in Seq(Compensations)
  PROVE  Changes(s) \in Seq(Compensations)
<1> DEFINE t == [i \in DOMAIN s |-> s[i].comps]
<1>1. t \in Seq(Seq(Compensations))
  OBVIOUS
<1>2. Reverse(t) \in Seq(Seq(Compensations))
  <2> HIDE DEF t
  <2>1. \A i \in 1..Len(t) : (Len(t) - i) + 1 \in DOMAIN t
    BY <1>1
  <2> QED BY <1>1, <2>1 DEF Reverse
<1> HIDE DEF t
<1>3. FlattenSeq(Reverse(t)) \in Seq(Compensations)
  BY <1>2, FlattenTyped
<1> QED BY <1>3, mergeTyped DEF Changes, t

-----------------------------------------------------------------------------
(* What can be told of an interrupted change *)

\* A modify that names each attribute once names different ones.
LEMMA NamesOnceIs ==
  ASSUME NEW c \in ValidChanges, c.type = "modify", NamesOnce(c)
  PROVE  \A i, j \in DOMAIN c.mods : c.mods[i].attr = c.mods[j].attr => i = j
<1> DEFINE f == [i \in DOMAIN c.mods |-> c.mods[i].attr]
<1>1. DOMAIN c.mods = 1..Len(c.mods) /\ Len(c.mods) \in Nat /\ Named(c) = {c.mods[i].attr : i \in DOMAIN c.mods}
  BY ModsOfChange, ListIs
<1>2. IsFiniteSet(DOMAIN c.mods) /\ Cardinality(DOMAIN c.mods) = Len(c.mods)
  <2> DEFINE n == Len(c.mods)
  <2>1. n \in Nat /\ DOMAIN c.mods = 1..n
    BY <1>1
  <2> HIDE DEF n
  <2>2. IsFiniteSet(1..n) /\ Cardinality(1..n) = n
    BY <2>1, FS_Interval
  <2> QED BY <2>1, <2>2 DEF n
<1>3. f \in Surjection(DOMAIN c.mods, Named(c))
  BY <1>1 DEF Surjection
<1>4. f \in Injection(DOMAIN c.mods, Named(c))
  BY <1>2, <1>3, FS_Surjection DEF NamesOnce
<1> QED BY <1>4 DEF Injection, IsInjective

\* What one modification leaves shows what it would have written.
LEMMA ShowsAfter ==
  ASSUME NEW S \in SUBSET Values, NEW m \in Mods
  PROVE  Shows(AfterMod(S, m), m)
<1>1. m.op \in {"add", "delete", "replace"} /\ m.vals \subseteq Values
  BY DEF Mods
<1>2. CASE m.op = "replace"
  BY <1>2 DEF Shows, AfterMod, SameByRule
<1>3. CASE m.op = "add"
  <2>1. \A v \in m.vals : Key[v] \in Keys(S \cup Without(m.vals, S))
    BY DEF Keys, Without
  <2>2. Keys(m.vals) \subseteq Keys(S \cup Without(m.vals, S))
    BY <2>1 DEF Keys
  <2> QED BY <1>3, <2>2 DEF Shows, AfterMod
<1>4. CASE m.op = "delete" /\ m.vals = {}
  BY <1>4 DEF Shows, AfterMod
<1>5. CASE m.op = "delete" /\ m.vals # {}
  <2>1. Keys(m.vals) \cap Keys(Without(S, m.vals)) = {}
    BY DEF Keys, Without
  <2> QED BY <1>5, <2>1 DEF Shows, AfterMod
<1> QED BY <1>1, <1>2, <1>3, <1>4, <1>5

\* Where what a modification would have written is shown, carrying it out changes nothing by the rule.
LEMMA ShownIsDone ==
  ASSUME NEW S \in SUBSET Values, NEW m \in Mods, Shows(S, m)
  PROVE  SameByRule(AfterMod(S, m), S)
<1>1. m.op \in {"add", "delete", "replace"} /\ m.vals \subseteq Values
  BY DEF Mods
<1>2. CASE m.op = "replace"
  BY <1>2 DEF Shows, AfterMod, SameByRule
<1>3. CASE m.op = "add"
  <2>1. Keys(m.vals) \subseteq Keys(S)
    BY <1>3 DEF Shows
  <2>2. Without(m.vals, S) = {}
    BY <2>1 DEF Without, Keys
  <2> QED BY <1>3, <2>2 DEF AfterMod, SameByRule
<1>4. CASE m.op = "delete" /\ m.vals = {}
  BY <1>4 DEF Shows, AfterMod, SameByRule
<1>5. CASE m.op = "delete" /\ m.vals # {}
  <2>1. Keys(m.vals) \cap Keys(S) = {}
    BY <1>5 DEF Shows
  <2>2. Without(S, m.vals) = S
    BY <2>1 DEF Without, Keys
  <2> QED BY <1>5, <2>2 DEF AfterMod, SameByRule
<1> QED BY <1>1, <1>2, <1>3, <1>4, <1>5

\* A change that was carried out is never told not to have been.
LEMMA LandedIsSeen ==
  ASSUME NEW d, WellFormed(d), NEW c \in ValidChanges, Accepts(d, c), NamesOnce(c)
  PROVE  Determine(Done(d, c), c) # "not_applied"
<1> DEFINE e == Done(d, c)
<1> SUFFICES Determine(e, c) # "not_applied"
  OBVIOUS
<1>1. c.type \in {"add", "modify", "delete", "modrdn", "setpassword"} /\ c.dn \in DNs
  BY Kinds
<1>2. CASE c.type = "add"
  <2>1. c.dn \in DOMAIN e
    BY <1>2 DEF Done, Over
  <2> HIDE DEF e
  <2> QED BY <1>2, <2>1 DEF Determine, determineAdd
<1>3. CASE c.type = "delete"
  <2>1. c.dn \notin DOMAIN e
    BY <1>3 DEF Done, Repointed
  <2> HIDE DEF e
  <2> QED BY <1>3, <2>1 DEF Determine, determineDelete
<1>4. CASE c.type = "modrdn"
  <2>1. c.dn \in DOMAIN d /\ c.to \in DNs
    BY <1>4, Kinds DEF Accepts
  <2>2. Moved(c.dn, c.dn, c.to) = c.to /\ IsUnder(c.dn, c.dn)
    BY <1>1, <2>1, UnderItself, MovedBack
  <2>3. c.to \in DOMAIN e
    <3> DEFINE under == {x \in DOMAIN d : IsUnder(x, c.dn)}
               there == (DOMAIN d \ under) \cup {Moved(x, c.dn, c.to) : x \in under}
    <3>1. c.to \in there
      BY <2>1, <2>2
    <3>2. DOMAIN e = there
      BY <1>4 DEF Done, Repointed
    <3> QED BY <3>1, <3>2
  <2> HIDE DEF e
  <2> QED BY <1>4, <2>3 DEF Determine, determineModRDN
<1>5. CASE c.type = "modify"
  <2>1. /\ c.dn \in DOMAIN d /\ DOMAIN e = DOMAIN d
        /\ e[c.dn] = [a \in Attrs |-> applyMods(d[c.dn][a], a, c.mods)]
    BY <1>5, DoneModify
  <2> HIDE DEF e
  <2>2. ASSUME NEW i \in DOMAIN c.mods PROVE Shows(e[c.dn][c.mods[i].attr], c.mods[i])
    <3> DEFINE a == c.mods[i].attr
    <3>1. a \in Attrs /\ c.mods \in Seq(Mods) /\ c.mods[i] \in Mods
      BY <1>5, ModsOfChange DEF Mods
    <3>2. d[c.dn][a] \in SUBSET Values
      BY <2>1, <3>1 DEF WellFormed, Entries
    <3>3. \A k \in DOMAIN c.mods : c.mods[k].attr = a <=> k = i
      BY <1>5, NamesOnceIs
    <3> HIDE DEF a
    <3>4. applyMods(d[c.dn][a], a, c.mods) = AfterMod(d[c.dn][a], c.mods[i])
      BY <3>1, <3>2, <3>3, AppliedOnce
    <3>5. e[c.dn][a] = AfterMod(d[c.dn][a], c.mods[i])
      BY <2>1, <3>1, <3>4
    <3>6. Shows(e[c.dn][a], c.mods[i])
      BY <3>1, <3>2, <3>5, ShowsAfter
    <3> QED BY <3>6 DEF a
  <2> DEFINE secret == {i \in DOMAIN c.mods : c.mods[i].attr \in Sensitive}
             missing == {i \in DOMAIN c.mods : ~Shows(e[c.dn][c.mods[i].attr], c.mods[i])}
  <2>3. missing = {}
    BY <2>2
  <2>4. Determine(e, c) = IF secret \cup missing = {} THEN "applied"
                          ELSE IF \E i \in secret : \A j \in missing : i <= j THEN "undeterminable"
                          ELSE "not_applied"
    BY <1>5, <2>1 DEF Determine, determineModify
  <2> HIDE DEF missing, secret
  <2> QED BY <2>3, <2>4
<1>6. CASE c.type = "setpassword"
  BY <1>6 DEF Determine
<1> QED BY <1>1, <1>2, <1>3, <1>4, <1>5, <1>6

\* A change told to have been applied is one the directory would refuse, or one that leaves it as it is.
LEMMA ToldAppliedIsWanted ==
  ASSUME WellFormed(dir), NEW c \in ValidChanges, NamesOnce(c), Determine(dir, c) = "applied"
  PROVE  Wanted(c)
<1>1. c.type \in {"add", "modify", "delete", "modrdn", "setpassword"} /\ c.dn \in DNs
  BY Kinds
<1> SUFFICES ASSUME Accepts(dir, c)
             PROVE  \A x \in DOMAIN dir : \A a \in Attrs :
                      x \in DOMAIN Done(dir, c) /\ SameByRule(Done(dir, c)[x][a], dir[x][a])
  BY DEF Wanted
<1>2. CASE c.type = "add"
  BY <1>2 DEF Determine, determineAdd, Accepts
<1>3. CASE c.type = "delete"
  BY <1>3 DEF Determine, determineDelete, Accepts
<1>4. CASE c.type = "modrdn"
  BY <1>4 DEF Determine, determineModRDN, Accepts
<1>5. CASE c.type = "setpassword"
  BY <1>5 DEF Determine
<1>6. CASE c.type = "modify"
  <2>1. /\ c.dn \in DOMAIN dir /\ DOMAIN Done(dir, c) = DOMAIN dir
        /\ Done(dir, c)[c.dn] = [a \in Attrs |-> applyMods(dir[c.dn][a], a, c.mods)]
        /\ \A x \in DOMAIN dir : x # c.dn => Done(dir, c)[x] = dir[x]
    BY <1>6, DoneModify
  <2>2. \A i \in DOMAIN c.mods : Shows(dir[c.dn][c.mods[i].attr], c.mods[i])
    <3> DEFINE secret == {i \in DOMAIN c.mods : c.mods[i].attr \in Sensitive}
               missing == {i \in DOMAIN c.mods : ~Shows(dir[c.dn][c.mods[i].attr], c.mods[i])}
    <3>1. Determine(dir, c) = IF secret \cup missing = {} THEN "applied"
                              ELSE IF \E i \in secret : \A j \in missing : i <= j THEN "undeterminable"
                              ELSE "not_applied"
      BY <1>6, <2>1 DEF Determine, determineModify
    <3>2. missing = {}
      <4> HIDE DEF secret, missing
      <4> QED BY <3>1
    <3> QED BY <3>2
  <2>3. ASSUME NEW a \in Attrs PROVE SameByRule(applyMods(dir[c.dn][a], a, c.mods), dir[c.dn][a])
    <3>1. dir[c.dn][a] \in SUBSET Values /\ c.mods \in Seq(Mods)
      BY <1>6, <2>1, ModsOfChange DEF WellFormed, Entries
    <3>2. CASE \A k \in DOMAIN c.mods : c.mods[k].attr # a
      BY <3>1, <3>2, AppliedOnce DEF SameByRule
    <3>3. CASE \E i \in DOMAIN c.mods : c.mods[i].attr = a
      <4>1. PICK i \in DOMAIN c.mods : c.mods[i].attr = a
        BY <3>3
      <4>2. \A k \in DOMAIN c.mods : c.mods[k].attr = a <=> k = i
        BY <4>1, <1>6, NamesOnceIs
      <4>3. applyMods(dir[c.dn][a], a, c.mods) = AfterMod(dir[c.dn][a], c.mods[i])
        BY <3>1, <4>2, AppliedOnce
      <4>4. Shows(dir[c.dn][a], c.mods[i]) /\ c.mods[i] \in Mods
        BY <2>2, <4>1, <1>6, ModsOfChange
      <4> QED BY <3>1, <4>3, <4>4, ShownIsDone
    <3> QED BY <3>2, <3>3
  <2>4. ASSUME NEW x \in DOMAIN dir, NEW a \in Attrs
        PROVE  x \in DOMAIN Done(dir, c) /\ SameByRule(Done(dir, c)[x][a], dir[x][a])
    <3>1. CASE x = c.dn
      BY <2>1, <2>3, <3>1
    <3>2. CASE x # c.dn
      BY <2>1, <3>2 DEF SameByRule
    <3> QED BY <3>1, <3>2
  <2> QED BY <2>4
<1> QED BY <1>1, <1>2, <1>3, <1>4, <1>5, <1>6

-----------------------------------------------------------------------------
(* The inductive invariant *)

Found == Entries \cup {NoEntry}
Tokens == {NoToken} \cup {Token(deps, c, live) : deps \in SUBSET Attrs, c \in ValidChanges, live \in Found}
Items == [change : ValidChanges, expect : Expectations, token : Tokens]
Reads == [entry : Found, attrs : SUBSET Attrs, made : BOOLEAN]
Derived == {Derive(c, was) : c \in ValidChanges, was \in Found}
Phases == {"staging", "staged", "planning", "reviewing", "verifying", "refused", "running", "answered", "settled"}

\* A request is under way.
Requested == phase \in {"verifying", "running"}

TypeOK ==
  /\ WellFormed(dir)
  /\ job \in Seq(Items) /\ undoing \in BOOLEAN /\ planned \in BOOLEAN /\ phase \in Phases
  /\ reads \in Seq(Reads) /\ armed \in BOOLEAN /\ pre \in Found
  /\ outcomes \in Seq({"applied", "failed", "unknown"})
  /\ steps \in Seq(Derived)
  /\ lost \in ValidChanges \cup {None}
  /\ others \in Nat

\* How far the operator or the request has come.
Progress ==
  /\ phase \in {"staged", "planning"} => job # <<>>
  /\ phase = "planning" => pos \in DOMAIN job
  /\ Requested => pos \in DOMAIN Sent /\ lost = None /\ verdict = None /\ ~landed
  /\ phase = "verifying" => Len(reads) = pos - 1 /\ outcomes = <<>> /\ ~armed
  /\ phase = "running" => Len(reads) = Len(Sent) /\ Len(outcomes) = pos - 1

\* What the recorder has noted of the original changes is what of them has run.
Recorded == ~undoing =>
  /\ phase \in {"staging", "staged", "planning", "reviewing", "verifying"} =>
       steps = <<>> /\ touched = {} /\ ~unsettled
  /\ phase = "running" => Len(steps) = pos - 1
  /\ phase \in {"running", "answered"} => \A k \in DOMAIN steps :
       k \in DOMAIN outcomes /\ outcomes[k] = "applied" /\ k \in DOMAIN Sent /\ steps[k].change = Sent[k].change

\* No change is staged twice, and none that was applied is left.
EachOnce == ~undoing =>
  /\ phase \in Phases \ {"settled"} => \A i, j \in DOMAIN job : job[i].change = job[j].change => i = j
  /\ phase = "settled" => \A i \in DOMAIN steps : \A j \in DOMAIN job : steps[i].change # job[j].change

\* The directory is what the run made of the one it began with.
RanTrue == ~undoing /\ others = 0 /\ phase \in {"verifying", "running", "answered", "settled"} =>
  dir = (IF landed THEN Done(Ran, lost) ELSE Ran)

\* A read of the check stands as long as nothing has reached the entry and the server did nothing on
\* its own; and the entry a change meets is the one its compensation is derived from.
ReadsStand == Requested /\ ~undoing /\ ~raced =>
  \A k \in DOMAIN reads : reads[k].made /\ ~unsettled /\ ~disturbed(Sent[k].change) =>
    reads[k].entry = Read(dir, Sent[k].change.dn, reads[k].attrs)
PreStands == phase = "running" /\ armed /\ ~undoing /\ ~raced /\ pre # NoEntry =>
  Seen(pre, Sent[pos].change) = Read(dir, Sent[pos].change.dn, ReadAttributes(Sent[pos].change))

\* The entry is as the plan saw it.
Meets(k) ==
  stateMAC(Sent[k].token.deps, Read(dir, Sent[k].change.dn, Attrs)) = Sent[k].token.state
Elsewhere(k) == \A j \in 1..(pos - 1) : Sent[j].change.type = "modify" /\ Sent[j].change.dn # Sent[k].change.dn
PlanStands == planned /\ ~raced =>
  /\ phase = "verifying" /\ refused = None => \A k \in 1..(pos - 1) : Meets(k)
  /\ phase = "running" => \A k \in pos..Len(Sent) : Elsewhere(k) => Meets(k)

\* What is said of an interrupted change is what the directory shows, which a change that landed does.
VerdictStands ==
  /\ verdict # None => lost # None /\ (others = 0 => verdict = Determine(dir, lost))
  /\ landed /\ others = 0 /\ NamesOnce(lost) => Determine(dir, lost) # "not_applied"

IInv ==
  /\ TypeOK /\ Progress /\ Recorded /\ EachOnce /\ RanTrue
  /\ ReadsStand /\ PreStands /\ PlanStands /\ VerdictStands

-----------------------------------------------------------------------------
(* What is read, planned and sent *)

LEMMA ReadTyped ==
  ASSUME NEW d, WellFormed(d), NEW x, NEW names
  PROVE  /\ Read(d, x, names) \in Found
         /\ x \in DOMAIN d => Read(d, x, names) = [a \in Attrs |-> IF a \in names THEN d[x][a] ELSE {}]
         /\ x \notin DOMAIN d => Read(d, x, names) = NoEntry
         /\ x \in DOMAIN d <=> Read(d, x, names) # NoEntry
<1>1. CASE x \in DOMAIN d
  <2> DEFINE e == [a \in Attrs |-> IF a \in names THEN d[x][a] ELSE {}]
  <2>1. Read(d, x, names) = e
    BY <1>1 DEF Read
  <2>2. e \in [Attrs -> SUBSET Values]
    BY <1>1 DEF WellFormed, Entries
  <2> HIDE DEF e
  <2>3. e # NoEntry
    BY <2>2, DirectoryConstants
  <2> QED BY <1>1, <2>1, <2>2, <2>3 DEF Found, Entries, e
<1>2. CASE x \notin DOMAIN d
  BY <1>2 DEF Read, Found
<1> QED BY <1>1, <1>2

\* Reading the same entry of two directories, where it is the same, gives the same.
LEMMA ReadSame ==
  ASSUME NEW d, NEW e, NEW x, NEW names, DOMAIN d = DOMAIN e, x \in DOMAIN d => d[x] = e[x]
  PROVE  Read(d, x, names) = Read(e, x, names)
BY DEF Read

LEMMA NamedTyped == ASSUME NEW c \in ValidChanges PROVE Named(c) \subseteq Attrs
<1>1. c.type = "modify" => Named(c) \subseteq Attrs
  BY ModsOfChange
<1> QED BY <1>1 DEF Named

LEMMA ExpectTyped ==
  ASSUME NEW ex \in Expectations, ex # NoExpect
  PROVE  DOMAIN ex.attrs \subseteq Attrs
BY DEF Expectations

LEMMA ReadsTyped ==
  ASSUME NEW c \in ValidChanges, NEW ex \in Expectations
  PROVE  ReadAttributes(c) \subseteq Attrs /\ ExpectReads(ex) \subseteq Attrs
<1>1. ReadAttributes(c) \subseteq Attrs
  BY NamedTyped, Kinds, DirectoryConstants DEF ReadAttributes, UserAttrs
<1>2. ExpectReads(ex) \subseteq Attrs
  BY ExpectTyped DEF ExpectReads, UserAttrs
<1> QED BY <1>1, <1>2

LEMMA classifyTyped ==
  ASSUME NEW d, WellFormed(d), NEW c \in ValidChanges, NEW ex \in Expectations, NEW provides
  PROVE  classify(d, c, ex, provides).token \in Tokens
<1> DEFINE live == Read(d, c.dn, Named(c) \cup ExpectReads(ex))
           action == IF ex # NoExpect /\ live # NoEntry /\ Differs(ex, live)
                     THEN "conflict" ELSE Action(d, c, live, provides)
           deps == dependsOn(c) \cup dependencies(ex, live)
           token == IF AppliesNothing(action) THEN NoToken ELSE Token(deps, c, live)
<1>1. live \in Found
  BY ReadTyped
<1>2. deps \subseteq Attrs
  <2> HIDE DEF live
  <2> QED BY NamedTyped, ExpectTyped DEF dependsOn, dependencies, Comparable
<1>3. classify(d, c, ex, provides).token = token
  BY DEF classify
<1> HIDE DEF live, deps, action
<1>4. Token(deps, c, live) \in Tokens
  BY <1>1, <1>2 DEF Tokens
<1>5. NoToken \in Tokens
  BY DEF Tokens
<1> QED BY <1>3, <1>4, <1>5

LEMMA TokenIs ==
  ASSUME NEW t \in Tokens, t # NoToken
  PROVE  t.deps \subseteq Attrs
BY DEF Tokens, Token

\* What a token says of an entry is the same for every read of what it depends on.
LEMMA StateRead ==
  ASSUME NEW d, WellFormed(d), NEW x, NEW deps \in SUBSET Attrs, NEW names, deps \subseteq names
  PROVE  stateMAC(deps, Read(d, x, names)) = stateMAC(deps, Read(d, x, Attrs))
<1>1. CASE x \notin DOMAIN d
  BY <1>1 DEF Read
<1>2. CASE x \in DOMAIN d
  <2> DEFINE r == Read(d, x, names)  s == Read(d, x, Attrs)
  <2>1. /\ r = [a \in Attrs |-> IF a \in names THEN d[x][a] ELSE {}] /\ r # NoEntry
        /\ s = [a \in Attrs |-> IF a \in Attrs THEN d[x][a] ELSE {}] /\ s # NoEntry
    BY <1>2, ReadTyped
  <2> HIDE DEF r, s
  <2>2. \A a \in deps : r[a] = s[a]
    BY <2>1
  <2> QED BY <2>1, <2>2 DEF stateMAC, r, s
<1> QED BY <1>1, <1>2

\* What is sent is a list of staged items, under a plan of those with a token.
LEMMA SentIs ==
  ASSUME job \in Seq(Items), planned \in BOOLEAN
  PROVE  /\ Sent \in Seq(Items) /\ Len(Sent) \in Nat /\ DOMAIN Sent = 1..Len(Sent)
         /\ DOMAIN sentStagedIndices = DOMAIN Sent
         /\ \A k \in DOMAIN Sent :
              /\ Sent[k] \in Items /\ sentStagedIndices[k] \in DOMAIN job
              /\ Sent[k] = job[sentStagedIndices[k]]
              /\ planned => Sent[k].token # NoToken
         /\ ~planned => Sent = job
<1> DEFINE I == {i \in DOMAIN job : planned => job[i].token # NoToken}
<1>1. I \in SUBSET DOMAIN job /\ sentStagedIndices = InOrder(I) /\ Sent = Selected(job, I)
  BY DEF sentStagedIndices, Sent, Selected
<1>2. ~planned => I = DOMAIN job
  OBVIOUS
<1>3. \A i \in I : planned => job[i].token # NoToken
  OBVIOUS
<1> HIDE DEF I
<1>4. /\ Sent \in Seq(Items)
      /\ \A k \in DOMAIN Sent : InOrder(I)[k] \in I /\ Sent[k] = job[InOrder(I)[k]]
  BY <1>1, SelectedIs
<1>5. Len(Sent) \in Nat /\ DOMAIN Sent = 1..Len(Sent) /\ \A k \in DOMAIN Sent : Sent[k] \in Items
  BY <1>4, ListIs
<1>6. DOMAIN sentStagedIndices = DOMAIN Sent
  BY DEF Sent
<1>7. ~planned => Sent = job
  BY <1>1, <1>2, SelectedAll
<1> QED BY <1>1, <1>3, <1>4, <1>5, <1>6, <1>7

LEMMA SentUnchanged == ASSUME UNCHANGED desk PROVE Sent' = Sent /\ sentStagedIndices' = sentStagedIndices
BY DEF desk, Sent, sentStagedIndices

-----------------------------------------------------------------------------
(* The changes of a run, one after the other *)

\* What g makes of each set of the first n positions.
Plays(g, n, d, s) ==
  g = [I \in SUBSET (1..n) |-> IF I = {} THEN d ELSE Done(g[I \ {Max(I)}], s[Max(I)].change)]

LEMMA PlaysExists ==
  ASSUME NEW d, NEW s, NEW n \in Nat
  PROVE  \E g : Plays(g, n, d, s)
<1> DEFINE N == {m \in Nat : \E g : Plays(g, m, d, s)}
<1>1. 0 \in N
  <2> DEFINE g == [I \in SUBSET (1..0) |-> d]
  <2>0. 1..0 = {}
    OBVIOUS
  <2>1. Plays(g, 0, d, s)
    BY <2>0 DEF Plays
  <2> QED BY <2>1
<1>2. ASSUME NEW m \in N PROVE m + 1 \in N
  <2>1. PICK g : Plays(g, m, d, s)
    OBVIOUS
  <2> DEFINE E(h, I) == Done(h[I \ {Max(I)}], s[Max(I)].change)
             h == [I \in SUBSET (1..(m + 1)) |-> IF m + 1 \in I THEN E(g, I) ELSE g[I]]
  <2>2. ASSUME NEW I \in SUBSET (1..(m + 1)) PROVE h[I] = IF I = {} THEN d ELSE E(h, I)
    <3>1. CASE m + 1 \in I
      <4>1. Max(I) = m + 1
        BY <3>1, LastIsMax
      <4>2. I \ {m + 1} \in SUBSET (1..(m + 1)) /\ m + 1 \notin I \ {m + 1}
        OBVIOUS
      <4>3. h[I \ {m + 1}] = g[I \ {m + 1}]
        BY <4>2
      <4>4. E(h, I) = E(g, I)
        BY <4>1, <4>3
      <4> QED BY <4>4, <3>1
    <3>2. CASE m + 1 \notin I
      <4>1. I \in SUBSET (1..m)
        BY <3>2
      <4> DEFINE J == I \ {Max(I)}
      <4>2. J \in SUBSET (1..(m + 1)) /\ m + 1 \notin J
        <5>1. J \subseteq I
          OBVIOUS
        <5> HIDE DEF J
        <5> QED BY <5>1, <3>2
      <4>3. h[I] = g[I] /\ h[J] = g[J]
        BY <4>2, <3>2
      <4>4. g[I] = IF I = {} THEN d ELSE E(g, I)
        BY <4>1, <2>1 DEF Plays
      <4>5. E(g, I) = E(h, I)
        BY <4>3
      <4> HIDE DEF E, h, J
      <4> QED BY <4>3, <4>4, <4>5
    <3> QED BY <3>1, <3>2
  <2>3. h = [I \in SUBSET (1..(m + 1)) |-> h[I]]
    OBVIOUS
  <2> HIDE DEF E, h
  <2>4. h = [I \in SUBSET (1..(m + 1)) |-> IF I = {} THEN d ELSE E(h, I)]
    BY <2>2, <2>3
  <2>5. Plays(h, m + 1, d, s)
    BY <2>4 DEF Plays, E
  <2> QED BY <2>5
<1>3. N = Nat
  <2> HIDE DEF N
  <2> QED BY <1>1, <1>2, AllNumbers DEF N
<1> QED BY <1>3

\* The value after each number of changes.
LEMMA PlayedIs ==
  ASSUME NEW d, NEW S, NEW s \in Seq(S)
  PROVE  \E g : /\ g[1..0] = d /\ g[1..Len(s)] = Played(d, s)
                /\ \A k \in 1..Len(s) : g[1..k] = Done(g[1..(k - 1)], s[k].change)
<1> DEFINE n == Len(s)
<1>1. n \in Nat /\ DOMAIN s = 1..n
  BY ListIs
<1>2. Played(d, s) = (CHOOSE g : Plays(g, n, d, s))[1..n]
  BY <1>1 DEF Played, FoldLeft, MapThenFoldSet, Plays
<1> HIDE DEF n
<1>3. PICK g : g = (CHOOSE h : Plays(h, n, d, s)) /\ Plays(g, n, d, s)
  BY <1>1, PlaysExists
<1>4. \A I \in SUBSET (1..n) : g[I] = IF I = {} THEN d ELSE Done(g[I \ {Max(I)}], s[Max(I)].change)
  BY <1>3 DEF Plays
<1>5. 1..0 = {} /\ 1..0 \in SUBSET (1..n)
  OBVIOUS
<1>6. g[1..0] = d
  BY <1>4, <1>5
<1>7. ASSUME NEW k \in 1..n PROVE g[1..k] = Done(g[1..(k - 1)], s[k].change)
  <2>1. 1..k \in SUBSET (1..n) /\ k \in Nat \ {0}
    BY <1>1
  <2>2. Max(1..k) = k /\ (1..k) \ {k} = 1..(k - 1) /\ 1..k # {}
    BY <2>1, UpToLast
  <2> QED BY <1>4, <2>1, <2>2
<1> QED BY <1>2, <1>3, <1>6, <1>7 DEF n

LEMMA PlayedNone ==
  ASSUME NEW d
  PROVE  Played(d, <<>>) = d
<1>1. <<>> \in Seq({}) /\ Len(<<>>) = 0
  OBVIOUS
<1> DEFINE s == <<>>
<1>2. s \in Seq({}) /\ Len(s) = 0
  BY <1>1
<1> HIDE DEF s
<1>3. PICK g : g[1..0] = d /\ g[1..Len(s)] = Played(d, s)
  <2>1. s \in Seq({})
    BY <1>2
  <2> QED BY <2>1, PlayedIs
<1>4. Played(d, s) = d
  BY <1>2, <1>3
<1> QED BY <1>4 DEF s

LEMMA PlayedMore ==
  ASSUME NEW d, NEW S, NEW s \in Seq(S), NEW x \in S
  PROVE  Played(d, Append(s, x)) = Done(Played(d, s), x.change)
<1> DEFINE n == Len(s)  t == Append(s, x)
<1>1. n \in Nat /\ t \in Seq(S) /\ Len(t) = n + 1 /\ t[n + 1] = x /\ \A k \in 1..n : t[k] = s[k]
  OBVIOUS
<1>2. PICK f : /\ f[1..0] = d /\ f[1..n] = Played(d, s)
               /\ \A k \in 1..n : f[1..k] = Done(f[1..(k - 1)], s[k].change)
  BY PlayedIs
<1> HIDE DEF n, t
<1>3. PICK g : /\ g[1..0] = d /\ g[1..(n + 1)] = Played(d, t)
               /\ \A k \in 1..(n + 1) : g[1..k] = Done(g[1..(k - 1)], t[k].change)
  BY <1>1, PlayedIs
<1> DEFINE N == {k \in Nat : k <= n => f[1..k] = g[1..k]}
<1>4. 0 \in N
  BY <1>2, <1>3
<1>5. ASSUME NEW k \in N PROVE k + 1 \in N
  <2> SUFFICES ASSUME k + 1 <= n PROVE f[1..(k + 1)] = g[1..(k + 1)]
    OBVIOUS
  <2>1. k + 1 \in 1..n /\ k + 1 \in 1..(n + 1) /\ (k + 1) - 1 = k /\ f[1..k] = g[1..k]
    BY <1>1
  <2>2. f[1..(k + 1)] = Done(f[1..k], s[k + 1].change)
    BY <1>2, <2>1
  <2>3. g[1..(k + 1)] = Done(g[1..k], t[k + 1].change)
    BY <1>3, <2>1
  <2> QED BY <1>1, <2>1, <2>2, <2>3
<1>6. N \in SUBSET Nat
  OBVIOUS
<1>7. N = Nat
  <2> HIDE DEF N
  <2> QED BY <1>4, <1>5, <1>6, AllNumbers
<1>8. n \in Nat /\ n <= n /\ n + 1 \in 1..(n + 1) /\ (n + 1) - 1 = n
  BY <1>1
<1>9. f[1..n] = g[1..n]
  BY <1>7, <1>8
<1>10. g[1..(n + 1)] = Done(g[1..n], t[n + 1].change)
  BY <1>3, <1>8
<1>11. Played(d, t) = Done(Played(d, s), x.change)
  BY <1>1, <1>2, <1>3, <1>9, <1>10
<1> QED BY <1>11 DEF t

LEMMA RanSame == ASSUME start' = start, steps' = steps PROVE Ran' = Ran
  BY DEF Ran

-----------------------------------------------------------------------------
(* The operator's actions keep the invariant *)

LEMMA InitKeeps == ASSUME Init PROVE IInv
<1> USE DEF Init
<1>1. TypeOK
  <2>1. WellFormed(dir)
    BY ChangesetConstants
  <2>2. \A S : <<>> \in Seq(S)
    OBVIOUS
  <2>3. job \in Seq(Items) /\ reads \in Seq(Reads) /\ steps \in Seq(Derived)
        /\ outcomes \in Seq({"applied", "failed", "unknown"})
    BY <2>2
  <2> QED BY <2>1, <2>3 DEF TypeOK, Phases, Found
<1>2. Progress
  BY DEF Progress, Requested
<1>3. Recorded /\ EachOnce /\ RanTrue
  BY DEF Recorded, EachOnce, RanTrue
<1>4. ReadsStand /\ PreStands /\ PlanStands /\ VerdictStands
  BY DEF ReadsStand, PreStands, PlanStands, VerdictStands, Requested
<1> QED BY <1>1, <1>2, <1>3, <1>4 DEF IInv

\* Outside a request nothing is claimed of one.
LEMMA NoRequest ==
  ASSUME phase' \notin {"verifying", "running"}
  PROVE  ReadsStand' /\ PreStands' /\ PlanStands'
BY DEF ReadsStand, PreStands, PlanStands, Requested

\* A list of staged changes, none of them planned.
LEMMA FreshItems ==
  ASSUME NEW n \in Nat, NEW s, DOMAIN s = 1..n, \A i \in 1..n : s[i] \in Compensations
  PROVE  LET t == [i \in DOMAIN s |-> Item(s[i].change, s[i].expect, NoToken)]
         IN  t \in Seq(Items) /\ Len(t) = n
<1> DEFINE t == [i \in DOMAIN s |-> Item(s[i].change, s[i].expect, NoToken)]
<1>1. \A i \in 1..n : Item(s[i].change, s[i].expect, NoToken) \in Items
  BY DEF Compensations, Item, Items, Tokens
<1>2. t \in [1..n -> Items]
  BY <1>1
<1> HIDE DEF t
<1>3. t \in Seq(Items) /\ Len(t) = n
  BY <1>2, IsList
<1> QED BY <1>3 DEF t

LEMMA StageKeeps == ASSUME IInv, Stage PROVE IInv'
<1>1. /\ phase = "staging" /\ phase' = "staged"
      /\ UNCHANGED <<dir, undoing, planned, request, recorder, lost, verdict, bounds, ghosts>>
  BY DEF Stage
<1>2. PICK s \in Baskets : job' = [i \in DOMAIN s |-> Item(s[i], NoExpect, NoToken)]
  BY DEF Stage
<1>3. PICK n \in 1..MaxStaged : s \in [1..n -> Menu] /\ IsInjective(s)
  BY DEF Baskets
<1>4. /\ n \in Nat \ {0} /\ DOMAIN s = 1..n
      /\ \A i \in 1..n : s[i] \in ValidChanges
      /\ \A i, j \in 1..n : s[i] = s[j] => i = j
  <2>1. \A c \in Menu : c \in ValidChanges
    BY ChangesetConstants DEF ValidChanges, Valid
  <2>2. MaxStaged \in Nat
    BY ChangesetConstants
  <2> QED BY <1>3, <2>1, <2>2 DEF IsInjective
<1>5. /\ job' \in Seq(Items) /\ job' # <<>> /\ DOMAIN job' = 1..n
      /\ \A i \in 1..n : job'[i].change = s[i]
  <2>1. \A i \in 1..n : Item(s[i], NoExpect, NoToken) \in Items
    BY <1>4 DEF Item, Items, Tokens, Expectations
  <2>2. job' \in [1..n -> Items]
    BY <1>2, <1>4, <2>1
  <2>3. job' \in Seq(Items) /\ Len(job') = n
    BY <1>4, <2>2, IsList
  <2> QED BY <1>2, <1>4, <2>3 DEF Item
<1> USE DEF IInv, request, recorder, bounds, ghosts
<1>6. TypeOK'
  BY <1>1, <1>5 DEF TypeOK, Phases
<1>7. Progress'
  BY <1>1, <1>5 DEF Progress, Requested
<1>8. Recorded' /\ EachOnce' /\ RanTrue' /\ VerdictStands'
  BY <1>1, <1>4, <1>5 DEF Recorded, EachOnce, RanTrue, VerdictStands
<1> QED BY <1>1, <1>6, <1>7, <1>8, NoRequest

LEMMA CheckPlanKeeps == ASSUME IInv, CheckPlan PROVE IInv'
<1> USE DEF IInv, CheckPlan, recorder, bounds, ghosts
<1>1. TypeOK'
  BY DEF TypeOK, Phases
<1>2. Progress'
  BY DEF Progress, Requested, TypeOK
<1>3. Recorded' /\ EachOnce' /\ RanTrue' /\ VerdictStands'
  BY DEF Recorded, EachOnce, RanTrue, VerdictStands, Phases
<1> QED BY <1>1, <1>2, <1>3, NoRequest

LEMMA PlanOneKeeps == ASSUME IInv, PlanOne PROVE IInv'
<1> DEFINE token == classify(dir, job[pos].change, job[pos].expect, provided).token
<1>1. /\ phase = "planning" /\ phase' \in {"planning", "reviewing"}
      /\ job' = [job EXCEPT ![pos].token = token]
      /\ phase' = "planning" => pos' = pos + 1 /\ pos # Len(job)
      /\ UNCHANGED <<dir, undoing, planned, refused, reads, armed, pre, outcomes, recorder, lost, verdict,
                     bounds, ghosts>>
  BY DEF PlanOne
<1>2. job \in Seq(Items) /\ pos \in DOMAIN job /\ DOMAIN job = 1..Len(job) /\ Len(job) \in Nat
  BY <1>1 DEF IInv, TypeOK, Progress
<1>3. token \in Tokens
  <2>1. job[pos] \in Items
    BY <1>2
  <2> QED BY <2>1, classifyTyped DEF IInv, TypeOK, Items
<1> HIDE DEF token
<1>4. /\ job' \in Seq(Items) /\ Len(job') = Len(job) /\ DOMAIN job' = DOMAIN job
      /\ \A i \in DOMAIN job : job'[i].change = job[i].change
  <2>1. \A i \in DOMAIN job : job[i] \in Items
    BY <1>2
  <2>2. [job[pos] EXCEPT !.token = token] \in Items /\ [job[pos] EXCEPT !.token = token].change = job[pos].change
    BY <1>2, <1>3, <2>1 DEF Items
  <2>3. job' = [job EXCEPT ![pos] = [job[pos] EXCEPT !.token = token]]
    BY <1>1
  <2>4. job' \in [1..Len(job) -> Items]
    BY <1>2, <2>1, <2>2, <2>3
  <2>5. job' \in Seq(Items) /\ Len(job') = Len(job)
    BY <1>2, <2>4, IsList
  <2> QED BY <1>2, <2>2, <2>3, <2>5
<1> USE DEF IInv, recorder, bounds, ghosts
<1>5. TypeOK'
  BY <1>1, <1>4 DEF TypeOK, Phases
<1>6. Progress'
  BY <1>1, <1>2, <1>4 DEF Progress, Requested
<1>7. Recorded' /\ EachOnce' /\ RanTrue' /\ VerdictStands'
  BY <1>1, <1>4 DEF Recorded, EachOnce, RanTrue, VerdictStands, Phases
<1> QED BY <1>1, <1>5, <1>6, <1>7, NoRequest

LEMMA ApplyKeeps == ASSUME IInv, Apply PROVE IInv'
<1>1. /\ phase \in {"staged", "reviewing"} /\ phase' = "verifying" /\ pos' = 1 /\ planned' \in BOOLEAN
      /\ refused' = None /\ reads' = <<>> /\ armed' = FALSE /\ outcomes' = <<>>
      /\ lost' = None /\ verdict' = None
      /\ start' = (IF undoing THEN start ELSE dir) /\ raced' = FALSE /\ landed' = FALSE
      /\ UNCHANGED <<dir, job, undoing, provided, pre, recorder, bounds, ours>>
  BY DEF Apply, IInv, TypeOK
<1>2. job \in Seq(Items) /\ planned \in BOOLEAN /\ job' = job /\ undoing \in BOOLEAN
  BY <1>1 DEF IInv, TypeOK
<1>3. 1 \in DOMAIN Sent'
  <2>1. CASE phase = "staged" /\ planned' = FALSE
    <3>1. {i \in DOMAIN job' : planned' => job'[i].token # NoToken} = DOMAIN job
      BY <1>1, <2>1
    <3>2. sentStagedIndices' = InOrder(DOMAIN job)
      BY <3>1 DEF sentStagedIndices
    <3>3. Sent' = Selected(job, DOMAIN job)
      BY <1>1, <3>2 DEF Sent, Selected
    <3>4. Sent' = job
      BY <1>2, <3>3, SelectedAll
    <3>5. job # <<>>
      BY <2>1 DEF IInv, Progress
    <3> QED BY <1>2, <3>4, <3>5
  <2>2. CASE phase = "reviewing" /\ Sent # <<>> /\ UNCHANGED planned
    <3>1. Sent' = Sent
      BY <1>1, <2>2, SentUnchanged DEF desk
    <3>2. Sent \in Seq(Items)
      BY <1>2, SentIs
    <3> QED BY <2>2, <3>1, <3>2
  <2> QED BY <2>1, <2>2 DEF Apply
<1>4. \A S : <<>> \in Seq(S)
  OBVIOUS
<1> USE DEF recorder, bounds
<1>5. TypeOK'
  <2>1. reads' \in Seq(Reads) /\ outcomes' \in Seq({"applied", "failed", "unknown"})
    BY <1>1, <1>4
  <2> QED BY <1>1, <2>1 DEF IInv, TypeOK, Phases
<1>6. Progress'
  BY <1>1, <1>3 DEF Progress, Requested
<1>7. Recorded' /\ EachOnce'
  BY <1>1 DEF IInv, Recorded, EachOnce, Phases
<1>8. RanTrue'
  <2> SUFFICES ASSUME ~undoing' PROVE dir' = Ran'
    BY <1>1 DEF RanTrue
  <2>1. steps' = <<>> /\ start' = dir /\ dir' = dir
    BY <1>1 DEF IInv, Recorded
  <2>2. Ran' = Played(start', steps')
    BY DEF Ran
  <2>3. Played(start', steps') = Played(dir, <<>>)
    BY <2>1
  <2>4. Played(dir, <<>>) = dir
    BY PlayedNone
  <2> QED BY <2>1, <2>2, <2>3, <2>4
<1>9. ReadsStand' /\ PreStands'
  BY <1>1 DEF ReadsStand, PreStands
<1>10. PlanStands'
  <2>1. 1..(pos' - 1) = {}
    BY <1>1
  <2> QED BY <1>1, <2>1 DEF PlanStands
<1>11. VerdictStands'
  BY <1>1 DEF VerdictStands
<1> QED BY <1>5, <1>6, <1>7, <1>8, <1>9, <1>10, <1>11 DEF IInv

\* What stays staged was staged, and is to be planned again.
LEMMA StagedIs ==
  ASSUME job \in Seq(Items), NEW I \in SUBSET DOMAIN job
  PROVE  /\ Staged(I) \in Seq(Items)
         /\ \A k \in DOMAIN Staged(I) : \E i \in I : Staged(I)[k].change = job[i].change
<1> DEFINE s == Selected(job, I)
           t == [k \in DOMAIN s |-> [s[k] EXCEPT !.token = NoToken]]
<1>1. /\ s \in Seq(Items) /\ DOMAIN s = 1..Len(s) /\ Len(s) \in Nat
      /\ \A k \in DOMAIN s : s[k] \in Items /\ \E i \in I : s[k] = job[i]
  <2>1. s \in Seq(Items) /\ \A k \in DOMAIN s : InOrder(I)[k] \in I /\ s[k] = job[InOrder(I)[k]]
    BY SelectedIs
  <2> HIDE DEF s
  <2> QED BY <2>1, ListIs
<1>2. Staged(I) = t
  BY DEF Staged, Selected
<1> HIDE DEF s
<1>3. \A k \in DOMAIN s : t[k] \in Items /\ t[k].change = s[k].change
  BY <1>1 DEF Items, Tokens
<1>4. t \in [1..Len(s) -> Items]
  BY <1>1, <1>3
<1>5. t \in Seq(Items) /\ DOMAIN t = DOMAIN s
  BY <1>1, <1>4, IsList
<1> HIDE DEF t
<1> QED BY <1>1, <1>2, <1>3, <1>5

LEMMA AnswerKeeps == ASSUME IInv, Answer PROVE IInv'
<1>1. /\ phase = "answered" /\ phase' = "settled"
      /\ job' = Staged(DOMAIN job \ appliedIds)
      /\ UNCHANGED <<dir, undoing, planned, request, recorder, lost, verdict, bounds, ghosts>>
  BY DEF Answer
<1>2. job \in Seq(Items) /\ planned \in BOOLEAN
  BY DEF IInv, TypeOK
<1>3. /\ job' \in Seq(Items)
      /\ \A k \in DOMAIN job' : \E i \in DOMAIN job \ appliedIds : job'[k].change = job[i].change
  <2> DEFINE I == DOMAIN job \ appliedIds
  <2>1. I \in SUBSET DOMAIN job /\ job' = Staged(I)
    BY <1>1
  <2> HIDE DEF I
  <2>2. job' \in Seq(Items) /\ \A k \in DOMAIN job' : \E i \in I : job'[k].change = job[i].change
    BY <1>2, <2>1, StagedIs
  <2> QED BY <2>2 DEF I
<1> USE DEF request, recorder, bounds, ghosts
<1>4. TypeOK'
  BY <1>1, <1>3 DEF IInv, TypeOK, Phases
<1>5. Progress'
  BY <1>1 DEF Progress, Requested
<1>6. Recorded'
  BY <1>1 DEF IInv, Recorded
<1>7. EachOnce'
  <2> SUFFICES ASSUME ~undoing, NEW k \in DOMAIN steps, NEW j \in DOMAIN job'
               PROVE  steps[k].change # job'[j].change
    BY <1>1 DEF EachOnce
  <2>1. k \in DOMAIN outcomes /\ outcomes[k] = "applied" /\ k \in DOMAIN Sent /\ steps[k].change = Sent[k].change
    BY <1>1 DEF IInv, Recorded
  <2>2. sentStagedIndices[k] \in appliedIds
    BY <2>1 DEF appliedIds
  <2>3. sentStagedIndices[k] \in DOMAIN job /\ Sent[k] = job[sentStagedIndices[k]]
    BY <1>2, <2>1, SentIs
  <2>4. PICK i \in DOMAIN job \ appliedIds : job'[j].change = job[i].change
    BY <1>3
  <2>5. \A m, n \in DOMAIN job : job[m].change = job[n].change => m = n
    BY <1>1 DEF IInv, EachOnce, Phases
  <2> QED BY <2>1, <2>2, <2>3, <2>4, <2>5
<1>8. RanTrue' /\ VerdictStands'
  BY <1>1, RanSame DEF IInv, RanTrue, VerdictStands
<1> QED BY <1>1, <1>4, <1>5, <1>6, <1>7, <1>8, NoRequest DEF IInv

LEMMA CheckOutcomeKeeps == ASSUME IInv, CheckOutcome PROVE IInv'
<1>1. /\ phase = "settled" /\ phase' = "settled" /\ lost # None /\ verdict' = Determine(dir, lost)
      /\ UNCHANGED <<dir, undoing, planned, request, recorder, lost, bounds, ghosts>>
  BY DEF CheckOutcome
<1>2. /\ job' \in Seq(Items)
      /\ \A k \in DOMAIN job' : \E i \in DOMAIN job : job'[k].change = job[i].change
  <2> DEFINE I == {i \in DOMAIN job : job[i].change # lost}
  <2>1. job \in Seq(Items) /\ I \in SUBSET DOMAIN job
    BY DEF IInv, TypeOK
  <2> HIDE DEF I
  <2>2. /\ Selected(job, I) \in Seq(Items)
        /\ \A k \in DOMAIN Selected(job, I) : InOrder(I)[k] \in I /\ Selected(job, I)[k] = job[InOrder(I)[k]]
    BY <2>1, SelectedIs
  <2>3. job' = Selected(job, I) \/ job' = job
    BY DEF CheckOutcome, I
  <2> QED BY <2>1, <2>2, <2>3
<1> USE DEF request, recorder, bounds, ghosts
<1>3. TypeOK'
  BY <1>1, <1>2 DEF IInv, TypeOK
<1>4. Progress' /\ Recorded' /\ RanTrue' /\ VerdictStands'
  BY <1>1, RanSame DEF IInv, Progress, Requested, Recorded, RanTrue, VerdictStands
<1>5. EachOnce'
  BY <1>1, <1>2 DEF IInv, EachOnce
<1> QED BY <1>1, <1>3, <1>4, <1>5, NoRequest DEF IInv

LEMMA LoadBundleKeeps == ASSUME IInv, LoadBundle PROVE IInv'
<1> DEFINE cs == Changes(steps)
<1>1. /\ phase = "settled" /\ phase' = "staged" /\ undoing' = TRUE /\ cs # <<>>
      /\ job' = [i \in DOMAIN cs |-> Item(cs[i].change, cs[i].expect, NoToken)]
      /\ UNCHANGED <<dir, planned, request, recorder, lost, verdict, others, faults, ghosts>>
  BY DEF LoadBundle
<1>2. cs \in Seq(Compensations)
  <2>1. steps \in Seq(Derived)
    BY DEF IInv, TypeOK
  <2>2. \A s \in Derived : s.comps \in Seq(Compensations)
    BY DeriveTyped DEF Derived, Found
  <2>3. Len(steps) \in Nat /\ DOMAIN steps = 1..Len(steps) /\ \A i \in 1..Len(steps) : steps[i] \in Derived
    BY <2>1, ListIs
  <2> QED BY <2>2, <2>3, ChangesTyped
<1> HIDE DEF cs
<1>3. Len(cs) \in Nat \ {0} /\ DOMAIN cs = 1..Len(cs) /\ \A i \in 1..Len(cs) : cs[i] \in Compensations
  BY <1>1, <1>2
<1>4. job' \in Seq(Items) /\ job' # <<>>
  <2>1. job' \in Seq(Items) /\ Len(job') = Len(cs)
    BY <1>1, <1>3, FreshItems
  <2> QED BY <1>3, <2>1
<1> USE DEF request, recorder, ghosts
<1>5. TypeOK'
  BY <1>1, <1>4 DEF IInv, TypeOK, Phases
<1>6. Progress' /\ Recorded' /\ EachOnce' /\ RanTrue'
  BY <1>1, <1>4 DEF Progress, Requested, Recorded, EachOnce, RanTrue
<1>7. VerdictStands'
  BY <1>1 DEF IInv, VerdictStands
<1> QED BY <1>1, <1>5, <1>6, <1>7, NoRequest DEF IInv

LEMMA NextRoundKeeps == ASSUME IInv, NextRound PROVE IInv'
<1>1. /\ undoing /\ job # <<>> /\ phase' = "staged"
      /\ UNCHANGED <<dir, desk, request, recorder, lost, verdict, others, faults, ghosts>>
  BY DEF NextRound
<1> USE DEF desk, request, recorder, ghosts
<1>2. TypeOK'
  BY <1>1 DEF IInv, TypeOK, Phases
<1>3. Progress' /\ Recorded' /\ EachOnce' /\ RanTrue'
  BY <1>1 DEF Progress, Requested, Recorded, EachOnce, RanTrue
<1>4. VerdictStands'
  BY <1>1 DEF IInv, VerdictStands
<1> QED BY <1>1, <1>2, <1>3, <1>4, NoRequest DEF IInv

-----------------------------------------------------------------------------
(* The request's steps keep it *)

\* Where a request is, and what it is at.
LEMMA AtChange ==
  ASSUME TypeOK, Progress, Requested
  PROVE  /\ Sent \in Seq(Items) /\ Len(Sent) \in Nat /\ DOMAIN Sent = 1..Len(Sent)
         /\ pos \in 1..Len(Sent) /\ pos \in Nat \ {0}
         /\ \A k \in DOMAIN Sent :
              /\ Sent[k] \in Items /\ Sent[k].change \in ValidChanges
              /\ planned => Sent[k].token # NoToken
         /\ reads \in Seq(Reads) /\ DOMAIN reads = 1..Len(reads) /\ Len(reads) \in Nat
         /\ \A k \in DOMAIN reads : reads[k] \in Reads
<1>1. job \in Seq(Items) /\ planned \in BOOLEAN /\ pos \in DOMAIN Sent
  BY DEF TypeOK, Progress
<1>2. /\ Sent \in Seq(Items) /\ Len(Sent) \in Nat /\ DOMAIN Sent = 1..Len(Sent)
      /\ \A k \in DOMAIN Sent : Sent[k] \in Items /\ (planned => Sent[k].token # NoToken)
  BY <1>1, SentIs
<1>3. \A k \in DOMAIN Sent : Sent[k].change \in ValidChanges
  BY <1>2 DEF Items
<1>4. reads \in Seq(Reads)
  BY DEF TypeOK
<1>5. DOMAIN reads = 1..Len(reads) /\ Len(reads) \in Nat /\ \A k \in DOMAIN reads : reads[k] \in Reads
  BY <1>4, ListIs
<1> QED BY <1>1, <1>2, <1>3, <1>4, <1>5

\* What a check of the change x reads of its entry, and what it keeps of that.
Asked(x) == VerifyReads(x.change, x.token, x.expect) \cup Extra(x.change)
Kept(x) ==
  IF x.token = NoToken THEN NoRead
  ELSE [entry |-> Read(dir, x.change.dn, Asked(x)), attrs |-> Asked(x), made |-> TRUE]

LEMMA KeptTyped ==
  ASSUME TypeOK, NEW x \in Items
  PROVE  /\ Kept(x) \in Reads
         /\ Kept(x).made => Kept(x).entry = Read(dir, x.change.dn, Kept(x).attrs)
<1>1. x.change \in ValidChanges /\ x.token \in Tokens /\ x.expect \in Expectations
  BY DEF Items
<1>2. CASE x.token = NoToken
  BY <1>2 DEF Kept, NoRead, Reads, Found
<1>3. CASE x.token # NoToken
  <2> DEFINE want == Asked(x)  live == Read(dir, x.change.dn, want)
  <2>1. want \subseteq Attrs
    BY <1>1, <1>3, NamedTyped, ReadsTyped, TokenIs DEF Asked, VerifyReads, Extra
  <2>2. live \in Found
    BY ReadTyped DEF TypeOK
  <2>3. Kept(x) = [entry |-> live, attrs |-> want, made |-> TRUE]
    BY <1>3 DEF Kept
  <2> HIDE DEF live, want
  <2>4. Kept(x) \in Reads /\ Kept(x).entry = live /\ Kept(x).attrs = want
    BY <2>1, <2>2, <2>3 DEF Reads
  <2> QED BY <2>4 DEF live
<1> QED BY <1>2, <1>3

LEMMA CheckingKeeps == ASSUME IInv, checkPlannedChanges PROVE IInv'
<1> DEFINE x == Sent[pos]
           live == Read(dir, x.change.dn, Asked(x))
           found == VerifyRead(x.change, x.token, x.expect, live)
<1>1. /\ phase = "verifying" /\ Requested
      /\ UNCHANGED <<dir, desk, provided, armed, pre, outcomes, recorder, lost, verdict, others, rounds, ghosts>>
  BY DEF checkPlannedChanges, Requested
<1>2. \/ phase' = "refused" /\ UNCHANGED reads
      \/ /\ reads' = Append(reads, Kept(x))
         /\ x.token # NoToken => refused' = (IF found = "current" \/ refused = "mismatch" THEN refused ELSE found)
         /\ IF pos < Len(Sent) THEN pos' = pos + 1 /\ UNCHANGED phase
            ELSE pos' = 1 /\ phase' = (IF refused' = None THEN "running" ELSE "refused")
  BY DEF checkPlannedChanges, Kept, Asked
<1>3. UNCHANGED <<dir, job, undoing, planned, armed, pre, outcomes, touched, unsettled, steps, lost, verdict,
                  others, start, ours, raced, landed>> /\ Sent' = Sent
  BY <1>1, SentUnchanged DEF desk, recorder, ghosts
<1>4. TypeOK /\ Progress
  BY DEF IInv
<1>5. /\ Len(Sent) \in Nat /\ DOMAIN Sent = 1..Len(Sent) /\ pos \in 1..Len(Sent)
      /\ x \in Items /\ (planned => x.token # NoToken)
      /\ reads \in Seq(Reads) /\ Len(reads) = pos - 1 /\ outcomes = <<>> /\ ~armed
      /\ \A k \in DOMAIN Sent : Sent[k] \in Items
  BY <1>1, <1>4, AtChange DEF Progress
<1>6. Kept(x) \in Reads /\ (Kept(x).made => Kept(x).entry = Read(dir, x.change.dn, Kept(x).attrs))
  BY <1>4, <1>5, KeptTyped
<1>7. EachOnce' /\ RanTrue' /\ VerdictStands'
  <2>1. phase' \in {"verifying", "running", "refused"}
    BY <1>1, <1>2
  <2> QED BY <1>1, <1>3, <2>1, RanSame DEF IInv, EachOnce, RanTrue, VerdictStands, Phases
<1>8. CASE phase' = "refused" /\ UNCHANGED reads
  <2>1. TypeOK'
    BY <1>3, <1>4, <1>8 DEF TypeOK, Phases
  <2>2. Progress' /\ Recorded'
    BY <1>8 DEF Progress, Requested, Recorded
  <2> QED BY <1>7, <1>8, <2>1, <2>2, NoRequest DEF IInv
<1>9. CASE /\ reads' = Append(reads, Kept(x))
           /\ x.token # NoToken => refused' = (IF found = "current" \/ refused = "mismatch" THEN refused ELSE found)
           /\ IF pos < Len(Sent) THEN pos' = pos + 1 /\ UNCHANGED phase
              ELSE pos' = 1 /\ phase' = (IF refused' = None THEN "running" ELSE "refused")
  <2>1. /\ reads' \in Seq(Reads) /\ Len(reads') = pos /\ DOMAIN reads' = 1..pos
        /\ reads'[pos] = Kept(x)
        /\ \A k \in 1..(pos - 1) : k \in DOMAIN reads /\ reads'[k] = reads[k]
    <3> DEFINE r == Kept(x)
    <3>1. r \in Reads /\ reads' = Append(reads, r)
      BY <1>6, <1>9
    <3> HIDE DEF r
    <3>2. /\ reads' \in Seq(Reads) /\ Len(reads') = pos /\ DOMAIN reads' = 1..pos
          /\ reads'[pos] = r
          /\ \A k \in 1..(pos - 1) : k \in DOMAIN reads /\ reads'[k] = reads[k]
      BY <3>1, <1>5
    <3> QED BY <3>2 DEF r
  <2>0. /\ phase' \in {"verifying", "running", "refused"} /\ pos' \in DOMAIN Sent
        /\ phase' = "verifying" => pos' - 1 = pos
        /\ phase' = "running" => refused' = None /\ pos' - 1 = 0 /\ pos = Len(Sent)
    <3> DEFINE n == Len(Sent)
    <3>1. n \in Nat /\ DOMAIN Sent = 1..n /\ pos \in 1..n
      BY <1>5
    <3>2. IF pos < n THEN pos' = pos + 1 /\ UNCHANGED phase
          ELSE pos' = 1 /\ phase' = (IF refused' = None THEN "running" ELSE "refused")
      BY <1>9
    <3> HIDE DEF n, x, live, found
    <3>3. CASE pos < n
      BY <1>1, <3>1, <3>2, <3>3
    <3>4. CASE ~(pos < n)
      <4>1. pos = n /\ 1 \in 1..n
        BY <3>1, <3>4
      <4> QED BY <3>1, <3>2, <3>4, <4>1 DEF n
    <3> QED BY <3>3, <3>4
  <2>2. TypeOK'
    BY <1>1, <1>3, <1>4, <1>9, <2>1 DEF TypeOK, Phases
  <2>3. Progress'
    <3>1. lost = None /\ verdict = None /\ ~landed
      BY <1>1, <1>4 DEF Progress
    <3>2. Len(outcomes) = 0
      BY <1>5
    <3> HIDE DEF x, live, found
    <3> QED BY <1>3, <1>5, <2>0, <2>1, <3>1, <3>2 DEF Progress, Requested
  <2>4. Recorded'
    <3>1. ~undoing => steps = <<>> /\ touched = {} /\ ~unsettled
      BY <1>1 DEF IInv, Recorded
    <3>2. phase' = "running" => pos' = 1
      BY <1>1, <1>9
    <3>3. phase' \in {"verifying", "running", "refused"}
      BY <1>1, <1>9
    <3> QED BY <1>3, <3>1, <3>2, <3>3 DEF Recorded
  <2>5. ReadsStand'
    <3> SUFFICES ASSUME ~undoing, ~raced, NEW k \in 1..pos, reads'[k].made, ~unsettled,
                        ~disturbed(Sent[k].change)
                 PROVE  reads'[k].entry = Read(dir, Sent[k].change.dn, reads'[k].attrs)
      BY <1>3, <2>1 DEF ReadsStand, disturbed
    <3>1. CASE k = pos
      BY <3>1, <2>1, <1>6
    <3>2. CASE k # pos
      <4>1. k \in 1..(pos - 1)
        BY <1>5, <3>2
      <4> QED BY <4>1, <1>1, <2>1 DEF IInv, ReadsStand
    <3> QED BY <3>1, <3>2
  <2>6. PreStands'
    BY <1>3, <1>5 DEF PreStands
  <2>7. ASSUME planned, refused' = None
        PROVE  refused = None /\ Meets(pos)
    <3>1. x.token # NoToken /\ x.token \in Tokens /\ refused' \in {refused, found}
      BY <1>5, <1>9, <2>7 DEF Items
    <3>2. found \in {"current", "stale", "mismatch"}
      BY DEF VerifyRead, Check
    <3> HIDE DEF found
    <3>3. refused = None /\ found = "current"
      BY <1>9, <2>7, <3>1, <3>2, ChangesetConstants
    <3>4. stateMAC(x.token.deps, live) = x.token.state
      BY <3>3 DEF found, VerifyRead, Check
    <3>5. x.token.deps \in SUBSET Attrs /\ x.token.deps \subseteq Asked(x)
      BY <3>1, TokenIs DEF Asked, VerifyReads
    <3>6. stateMAC(x.token.deps, live) = stateMAC(x.token.deps, Read(dir, x.change.dn, Attrs))
      BY <1>4, <3>5, StateRead DEF TypeOK
    <3> QED BY <3>3, <3>4, <3>6 DEF Meets
  <2>8. PlanStands'
    <3> SUFFICES ASSUME planned, ~raced PROVE PlanStands'
      BY <1>3 DEF PlanStands
    <3>1. \A k : Meets(k)' = Meets(k)
      BY <1>3 DEF Meets
    <3>2. refused' = None => \A k \in 1..pos : Meets(k)
      <4>1. refused = None => \A k \in 1..(pos - 1) : Meets(k)
        BY <1>1 DEF IInv, PlanStands
      <4>2. \A k \in 1..pos : k \in 1..(pos - 1) \/ k = pos
        BY <1>5
      <4> QED BY <2>7, <4>1, <4>2
    <3>3. phase' = "running" => pos'..Len(Sent) = 1..pos
      <4>1. pos' \in 1..Len(Sent)
        BY <1>5, <2>0
      <4>2. phase' = "running" => pos' = 1 /\ pos = Len(Sent)
        BY <4>1, <2>0
      <4> QED BY <4>2
    <3> HIDE DEF x, live, found
    <3>4. phase' = "verifying" /\ refused' = None => \A k \in 1..(pos' - 1) : Meets(k)'
      BY <2>0, <3>1, <3>2
    <3>5. phase' = "running" => \A k \in pos'..Len(Sent) : Meets(k)'
      BY <2>0, <3>1, <3>2, <3>3
    <3> QED BY <1>3, <3>4, <3>5 DEF PlanStands
  <2> QED BY <1>7, <2>2, <2>3, <2>4, <2>5, <2>6, <2>8 DEF IInv
<1> QED BY <1>2, <1>8, <1>9

\* Of an entry read for a change, what was asked for is what was read.
LEMMA SeenIs ==
  ASSUME NEW d, WellFormed(d), NEW c, NEW x, NEW names, ReadAttributes(c) \subseteq names,
         Read(d, x, names) # NoEntry
  PROVE  Seen(Read(d, x, names), c) = Read(d, x, ReadAttributes(c))
<1> DEFINE r == Read(d, x, names)  s == Read(d, x, ReadAttributes(c))
<1>1. /\ r = [a \in Attrs |-> IF a \in names THEN d[x][a] ELSE {}]
      /\ s = [a \in Attrs |-> IF a \in ReadAttributes(c) THEN d[x][a] ELSE {}]
  BY ReadTyped
<1> HIDE DEF r, s
<1>2. \A a \in Attrs : (IF a \in ReadAttributes(c) THEN r[a] ELSE {}) = s[a]
  BY <1>1
<1>3. Seen(r, c) = s
  BY <1>1, <1>2 DEF Seen
<1> QED BY <1>3 DEF r, s

LEMMA BeforeKeeps == ASSUME IInv, before PROVE IInv'
<1> DEFINE c == Sent[pos].change
<1>1. /\ phase = "running" /\ Requested /\ ~armed /\ armed' = TRUE
      /\ UNCHANGED <<dir, desk, phase, pos, provided, refused, reads, outcomes, recorder, lost, verdict,
                     others, rounds, ghosts>>
  BY DEF before, Requested
<1>2. UNCHANGED <<dir, job, undoing, planned, phase, pos, refused, reads, outcomes, touched, unsettled, steps,
                  lost, verdict, others, start, raced, landed>> /\ Sent' = Sent
  BY <1>1, SentUnchanged DEF desk, recorder, ghosts
<1>3. \/ pre' = NoEntry
      \/ /\ ~undoing /\ c.type \in {"modify", "delete", "modrdn"}
         /\ \/ Reusable(c, reads[pos]) /\ pre' = reads[pos].entry
            \/ pre' = Read(dir, c.dn, ReadAttributes(c))
  BY DEF before
<1>4. TypeOK /\ Progress
  BY DEF IInv
<1>5. /\ WellFormed(dir) /\ c \in ValidChanges
      /\ pos \in DOMAIN reads /\ reads[pos] \in Reads
  <2>1. Len(reads) = Len(Sent)
    BY <1>1, <1>4 DEF Progress
  <2> QED BY <1>1, <1>4, <2>1, AtChange DEF TypeOK
<1>6. pre' \in Found
  BY <1>3, <1>5, ReadTyped DEF Reads, Found
<1>7. TypeOK'
  BY <1>1, <1>2, <1>4, <1>6 DEF TypeOK
<1>8. Progress' /\ Recorded' /\ EachOnce' /\ RanTrue' /\ VerdictStands'
  BY <1>1, <1>2, RanSame DEF IInv, Progress, Requested, Recorded, EachOnce, RanTrue, VerdictStands
<1>9. ReadsStand'
  BY <1>2 DEF IInv, ReadsStand, Requested, disturbed
<1>10. PreStands'
  <2> SUFFICES ASSUME ~undoing, ~raced, pre' # NoEntry
               PROVE  Seen(pre', c) = Read(dir, c.dn, ReadAttributes(c))
    BY <1>2 DEF PreStands
  <2>1. CASE Reusable(c, reads[pos]) /\ pre' = reads[pos].entry
    <3>1. reads[pos].made /\ ~unsettled /\ ~disturbed(c) /\ ReadAttributes(c) \subseteq reads[pos].attrs
      BY <2>1 DEF Reusable, Covers
    <3>2. pre' = Read(dir, c.dn, reads[pos].attrs)
      BY <1>1, <1>5, <2>1, <3>1 DEF IInv, ReadsStand
    <3> QED BY <1>5, <3>1, <3>2, SeenIs
  <2>2. CASE pre' = Read(dir, c.dn, ReadAttributes(c))
    BY <1>5, <2>2, SeenIs
  <2> QED BY <1>3, <2>1, <2>2
<1>11. PlanStands'
  <2>1. \A k : Meets(k)' = Meets(k) /\ Elsewhere(k)' = Elsewhere(k)
    BY <1>2 DEF Meets, Elsewhere
  <2> QED BY <1>2, <2>1 DEF IInv, PlanStands
<1> QED BY <1>7, <1>8, <1>9, <1>10, <1>11 DEF IInv

LEMMA OtherKeeps == ASSUME IInv, Other PROVE IInv'
<1>1. /\ others' = others + 1 /\ raced' = (raced \/ phase \in {"verifying", "running"})
      /\ UNCHANGED <<desk, phase, request, recorder, lost, verdict, faults, rounds, start, ours, landed>>
  BY DEF Other
<1>2. UNCHANGED <<job, undoing, planned, phase, pos, refused, reads, armed, pre, outcomes, touched, unsettled,
                  steps, lost, verdict, start, landed>> /\ Sent' = Sent
  BY <1>1, SentUnchanged DEF desk, request, recorder
<1>3. WellFormed(dir')
  <2>1. PICK c \in Foreign : Accepts(dir, c) /\ dir' = Done(dir, c)
    BY DEF Other
  <2>2. c \in ValidChanges
    BY ChangesetConstants DEF ValidChanges, Valid
  <2> QED BY <2>1, <2>2, DoneTyped DEF IInv, TypeOK
<1>4. others \in Nat /\ others' \in Nat /\ others' # 0
  BY <1>1 DEF IInv, TypeOK
<1>5. TypeOK'
  BY <1>2, <1>3, <1>4 DEF IInv, TypeOK
<1>6. Progress' /\ Recorded' /\ EachOnce' /\ RanTrue' /\ VerdictStands'
  BY <1>2, <1>4 DEF IInv, Progress, Requested, Recorded, EachOnce, RanTrue, VerdictStands
<1>7. ReadsStand' /\ PreStands' /\ PlanStands'
  BY <1>1, <1>2 DEF ReadsStand, PreStands, PlanStands, Requested
<1> QED BY <1>5, <1>6, <1>7 DEF IInv

-----------------------------------------------------------------------------
(* A change is sent *)

\* A modify leaves every other entry as it was.
LEMMA Elsewheres ==
  ASSUME NEW d, NEW c \in ValidChanges, c.type = "modify", Accepts(d, c), NEW x, x # c.dn, NEW names
  PROVE  Read(Done(d, c), x, names) = Read(d, x, names)
<1> DEFINE e == Done(d, c)
<1>1. DOMAIN d = DOMAIN e /\ (x \in DOMAIN d => d[x] = e[x])
  BY DoneModify
<1> HIDE DEF e
<1>2. Read(d, x, names) = Read(e, x, names)
  BY <1>1, ReadSame
<1> QED BY <1>2 DEF e

\* What every way a change ends has in common.
LEMMA Sending ==
  ASSUME IInv, Send
  PROVE  /\ phase = "running" /\ Requested /\ armed' = FALSE /\ Sent' = Sent
         /\ UNCHANGED <<job, undoing, planned, refused, reads, pre, verdict, others, start, raced>>
         /\ lost = None /\ verdict = None /\ ~landed
         /\ Sent[pos].change \in ValidChanges /\ WellFormed(dir)
         /\ pos \in 1..Len(Sent) /\ Len(Sent) \in Nat /\ DOMAIN Sent = 1..Len(Sent)
         /\ Len(reads) = Len(Sent) /\ Len(outcomes) = pos - 1
         /\ outcomes \in Seq({"applied", "failed", "unknown"})
         /\ ~undoing => Len(steps) = pos - 1
<1>1. phase = "running" /\ Requested /\ armed' = FALSE
      /\ UNCHANGED <<desk, provided, refused, reads, pre, verdict, others, rounds, start, raced>>
  BY DEF Send, Requested
<1>2. TypeOK /\ Progress
  BY DEF IInv
<1>3. Sent[pos].change \in ValidChanges /\ pos \in 1..Len(Sent) /\ Len(Sent) \in Nat /\ DOMAIN Sent = 1..Len(Sent)
  BY <1>1, <1>2, AtChange
<1> QED BY <1>1, <1>2, <1>3, SentUnchanged DEF IInv, Recorded, TypeOK, Progress, desk

\* An answer is appended to those before it.
LEMMA Answered ==
  ASSUME NEW n \in Nat, Len(outcomes) = n, outcomes \in Seq({"applied", "failed", "unknown"}),
         NEW o \in {"applied", "failed", "unknown"}, outcomes' = Append(outcomes, o)
  PROVE  /\ outcomes' \in Seq({"applied", "failed", "unknown"}) /\ Len(outcomes') = n + 1
         /\ DOMAIN outcomes = 1..n /\ DOMAIN outcomes' = 1..(n + 1)
         /\ outcomes'[n + 1] = o /\ \A k \in 1..n : outcomes'[k] = outcomes[k]
OBVIOUS

LEMMA FailedKeeps ==
  ASSUME IInv, Send, Failed(Sent[pos].change)
  PROVE  IInv'
<1>1. /\ outcomes' = Append(outcomes, "failed") /\ phase' = "answered" /\ pos' = 1
      /\ UNCHANGED <<dir, ours, touched, unsettled, steps, lost, faults, landed>>
  BY DEF Failed, recorder
<1> DEFINE n == pos - 1
<1>2. n \in Nat /\ Len(outcomes) = n
  BY Sending
<1>3. /\ outcomes' \in Seq({"applied", "failed", "unknown"})
      /\ \A k \in DOMAIN outcomes : k \in DOMAIN outcomes' /\ outcomes'[k] = outcomes[k]
  <2> HIDE DEF n
  <2> QED BY <1>1, <1>2, Sending, Answered
<1>4. TypeOK'
  BY <1>1, <1>3, Sending DEF IInv, TypeOK, Phases
<1>5. Progress' /\ EachOnce' /\ VerdictStands'
  BY <1>1, Sending DEF IInv, Progress, Requested, EachOnce, VerdictStands, Phases
<1>6. Recorded'
  BY <1>1, <1>3, Sending DEF IInv, Recorded
<1>7. RanTrue'
  BY <1>1, Sending, RanSame DEF IInv, RanTrue
<1> QED BY <1>1, <1>4, <1>5, <1>6, <1>7, NoRequest DEF IInv

LEMMA UnknownKeeps ==
  ASSUME IInv, Send, Unknown(Sent[pos].change)
  PROVE  IInv'
<1> DEFINE c == Sent[pos].change
<1>1. /\ outcomes' = Append(outcomes, "unknown") /\ phase' = "answered" /\ pos' = 1 /\ lost' = c
      /\ UNCHANGED <<touched, unsettled, steps>>
      /\ \/ Accepts(dir, c) /\ dir' = Done(dir, c) /\ landed' = TRUE
         \/ UNCHANGED <<dir, landed>>
  BY DEF Unknown, recorder, Land
<1> DEFINE n == pos - 1
<1>2. n \in Nat /\ Len(outcomes) = n /\ c \in ValidChanges
  BY Sending
<1>3. /\ outcomes' \in Seq({"applied", "failed", "unknown"})
      /\ \A k \in DOMAIN outcomes : k \in DOMAIN outcomes' /\ outcomes'[k] = outcomes[k]
  <2> HIDE DEF n
  <2> QED BY <1>1, <1>2, Sending, Answered
<1>4. WellFormed(dir')
  <2>1. WellFormed(dir)
    BY Sending
  <2>2. CASE Accepts(dir, c) /\ dir' = Done(dir, c)
    BY <1>2, <2>1, <2>2, DoneTyped
  <2>3. CASE UNCHANGED dir
    <3>1. \A d : d = dir => WellFormed(d)
      BY <2>1
    <3> QED BY <2>3, <3>1
  <2> QED BY <1>1, <2>2, <2>3
<1>5. TypeOK'
  BY <1>1, <1>2, <1>3, <1>4, Sending DEF IInv, TypeOK, Phases
<1>6. Progress' /\ EachOnce'
  BY <1>1, Sending DEF IInv, Progress, Requested, EachOnce, Phases
<1>7. Recorded'
  BY <1>1, <1>3, Sending DEF IInv, Recorded
<1>8. RanTrue'
  <2> SUFFICES ASSUME ~undoing', others' = 0 PROVE dir' = (IF landed' THEN Done(Ran', lost') ELSE Ran')
    BY DEF RanTrue
  <2>1. dir = Ran /\ Ran' = Ran
    BY <1>1, Sending, RanSame DEF IInv, RanTrue
  <2> QED BY <1>1, <2>1, Sending
<1>9. VerdictStands'
  <2>1. landed' /\ NamesOnce(c) => Determine(dir', c) # "not_applied"
    BY <1>1, Sending, LandedIsSeen
  <2>2. verdict' = None /\ NamesOnce(lost') = NamesOnce(c)
    BY <1>1, Sending
  <2> QED BY <1>1, <2>1, <2>2 DEF VerdictStands
<1> QED BY <1>1, <1>5, <1>6, <1>7, <1>8, <1>9, NoRequest DEF IInv

\* After a modify that is nowhere near an entry, the entry is as it was; after any other kind of
\* change, or one of the entry or of one above it, the recorder trusts no earlier read of it.
LEMMA StillThere ==
  ASSUME TypeOK, ~undoing, NEW c \in ValidChanges, Accepts(dir, c), dir' = Done(dir, c), after(c),
         NEW b \in ValidChanges, ~unsettled', \A x \in touched' : ~IsUnder(b.dn, x), NEW names
  PROVE  Read(dir', b.dn, names) = Read(dir, b.dn, names) /\ ~unsettled /\ ~disturbed(b)
<1>1. unsettled' = (unsettled \/ c.type # "modify") /\ touched' = touched \cup Touched(c)
  BY DEF after
<1>2. c.type = "modify" /\ ~unsettled
  BY <1>1
<1>3. ~IsUnder(b.dn, c.dn) /\ ~disturbed(b)
  BY <1>1 DEF disturbed, Touched
<1>4. b.dn # c.dn
  <2>1. IsUnder(c.dn, c.dn)
    BY Kinds, UnderItself
  <2> QED BY <1>3, <2>1
<1>5. Read(Done(dir, c), b.dn, names) = Read(dir, b.dn, names)
  BY <1>2, <1>4, Elsewheres
<1> QED BY <1>2, <1>3, <1>5

LEMMA AppliedKeeps ==
  ASSUME IInv, Send, Applied(Sent[pos].change)
  PROVE  IInv'
<1> DEFINE c == Sent[pos].change
           n == pos - 1
           s == Derive(c, pre)
<1>1. /\ Accepts(dir, c) /\ dir' = Done(dir, c) /\ after(c)
      /\ outcomes' = Append(outcomes, "applied")
      /\ IF pos < Len(Sent) THEN pos' = pos + 1 /\ UNCHANGED phase ELSE pos' = 1 /\ phase' = "answered"
      /\ UNCHANGED <<lost, faults, landed>>
  BY DEF Applied, Land
<1>2. /\ TypeOK /\ Progress /\ pre \in Found /\ steps \in Seq(Derived)
      /\ \A k \in DOMAIN Sent : Sent[k].change \in ValidChanges
      /\ reads \in Seq(Reads) /\ DOMAIN reads = DOMAIN Sent
  <2>1. TypeOK /\ Progress /\ Requested /\ Len(reads) = Len(Sent)
    BY Sending DEF IInv
  <2> QED BY <2>1, AtChange DEF TypeOK
<1>3. /\ n \in Nat /\ n + 1 = pos /\ Len(outcomes) = n /\ c \in ValidChanges /\ (~undoing => Len(steps) = n)
      /\ pos' \in DOMAIN Sent /\ phase' \in {"running", "answered"}
      /\ phase' = "running" => pos' = pos + 1
  <2> DEFINE m == Len(Sent)
  <2>1. m \in Nat /\ pos \in 1..m /\ DOMAIN Sent = 1..m /\ phase = "running"
    BY Sending
  <2>2. IF pos < m THEN pos' = pos + 1 /\ UNCHANGED phase ELSE pos' = 1 /\ phase' = "answered"
    BY <1>1
  <2>3. Len(outcomes) = n /\ c \in ValidChanges /\ (~undoing => Len(steps) = n)
    BY Sending
  <2> HIDE DEF m, c
  <2> QED BY <2>1, <2>2, <2>3
<1>4. /\ outcomes' \in Seq({"applied", "failed", "unknown"}) /\ Len(outcomes') = pos
      /\ DOMAIN outcomes = 1..n /\ DOMAIN outcomes' = 1..pos
      /\ outcomes'[pos] = "applied" /\ \A k \in 1..n : outcomes'[k] = outcomes[k]
  <2> HIDE DEF n
  <2> QED BY <1>1, <1>3, Sending, Answered
<1>5. s \in Derived /\ s.change = c
  BY <1>2, <1>3, DeriveTyped DEF Derived, Found
<1>6. ~undoing => /\ steps' = Append(steps, s) /\ steps' \in Seq(Derived) /\ Len(steps') = pos
                  /\ steps'[pos] = s /\ DOMAIN steps' = 1..pos
                  /\ \A k \in 1..n : k \in DOMAIN steps /\ steps'[k] = steps[k]
  <2> SUFFICES ASSUME ~undoing
               PROVE  /\ steps' = Append(steps, s) /\ steps' \in Seq(Derived) /\ Len(steps') = pos
                      /\ steps'[pos] = s /\ DOMAIN steps' = 1..pos
                      /\ \A k \in 1..n : k \in DOMAIN steps /\ steps'[k] = steps[k]
    OBVIOUS
  <2>1. steps' = Append(steps, s)
    BY <1>1 DEF after
  <2> HIDE DEF s, n, c
  <2> QED BY <2>1, <1>2, <1>3, <1>5
<1>7. undoing => steps' = steps
  BY <1>1 DEF after
<1>8. TypeOK'
  <2>1. WellFormed(dir')
    <3>1. WellFormed(Done(dir, c))
      BY <1>1, <1>3, Sending, DoneTyped
    <3> QED BY <1>1, <3>1
  <2>2. steps' \in Seq(Derived)
    BY <1>2, <1>6, <1>7
  <2> HIDE DEF c, n, s
  <2> QED BY <1>1, <1>2, <1>3, <1>4, <2>1, <2>2, Sending DEF TypeOK, Phases
<1>9. Progress'
  <2> HIDE DEF c, n, s
  <2>1. phase' = "running" => Len(outcomes') = pos' - 1
    BY <1>3, <1>4, Sending
  <2> QED BY <1>1, <1>3, <2>1, Sending DEF Progress, Requested
<1>10. Recorded'
  <2> SUFFICES ASSUME ~undoing PROVE Recorded'
    BY Sending DEF Recorded
  <2>1. phase' = "running" => Len(steps') = pos' - 1
    BY <1>3, <1>6, Sending
  <2>2. ASSUME NEW k \in 1..pos
        PROVE  /\ k \in DOMAIN outcomes' /\ outcomes'[k] = "applied" /\ k \in DOMAIN Sent
               /\ steps'[k].change = Sent[k].change
    <3>1. CASE k = pos
      BY <1>4, <1>5, <1>6, <3>1, Sending
    <3>2. CASE k # pos
      <4>1. k \in 1..n
        BY <1>3, <3>2
      <4>2. k \in DOMAIN steps /\ steps'[k] = steps[k] /\ outcomes'[k] = outcomes[k]
        BY <1>4, <1>6, <4>1
      <4>3. outcomes[k] = "applied" /\ k \in DOMAIN Sent /\ steps[k].change = Sent[k].change
        BY <4>2, Sending DEF IInv, Recorded
      <4> QED BY <1>4, <4>2, <4>3
    <3> QED BY <3>1, <3>2
  <2> HIDE DEF c, n, s
  <2> QED BY <1>3, <1>6, <2>1, <2>2, Sending DEF Recorded
<1>11. EachOnce' /\ VerdictStands'
  BY <1>1, <1>3, Sending DEF IInv, EachOnce, VerdictStands, Phases
<1>12. RanTrue'
  <2> SUFFICES ASSUME ~undoing, others = 0 PROVE dir' = Ran'
    BY <1>1, Sending DEF RanTrue
  <2>1. dir = Ran
    BY Sending DEF IInv, RanTrue
  <2>2. Ran' = Played(start, Append(steps, s))
    BY <1>6, Sending DEF Ran
  <2>3. Played(start, Append(steps, s)) = Done(Played(start, steps), c)
    <3> HIDE DEF s, c
    <3> QED BY <1>2, <1>5, PlayedMore
  <2> QED BY <1>1, <2>1, <2>2, <2>3 DEF Ran
<1>13. ReadsStand'
  <2> SUFFICES ASSUME ~undoing, ~raced, NEW k \in DOMAIN reads, reads[k].made, ~unsettled',
                      \A x \in touched' : ~IsUnder(Sent[k].change.dn, x)
               PROVE  reads[k].entry = Read(dir', Sent[k].change.dn, reads[k].attrs)
    BY Sending DEF ReadsStand, disturbed
  <2> DEFINE b == Sent[k].change
  <2>1. b \in ValidChanges
    BY <1>2
  <2>2. Read(dir', b.dn, reads[k].attrs) = Read(dir, b.dn, reads[k].attrs) /\ ~unsettled /\ ~disturbed(b)
    <3>1. \A x \in touched' : ~IsUnder(b.dn, x)
      OBVIOUS
    <3> HIDE DEF b, c
    <3> QED BY <1>1, <1>2, <1>3, <2>1, <3>1, StillThere
  <2>3. reads[k].entry = Read(dir, b.dn, reads[k].attrs)
    BY <2>2, Sending DEF IInv, ReadsStand
  <2> QED BY <2>2, <2>3
<1>14. PreStands'
  BY Sending DEF PreStands
<1>15. PlanStands'
  <2> SUFFICES ASSUME planned, ~raced, phase' = "running", NEW k \in pos'..Len(Sent), Elsewhere(k)'
               PROVE  Meets(k)'
    BY <1>3, Sending DEF PlanStands
  <2>1. k \in pos..Len(Sent) /\ k \in DOMAIN Sent
    BY <1>3, Sending
  <2>2. \A j \in 1..pos : Sent[j].change.type = "modify" /\ Sent[j].change.dn # Sent[k].change.dn
    BY <1>3, Sending DEF Elsewhere
  <2>3. Elsewhere(k)
    BY <2>2, <1>3 DEF Elsewhere
  <2>4. Meets(k)
    BY <2>1, <2>3, Sending DEF IInv, PlanStands
  <2>5. c.type = "modify" /\ Sent[k].change.dn # c.dn
    BY <2>2, <1>3
  <2> DEFINE x == Sent[k].change.dn
  <2>6. Read(dir', x, Attrs) = Read(dir, x, Attrs)
    <3> HIDE DEF x, c
    <3>1. c.type = "modify" /\ x # c.dn
      BY <2>5 DEF x
    <3>2. Read(Done(dir, c), x, Attrs) = Read(dir, x, Attrs)
      BY <1>1, <1>3, <3>1, Elsewheres
    <3> QED BY <1>1, <3>2
  <2> QED BY <2>4, <2>6, Sending DEF Meets
<1> QED BY <1>8, <1>9, <1>10, <1>11, <1>12, <1>13, <1>14, <1>15 DEF IInv

LEMMA SendKeeps == ASSUME IInv, Send PROVE IInv'
<1>1. Applied(Sent[pos].change) \/ Failed(Sent[pos].change) \/ Unknown(Sent[pos].change)
  BY DEF Send
<1> QED BY <1>1, AppliedKeeps, FailedKeeps, UnknownKeeps

LEMMA StutterKeeps == ASSUME IInv, UNCHANGED vars PROVE IInv'
<1>1. UNCHANGED <<dir, job, undoing, planned, phase, pos, refused, reads, armed, pre, outcomes, touched, unsettled,
                  steps, lost, verdict, others, start, raced, landed>> /\ Sent' = Sent
  BY SentUnchanged DEF vars, desk, request, recorder, bounds, ghosts
<1>2. TypeOK' /\ Progress' /\ Recorded' /\ EachOnce' /\ RanTrue' /\ VerdictStands'
  BY <1>1, RanSame DEF IInv, TypeOK, Progress, Requested, Recorded, EachOnce, RanTrue, VerdictStands
<1>3. ReadsStand' /\ PreStands'
  BY <1>1 DEF IInv, ReadsStand, PreStands, Requested, disturbed
<1>4. PlanStands'
  <2>1. \A k : Meets(k)' = Meets(k) /\ Elsewhere(k)' = Elsewhere(k)
    BY <1>1 DEF Meets, Elsewhere
  <2> QED BY <1>1, <2>1 DEF IInv, PlanStands
<1> QED BY <1>2, <1>3, <1>4 DEF IInv

-----------------------------------------------------------------------------
(* What the request promises *)

\* The whole of it, which the promises below rest on: the changes are the ones staged, the recorder
\* follows the run, and every read that is still relied on is still true.
THEOREM InvariantHolds == Spec => []IInv
<1>1. Init => IInv
  BY InitKeeps
<1>2. IInv /\ [Next]_vars => IInv'
  <2> SUFFICES ASSUME IInv, [Next]_vars PROVE IInv'
    OBVIOUS
  <2>1. CASE UNCHANGED vars
    BY <2>1, StutterKeeps
  <2>2. CASE Stage \/ CheckPlan \/ Apply \/ Answer \/ CheckOutcome \/ LoadBundle \/ NextRound
    BY <2>2, StageKeeps, CheckPlanKeeps, ApplyKeeps, AnswerKeeps, CheckOutcomeKeeps, LoadBundleKeeps,
       NextRoundKeeps
  <2>3. CASE PlanOne \/ checkPlannedChanges \/ before \/ Send \/ Other
    BY <2>3, PlanOneKeeps, CheckingKeeps, BeforeKeeps, SendKeeps, OtherKeeps
  <2> QED BY <2>1, <2>2, <2>3 DEF Next
<1> QED BY <1>1, <1>2, PTL DEF Spec

\* The answer is the run, and nothing that was applied stays in the basket: ApplyChangeset's outcomes
\* and removeApplied, whatever the plan left out and wherever the run stopped.
THEOREM AnswerHolds == Spec => []AnswerTrue
<1>1. IInv => AnswerTrue
  BY DEF IInv, RanTrue, EachOnce, AnswerTrue
<1> QED BY <1>1, InvariantHolds, PTL

\* internal/outcome: a change told not applied did not land, and one told applied did, or would
\* change nothing.
THEOREM VerdictHolds == Spec => []VerdictTrue
<1>1. IInv => VerdictTrue
  <2> SUFFICES ASSUME IInv, verdict # None, others = 0, NamesOnce(lost)
               PROVE  /\ verdict = "not_applied" => ~landed
                      /\ verdict = "applied" => landed \/ Wanted(lost)
    BY DEF VerdictTrue
  <2>1. verdict = Determine(dir, lost) /\ lost # None /\ (landed => Determine(dir, lost) # "not_applied")
    BY DEF IInv, VerdictStands
  <2>2. lost \in ValidChanges /\ WellFormed(dir)
    BY <2>1 DEF IInv, TypeOK
  <2>3. verdict = "applied" => Wanted(lost)
    BY <2>1, <2>2, ToldAppliedIsWanted
  <2> QED BY <2>1, <2>3
<1> QED BY <1>1, InvariantHolds, PTL

\* recoveryRecorder.before: the compensation of a change that lands is derived from the entry that
\* change met, though the read may be the check's, made before other changes ran.
THEOREM PreStateHolds == Spec => PreStateTrue
<1> DEFINE Claim == Landing /\ ~undoing /\ ~raced /\ pre # NoEntry =>
                      Seen(pre, Now.change) = Read(dir, Now.change.dn, ReadAttributes(Now.change))
<1>1. IInv => Claim
  BY DEF IInv, PreStands, Landing, Now
<1>2. IInv /\ [Next]_vars => [Claim]_vars
  BY <1>1
<1>3. Spec => [][Claim]_vars
  <2> HIDE DEF Claim
  <2> QED BY <1>2, InvariantHolds, PTL DEF Spec
<1> QED BY <1>3 DEF PreStateTrue

\* checkPlannedChanges: a planned change nothing of the request comes before is carried out on the
\* entry its plan saw, as far as its decision rested on it.
THEOREM PlannedStateHolds == Spec => PlannedStateMet
<1> DEFINE Claim == Landing /\ planned /\ ~raced /\ First =>
                     stateMAC(Now.token.deps, Read(dir, Now.change.dn, Attrs)) = Now.token.state
<1>1. IInv => Claim
  <2> SUFFICES ASSUME IInv, Landing, planned, ~raced, First PROVE Meets(pos)
    BY DEF Meets, Now
  <2>1. phase = "running" /\ Requested /\ TypeOK /\ Progress
    BY DEF Landing, Requested, IInv
  <2>2. /\ DOMAIN Sent = 1..Len(Sent) /\ Len(Sent) \in Nat /\ pos \in 1..Len(Sent)
        /\ \A k \in DOMAIN Sent : Sent[k].change \in ValidChanges
    BY <2>1, AtChange
  <2>3. Elsewhere(pos)
    <3> SUFFICES ASSUME NEW j \in 1..(pos - 1)
                 PROVE  Sent[j].change.type = "modify" /\ Sent[j].change.dn # Sent[pos].change.dn
      BY DEF Elsewhere
    <3>1. Sent[j].change.type = "modify" /\ ~IsUnder(Sent[pos].change.dn, Sent[j].change.dn)
      BY DEF First, Now
    <3>2. IsUnder(Sent[j].change.dn, Sent[j].change.dn)
      <4>1. j \in DOMAIN Sent
        BY <2>2
      <4> QED BY <2>2, <4>1, Kinds, UnderItself
    <3> QED BY <3>1, <3>2
  <2>4. pos \in pos..Len(Sent)
    BY <2>2
  <2> QED BY <2>1, <2>3, <2>4 DEF IInv, PlanStands
<1>2. IInv /\ [Next]_vars => [Claim]_vars
  BY <1>1
<1>3. Spec => [][Claim]_vars
  <2> HIDE DEF Claim
  <2> QED BY <1>2, InvariantHolds, PTL DEF Spec
<1> QED BY <1>3 DEF PlannedStateMet
=============================================================================
