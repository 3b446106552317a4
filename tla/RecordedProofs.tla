---------------------------- MODULE RecordedProofs ----------------------------
(***************************************************************************)
(* What is recorded of a directory other people write to, and used later.  *)
(*                                                                         *)
(* First a snapshot: an absence is only ever concluded from what a capture *)
(* and a comparison could see, and what a modification would write is what *)
(* differs.  Then a saved plan: what was reviewed is what happens, no      *)
(* edit is overwritten, a project's plan changes only what the files       *)
(* describe, and left alone it leaves what they describe.  Both for any    *)
(* number of entries, people, attributes and values.                       *)
(***************************************************************************)
EXTENDS Comparison, SavedPlan, DataProofs

-----------------------------------------------------------------------------
(* What a modification is made of *)

\* One modification of the attribute a in what is proposed for the difference i.
ModOf(r, i, a, m) ==
  LET S == r.source.entries[i.from].attrs[a]
      T == r.target.entries[i.to].attrs[a]
      byRule == ByRule(r.source, r.target)
  IN /\ m.attr = a
     /\ \/ T = {} /\ m.op = "delete" /\ m.vals = {}
        \/ T # {} /\ S = {} /\ m.op = "add" /\ m.vals = T
        \/ /\ T # {} /\ S # {}
           /\ \/ m.op = "delete" /\ m.vals = Lacking(S, T, byRule) /\ m.vals # {}
              \/ m.op = "add" /\ m.vals = Lacking(T, S, byRule)

\* Every modification of what modsFor makes is ModOf its difference, over any set of attributes.
LEMMA ModsOfIs ==
  ASSUME NEW r, NEW i, NEW a
  PROVE  /\ ModsOf(r, i, a) \in Seq({ModsOf(r, i, a)[k] : k \in DOMAIN ModsOf(r, i, a)})
         /\ \A k \in DOMAIN ModsOf(r, i, a) : ModOf(r, i, a, ModsOf(r, i, a)[k])
<1> DEFINE S == r.source.entries[i.from].attrs[a]
           T == r.target.entries[i.to].attrs[a]
           b == ByRule(r.source, r.target)
           remove == Lacking(S, T, b)
           add == Lacking(T, S, b)
           W == {Mod("delete", a, {}), Mod("add", a, T), Mod("delete", a, remove), Mod("add", a, add)}
           ms == ModsOf(r, i, a)
<1>1. /\ T = {} => ms = <<Mod("delete", a, {})>>
      /\ T # {} /\ S = {} => ms = <<Mod("add", a, T)>>
      /\ T # {} /\ S # {} => ms = (IF remove # {} THEN <<Mod("delete", a, remove)>> ELSE <<>>)
                                    \o (IF add # {} THEN <<Mod("add", a, add)>> ELSE <<>>)
  BY DEF ModsOf
<1>2. \A m : ModOf(r, i, a, m) <=>
        /\ m.attr = a
        /\ \/ T = {} /\ m.op = "delete" /\ m.vals = {}
           \/ T # {} /\ S = {} /\ m.op = "add" /\ m.vals = T
           \/ /\ T # {} /\ S # {}
              /\ \/ m.op = "delete" /\ m.vals = remove /\ m.vals # {}
                 \/ m.op = "add" /\ m.vals = add
  BY DEF ModOf
<1>3. \A o, V : Mod(o, a, V).op = o /\ Mod(o, a, V).attr = a /\ Mod(o, a, V).vals = V
  BY DEF Mod
<1> HIDE DEF S, T, b, remove, add, ms
<1>4. ms \in Seq(W) /\ \A k \in DOMAIN ms : ModOf(r, i, a, ms[k])
  <2>1. CASE T = {}
    <3> HIDE DEF W
    <3>1. ms = <<Mod("delete", a, {})>>
      BY <1>1, <2>1
    <3>2. ModOf(r, i, a, Mod("delete", a, {}))
      BY <1>2, <1>3, <2>1
    <3>3. Mod("delete", a, {}) \in W
      BY DEF W
    <3> QED BY <3>1, <3>2, <3>3
  <2>2. CASE T # {} /\ S = {}
    <3>1. ms = <<Mod("add", a, T)>>
      BY <1>1, <2>2
    <3>2. ModOf(r, i, a, Mod("add", a, T))
      BY <1>2, <1>3, <2>2
    <3> HIDE DEF W
    <3>3. Mod("add", a, T) \in W
      BY DEF W
    <3> QED BY <3>1, <3>2, <3>3
  <2>3. CASE T # {} /\ S # {}
    <3>1. ms = (IF remove # {} THEN <<Mod("delete", a, remove)>> ELSE <<>>)
                 \o (IF add # {} THEN <<Mod("add", a, add)>> ELSE <<>>)
      BY <1>1, <2>3
    <3>2. remove # {} => ModOf(r, i, a, Mod("delete", a, remove))
      BY <1>2, <1>3, <2>3
    <3>3. ModOf(r, i, a, Mod("add", a, add))
      BY <1>2, <1>3, <2>3
    <3> HIDE DEF W
    <3>4. Mod("delete", a, remove) \in W /\ Mod("add", a, add) \in W
      BY DEF W
    <3> DEFINE d == Mod("delete", a, remove)  e == Mod("add", a, add)
    <3> HIDE DEF d, e
    <3>5. ms = (IF remove # {} THEN <<d>> ELSE <<>>) \o (IF add # {} THEN <<e>> ELSE <<>>)
      BY <3>1 DEF d, e
    <3>6. d \in W /\ e \in W /\ (remove # {} => ModOf(r, i, a, d)) /\ ModOf(r, i, a, e)
      BY <3>2, <3>3, <3>4 DEF d, e
    <3>7. /\ <<d>> \o <<>> = <<d>>
          /\ <<>> \o <<e>> = <<e>> /\ <<>> \o <<>> = <<>>
      <4>2. <<d>> \o <<>> = <<d>>
        OBVIOUS
      <4>3. <<>> \o <<e>> = <<e>>
        OBVIOUS
      <4>4. <<>> \o <<>> = <<>>
        OBVIOUS
      <4> QED BY <4>2, <4>3, <4>4
    <3>8. CASE remove # {} /\ add # {}
      <4>1. ms = <<d>> \o <<e>>
        BY <3>8, <3>5
      <4>2. ms \in Seq(W) /\ DOMAIN ms = 1..2 /\ ms[1] = d /\ ms[2] = e
        BY <4>1, <3>6
      <4>3. \A k \in 1..2 : k = 1 \/ k = 2
        OBVIOUS
      <4> QED BY <4>2, <4>3, <3>6, <3>8
    <3>9. CASE remove # {} /\ add = {}
      <4>1. ms = <<d>>
        BY <3>9, <3>5, <3>7
      <4> QED BY <4>1, <3>6, <3>9
    <3>10. CASE remove = {} /\ add # {}
      <4>1. ms = <<e>>
        BY <3>10, <3>5, <3>7
      <4> QED BY <4>1, <3>6
    <3>11. CASE remove = {} /\ add = {}
      <4>1. ms = <<>>
        BY <3>11, <3>5, <3>7
      <4> QED BY <4>1
    <3> QED BY <3>8, <3>9, <3>10, <3>11
  <2> QED BY <2>1, <2>2, <2>3
<1>5. ms \in Seq({ms[k] : k \in DOMAIN ms})
  <2> HIDE DEF W
  <2>1. Len(ms) \in Nat /\ DOMAIN ms = 1..Len(ms) /\ ms \in [1..Len(ms) -> W]
    BY <1>4
  <2>2. ms \in [1..Len(ms) -> {ms[k] : k \in DOMAIN ms}]
    BY <2>1
  <2> QED BY <2>1, <2>2, IsList
<1> QED BY <1>4, <1>5 DEF ms

\* The same of the whole list: each modification is of an attribute that changed.
LEMMA modsForIs ==
  ASSUME NEW r, NEW i, NEW skip, i.changed \subseteq Attrs
  PROVE  \A k \in DOMAIN modsFor(r, i, skip) :
           LET m == modsFor(r, i, skip)[k]
           IN /\ m.attr \in i.changed \ (i.unknown \cup Sensitive)
              /\ ~isOperational(r.source, m.attr)
              /\ ModOf(r, i, m.attr, m)
<1> DEFINE A == {a \in i.changed \ (i.unknown \cup Sensitive \cup {Identity} \cup skip) :
                   ~isOperational(r.source, a) /\ ~isOperational(r.target, a)}
           M(a) == ModsOf(r, i, a)
           W == UNION {{M(a)[k] : k \in DOMAIN M(a)} : a \in A}
           U == Seq(W)
           F == [a \in A |-> [ms \in U |-> ms \o M(a)]]
           Eq(g) == g = [T \in SUBSET A |-> IF T = {} THEN <<>> ELSE g[T \ {AnyOf(T)}] \o M(AnyOf(T))]
<1>1. IsFiniteSet(A)
  BY FS_Subset, ComparisonConstants
<1>2. modsFor(r, i, skip) = (CHOOSE g : Eq(g))[A]
  BY DEF modsFor, FoldSet, MapThenFoldSet, AnyOf
<1>3. \A a \in A : M(a) \in U
  <2> TAKE a \in A
  <2>1. M(a) \in Seq({M(a)[k] : k \in DOMAIN M(a)})
    BY ModsOfIs
  <2>2. {M(a)[k] : k \in DOMAIN M(a)} \subseteq W
    OBVIOUS
  <2> HIDE DEF M, W
  <2> QED BY <2>1, <2>2, ListGrows
<1>4. \A m \in W : \E a \in A : ModOf(r, i, a, m)
  <2> TAKE m \in W
  <2>1. PICK a \in A : m \in {M(a)[k] : k \in DOMAIN M(a)}
    OBVIOUS
  <2>2. PICK k \in DOMAIN M(a) : m = M(a)[k]
    BY <2>1
  <2> QED BY <2>2, ModsOfIs
<1> HIDE DEF M, W
<1>5. <<>> \in U /\ F \in [A -> [U -> U]]
  <2> HIDE DEF A
  <2>1. \A a \in A, ms \in U : ms \o M(a) \in U
    BY <1>3
  <2> QED BY <2>1
<1>6. \A a \in A, ms \in U : F[a][ms] = ms \o M(a)
  OBVIOUS
<1> HIDE DEF F, A, U
<1>7. PICK g \in [SUBSET A -> U] : Peels(g, A, <<>>, F)
  <2> HIDE DEF Eq
  <2> QED BY <1>1, <1>5, Peeled
<1>8. Eq(g)
  <2>1. \A T \in SUBSET A : T # {} => AnyOf(T) \in A /\ T \ {AnyOf(T)} \in SUBSET A
    BY DEF AnyOf
  <2>2. \A T \in SUBSET A : g[T] = IF T = {} THEN <<>> ELSE g[T \ {AnyOf(T)}] \o M(AnyOf(T))
    BY <1>6, <1>7, <2>1 DEF Peels
  <2> QED BY <2>2
<1>9. PICK f : f = (CHOOSE h : Eq(h)) /\ Eq(f)
  <2> HIDE DEF Eq
  <2>1. Eq(CHOOSE h : Eq(h))
    BY <1>8
  <2> QED BY <2>1
<1>10. f[A] \in U
  <2> DEFINE P == {T \in SUBSET A : f[T] \in U}
  <2>1. \A T \in SUBSET A : f[T] = IF T = {} THEN <<>> ELSE f[T \ {AnyOf(T)}] \o M(AnyOf(T))
    BY <1>9
  <2>2. {} \in P
    BY <2>1, <1>5
  <2>3. \A T \in SUBSET A : T # {} /\ T \ {AnyOf(T)} \in P => T \in P
    <3> SUFFICES ASSUME NEW T \in SUBSET A, T # {}, f[T \ {AnyOf(T)}] \in U PROVE f[T] \in U
      OBVIOUS
    <3>1. AnyOf(T) \in A
      BY DEF AnyOf
    <3>2. f[T] = f[T \ {AnyOf(T)}] \o M(AnyOf(T)) /\ M(AnyOf(T)) \in U
      BY <2>1, <3>1, <1>3
    <3> QED BY <3>2 DEF U
  <2>4. P \in SUBSET SUBSET A
    OBVIOUS
  <2>5. A \in P
    <3> HIDE DEF P
    <3> QED BY <1>1, <2>2, <2>3, <2>4, SubsetsAll
  <2> QED BY <2>5
<1>11. modsFor(r, i, skip) \in Seq(W)
  BY <1>2, <1>9, <1>10 DEF U
<1> HIDE DEF Eq
<1>12. ASSUME NEW k \in DOMAIN modsFor(r, i, skip), NEW m, m = modsFor(r, i, skip)[k]
       PROVE  /\ m.attr \in i.changed \ (i.unknown \cup Sensitive)
              /\ ~isOperational(r.source, m.attr)
              /\ ModOf(r, i, m.attr, m)
  <2>1. m \in W
    <3> DEFINE ms == modsFor(r, i, skip)
    <3> HIDE DEF ms
    <3>1. ms \in Seq(W) /\ k \in DOMAIN ms /\ m = ms[k]
      BY <1>11, <1>12 DEF ms
    <3> QED BY <3>1
  <2>2. PICK a \in A : ModOf(r, i, a, m)
    BY <2>1, <1>4
  <2>3. m.attr = a
    BY <2>2 DEF ModOf
  <2> QED BY <2>2, <2>3 DEF A
<1> QED BY <1>12

-----------------------------------------------------------------------------
(* The invariant *)

\* While the file is captured, an entry of was is there as it was, and was read so.
WasStays == phase = "reading" /\ purpose = "capture" =>
  \A x \in DOMAIN was : /\ x \in DOMAIN dir /\ dir[x] = was[x]
                        /\ x \in DOMAIN got => got[x] = Captured(was[x], req, Hidden)

\* What is under the base is in the capture or still to come, unless the read was cut off.
NothingMissed == phase = "reading" /\ purpose = "capture" /\ ~truncated /\ req.filter = NoFilter =>
  \A x \in DOMAIN was : IsUnder(x, req.base) => x \in DOMAIN got \/ dir[x][Identity] \in left

\* What the file says of the entries that stayed as they were.
FileTrue == file # None =>
  \A x \in DOMAIN was :
    /\ x \in DOMAIN file.entries => file.entries[x] = Captured(was[x], file, Hidden)
    /\ file.filter = NoFilter /\ IsUnder(x, file.base) => x \in DOMAIN file.entries

\* Until somebody writes, what was read is what is there.
ReadTrue == phase # "idle" /\ still =>
  \A x \in DOMAIN got : x \in DOMAIN dir /\ got[x] = Captured(dir[x], req, Hidden)

PurposeTrue ==
  /\ phase \in {"idle", "reading", "compared"}
  /\ phase = "compared" => purpose \in {"file", "reference"}
  /\ phase # "idle" /\ purpose = "file" => file # None

\* What the comparison was made of.
SidesTrue == phase = "compared" =>
  LET s == result.source
      t == result.target
      all == InSearch(there, req, HiddenThere)
  IN /\ s = Snapshot(req, schema, got)
     /\ purpose = "file" => t = file
     /\ purpose = "reference" =>
          /\ t.base = req.base /\ t.filter = req.filter /\ t.operational = req.operational
          /\ DOMAIN t.entries \subseteq all
          /\ result.complete => DOMAIN t.entries = all
          /\ \A x \in DOMAIN t.entries : t.entries[x] = Captured(there[x], req, HiddenThere)

\* An entry is not in the target, which was asked for all that was asked of the source.
Removal(i) ==
  LET s == result.source
      t == result.target
  IN i.from \notin DOMAIN t.entries /\ s.filter = t.filter /\ IsUnder(i.from, t.base)

\* What the directory itself said of an attribute that one side holds and the other lacks.
Told(i, a) ==
  LET se == result.source.entries[i.from]
      te == result.target.entries[i.to]
  IN /\ ~Holds(se, a) /\ Holds(te, a) /\ still => dir[i.from][a] = {}
     /\ Holds(se, a) /\ ~Holds(te, a) /\ purpose = "reference" => there[i.to][a] = {}
\* Both sides have the entry, and what changed is what differs between them.
Pairing(i) ==
  LET s == result.source
      t == result.target
  IN /\ i.from \in DOMAIN s.entries /\ i.to \in DOMAIN t.entries
     /\ i.changed = Changed(s, t, s.entries[i.from], t.entries[i.to])
     /\ \A a \in i.changed \ i.unknown : Told(i, a)

ItemsTrue == phase = "compared" =>
  \A i \in result.items :
    /\ i.kind \in {"added", "removed", "unknown", "modified", "renamed"}
    /\ i.kind = "removed" => Removal(i)
    /\ i.kind \in {"modified", "renamed"} => Pairing(i)

IInv == WasStays /\ NothingMissed /\ FileTrue /\ ReadTrue /\ PurposeTrue /\ SidesTrue /\ ItemsTrue

-----------------------------------------------------------------------------
(* Comparing two sides *)

\* What the differences say of the entries they are about.
LEMMA DifferencesAre ==
  ASSUME NEW source, NEW target, NEW j \in Differences(source, target)
  PROVE  LET s == source.snapshot
             t == target.snapshot
         IN /\ j.kind \in {"added", "removed", "unknown", "modified", "renamed"}
            /\ j.kind = "removed" => /\ j.from \notin DOMAIN t.entries
                                     /\ s.filter = t.filter /\ IsUnder(j.from, t.base)
            /\ j.kind \in {"modified", "renamed"} =>
                 /\ j.from \in DOMAIN s.entries /\ j.to \in DOMAIN t.entries
                 /\ j.changed = Changed(s, t, s.entries[j.from], t.entries[j.to])
<1> DEFINE s == source.snapshot
           t == target.snapshot
           pairs == {p \in (DOMAIN s.entries) \X (DOMAIN t.entries) : p[2] \in Matches(s, t, p[1])}
           matched(p) == Item(IF p[1] = p[2] THEN "modified" ELSE "renamed", p[1], p[2],
                              Changed(s, t, s.entries[p[1]], t.entries[p[2]]))
           gone == {x \in DOMAIN s.entries : Matches(s, t, x) = {}}
           removal(x) == Item(IF presenceUnknown(source, target, x) THEN "unknown" ELSE "removed", x, <<>>, {})
           addition(y) == Item(IF presenceUnknown(target, source, y) THEN "unknown" ELSE "added", <<>>, y, {})
<1>1. \/ \E p \in pairs : j = matched(p)
      \/ \E x \in gone : j = removal(x)
      \/ \E y : j = addition(y)
  BY DEF Differences
<1>2. CASE \E p \in pairs : j = matched(p)
  <2>1. PICK p \in pairs : j = matched(p)
    BY <1>2
  <2>2. p[1] \in DOMAIN s.entries /\ p[2] \in DOMAIN t.entries
    OBVIOUS
  <2> QED BY <2>1, <2>2 DEF Item
<1>3. CASE \E x \in gone : j = removal(x)
  <2>1. PICK x \in gone : j = removal(x)
    BY <1>3
  <2>2. x \notin DOMAIN t.entries
    BY DEF Matches
  <2> QED BY <2>1, <2>2 DEF Item, presenceUnknown
<1>4. CASE \E y : j = addition(y)
  BY <1>4 DEF Item
<1> QED BY <1>1, <1>2, <1>3, <1>4

\* A result is about its sides, and what it does not call unknown a directory that can be asked lacks.
Lacks(side, x, a) == \A d \in side.asked : d[x][a] = {}
Paired(r, i, source, target) ==
  /\ i.from \in DOMAIN r.source.entries /\ i.to \in DOMAIN r.target.entries
  /\ i.changed = Changed(r.source, r.target, r.source.entries[i.from], r.target.entries[i.to])
  /\ \A a \in i.changed \ i.unknown :
       LET se == r.source.entries[i.from]
           te == r.target.entries[i.to]
       IN /\ ~Holds(se, a) /\ Holds(te, a) => Lacks(source, i.from, a)
          /\ Holds(se, a) /\ ~Holds(te, a) => Lacks(target, i.to, a)

\* What a result proposes is read off its two sides.
LEMMA ResultIs ==
  ASSUME NEW source, NEW target, NEW probed
  PROVE  LET r == Result(source, target, probed)
         IN /\ r.source = source.snapshot /\ r.target = target.snapshot
            /\ r.complete => ~target.truncated
            /\ \A i \in r.items :
                 /\ i.kind \in {"added", "removed", "unknown", "modified", "renamed"}
                 /\ i.kind = "removed" => /\ i.from \notin DOMAIN r.target.entries
                                          /\ r.source.filter = r.target.filter
                                          /\ IsUnder(i.from, r.target.base)
                 /\ i.kind \in {"modified", "renamed"} => Paired(r, i, source, target)
<1> DEFINE D == Differences(source, target)
           missing == Missing(source, target, D)
           unknowns == Unknowns(missing, probed)
           r == Result(source, target, probed)
           of(j) == {m.attr : m \in {m \in unknowns : m.item = j}}
           item(j) == [kind |-> j.kind, from |-> j.from, to |-> j.to, changed |-> j.changed, unknown |-> of(j)]
<1>1. /\ r.source = source.snapshot /\ r.target = target.snapshot
      /\ r.complete = Complete(source, target, unknowns)
      /\ r.items = {item(j) : j \in D}
  BY DEF Result
<1>2. r.complete => ~target.truncated
  BY <1>1 DEF Complete
<1>3. ASSUME NEW i \in r.items
      PROVE  /\ i.kind \in {"added", "removed", "unknown", "modified", "renamed"}
             /\ i.kind = "removed" => /\ i.from \notin DOMAIN r.target.entries
                                      /\ r.source.filter = r.target.filter
                                      /\ IsUnder(i.from, r.target.base)
             /\ i.kind \in {"modified", "renamed"} => Paired(r, i, source, target)
  <2>1. PICK j \in D : i = item(j)
    BY <1>1
  <2>2. i.kind = j.kind /\ i.from = j.from /\ i.to = j.to /\ i.changed = j.changed /\ i.unknown = of(j)
    BY <2>1
  <2>3. /\ j.kind \in {"added", "removed", "unknown", "modified", "renamed"}
        /\ j.kind = "removed" => /\ j.from \notin DOMAIN r.target.entries
                                 /\ r.source.filter = r.target.filter /\ IsUnder(j.from, r.target.base)
        /\ j.kind \in {"modified", "renamed"} =>
             /\ j.from \in DOMAIN r.source.entries /\ j.to \in DOMAIN r.target.entries
             /\ j.changed = Changed(r.source, r.target, r.source.entries[j.from], r.target.entries[j.to])
    BY <1>1, DifferencesAre
  <2>4. ASSUME j.kind \in {"modified", "renamed"}, NEW a \in j.changed, a \notin of(j)
        PROVE  LET se == r.source.entries[j.from]
                   te == r.target.entries[j.to]
               IN /\ ~Holds(se, a) /\ Holds(te, a) => Lacks(source, j.from, a)
                  /\ Holds(se, a) /\ ~Holds(te, a) => Lacks(target, j.to, a)
    <3> DEFINE se == source.snapshot.entries[j.from]
               te == target.snapshot.entries[j.to]
               m == [item |-> j, attr |-> a, side |-> IF Holds(se, a) THEN target ELSE source,
                     at |-> IF Holds(se, a) THEN j.to ELSE j.from]
    <3>1. SUFFICES ASSUME Holds(se, a) # Holds(te, a)
                   PROVE  /\ ~Holds(se, a) => Lacks(source, j.from, a)
                          /\ Holds(se, a) => Lacks(target, j.to, a)
      BY <1>1
    <3>2. m \in missing
      BY <2>4, <3>1 DEF Missing
    <3>3. m.item = j /\ m.attr = a
      OBVIOUS
    <3>4. m \notin unknowns
      <4> HIDE DEF m, unknowns
      <4> QED BY <2>4, <3>3
    <3>5. ~Asked(m) \/ Absent(m)
      BY <3>2, <3>4 DEF Unknowns
    <3>6. Lacks(m.side, m.at, a)
      BY <3>3, <3>5 DEF Asked, Absent, Lacks
    <3> QED BY <3>6
  <2> QED BY <2>2, <2>3, <2>4 DEF Paired
<1> QED BY <1>1, <1>2, <1>3

\* What Pairing and SidesTrue say, of the result of any comparison of the capture.
LEMMA ComparedIs ==
  ASSUME NEW target, NEW probed, result' = Result(Live, target, probed),
         UNCHANGED <<dir, there, file, capture, ghosts>>,
         purpose = "file" => target = Document,
         purpose = "reference" =>
           \E returned \in SUBSET InSearch(there, req, HiddenThere), known \in BOOLEAN :
             target = ReadThere(returned, known),
         purpose \in {"file", "reference"}, ReadTrue, phase = "reading", FileTrue
  PROVE  SidesTrue' /\ ItemsTrue'
<1> DEFINE r == Result(Live, target, probed)
<1> USE DEF capture, ghosts
<1>1. /\ r.source = Live.snapshot /\ r.target = target.snapshot
      /\ r.complete => ~target.truncated
      /\ \A i \in r.items :
           /\ i.kind \in {"added", "removed", "unknown", "modified", "renamed"}
           /\ i.kind = "removed" => /\ i.from \notin DOMAIN r.target.entries
                                    /\ r.source.filter = r.target.filter
                                    /\ IsUnder(i.from, r.target.base)
           /\ i.kind \in {"modified", "renamed"} => Paired(r, i, Live, target)
  BY ResultIs
<1>2. Live.snapshot = Snapshot(req, schema, got) /\ Live.asked = {dir}
  BY DEF Live, Side
<1>3. purpose = "file" => target.snapshot = file
  BY DEF Document, Side
<1>4. purpose = "reference" =>
        LET t == target.snapshot
            all == InSearch(there, req, HiddenThere)
        IN /\ target.asked = {there}
           /\ t.base = req.base /\ t.filter = req.filter /\ t.operational = req.operational
           /\ DOMAIN t.entries \subseteq all
           /\ ~target.truncated => DOMAIN t.entries = all
           /\ \A x \in DOMAIN t.entries : t.entries[x] = Captured(there[x], req, HiddenThere)
  <2> SUFFICES ASSUME purpose = "reference",
                      NEW returned \in SUBSET InSearch(there, req, HiddenThere), NEW known \in BOOLEAN,
                      target = ReadThere(returned, known)
               PROVE  LET t == target.snapshot
                          all == InSearch(there, req, HiddenThere)
                      IN /\ target.asked = {there}
                         /\ t.base = req.base /\ t.filter = req.filter /\ t.operational = req.operational
                         /\ DOMAIN t.entries \subseteq all
                         /\ ~target.truncated => DOMAIN t.entries = all
                         /\ \A x \in DOMAIN t.entries : t.entries[x] = Captured(there[x], req, HiddenThere)
    OBVIOUS
  <2> DEFINE t == target.snapshot
  <2>1. /\ target.asked = {there} /\ target.truncated = (returned # InSearch(there, req, HiddenThere))
        /\ t = Snapshot(req, known, [x \in returned |-> Captured(there[x], req, HiddenThere)])
    BY DEF ReadThere, Side
  <2>2. /\ t.base = req.base /\ t.filter = req.filter /\ t.operational = req.operational
        /\ t.entries = [x \in returned |-> Captured(there[x], req, HiddenThere)]
    BY <2>1 DEF Snapshot
  <2> HIDE DEF t
  <2> QED BY <2>1, <2>2 DEF t
<1> HIDE DEF r
<1>5. result' = r
  BY DEF r
<1>6. SidesTrue'
  <2>1. Snapshot(req, schema, got)' = Snapshot(req, schema, got)
    BY DEF Snapshot
  <2>2. InSearch(there, req, HiddenThere)' = InSearch(there, req, HiddenThere)
    BY DEF InSearch
  <2>3. \A x : Captured(there[x], req, HiddenThere)' = Captured(there[x], req, HiddenThere)
    BY DEF Captured
  <2> QED BY <1>1, <1>2, <1>3, <1>4, <1>5, <2>1, <2>2, <2>3 DEF SidesTrue
<1>7. ItemsTrue'
  <2> SUFFICES ASSUME NEW i \in r.items
               PROVE  /\ i.kind \in {"added", "removed", "unknown", "modified", "renamed"}
                      /\ i.kind = "removed" => Removal(i)'
                      /\ i.kind \in {"modified", "renamed"} => Pairing(i)'
    BY <1>5 DEF ItemsTrue
  <2>1. i.kind = "removed" => Removal(i)'
    BY <1>1, <1>5 DEF Removal
  <2>2. ASSUME i.kind \in {"modified", "renamed"} PROVE Pairing(i)'
    <3>1. Paired(r, i, Live, target)
      BY <1>1, <2>2
    <3>2. /\ \A x, a : Lacks(Live, x, a) => dir[x][a] = {}
          /\ purpose = "reference" => \A x, a : Lacks(target, x, a) => there[x][a] = {}
      BY <1>2, <1>4 DEF Lacks
    <3> QED BY <1>5, <3>1, <3>2 DEF Paired, Pairing, Told
  <2> QED BY <1>1, <2>1, <2>2
<1> QED BY <1>6, <1>7

-----------------------------------------------------------------------------
(* The steps *)

\* Nothing was read or recorded yet.
LEMMA InitKeeps == ASSUME Init PROVE IInv
  BY DEF Init, NoEntries, IInv, WasStays, NothingMissed, FileTrue, ReadTrue, PurposeTrue, SidesTrue, ItemsTrue

\* A read has nothing to begin with.
LEMMA NoEntriesIs == DOMAIN NoEntries = {}
  BY DEF NoEntries

\* A capture begins to read, of a directory whose entries are what they were.
LEMMA CaptureSnapshotKeeps == ASSUME IInv, CaptureSnapshot PROVE IInv'
<1>1. PICK q \in Requests : Begin("capture", q)
  BY DEF CaptureSnapshot
<1>2. /\ phase' = "reading" /\ purpose' = "capture" /\ req' = q /\ got' = NoEntries
      /\ left' = {dir[x][Identity] : x \in InSearch(dir, q, Hidden)}
      /\ was' = dir /\ dir' = dir /\ file' = file /\ file = None
  BY <1>1 DEF CaptureSnapshot, Begin
<1>3. WasStays' /\ ReadTrue' /\ FileTrue' /\ PurposeTrue' /\ SidesTrue' /\ ItemsTrue'
  BY <1>2, NoEntriesIs DEF WasStays, ReadTrue, FileTrue, PurposeTrue, SidesTrue, ItemsTrue
<1>4. NothingMissed'
  <2> SUFFICES ASSUME q.filter = NoFilter, NEW x \in DOMAIN dir, IsUnder(x, q.base)
               PROVE dir[x][Identity] \in left'
    BY <1>2 DEF NothingMissed
  <2>1. x \in InSearch(dir, q, Hidden)
    BY DEF InSearch
  <2> QED BY <1>2, <2>1
<1> QED BY <1>3, <1>4 DEF IInv

\* A comparison begins to read its source; the file is as it was.
LEMMA DiffStatesKeeps == ASSUME IInv, NEW target \in {"file", "reference"}, DiffStates(target) PROVE IInv'
<1>1. PICK q \in Requests : Begin(target, q)
  BY DEF DiffStates
<1>2. /\ phase' = "reading" /\ purpose' = target /\ got' = NoEntries
      /\ was' = was /\ file' = file /\ (target = "file" => file # None)
  BY <1>1 DEF DiffStates, Begin
<1>3. WasStays' /\ NothingMissed' /\ ReadTrue' /\ PurposeTrue' /\ SidesTrue' /\ ItemsTrue'
  BY <1>2, NoEntriesIs DEF WasStays, NothingMissed, ReadTrue, PurposeTrue, SidesTrue, ItemsTrue
<1>4. FileTrue'
  BY <1>2 DEF IInv, FileTrue, Captured
<1> QED BY <1>3, <1>4 DEF IInv

\* One entry is read, as it is then.
LEMMA ReadEntryKeeps == ASSUME IInv, ReadEntry PROVE IInv'
<1>1. PICK id \in left :
        LET at == {x \in InSearch(dir, req, Hidden) : dir[x][Identity] = id}
        IN /\ left' = left \ {id}
           /\ IF at \cap DOMAIN got = {}
              THEN got' = Over([x \in at |-> Captured(dir[x], req, Hidden)], got) /\ UNCHANGED phase
              ELSE phase' = "idle" /\ UNCHANGED got
  BY DEF ReadEntry
<1> DEFINE at == {x \in InSearch(dir, req, Hidden) : dir[x][Identity] = id}
<1>2. /\ phase = "reading"
      /\ UNCHANGED <<dir, there, file, purpose, req, schema, truncated, result, bounds, ghosts>>
  BY DEF ReadEntry
<1> USE DEF ghosts
<1>3. FileTrue'
  BY <1>2 DEF IInv, FileTrue, Captured
<1>4. CASE at \cap DOMAIN got # {}
  <2>1. phase' = "idle"
    BY <1>1, <1>4
  <2> QED BY <2>1, <1>3 DEF IInv, WasStays, NothingMissed, ReadTrue, PurposeTrue, SidesTrue, ItemsTrue
<1>5. CASE at \cap DOMAIN got = {}
  <2>1. phase' = "reading" /\ left' = left \ {id}
        /\ got' = Over([x \in at |-> Captured(dir[x], req, Hidden)], got)
    BY <1>1, <1>2, <1>5
  <2>2. /\ DOMAIN got' = at \cup DOMAIN got
        /\ \A x \in at : got'[x] = Captured(dir[x], req, Hidden)
        /\ \A x \in DOMAIN got \ at : got'[x] = got[x]
    BY <2>1 DEF Over
  <2>3. \A x \in at : x \in DOMAIN dir
    BY DEF InSearch
  <2>5. \A x : Captured(was[x], req, Hidden)' = Captured(was[x], req, Hidden)
               /\ Captured(dir[x], req, Hidden)' = Captured(dir[x], req, Hidden)
    BY <1>2 DEF Captured
  <2> HIDE DEF at
  <2>6. WasStays'
    BY <1>2, <2>1, <2>2, <2>3, <2>5 DEF IInv, WasStays
  <2>7. ReadTrue'
    BY <1>2, <2>1, <2>2, <2>3, <2>5 DEF IInv, ReadTrue
  <2>8. NothingMissed'
    <3> SUFFICES ASSUME purpose = "capture", ~truncated, req.filter = NoFilter,
                        NEW x \in DOMAIN was, IsUnder(x, req.base)
                 PROVE x \in DOMAIN got' \/ dir[x][Identity] \in left'
      BY <1>2 DEF NothingMissed
    <3>1. x \in DOMAIN got \/ dir[x][Identity] \in left
      BY <1>2 DEF IInv, NothingMissed
    <3>2. x \in DOMAIN dir
      BY <1>2 DEF IInv, WasStays
    <3>3. dir[x][Identity] = id => x \in at
      BY <3>2 DEF at, InSearch
    <3> QED BY <2>1, <2>2, <3>1, <3>3
  <2>9. PurposeTrue' /\ SidesTrue' /\ ItemsTrue'
    BY <1>2, <2>1 DEF IInv, PurposeTrue, SidesTrue, ItemsTrue
  <2> QED BY <1>3, <2>6, <2>7, <2>8, <2>9 DEF IInv
<1> QED BY <1>4, <1>5

\* Each of these parts stays while what it is about is unchanged.
LEMMA FileSame == ASSUME FileTrue, UNCHANGED <<file, was>> PROVE FileTrue'
  BY DEF FileTrue, Captured
LEMMA WasSame == ASSUME WasStays, UNCHANGED <<phase, purpose, was, dir, got, req>> PROVE WasStays'
  BY DEF WasStays, Captured
LEMMA ReadSame == ASSUME ReadTrue, UNCHANGED <<phase, still, dir, got, req>> PROVE ReadTrue'
  BY DEF ReadTrue, Captured
LEMMA SidesSame ==
  ASSUME SidesTrue, UNCHANGED <<there, file, phase, purpose, req, schema, got, result>>
  PROVE  SidesTrue'
<1>1. InSearch(there, req, HiddenThere)' = InSearch(there, req, HiddenThere)
  BY DEF InSearch
<1>2. Snapshot(req, schema, got)' = Snapshot(req, schema, got)
  BY DEF Snapshot
<1>3. \A x : Captured(there[x], req, HiddenThere)' = Captured(there[x], req, HiddenThere)
  BY DEF Captured
<1> QED BY <1>1, <1>2, <1>3 DEF SidesTrue

\* A read that is cut off has what it read.
LEMMA CutOffKeeps == ASSUME IInv, CutOff PROVE IInv'
<1>1. /\ phase = "reading" /\ truncated' = TRUE
      /\ UNCHANGED <<dir, there, file, phase, purpose, req, schema, got, result, ghosts>>
  BY DEF CutOff
<1>2. WasStays' /\ ReadTrue' /\ FileTrue'
  BY <1>1, FileSame, WasSame, ReadSame DEF IInv, ghosts
<1>3. NothingMissed' /\ PurposeTrue' /\ SidesTrue' /\ ItemsTrue'
  BY <1>1 DEF IInv, NothingMissed, PurposeTrue, SidesTrue, ItemsTrue
<1> QED BY <1>2, <1>3 DEF IInv

\* A capture that was not cut off becomes the file.
LEMMA CapturesKeeps == ASSUME IInv, Captures PROVE IInv'
<1>1. /\ phase = "reading" /\ left = {} /\ purpose = "capture" /\ phase' = "idle"
      /\ file' = (IF truncated \/ (got = NoEntries /\ ~BaseExists(dir, req)) THEN None
                  ELSE Snapshot(req, schema, got))
      /\ UNCHANGED <<dir, there, capture, result, bounds, ghosts>>
  BY DEF Captures
<1>2. FileTrue'
  <2> SUFFICES ASSUME file' # None, NEW x \in DOMAIN was
               PROVE  /\ x \in DOMAIN file'.entries => file'.entries[x] = Captured(was[x], file', Hidden)
                      /\ file'.filter = NoFilter /\ IsUnder(x, file'.base) => x \in DOMAIN file'.entries
    <3>1. was' = was
      BY <1>1 DEF ghosts
    <3> QED BY <3>1 DEF FileTrue, Captured
  <2>1. file' = Snapshot(req, schema, got) /\ ~truncated
    BY <1>1
  <2>2. /\ file'.entries = got /\ file'.filter = req.filter /\ file'.base = req.base
        /\ file'.operational = req.operational
    BY <2>1 DEF Snapshot
  <2>3. x \in DOMAIN got => got[x] = Captured(was[x], req, Hidden)
    BY <1>1 DEF IInv, WasStays
  <2>4. Captured(was[x], req, Hidden) = Captured(was[x], file', Hidden)
    BY <2>2 DEF Captured
  <2>5. req.filter = NoFilter /\ IsUnder(x, req.base) => x \in DOMAIN got
    BY <1>1, <2>1 DEF IInv, NothingMissed
  <2> QED BY <2>2, <2>3, <2>4, <2>5
<1>3. WasStays' /\ NothingMissed' /\ ReadTrue' /\ PurposeTrue' /\ SidesTrue' /\ ItemsTrue'
  BY <1>1 DEF WasStays, NothingMissed, ReadTrue, PurposeTrue, SidesTrue, ItemsTrue
<1> QED BY <1>2, <1>3 DEF IInv

\* The comparison is made of what was read and of the file, or of what the other directory holds.
LEMMA CompareKeeps == ASSUME IInv, Compare PROVE IInv'
<1>1. /\ phase = "reading" /\ purpose # "capture" /\ phase' = "compared"
      /\ UNCHANGED <<dir, there, file, capture, others, rounds, ghosts>>
      /\ \/ purpose = "file" /\ Compares(Document)
         \/ /\ purpose = "reference"
            /\ \E returned \in SUBSET InSearch(there, req, HiddenThere), known \in BOOLEAN :
                 Compares(ReadThere(returned, known))
  BY DEF Compare
<1>2. PICK target :
        /\ Compares(target)
        /\ purpose = "file" => target = Document
        /\ purpose = "reference" =>
             \E returned \in SUBSET InSearch(there, req, HiddenThere), known \in BOOLEAN :
               target = ReadThere(returned, known)
        /\ purpose \in {"file", "reference"}
  BY <1>1
<1>3. PICK probed : result' = Result(Live, target, probed)
  BY <1>2 DEF Compares
<1>4. SidesTrue' /\ ItemsTrue'
  BY <1>1, <1>2, <1>3, ComparedIs DEF IInv
<1>5. FileTrue'
  BY <1>1, FileSame DEF IInv, ghosts
<1>6. ReadTrue'
  <2>1. UNCHANGED <<still, dir, got, req>>
    BY <1>1 DEF ghosts, capture
  <2> QED BY <1>1, <2>1 DEF IInv, ReadTrue, Captured
<1>7. WasStays' /\ NothingMissed' /\ PurposeTrue'
  BY <1>1, <1>2 DEF IInv, WasStays, NothingMissed, PurposeTrue, capture
<1> QED BY <1>4, <1>5, <1>6, <1>7 DEF IInv

\* What was compared is put aside.
LEMMA RestoreKeeps == ASSUME IInv, Restore PROVE IInv'
<1>1. phase' = "idle" /\ UNCHANGED <<file, was, capture>>
  BY DEF Restore
<1>2. FileTrue'
  BY <1>1, FileSame DEF IInv
<1> QED BY <1>1, <1>2 DEF IInv, WasStays, NothingMissed, ReadTrue, PurposeTrue, SidesTrue, ItemsTrue

\* Somebody writes: what it changed is no longer of was, and what was read is no longer
\* claimed to be what is there.
LEMMA OtherKeeps == ASSUME IInv, Other PROVE IInv'
<1> DEFINE kept == {x \in DOMAIN was \cap DOMAIN dir' : dir'[x] = was[x]}
<1>1. /\ still' = FALSE
      /\ was' = (IF phase = "reading" /\ purpose = "capture" THEN [x \in kept |-> was[x]] ELSE was)
      /\ UNCHANGED <<there, file, phase, capture, result>>
  BY DEF Other
<1>2. /\ \A x \in DOMAIN was' : x \in DOMAIN was /\ was'[x] = was[x]
      /\ phase = "reading" /\ purpose = "capture" =>
           \A x \in DOMAIN was' : x \in DOMAIN dir' /\ dir'[x] = was'[x]
  BY <1>1
<1> HIDE DEF kept
<1>3. WasStays'
  <2>1. \A x : Captured(was[x], req, Hidden)' = Captured(was'[x], req, Hidden)
    BY <1>1 DEF Captured, capture
  <2> QED BY <1>1, <1>2, <2>1 DEF IInv, WasStays, capture
<1>4. NothingMissed'
  <2> SUFFICES ASSUME phase = "reading", purpose = "capture", ~truncated, req.filter = NoFilter,
                      NEW x \in DOMAIN was', IsUnder(x, req.base)
               PROVE x \in DOMAIN got \/ dir'[x][Identity] \in left
    BY <1>1 DEF NothingMissed, capture
  <2>1. x \in DOMAIN was /\ dir'[x] = was[x]
    BY <1>2
  <2>2. dir[x] = was[x]
    BY <2>1 DEF IInv, WasStays
  <2> QED BY <2>1, <2>2 DEF IInv, NothingMissed
<1>5. FileTrue'
  <2>1. \A x : Captured(was[x], file, Hidden)' = Captured(was'[x], file, Hidden)
    BY <1>1 DEF Captured
  <2> QED BY <1>1, <1>2, <2>1 DEF IInv, FileTrue
<1>6. ReadTrue' /\ PurposeTrue'
  BY <1>1 DEF IInv, ReadTrue, PurposeTrue, capture
<1>7. SidesTrue'
  BY <1>1, SidesSame DEF IInv, capture
<1>8. ItemsTrue'
  <2> SUFFICES ASSUME phase = "compared", NEW i \in result.items
               PROVE  /\ i.kind \in {"added", "removed", "unknown", "modified", "renamed"}
                      /\ i.kind = "removed" => Removal(i)'
                      /\ i.kind \in {"modified", "renamed"} => Pairing(i)'
    BY <1>1 DEF ItemsTrue
  <2>1. /\ i.kind \in {"added", "removed", "unknown", "modified", "renamed"}
        /\ i.kind = "removed" => Removal(i)
        /\ i.kind \in {"modified", "renamed"} => Pairing(i)
    BY DEF IInv, ItemsTrue
  <2>2. Removal(i) => Removal(i)'
    BY <1>1 DEF Removal
  <2>3. Pairing(i) => Pairing(i)'
    BY <1>1 DEF Pairing, Told, capture
  <2> QED BY <2>1, <2>2, <2>3
<1> QED BY <1>3, <1>4, <1>5, <1>6, <1>7, <1>8 DEF IInv

\* Nothing happens.
LEMMA StutterKeeps == ASSUME IInv, UNCHANGED vars PROVE IInv'
<1>1. UNCHANGED <<dir, there, file, phase, purpose, req, schema, left, got, truncated, result, was, still>>
  BY DEF vars, capture, ghosts
<1>2. WasStays' /\ ReadTrue' /\ FileTrue'
  BY <1>1, FileSame, WasSame, ReadSame DEF IInv
<1>3. NothingMissed' /\ PurposeTrue'
  BY <1>1 DEF IInv, NothingMissed, PurposeTrue
<1>4. SidesTrue'
  BY <1>1, SidesSame DEF IInv
<1>5. ItemsTrue'
  BY <1>1 DEF IInv, ItemsTrue, Removal, Pairing, Told
<1> QED BY <1>2, <1>3, <1>4, <1>5 DEF IInv

\* The invariant of every reachable state.
THEOREM InvariantHolds == Spec => []IInv
<1>1. Init => IInv
  BY InitKeeps
<1>2. IInv /\ [Next]_vars => IInv'
  BY CaptureSnapshotKeeps, DiffStatesKeeps, ReadEntryKeeps, CutOffKeeps, CapturesKeeps, CompareKeeps,
     RestoreKeeps, OtherKeeps, StutterKeeps DEF Next
<1> QED BY <1>1, <1>2, PTL DEF Spec

-----------------------------------------------------------------------------
(* What a comparison proposes *)

\* The invariant makes a proposed deletion one of an absence.
LEMMA DeletionsAbsent == ASSUME IInv PROVE DeletesOnlyTheAbsent
<1> SUFFICES ASSUME phase = "compared", Unfiltered, NEW x \in Deletions, x \in DOMAIN Truth
             PROVE FALSE
  BY DEF DeletesOnlyTheAbsent
<1>1. PICK i \in Proposed(result) : i.kind = "removed" /\ x = i.from
  BY DEF Deletions
<1>2. i \in result.items /\ result.complete
  BY <1>1 DEF Proposed, Derive
<1>3. Removal(i)
  BY <1>1, <1>2 DEF IInv, ItemsTrue
<1>4. purpose \in {"file", "reference"}
  BY DEF IInv, PurposeTrue
<1>5. CASE purpose = "file"
  <2>1. file # None /\ result.target = file /\ x \in DOMAIN was
    BY <1>5 DEF IInv, PurposeTrue, SidesTrue, Truth
  <2> QED BY <1>1, <1>3, <2>1 DEF IInv, FileTrue, Unfiltered, Removal
<1>6. CASE purpose = "reference"
  <2>1. x \in DOMAIN there
    BY <1>6 DEF Truth
  <2>2. /\ result.target.base = req.base /\ result.target.filter = req.filter
        /\ DOMAIN result.target.entries = InSearch(there, req, HiddenThere)
    BY <1>2, <1>6 DEF IInv, SidesTrue
  <2>3. x \in InSearch(there, req, HiddenThere)
    BY <1>1, <1>3, <2>1, <2>2 DEF Removal, Unfiltered, InSearch
  <2> QED BY <1>1, <1>3, <2>2, <2>3 DEF Removal
<1> QED BY <1>4, <1>5, <1>6

\* The modification a difference is offered as, if it is offered as one.
LEMMA DerivedMods ==
  ASSUME NEW r, NEW i, i.kind \in {"modified", "renamed"}, Derive(r, i) # <<>>,
         Last(Derive(r, i)).type = "modify"
  PROVE  \E skip : Last(Derive(r, i)).mods = modsFor(r, i, skip)
<1>1. CASE i.kind = "modified"
  <2> DEFINE ms == modsFor(r, i, {})
  <2>1. Derive(r, i) = IF ms # <<>> THEN <<Modify(i.from, ms)>> ELSE <<>>
    BY <1>1 DEF Derive
  <2> HIDE DEF ms
  <2>2. Derive(r, i) = <<Modify(i.from, ms)>>
    BY <2>1
  <2>3. Last(Derive(r, i)) = Modify(i.from, ms)
    BY <2>2 DEF Last
  <2>4. Last(Derive(r, i)).mods = ms
    BY <2>3 DEF Modify
  <2> QED BY <2>4 DEF ms
<1>2. CASE i.kind = "renamed"
  <2> DEFINE ms == modsFor(r, i, {NamingAttr})
             d == Modify(i.to, ms)
             e == Rename(i.from, i.to, Key[Last(i.from)] \notin Keys(r.target.entries[i.to].attrs[NamingAttr]))
  <2>1. Derive(r, i) = <<e>> \o (IF ms # <<>> THEN <<d>> ELSE <<>>)
    BY <1>2 DEF Derive, deriveRename
  <2>2. e.type = "modrdn" /\ d.mods = ms
    BY DEF Rename, Modify
  <2> HIDE DEF ms, d, e
  <2>3. ms = <<>> => Last(Derive(r, i)) = e
    BY <2>1 DEF Last
  <2>4. ms # <<>> => Last(Derive(r, i)) = d
    <3> SUFFICES ASSUME ms # <<>> PROVE Last(Derive(r, i)) = d
      OBVIOUS
    <3>1. Derive(r, i) = <<e>> \o <<d>>
      BY <2>1
    <3>2. Len(<<e>> \o <<d>>) = 2 /\ (<<e>> \o <<d>>)[2] = d
      OBVIOUS
    <3> QED BY <3>1, <3>2 DEF Last
  <2>5. Last(Derive(r, i)).mods = ms
    BY <2>2, <2>3, <2>4
  <2> QED BY <2>5 DEF ms
<1> QED BY <1>1, <1>2

\* What was captured of an attribute that is not sensitive.
LEMMA CapturedIs ==
  ASSUME NEW e, NEW q, NEW hidden, NEW a \in Attrs \ Sensitive
  PROVE  /\ Captured(e, q, hidden).attrs[a] =
              IF a \in hidden \/ (a \in ServerOwned /\ ~q.operational) THEN {} ELSE e[a]
         /\ Holds(Captured(e, q, hidden), a) <=> Captured(e, q, hidden).attrs[a] # {}
  BY DEF Captured, Holds

\* What one side lacks of the other's values is among them.
LEMMA LackingIs ==
  ASSUME NEW S, NEW T, NEW byRule
  PROVE  Lacking(S, T, byRule) \subseteq S \ T
  BY DEF Lacking, Without, Keys

\* The invariant makes a proposed modification one of a difference.
LEMMA DifferencesOnly == ASSUME IInv PROVE ProposesOnlyDifferences
<1> SUFFICES ASSUME phase = "compared", still,
                    NEW i \in Proposed(result), i.kind \in {"modified", "renamed"}, i.to \in DOMAIN Truth,
                    Last(Derive(result, i)).type = "modify",
                    NEW k \in DOMAIN Last(Derive(result, i)).mods
             PROVE  LET m == Last(Derive(result, i)).mods[k]
                        here == dir[i.from][m.attr]
                        target == Truth[i.to][m.attr]
                    IN \/ m.op = "add" /\ m.vals \subseteq target \ here
                       \/ m.op = "delete" /\ m.vals # {} /\ m.vals \subseteq here \ target
                       \/ /\ m.op = "delete" /\ m.vals = {}
                          /\ target = {} \/ (m.attr \in ServerOwned /\ ~result.source.schema)
  BY DEF ProposesOnlyDifferences
<1> DEFINE m == Last(Derive(result, i)).mods[k]
           a == m.attr
           s == result.source
           t == result.target
           se == s.entries[i.from]
           te == t.entries[i.to]
           S == se.attrs[a]
           T == te.attrs[a]
           here == dir[i.from][a]
           target == Truth[i.to][a]
           b == ByRule(s, t)
<1>1. i \in result.items /\ Derive(result, i) # <<>>
  BY DEF Proposed
<1>2. Pairing(i)
  BY <1>1 DEF IInv, ItemsTrue
<1>3. /\ i.from \in DOMAIN s.entries /\ i.to \in DOMAIN t.entries
      /\ i.changed = Changed(s, t, se, te) /\ i.changed \subseteq Attrs
  BY <1>2 DEF Pairing, Changed
<1>4. PICK skip : Last(Derive(result, i)).mods = modsFor(result, i, skip)
  BY <1>1, DerivedMods
<1>5. /\ a \in i.changed \ (i.unknown \cup Sensitive)
      /\ ~isOperational(s, a)
      /\ ModOf(result, i, a, m)
  BY <1>3, <1>4, modsForIs
<1>6. a \in Attrs \ Sensitive
  BY <1>3, <1>5
<1>7. /\ ~Holds(se, a) /\ Holds(te, a) => here = {}
      /\ Holds(se, a) /\ ~Holds(te, a) /\ purpose = "reference" => there[i.to][a] = {}
  BY <1>2, <1>5 DEF Pairing, Told
<1>8. s = Snapshot(req, schema, got) /\ se = Captured(dir[i.from], req, Hidden)
  <2>1. s = Snapshot(req, schema, got)
    BY DEF IInv, SidesTrue
  <2>2. s.entries = got
    BY <2>1 DEF Snapshot
  <2> QED BY <1>3, <2>1, <2>2 DEF IInv, ReadTrue
<1>9. S = (IF a \in Hidden \/ (a \in ServerOwned /\ ~req.operational) THEN {} ELSE here)
      /\ (Holds(se, a) <=> S # {})
  BY <1>6, <1>8, CapturedIs
<1>10. /\ purpose = "file" => te = Captured(Truth[i.to], file, Hidden)
       /\ purpose = "reference" => te = Captured(Truth[i.to], req, HiddenThere)
  <2>1. purpose = "file" => file # None /\ t = file /\ Truth = was
    BY DEF IInv, PurposeTrue, SidesTrue, Truth
  <2>2. purpose = "reference" => Truth = there /\ te = Captured(there[i.to], req, HiddenThere)
    BY <1>3 DEF IInv, SidesTrue, Truth
  <2>3. purpose = "file" => te = Captured(was[i.to], file, Hidden)
    BY <1>3, <2>1 DEF IInv, FileTrue
  <2> QED BY <2>1, <2>2, <2>3
<1>11. /\ purpose = "file" => T = (IF a \in Hidden \/ (a \in ServerOwned /\ ~file.operational) THEN {} ELSE target)
       /\ T # {} => T = target
       /\ Holds(te, a) <=> T # {}
       /\ purpose \in {"file", "reference"}
  <2>1. purpose \in {"file", "reference"}
    BY DEF IInv, PurposeTrue
  <2>2. ASSUME purpose = "file"
        PROVE  /\ T = (IF a \in Hidden \/ (a \in ServerOwned /\ ~file.operational) THEN {} ELSE target)
               /\ Holds(te, a) <=> T # {}
    <3> DEFINE C == Captured(Truth[i.to], file, Hidden)
    <3>1. /\ C.attrs[a] = (IF a \in Hidden \/ (a \in ServerOwned /\ ~file.operational) THEN {} ELSE target)
          /\ Holds(C, a) <=> C.attrs[a] # {}
      BY <1>6, CapturedIs
    <3>2. te = C
      BY <1>10, <2>2
    <3> HIDE DEF C, te, target
    <3> QED BY <3>1, <3>2
  <2>3. ASSUME purpose = "reference"
        PROVE  /\ T = (IF a \in HiddenThere \/ (a \in ServerOwned /\ ~req.operational) THEN {} ELSE target)
               /\ Holds(te, a) <=> T # {}
    <3> DEFINE C == Captured(Truth[i.to], req, HiddenThere)
    <3>1. /\ C.attrs[a] = (IF a \in HiddenThere \/ (a \in ServerOwned /\ ~req.operational) THEN {} ELSE target)
          /\ Holds(C, a) <=> C.attrs[a] # {}
      BY <1>6, CapturedIs
    <3>2. te = C
      BY <1>10, <2>3
    <3> HIDE DEF C, te, target
    <3> QED BY <3>1, <3>2
  <2> HIDE DEF T, te, target
  <2> QED BY <2>1, <2>2, <2>3
<1>12. Lacking(S, T, b) # {} \/ Lacking(T, S, b) # {}
  BY <1>3, <1>5, <1>6 DEF Changed
<1>13. \A P, Q : Lacking(P, Q, b) \subseteq P \ Q
  BY LackingIs
<1>14. S # {} /\ a \in ServerOwned => ~s.schema
  BY <1>3, <1>5, <1>9 DEF isOperational
<1>15. purpose = "reference" => target = there[i.to][a]
  BY DEF Truth
<1>16. \/ T = {} /\ m.op = "delete" /\ m.vals = {}
       \/ T # {} /\ S = {} /\ m.op = "add" /\ m.vals = T
       \/ /\ T # {} /\ S # {}
          /\ \/ m.op = "delete" /\ m.vals = Lacking(S, T, b) /\ m.vals # {}
             \/ m.op = "add" /\ m.vals = Lacking(T, S, b)
  BY <1>5 DEF ModOf
<1> HIDE DEF m, s, t, a, se, te, S, T, here, target, b
<1>17. \/ m.op = "add" /\ m.vals \subseteq target \ here
       \/ m.op = "delete" /\ m.vals # {} /\ m.vals \subseteq here \ target
       \/ /\ m.op = "delete" /\ m.vals = {}
          /\ target = {} \/ (a \in ServerOwned /\ ~s.schema)
  <2>1. CASE T = {}
    <3>1. S # {} /\ S = here
      BY <2>1, <1>9, <1>12, <1>13
    <3>2. a \notin Hidden
      BY <3>1, <1>9
    <3>3. target = {} \/ (a \in ServerOwned /\ ~s.schema)
      BY <2>1, <3>1, <3>2, <1>7, <1>9, <1>11, <1>14, <1>15
    <3> QED BY <2>1, <3>3, <1>16
  <2>2. CASE T # {} /\ S = {}
    <3>1. here = {} /\ T = target
      BY <2>2, <1>7, <1>9, <1>11
    <3> QED BY <2>2, <3>1, <1>16
  <2>3. CASE T # {} /\ S # {}
    <3>1. S = here /\ T = target
      BY <2>3, <1>9, <1>11
    <3> QED BY <2>3, <3>1, <1>13, <1>16
  <2> QED BY <2>1, <2>2, <2>3
<1> QED BY <1>17 DEF m, s, a, here, target

\* Deletion is never inferred from what a capture or a comparison could not see.
THEOREM DeletesHold == Spec => []DeletesOnlyTheAbsent
<1>1. IInv => DeletesOnlyTheAbsent
  BY DeletionsAbsent
<1> QED BY <1>1, InvariantHolds, PTL

\* What a modification would write is what differs.
THEOREM DifferencesHold == Spec => []ProposesOnlyDifferences
<1>1. IInv => ProposesOnlyDifferences
  BY DifferencesOnly
<1> QED BY <1>1, InvariantHolds, PTL

-----------------------------------------------------------------------------
(* What is counted below an entry *)

\* The entries at a name and below it are one more than those below it.
LEMMA SubtreeCounted ==
  ASSUME NEW d, Tree(d), NEW x \in DOMAIN d
  PROVE  Cardinality(Subtree(d, x)) = Below(d, x) + 1 /\ Below(d, x) \in Nat
<1> DEFINE B == {y \in DOMAIN d : IsStrictPrefix(x, y)}
<1>1. IsFiniteSet(DOMAIN d) /\ x \in DNs
  BY TreeIs
<1>2. IsFiniteSet(B) /\ Below(d, x) = Cardinality(B)
  BY <1>1, FS_Subset DEF Below
<1>3. \A y : IsStrictPrefix(x, y) <=> IsUnder(y, x) /\ x # y
  BY DEF IsUnder, IsStrictPrefix
<1>4. IsUnder(x, x)
  BY <1>1, UnderItself
<1>5. Subtree(d, x) = B \cup {x} /\ x \notin B
  BY <1>3, <1>4 DEF Subtree
<1> HIDE DEF B
<1>6. Cardinality(B \cup {x}) = Cardinality(B) + 1 /\ Cardinality(B) \in Nat
  BY <1>2, <1>5, FS_AddElement, FS_CardinalityType
<1> QED BY <1>2, <1>5, <1>6

-----------------------------------------------------------------------------
(* What is read of an entry, and what is expected of it *)

\* An entry differs from what is expected of it as what was read of it does, if all that the
\* expectation speaks about was.
LEMMA DiffersRead ==
  ASSUME NEW d, WellFormed(d), NEW x \in DOMAIN d, NEW ex, ex # NoExpect, DOMAIN ex.attrs \subseteq Attrs,
         NEW names, ExpectReads(ex) \subseteq names
  PROVE  Differs(ex, Read(d, x, names)) <=> Differs(ex, d[x])
<1> DEFINE e == Read(d, x, names)
<1>1. \A a \in Attrs : e[a] = IF a \in names THEN d[x][a] ELSE {}
  BY DEF Read
<1> HIDE DEF e
<1>2. DOMAIN ex.attrs \subseteq names /\ (ex.exhaustive => UserAttrs \subseteq names)
  BY DEF ExpectReads
<1>3. \A a \in DOMAIN ex.attrs : e[a] = d[x][a]
  BY <1>1, <1>2
<1>4. Comparable \subseteq Attrs /\ Comparable \subseteq UserAttrs
  BY DEF Comparable, UserAttrs
<1>5. ex.exhaustive => \A a \in Comparable : e[a] = d[x][a]
  BY <1>1, <1>2, <1>4
<1>6. Differs(ex, e) <=> Differs(ex, d[x])
  BY <1>3, <1>5 DEF Differs
<1> QED BY <1>6 DEF e

\* An entry that is there is read as an entry, never as none.
LEMMA EntryRead ==
  ASSUME NEW d, WellFormed(d), NEW x, NEW names
  PROVE  /\ Read(d, x, names) = NoEntry <=> x \notin DOMAIN d
         /\ Entry(d, x) = NoEntry <=> x \notin DOMAIN d
         /\ x \in DOMAIN d => Entry(d, x) = d[x] /\ d[x] \in Entries
<1>1. x \in DOMAIN d => d[x] \in [Attrs -> SUBSET Values]
  BY DEF WellFormed, Entries
<1>2. x \in DOMAIN d => [a \in Attrs |-> IF a \in names THEN d[x][a] ELSE {}] \in [Attrs -> SUBSET Values]
  BY <1>1
<1>3. NoEntry \notin [Attrs -> SUBSET Values]
  BY DirectoryConstants
<1> QED BY <1>1, <1>2, <1>3 DEF Read, Entry, Entries

\* An action is one of the record's own kind, or none.
Fits(action, c) ==
  /\ action \in {"add", "modify", "delete", "rename", "setpassword", "unchanged", "conflict"}
  /\ action = "add" => c.type = "add"
  /\ action = "modify" => c.type = "modify"
  /\ action = "delete" => c.type = "delete"
  /\ action = "rename" => c.type = "modrdn"
  /\ action = "setpassword" => c.type = "setpassword"

\* An item that does something: a valid change under an action of its kind, counting what it moves.
Doing(item) ==
  /\ ~AppliesNothing(item.action) /\ item.record \in ValidChanges /\ Fits(item.action, item.record)
  /\ item.action = "rename" => item.below \in Nat

\* What the expectation of a change vouches for: the entry is, where it matters to the change, as read.
AsRead(c, live, read) ==
  /\ c.type = "modify" => \A a \in Named(c) : sameByRule(a, live[a], read[a])
  /\ c.type = "delete" => \A a \in Comparable : sameByRule(a, live[a], read[a])
  /\ c.type = "modrdn" => sameByRule(UniqueId, live[UniqueId], read[UniqueId])

LEMMA ReconcileValid ==
  ASSUME NEW c \in ValidChanges, c.type = "add", NEW live, Reconcile(c, live) # <<>>
  PROVE  Modify(c.dn, Reconcile(c, live)) \in ValidChanges
<1> DEFINE A == {b \in Named(c) \ ServerOwned : live[b] # c.attrs[b]}
           M == {Mod("replace", a, c.attrs[a]) : a \in A}
<1>1. c.attrs \in [Attrs -> SUBSET Values] /\ c.dn \in DNs /\ c.dn # <<>>
  BY Kinds DEF Entries
<1>2. A \subseteq Attrs /\ IsFiniteSet(A)
  <2>1. A \subseteq Attrs
    BY DEF Named
  <2> QED BY <2>1, SavedPlanConstants, FS_Subset
<1>3. Reconcile(c, live) = SetToSeq(M)
  BY DEF Reconcile
<1> HIDE DEF A
<1>4. IsFiniteSet(M)
  <2> DEFINE f == [a \in A |-> Mod("replace", a, c.attrs[a])]
  <2>1. f \in Surjection(A, M)
    BY DEF Surjection
  <2> QED BY <1>2, <2>1, FS_Surjection
<1>5. M \subseteq Wellformed
  BY <1>1, <1>2 DEF Mod, Mods, Wellformed
<1> HIDE DEF M
<1>6. Cardinality(M) \in Nat /\ SetToSeq(M) \in [1..Cardinality(M) -> Wellformed]
  BY <1>4, <1>5, SetToSeqIs
<1>7. Reconcile(c, live) \in Seq(Wellformed)
  BY <1>3, <1>6, IsList
<1> QED BY <1>1, <1>7, ModifyValid

LEMMA ActionFits ==
  ASSUME NEW d, NEW c \in ValidChanges, NEW live, NEW provided
  PROVE  Fits(Action(d, c, live, provided), c)
<1>1. c.type \in {"add", "modify", "delete", "modrdn", "setpassword"}
  BY Kinds
<1>2. planModify(c, live) \in {"conflict", "unchanged", "modify"}
  BY DEF planModify
<1>3. planDelete(d, c, live) \in {"conflict", "unchanged", "delete"}
  BY DEF planDelete
<1>4. planRename(d, c, live, provided) \in {"conflict", "rename"}
  BY DEF planRename
<1>5. CASE c.type = "add"
  BY <1>5 DEF Action, Fits
<1>6. CASE c.type = "modify"
  BY <1>6, <1>2 DEF Action, Fits
<1>7. CASE c.type = "delete"
  BY <1>7, <1>3 DEF Action, Fits
<1>8. CASE c.type = "modrdn"
  BY <1>8, <1>4 DEF Action, Fits
<1>9. CASE c.type = "setpassword"
  BY <1>9 DEF Action, Fits
<1> QED BY <1>1, <1>5, <1>6, <1>7, <1>8, <1>9

\* The plan of a change as it is written: its action, and what there is when that is to do something.
PlannedAs(item, d, c, ex, provided) ==
  /\ item.record = c /\ Fits(item.action, c)
  /\ item.membership = membershipChanges(item.action, c, Entry(d, c.dn))
  /\ item.action = "rename" => item.below = Below(d, c.dn)
  /\ ~AppliesNothing(item.action) =>
       LET live == Read(d, c.dn, Named(c) \cup ExpectReads(ex))
       IN /\ item.action = Action(d, c, live, provided)
          /\ ~ (ex # NoExpect /\ live # NoEntry /\ Differs(ex, live))

LEMMA ItemIs ==
  ASSUME NEW d, NEW c \in ValidChanges, NEW ex, NEW desired, NEW provided,
         NEW item, item = planItem(d, c, ex, desired, provided),
         ~ (desired /\ Entry(d, c.dn) # NoEntry)
  PROVE  PlannedAs(item, d, c, ex, provided)
<1> DEFINE live == Read(d, c.dn, Named(c) \cup ExpectReads(ex))
           entry == Entry(d, c.dn)
           found == classify(d, c, ex, provided)
           action == IF entry # NoEntry /\ subordinatesDiffer(d, c, ex) THEN "conflict" ELSE found.action
<1>1. item = ItemOf(action, c, found.token, entry, IF action = "rename" THEN Below(d, c.dn) ELSE 0)
  BY DEF planItem
<1>2. found.action = IF ex # NoExpect /\ live # NoEntry /\ Differs(ex, live)
                     THEN "conflict" ELSE Action(d, c, live, provided)
  BY DEF classify
<1>3. Fits(Action(d, c, live, provided), c)
  BY ActionFits
<1> HIDE DEF live, entry, found
<1>4. item.action = action /\ item.record = c /\ item.membership = membershipChanges(action, c, entry)
      /\ item.below = IF action = "rename" THEN Below(d, c.dn) ELSE 0
  BY <1>1 DEF ItemOf
<1>5. Fits("conflict", c)
  BY DEF Fits
<1>6. Fits(item.action, c)
  BY <1>2, <1>3, <1>4, <1>5
<1>7. ~AppliesNothing(item.action) => item.action = Action(d, c, live, provided)
                                      /\ ~ (ex # NoExpect /\ live # NoEntry /\ Differs(ex, live))
  BY <1>2, <1>4 DEF AppliesNothing
<1> QED BY <1>4, <1>6, <1>7 DEF live, entry, PlannedAs

\* What is shown to do something is a valid change.
LEMMA ShownItem ==
  ASSUME NEW d, Tree(d), NEW c \in ValidChanges, NEW desired, desired => c.type = "add", NEW provided,
         NEW item, item = planItem(d, c, NoExpect, desired, provided), ~AppliesNothing(item.action)
  PROVE  Doing(item)
<1>1. CASE desired /\ Entry(d, c.dn) # NoEntry
  <2> DEFINE mods == Reconcile(c, Entry(d, c.dn))
             action == IF mods = <<>> THEN "unchanged" ELSE "modify"
  <2>1. item = ItemOf(action, Modify(c.dn, mods), NoToken, Entry(d, c.dn), 0)
    BY <1>1 DEF planItem
  <2> HIDE DEF mods
  <2>2. item.action = action /\ item.record = Modify(c.dn, mods)
    BY <2>1 DEF ItemOf
  <2>3. mods # <<>> /\ item.action = "modify"
    BY <2>2 DEF AppliesNothing
  <2>4. Modify(c.dn, mods) \in ValidChanges
    BY <1>1, <2>3, ReconcileValid DEF mods
  <2>5. item.record.type = "modify"
    BY <2>2 DEF Modify
  <2> QED BY <2>2, <2>3, <2>4, <2>5 DEF Doing, Fits
<1>2. CASE ~ (desired /\ Entry(d, c.dn) # NoEntry)
  <2>1. /\ item.record = c /\ Fits(item.action, c)
        /\ item.action = "rename" => item.below = Below(d, c.dn)
    <3>1. PlannedAs(item, d, c, NoExpect, provided)
      BY <1>2, ItemIs
    <3> QED BY <3>1 DEF PlannedAs
  <2>2. Below(d, c.dn) \in Nat
    <3>1. IsFiniteSet({y \in DOMAIN d : IsStrictPrefix(c.dn, y)})
      BY TreeIs, FS_Subset
    <3> QED BY <3>1, FS_CardinalityType DEF Below
  <2> QED BY <2>1, <2>2 DEF Doing
<1> QED BY <1>1, <1>2

LEMMA SameKeys ==
  ASSUME NEW a, NEW S, NEW T, sameByRule(a, S, T)
  PROVE  Keys(S) = Keys(T)
  BY DEF sameByRule, SameByRule

\* What a saved change expects is what was read of its entry, and vouches for where it matters.
LEMMA ExpectedIs ==
  ASSUME NEW told, Doing(told), NEW read, read \in Entries \cup {NoEntry}, Expectable(told.record, read),
         told.action # "add"
  PROVE  LET ex == Expectation(told, read)
         IN /\ told.record.type \in {"modify", "delete", "modrdn"} /\ read \in Entries
            /\ ex # NoExpect /\ DOMAIN ex.attrs \subseteq Attrs
            /\ ex.below = IF told.action = "rename" THEN told.below ELSE Uncounted
            /\ \A live \in Entries : ~Differs(ex, live) => AsRead(told.record, live, read)
<1> DEFINE ex == Expectation(told, read)
           c == told.record
<1>1. /\ c \in ValidChanges /\ Fits(told.action, c) /\ ~AppliesNothing(told.action)
      /\ c.type \in {"add", "modify", "delete", "modrdn", "setpassword"}
  BY Kinds DEF Doing
<1>2. told.action \in {"modify", "delete", "rename"} /\ c.type # "add" /\ c.type # "setpassword"
  BY <1>1 DEF Fits, AppliesNothing, Expectable
<1>3. read \in Entries
  BY <1>2 DEF Expectable
<1>4. read \in [Attrs -> SUBSET Values]
  BY <1>3 DEF Entries
<1>5. Comparable \subseteq Attrs /\ UniqueId \in Attrs /\ NamingAttr \in Attrs
  BY DirectoryConstants, SavedPlanConstants DEF Comparable
<1>6. Named(c) \subseteq Attrs
  BY <1>1, <1>2, ModsOfChange DEF Named
<1>7. ASSUME NEW D \in SUBSET Attrs, NEW all \in BOOLEAN, NEW n \in Nat \cup {Uncounted}
      PROVE  Expect(Only(D, read), all, n) # NoExpect
  <2>1. Only(D, read) \in [D -> SUBSET Values]
    BY <1>4 DEF Only
  <2>2. Only(D, read) \in UNION {[E -> SUBSET Values] : E \in SUBSET Attrs}
    BY <2>1
  <2>3. Expect(Only(D, read), all, n) \in Expectations
    BY <2>2 DEF Expect, Expectations
  <2> QED BY <2>3, SavedPlanConstants
<1>8. CASE told.action = "modify"
  <2>1. c.type = "modify"
    BY <1>1, <1>8 DEF Fits
  <2>2. ex = Expect(Only(Named(c), read), FALSE, Uncounted)
    BY <1>8 DEF Expectation, expectationFor
  <2>3. ex # NoExpect
    BY <1>6, <1>7, <2>2
  <2>4. DOMAIN ex.attrs = Named(c) /\ \A a \in Named(c) : ex.attrs[a] = read[a]
    BY <2>2 DEF Expect, Only
  <2>5. ex.below = Uncounted
    BY <2>2 DEF Expect
  <2>6. \A live \in Entries : ~Differs(ex, live) => AsRead(c, live, read)
    BY <2>1, <2>4 DEF Differs, AsRead
  <2> QED BY <1>2, <1>3, <1>6, <1>8, <2>1, <2>3, <2>4, <2>5, <2>6
<1>9. CASE told.action = "delete"
  <2> DEFINE D == {a \in Comparable : read[a] # {}}
  <2>1. c.type = "delete"
    BY <1>1, <1>9 DEF Fits
  <2>2. ex = Expect(Only(D, read), TRUE, Uncounted)
    BY <1>9 DEF Expectation, expectationForDelete
  <2>3. ex # NoExpect
    BY <1>5, <1>7, <2>2
  <2>4. DOMAIN ex.attrs = D /\ ex.exhaustive /\ \A a \in D : ex.attrs[a] = read[a]
    BY <2>2 DEF Expect, Only
  <2>5. ex.below = Uncounted
    BY <2>2 DEF Expect
  <2>6. ASSUME NEW live \in Entries, ~Differs(ex, live), NEW a \in Comparable
        PROVE  sameByRule(a, live[a], read[a])
    <3>1. CASE a \in D
      BY <2>4, <2>6, <3>1 DEF Differs
    <3>2. CASE a \notin D
      <4>1. live[a] = {} /\ read[a] = {}
        BY <2>4, <2>6, <3>2 DEF Differs
      <4> QED BY <4>1 DEF sameByRule, SameByRule
    <3> QED BY <3>1, <3>2
  <2>7. \A live \in Entries : ~Differs(ex, live) => AsRead(c, live, read)
    BY <2>1, <2>6 DEF AsRead
  <2> QED BY <1>2, <1>3, <1>5, <1>9, <2>1, <2>3, <2>4, <2>5, <2>7
<1>10. CASE told.action = "rename"
  <2> DEFINE D == {UniqueId, NamingAttr}
  <2>1. c.type = "modrdn" /\ told.below \in Nat
    BY <1>1, <1>10 DEF Fits, Doing
  <2>2. ex = Expect(Only(D, read), FALSE, told.below)
    BY <1>10 DEF Expectation, expectationForRename
  <2>3. ex # NoExpect
    BY <1>5, <1>7, <2>1, <2>2
  <2>4. DOMAIN ex.attrs = D /\ \A a \in D : ex.attrs[a] = read[a]
    BY <2>2 DEF Expect, Only
  <2>5. ex.below = told.below
    BY <2>2 DEF Expect
  <2>6. \A live \in Entries : ~Differs(ex, live) => AsRead(c, live, read)
    BY <2>1, <2>4 DEF Differs, AsRead
  <2> QED BY <1>2, <1>3, <1>5, <1>10, <2>1, <2>3, <2>4, <2>5, <2>6
<1> QED BY <1>2, <1>8, <1>9, <1>10

\* What a change does to members does not depend on how they are spelt, as far as it is vouched for.
LEMMA MembersSame ==
  ASSUME NEW c \in ValidChanges, NEW live \in Entries, NEW read \in Entries, AsRead(c, live, read),
         NEW action, Fits(action, c), action \in {"modify", "delete"}
  PROVE  membershipChanges(action, c, live) = membershipChanges(action, c, read)
<1> DEFINE S == live[RefAttr]
           T == read[RefAttr]
<1>1. /\ RefAttr \in Attrs /\ RefAttr \in Comparable
      /\ S \in SUBSET Values /\ T \in SUBSET Values /\ live # NoEntry /\ read # NoEntry
  BY DirectoryConstants, SavedPlanConstants DEF Comparable, Entries
<1>2. CASE action = "delete"
  <2>1. c.type = "delete"
    BY <1>2 DEF Fits
  <2>2. Keys(S) = Keys(T)
    BY <1>1, <2>1, SameKeys DEF AsRead
  <2>3. \A e : e # NoEntry => membershipChanges("delete", c, e) =
                                [gained |-> Keys({}) \ Keys(e[RefAttr]), removed |-> Keys(e[RefAttr]) \ Keys({})]
    BY DEF membershipChanges
  <2> QED BY <1>1, <1>2, <2>2, <2>3
<1>3. CASE action = "modify"
  <2>1. c.type = "modify"
    BY <1>3 DEF Fits
  <2> DEFINE U == applyMods(S, RefAttr, c.mods)
             V == applyMods(T, RefAttr, c.mods)
  <2>2. membershipChanges(action, c, live) = [gained |-> Keys(U) \ Keys(S), removed |-> Keys(S) \ Keys(U)]
    BY <1>1, <1>3 DEF membershipChanges
  <2>3. membershipChanges(action, c, read) = [gained |-> Keys(V) \ Keys(T), removed |-> Keys(T) \ Keys(V)]
    BY <1>1, <1>3 DEF membershipChanges
  <2>4. /\ c.mods \in Seq(Mods) /\ DOMAIN c.mods = 1..Len(c.mods)
        /\ Named(c) = {c.mods[i].attr : i \in DOMAIN c.mods}
    BY <2>1, ModsOfChange
  <2>5. CASE RefAttr \in Named(c)
    <3>1. Keys(S) = Keys(T)
      BY <2>1, <2>5, SameKeys DEF AsRead
    <3>2. Keys(U) = Keys(V)
      BY <1>1, <2>4, <3>1, KeysApplied
    <3> QED BY <2>2, <2>3, <3>1, <3>2
  <2>6. CASE RefAttr \notin Named(c)
    <3>1. \A k \in 1..Len(c.mods) : c.mods[k].attr # RefAttr
      BY <2>4, <2>6
    <3>2. U = S /\ V = T
      BY <2>4, <3>1, ModsElsewhere
    <3> HIDE DEF U, V
    <3> QED BY <2>2, <2>3, <3>2
  <2> QED BY <2>5, <2>6
<1> QED BY <1>2, <1>3

\* What an item says of members is what its change does to those that were read.
FromRead(item, c, read) == ~AppliesNothing(item.action) /\ item.action # "rename" =>
  item.membership = membershipChanges(item.action, c, IF item.action = "add" THEN NoEntry ELSE read)

\* It is so when a saved change is planned again.
LEMMA AgainItem ==
  ASSUME NEW d, WellFormed(d), NEW told, Doing(told), NEW read, read \in Entries \cup {NoEntry},
         Expectable(told.record, read), NEW provided
  PROVE  FromRead(planItem(d, told.record, Expectation(told, read), FALSE, provided), told.record, read)
<1> DEFINE c == told.record
           item == planItem(d, told.record, Expectation(told, read), FALSE, provided)
           ex == Expectation(told, read)
           names == Named(c) \cup ExpectReads(ex)
           live == Read(d, c.dn, names)
<1>1. c \in ValidChanges /\ Fits(told.action, c) /\ ~AppliesNothing(told.action)
  BY DEF Doing
<1>2. PlannedAs(item, d, c, ex, provided)
  BY <1>1, ItemIs
<1> HIDE DEF ex, item
<1> SUFFICES ASSUME ~AppliesNothing(item.action), item.action # "rename"
             PROVE  item.membership = membershipChanges(item.action, c,
                                        IF item.action = "add" THEN NoEntry ELSE read)
  BY DEF FromRead, item, ex
<1>3. /\ Fits(item.action, c) /\ item.action = Action(d, c, live, provided)
      /\ item.membership = membershipChanges(item.action, c, Entry(d, c.dn))
      /\ ~ (ex # NoExpect /\ live # NoEntry /\ Differs(ex, live))
  BY <1>2 DEF PlannedAs
<1>4. /\ live = NoEntry <=> c.dn \notin DOMAIN d
      /\ Entry(d, c.dn) = NoEntry <=> c.dn \notin DOMAIN d
      /\ c.dn \in DOMAIN d => Entry(d, c.dn) = d[c.dn] /\ d[c.dn] \in Entries
  BY EntryRead
<1> HIDE DEF live
<1>5. CASE item.action = "add"
  <2>1. c.type = "add" /\ live = NoEntry
    BY <1>3, <1>5 DEF Fits, Action
  <2> QED BY <1>3, <1>4, <1>5, <2>1
<1>6. CASE item.action # "add"
  <2>1. item.action \in {"modify", "delete", "setpassword"}
    BY <1>3, <1>6 DEF Fits, AppliesNothing
  <2>2. told.action # "add" /\ c.type \in {"modify", "delete", "setpassword"}
    BY <1>1, <1>3, <2>1 DEF Fits
  <2>3. /\ c.type \in {"modify", "delete", "modrdn"} /\ read \in Entries
        /\ ex # NoExpect /\ DOMAIN ex.attrs \subseteq Attrs
        /\ \A e \in Entries : ~Differs(ex, e) => AsRead(c, e, read)
    BY <2>2, ExpectedIs DEF ex
  <2>4. item.action \in {"modify", "delete"}
    BY <1>3, <2>1, <2>3 DEF Fits
  <2>5. c.dn \in DOMAIN d
    <3>1. live # NoEntry
      BY <1>3, <2>2, <2>3, <2>4 DEF Action, planModify, planDelete
    <3> QED BY <3>1, <1>4
  <2>6. ~Differs(ex, d[c.dn])
    <3>1. ~Differs(ex, live)
      BY <1>3, <1>4, <2>3, <2>5
    <3> QED BY <2>3, <2>5, <3>1, DiffersRead DEF live
  <2>7. AsRead(c, d[c.dn], read) /\ Entry(d, c.dn) = d[c.dn] /\ d[c.dn] \in Entries
    BY <1>4, <2>3, <2>5, <2>6
  <2>8. membershipChanges(item.action, c, d[c.dn]) = membershipChanges(item.action, c, read)
    BY <1>1, <1>3, <2>3, <2>4, <2>7, MembersSame
  <2> QED BY <1>3, <1>6, <2>7, <2>8
<1> QED BY <1>5, <1>6

\* An expectation that is still met, of an entry and of how many there are below it.
Upheld(s, told) == s.expect # NoExpect /\ DOMAIN s.expect.attrs \subseteq Attrs =>
  /\ told.entry # NoEntry /\ ~Differs(s.expect, told.entry)
  /\ s.expect.below # Uncounted => told.below = s.expect.below

\* The server's check says so only of a change whose expectation is met.
LEMMA VerifiedUpheld ==
  ASSUME WellFormed(dir), NEW s, NEW token, Verify(s, token) = "current"
  PROVE  Upheld(s, Met(s.change.dn))
<1> DEFINE x == s.change.dn
           ex == s.expect
           names == VerifyReads(s.change, token, ex)
           live == Read(dir, x, names)
           verdict == VerifyRead(s.change, token, ex, live)
<1>1. SUFFICES ASSUME ex # NoExpect, DOMAIN ex.attrs \subseteq Attrs
               PROVE  /\ Entry(dir, x) # NoEntry /\ ~Differs(ex, Entry(dir, x))
                      /\ ex.below # Uncounted => Below(dir, x) = ex.below
  BY DEF Upheld, Met
<1>2. Verify(s, token) = IF verdict = "current" /\ subordinatesDiffer(dir, s.change, ex) THEN "stale" ELSE verdict
  BY DEF Verify
<1> HIDE DEF verdict
<1>3. verdict = "current" /\ ~subordinatesDiffer(dir, s.change, ex)
  BY <1>2
<1>4. live # NoEntry /\ ~Differs(ex, live)
  BY <1>1, <1>3 DEF VerifyRead, verdict
<1>5. /\ live = NoEntry <=> x \notin DOMAIN dir
      /\ Entry(dir, x) = NoEntry <=> x \notin DOMAIN dir
      /\ x \in DOMAIN dir => Entry(dir, x) = dir[x]
  BY EntryRead
<1>6. x \in DOMAIN dir
  BY <1>4, <1>5
<1>7. ExpectReads(ex) \subseteq names
  BY DEF VerifyReads
<1> HIDE DEF names
<1>8. ~Differs(ex, dir[x])
  BY <1>1, <1>4, <1>6, <1>7, DiffersRead
<1>9. ex.below # Uncounted => Below(dir, x) = ex.below
  BY <1>1, <1>3 DEF subordinatesDiffer
<1> QED BY <1>5, <1>6, <1>8, <1>9

-----------------------------------------------------------------------------
(* The inductive invariant *)

\* A list, whatever it is of.
Listed(s) == s \in Seq({s[k] : k \in DOMAIN s})

\* How far the plan has come.
Stages ==
  /\ input \in Inputs /\ Listed(shown) /\ Listed(saving) /\ Listed(base) /\ Listed(again)
  /\ Len(base) = Len(saving) /\ Len(saving) <= Len(ToSave)
  /\ stage \in {"showing", "searching", "reading", "planning", "comparing", "saved", "ended"}
  /\ stage = "showing" => Len(shown) < Len(input.changes)
  /\ stage \in {"showing", "searching"} => saving = <<>>
  /\ stage \in {"showing", "searching", "reading"} => again = <<>>
  /\ stage = "reading" => Len(saving) < Len(ToSave)
  /\ stage = "planning" => Len(again) < Len(saving)
  /\ stage \in {"comparing", "saved"} => Len(again) = Len(saving) /\ 0 < Len(saving)
  /\ saved # None => stage = "saved"

\* What is shown to do something is a valid change, under an action of its kind.
ShownTrue == \A i \in DOMAIN shown : ~AppliesNothing(shown[i].action) => Doing(shown[i])

\* A saved change is the one shown, and expects what was read of its entry.
SavingTrue == \A k \in DOMAIN saving :
  LET told == shown[ToSave[k]] IN
  /\ saving[k] = [change |-> told.record, expect |-> Expectation(told, base[k])]
  /\ Expectable(told.record, base[k]) /\ base[k] \in Entries \cup {NoEntry}

\* What the plan of the saved changes says of members is what they do to those that were read.
AgainTrue == \A k \in DOMAIN again : FromRead(again[k], saving[k].change, base[k])

\* The file was written because that plan is the one shown.
SavedTrue == stage = "saved" => \A k \in DOMAIN again :
  LET told == shown[ToSave[k]] IN again[k].action = told.action /\ again[k].membership = told.membership

\* What the file says is a list of valid changes.
FileValid == saved # None =>
  /\ saved.project = input.project /\ DOMAIN saved = {"project", "digest", "changes"}
  /\ Listed(saved.changes) /\ 0 < Len(saved.changes)
  /\ \A i \in DOMAIN saved.changes : saved.changes[i].change \in ValidChanges

\* An application under way has a file that can be used: valid changes, bound to the project's.
UnderWay == {"planning", "checking", "applying"}
InUse(run, project) ==
  /\ decodeSavedPlan([project |-> project, changes |-> run.changes])
  /\ project => bindToProject(run.changes, run.files)
  /\ \A k \in DOMAIN run.changes : run.changes[k].change \in ValidChanges

\* What the server's check found of each change, in the order of the changes.
Checks(run) == \A k \in DOMAIN run.met : k \in DOMAIN run.changes /\ Upheld(run.changes[k], run.met[k])

\* How far an application has come.
Applied(run, project) ==
  /\ DOMAIN run = {"at", "files", "changes", "items", "met", "done"} /\ run.done \in Nat
  /\ Listed(run.changes) /\ Listed(run.met)
  /\ run.at \in UnderWay => InUse(run, project) /\ Checks(run)
  /\ run.at \in {"idle", "planning"} => run.met = <<>>
  /\ run.at \in {"idle", "planning", "checking"} => run.done = 0
  /\ run.at \in {"planning", "checking"} => Len(run.met) < Len(run.changes)
  /\ run.at = "applying" => Len(run.met) = Len(run.changes) /\ run.done < Len(run.changes)

RunsTrue == /\ DOMAIN runs = Runs
            /\ \A r \in Runs : /\ Applied(runs[r], input.project)
                               /\ runs[r].at \in UnderWay => stage = "saved"

DirTrue == WellFormed(dir) /\ Tree(dir) /\ given \in 0..Len(Ids)

SInv == DirTrue /\ Stages /\ ShownTrue /\ SavingTrue /\ AgainTrue /\ SavedTrue /\ FileValid /\ RunsTrue

-----------------------------------------------------------------------------
(* The plan that is shown and saved *)

LEMMA ListedIs ==
  ASSUME NEW s, Listed(s)
  PROVE  Len(s) \in Nat /\ DOMAIN s = 1..Len(s)
  BY DEF Listed

LEMMA NoneListed == Listed(<<>>) /\ Len(<<>>) = 0 /\ DOMAIN <<>> = {}
  BY DEF Listed

LEMMA ListedGrows ==
  ASSUME NEW s, Listed(s), NEW e
  PROVE  /\ Listed(Append(s, e)) /\ Len(Append(s, e)) = Len(s) + 1
         /\ DOMAIN Append(s, e) = 1..(Len(s) + 1)
         /\ \A k \in DOMAIN s : Append(s, e)[k] = s[k]
         /\ Append(s, e)[Len(s) + 1] = e
<1> DEFINE X == {s[k] : k \in DOMAIN s} \cup {e}
           t == Append(s, e)
<1>1. s \in Seq(X)
  <2>1. {s[k] : k \in DOMAIN s} \subseteq X
    OBVIOUS
  <2> HIDE DEF X
  <2> QED BY <2>1, ListGrows DEF Listed
<1>2. e \in X
  OBVIOUS
<1> HIDE DEF X
<1>3. /\ t \in Seq(X) /\ Len(t) = Len(s) + 1 /\ Len(s) \in Nat /\ DOMAIN s = 1..Len(s)
      /\ DOMAIN t = 1..(Len(s) + 1) /\ \A k \in DOMAIN s : t[k] = s[k]
  BY <1>1, <1>2
<1>4. t[Len(s) + 1] = e
  BY <1>1, <1>2
<1> HIDE DEF t
<1>5. t \in Seq({t[k] : k \in DOMAIN t})
  <2> DEFINE Y == {t[k] : k \in DOMAIN t}
  <2>1. t \in [1..Len(t) -> Y] /\ Len(t) \in Nat
    BY <1>3
  <2> HIDE DEF Y
  <2>2. t \in Seq(Y)
    BY <2>1, IsList
  <2> QED BY <2>2 DEF Y
<1> QED BY <1>3, <1>4, <1>5 DEF t, Listed

\* The positions that are saved of what is shown.
LEMMA ToSaveIs ==
  ASSUME NEW s, Listed(s), NEW t, t = InOrder({i \in DOMAIN s : ~AppliesNothing(s[i].action)})
  PROVE  /\ Len(t) \in Nat /\ (t # <<>> => Len(t) # 0)
         /\ \A k \in 1..Len(t) : t[k] \in DOMAIN s /\ ~AppliesNothing(s[t[k]].action)
<1> DEFINE I == {i \in DOMAIN s : ~AppliesNothing(s[i].action)}
           n == Len(s)
<1>1. n \in Nat /\ DOMAIN s = 1..n
  BY ListedIs
<1>2. I \in SUBSET (1..n)
  BY <1>1
<1>3. t = InOrder(I)
  OBVIOUS
<1>4. \A i \in I : i \in DOMAIN s /\ ~AppliesNothing(s[i].action)
  OBVIOUS
<1> HIDE DEF I, n
<1>5. Cardinality(I) \in Nat /\ t \in [1..Cardinality(I) -> I]
  <2>1. n \in Nat
    BY <1>1
  <2>2. Cardinality(I) \in 0..n /\ InOrder(I) \in [1..Cardinality(I) -> I]
    BY <1>2, <2>1, InOrderIs
  <2>3. Cardinality(I) \in Nat
    BY <2>1, <2>2
  <2>4. t \in [1..Cardinality(I) -> I]
    BY <1>3, <2>2
  <2> QED BY <2>3, <2>4
<1>6. t \in Seq(I) /\ Len(t) = Cardinality(I)
  BY <1>5, IsList
<1>7. t # <<>> => Len(t) # 0
  BY <1>6
<1> QED BY <1>4, <1>5, <1>6, <1>7

\* What an input holds.
LEMMA InputIs ==
  ASSUME input \in Inputs
  PROVE  /\ input.changes \in Seq(ValidChanges) /\ input.changes # <<>>
         /\ input.project => \A i \in DOMAIN input.changes : input.changes[i].type = "add"
<1>1. /\ input.changes \in Seq(ChangeRecords) /\ input.changes # <<>>
      /\ \A i \in DOMAIN input.changes : Valid(input.changes[i])
      /\ input.project => \A i \in DOMAIN input.changes : input.changes[i].type = "add"
  BY SavedPlanConstants
<1>2. /\ input.changes \in [1..Len(input.changes) -> ValidChanges] /\ Len(input.changes) \in Nat
  BY <1>1 DEF ValidChanges
<1>3. input.changes \in Seq(ValidChanges)
  BY <1>2, IsList
<1> QED BY <1>1, <1>3

LEMMA RunsWait ==
  ASSUME RunsTrue, stage # "saved", UNCHANGED <<runs, input>>
  PROVE  RunsTrue'
  BY DEF RunsTrue

LEMMA RunsStay ==
  ASSUME RunsTrue, UNCHANGED <<runs, stage, input>>
  PROVE  RunsTrue'
  BY DEF RunsTrue

LEMMA DirStays == ASSUME DirTrue, UNCHANGED <<dir, given>> PROVE DirTrue'
  BY DEF DirTrue

\* Until the plan is saved there is no file.
LEMMA NoFileYet ==
  ASSUME Stages, stage # "saved", UNCHANGED saved
  PROVE  FileValid' /\ (saved' # None => FALSE)
  BY DEF Stages, FileValid

LEMMA ShowOneKeeps == ASSUME SInv, ShowOne PROVE SInv'
<1> USE DEF SInv
<1> DEFINE n == Len(shown) + 1
           c == input.changes[n]
           item == planItem(dir, c, NoExpect, input.project, ProvidedBy(shown))
<1>1. /\ stage = "showing" /\ shown' = Append(shown, item)
      /\ stage' = (IF Len(shown') = Len(input.changes) THEN "searching" ELSE stage)
      /\ UNCHANGED <<dir, given, input, refs, saving, again, base, revised, saved, edited, runs, others>>
  BY DEF ShowOne
<1>2. /\ Listed(shown) /\ input \in Inputs /\ Len(shown) < Len(input.changes) /\ saving = <<>> /\ again = <<>>
      /\ Len(base) = Len(saving) /\ Listed(base)
  BY <1>1 DEF Stages
<1>3. Len(shown) \in Nat /\ DOMAIN shown = 1..Len(shown)
  BY <1>2, ListedIs
<1>4. c \in ValidChanges /\ (input.project => c.type = "add") /\ Len(input.changes) \in Nat
  <2>1. /\ input.changes \in Seq(ValidChanges)
        /\ input.project => \A i \in DOMAIN input.changes : input.changes[i].type = "add"
    BY <1>2, InputIs
  <2>2. n \in DOMAIN input.changes
    BY <1>2, <1>3, <2>1
  <2> HIDE DEF n
  <2> QED BY <2>1, <2>2
<1> HIDE DEF item, c
<1>5. ~AppliesNothing(item.action) => Doing(item)
  BY <1>4, ShownItem DEF item, DirTrue
<1>6. /\ Listed(shown') /\ Len(shown') = n /\ DOMAIN shown' = 1..n
      /\ \A k \in DOMAIN shown : shown'[k] = shown[k]
      /\ shown'[n] = item
  BY <1>1, <1>2, ListedGrows
<1>7. Stages'
  <2>1. Len(ToSave') \in Nat
    <3>1. ToSave' = InOrder({i \in DOMAIN shown' : ~AppliesNothing(shown'[i].action)})
      BY DEF ToSave
    <3> QED BY <1>6, <3>1, ToSaveIs
  <2>2. Len(<<>>) = 0 /\ Listed(<<>>)
    BY NoneListed
  <2>3. stage' \in {"showing", "searching"} /\ (stage' = "showing" => Len(shown') < Len(input'.changes))
    BY <1>1, <1>2, <1>3, <1>4, <1>6
  <2>4. saved' # None => FALSE
    BY <1>1, NoFileYet
  <2> QED BY <1>1, <1>2, <1>6, <2>1, <2>2, <2>3, <2>4 DEF Stages
<1>8. ShownTrue'
  <2> SUFFICES ASSUME NEW i \in DOMAIN shown', ~AppliesNothing(shown'[i].action) PROVE Doing(shown'[i])
    BY DEF ShownTrue
  <2>1. CASE i \in DOMAIN shown
    BY <1>6, <2>1 DEF ShownTrue
  <2>2. CASE i \notin DOMAIN shown
    <3>1. i = n
      BY <1>3, <1>6, <2>2
    <3> QED BY <1>5, <1>6, <3>1
  <2> QED BY <2>1, <2>2
<1>9. SavingTrue' /\ AgainTrue'
  BY <1>1, <1>2, NoneListed DEF SavingTrue, AgainTrue
<1>10. SavedTrue'
  BY <1>1 DEF SavedTrue
<1>11. DirTrue' /\ FileValid' /\ RunsTrue'
  BY <1>1, DirStays, NoFileYet, RunsWait
<1> QED BY <1>7, <1>8, <1>9, <1>10, <1>11

\* What is unchanged with the shown plan.
LEMMA ShownStays ==
  ASSUME ShownTrue, UNCHANGED shown
  PROVE  ShownTrue' /\ ToSave' = ToSave
  BY DEF ShownTrue, ToSave

LEMMA SavingStays ==
  ASSUME SavingTrue, UNCHANGED <<shown, saving, base>>
  PROVE  SavingTrue'
<1>1. ToSave' = ToSave
  BY DEF ToSave
<1> QED BY <1>1 DEF SavingTrue

LEMMA AgainStays ==
  ASSUME AgainTrue, UNCHANGED <<again, saving, base>>
  PROVE  AgainTrue'
  BY DEF AgainTrue

LEMMA SearchShownKeeps == ASSUME SInv, SearchShown PROVE SInv'
<1> USE DEF SInv
<1>1. /\ stage = "searching"
      /\ stage' = (IF blocked(shown) \/ ToSave = <<>> THEN "ended" ELSE "reading")
      /\ UNCHANGED <<dir, given, input, shown, saving, again, base, revised, saved, edited, runs, others>>
  BY DEF SearchShown
<1>2. ToSave' = ToSave /\ ShownTrue' /\ SavingTrue' /\ AgainTrue'
  BY <1>1, ShownStays, SavingStays, AgainStays
<1>3. /\ saving = <<>> /\ again = <<>> /\ Listed(shown)
  BY <1>1 DEF Stages
<1>4. stage' \in {"ended", "reading"} /\ (stage' = "reading" => Len(saving) < Len(ToSave))
  <2>1. Len(ToSave) \in Nat /\ (ToSave # <<>> => Len(ToSave) # 0)
    BY <1>3, ToSaveIs DEF ToSave
  <2> QED BY <1>1, <1>3, <2>1, NoneListed
<1>5. Stages'
  <2>1. saved' # None => FALSE
    BY <1>1, NoFileYet
  <2> QED BY <1>1, <1>2, <1>3, <1>4, <2>1 DEF Stages
<1>6. SavedTrue'
  BY <1>4 DEF SavedTrue
<1>7. DirTrue' /\ FileValid' /\ RunsTrue'
  BY <1>1, DirStays, NoFileYet, RunsWait
<1> QED BY <1>2, <1>5, <1>6, <1>7

LEMMA ReadOneKeeps == ASSUME SInv, ReadOne PROVE SInv'
<1> USE DEF SInv
<1> DEFINE n == Len(saving) + 1
           item == shown[ToSave[n]]
           live == Entry(dir, item.record.dn)
           new == [change |-> item.record, expect |-> Expectation(item, live)]
<1>1. /\ stage = "reading"
      /\ IF ~Expectable(item.record, live)
         THEN stage' = "ended" /\ UNCHANGED <<saving, base>>
         ELSE /\ saving' = Append(saving, new) /\ base' = Append(base, live)
              /\ stage' = (IF Len(saving') = Len(ToSave) THEN "planning" ELSE stage)
      /\ UNCHANGED <<dir, given, input, shown, refs, again, revised, saved, edited, runs, others>>
  BY DEF ReadOne
<1>2. /\ Listed(saving) /\ Listed(base) /\ Len(base) = Len(saving) /\ Len(saving) < Len(ToSave)
      /\ again = <<>> /\ Listed(shown) /\ Len(saving) \in Nat /\ DOMAIN saving = 1..Len(saving)
      /\ DOMAIN base = 1..Len(saving)
  BY <1>1, ListedIs DEF Stages
<1>3. Len(ToSave) \in Nat
  BY <1>2, ToSaveIs DEF ToSave
<1>4. ToSave' = ToSave /\ ShownTrue'
  BY <1>1, ShownStays
<1>5. live \in Entries \cup {NoEntry}
  BY EntryRead DEF DirTrue, Entry
<1> HIDE DEF live, item, new
<1>6. CASE ~Expectable(item.record, live)
  <2>1. stage' = "ended" /\ UNCHANGED <<saving, base>>
    BY <1>1, <1>6
  <2>2. SavingTrue' /\ AgainTrue'
    BY <1>1, <2>1, SavingStays, AgainStays
  <2>3. Stages'
    <3>1. saved' # None => FALSE
      BY <1>1, NoFileYet
    <3> QED BY <1>1, <1>4, <2>1, <3>1 DEF Stages
  <2>4. SavedTrue'
    BY <2>1 DEF SavedTrue
  <2>5. DirTrue' /\ FileValid' /\ RunsTrue'
    BY <1>1, DirStays, NoFileYet, RunsWait
  <2> QED BY <1>4, <2>2, <2>3, <2>4, <2>5
<1>7. CASE Expectable(item.record, live)
  <2>1. /\ saving' = Append(saving, new) /\ base' = Append(base, live)
        /\ stage' = (IF Len(saving') = Len(ToSave) THEN "planning" ELSE "reading")
    BY <1>1, <1>7
  <2>2. /\ Listed(saving') /\ Len(saving') = n /\ DOMAIN saving' = 1..n
        /\ \A k \in DOMAIN saving : saving'[k] = saving[k]
        /\ saving'[n] = new
    BY <1>2, <2>1, ListedGrows
  <2>3. /\ Listed(base') /\ Len(base') = n
        /\ \A k \in DOMAIN base : base'[k] = base[k]
        /\ base'[n] = live
    BY <1>2, <2>1, ListedGrows
  <2>4. Stages'
    <3>1. saved' # None => FALSE
      BY <1>1, NoFileYet
    <3>2. /\ stage' \in {"reading", "planning"}
          /\ stage' = "reading" => n < Len(ToSave)
          /\ stage' = "planning" => n > 0
          /\ n <= Len(ToSave)
      BY <1>2, <1>3, <2>1, <2>2
    <3>3. Len(again') = 0 /\ again' = <<>>
      BY <1>1, <1>2, NoneListed
    <3> QED BY <1>1, <1>4, <2>2, <2>3, <3>1, <3>2, <3>3 DEF Stages
  <2>5. SavingTrue'
    <3> SUFFICES ASSUME NEW k \in DOMAIN saving'
                 PROVE  /\ saving'[k] = [change |-> shown[ToSave[k]].record,
                                         expect |-> Expectation(shown[ToSave[k]], base'[k])]
                        /\ Expectable(shown[ToSave[k]].record, base'[k]) /\ base'[k] \in Entries \cup {NoEntry}
      BY <1>1, <1>4 DEF SavingTrue
    <3>1. CASE k \in DOMAIN saving
      <4>1. saving'[k] = saving[k] /\ base'[k] = base[k]
        BY <1>2, <2>2, <2>3, <3>1
      <4> QED BY <3>1, <4>1 DEF SavingTrue
    <3>2. CASE k \notin DOMAIN saving
      <4>1. k = n
        BY <1>2, <2>2, <3>2
      <4> QED BY <1>5, <1>7, <2>2, <2>3, <4>1 DEF new, item
    <3> QED BY <3>1, <3>2
  <2>6. AgainTrue'
    BY <1>1, <1>2, NoneListed DEF AgainTrue
  <2>7. SavedTrue'
    BY <2>1 DEF SavedTrue
  <2>8. DirTrue' /\ FileValid' /\ RunsTrue'
    BY <1>1, DirStays, NoFileYet, RunsWait
  <2> QED BY <1>4, <2>4, <2>5, <2>6, <2>7, <2>8
<1> QED BY <1>6, <1>7

\* What is saved is what was shown to do something.
LEMMA SavingIs ==
  ASSUME Stages, ShownTrue, SavingTrue, NEW k \in DOMAIN saving
  PROVE  LET told == shown[ToSave[k]] IN
         /\ Doing(told) /\ saving[k].change = told.record /\ saving[k].expect = Expectation(told, base[k])
         /\ Expectable(told.record, base[k]) /\ base[k] \in Entries \cup {NoEntry}
<1> DEFINE told == shown[ToSave[k]]
<1>1. /\ saving[k] = [change |-> told.record, expect |-> Expectation(told, base[k])]
      /\ Expectable(told.record, base[k]) /\ base[k] \in Entries \cup {NoEntry}
  BY DEF SavingTrue
<1>2. k \in 1..Len(ToSave) /\ Listed(shown)
  <2>1. Listed(shown) /\ Listed(saving) /\ Len(saving) <= Len(ToSave)
    BY DEF Stages
  <2>2. Len(ToSave) \in Nat /\ Len(saving) \in Nat /\ k \in 1..Len(saving)
    BY <2>1, ListedIs, ToSaveIs DEF ToSave
  <2> QED BY <2>1, <2>2
<1>3. ToSave[k] \in DOMAIN shown /\ ~AppliesNothing(told.action)
  BY <1>2, ToSaveIs DEF ToSave
<1>4. Doing(told)
  BY <1>3 DEF ShownTrue
<1> HIDE DEF told
<1>5. saving[k].change = told.record /\ saving[k].expect = Expectation(told, base[k])
  BY <1>1
<1> QED BY <1>1, <1>4, <1>5 DEF told

LEMMA PlanAgainKeeps == ASSUME SInv, PlanAgain PROVE SInv'
<1> USE DEF SInv
<1> DEFINE n == Len(again) + 1
           s == saving[n]
           item == planItem(dir, s.change, s.expect, FALSE, ProvidedBy(again))
<1>1. /\ stage = "planning" /\ again' = Append(again, item)
      /\ stage' = (IF Len(again') = Len(saving) THEN "comparing" ELSE stage)
      /\ UNCHANGED <<dir, given, input, shown, refs, saving, base, revised, saved, edited, runs, others>>
  BY DEF PlanAgain
<1>2. /\ Listed(again) /\ Listed(saving) /\ Len(again) < Len(saving)
      /\ Len(again) \in Nat /\ DOMAIN again = 1..Len(again)
      /\ Len(saving) \in Nat /\ DOMAIN saving = 1..Len(saving)
  BY <1>1, ListedIs DEF Stages
<1>3. ToSave' = ToSave /\ ShownTrue' /\ SavingTrue'
  BY <1>1, ShownStays, SavingStays
<1>4. n \in DOMAIN saving
  BY <1>2
<1> HIDE DEF item, s
<1>5. /\ Listed(again') /\ Len(again') = n /\ DOMAIN again' = 1..n
      /\ \A k \in DOMAIN again : again'[k] = again[k]
      /\ again'[n] = item
  <2>1. Listed(again)
    BY <1>2
  <2> QED BY <1>1, <2>1, ListedGrows
<1>6. stage' \in {"planning", "comparing"} /\ (stage' = "planning" => n < Len(saving))
      /\ (stage' = "comparing" => n = Len(saving) /\ 0 < Len(saving))
  <2>1. Len(again') = n
    BY <1>5
  <2>2. n <= Len(saving)
    BY <1>2
  <2>3. stage' = IF n = Len(saving) THEN "comparing" ELSE "planning"
    BY <1>1, <2>1
  <2> HIDE DEF n
  <2>4. n \in Int /\ Len(saving) \in Int /\ 0 < n
    BY <1>2 DEF n
  <2> QED BY <2>2, <2>3, <2>4
<1>7. Stages'
  <2>1. saved' # None => FALSE
    BY <1>1, NoFileYet
  <2> QED BY <1>1, <1>3, <1>5, <1>6, <2>1 DEF Stages
<1>8. FromRead(item, s.change, base[n])
  <2> DEFINE told == shown[ToSave[n]]
             read == base[n]
  <2>1. /\ Doing(told) /\ s.change = told.record /\ s.expect = Expectation(told, read)
        /\ Expectable(told.record, read) /\ read \in Entries \cup {NoEntry}
    <3> HIDE DEF n
    <3> QED BY <1>4, SavingIs DEF s
  <2> HIDE DEF told, read
  <2>2. FromRead(planItem(dir, told.record, Expectation(told, read), FALSE, ProvidedBy(again)), told.record, read)
    BY <2>1, AgainItem DEF DirTrue
  <2> QED BY <2>1, <2>2 DEF item, read
<1>9. AgainTrue'
  <2> SUFFICES ASSUME NEW k \in DOMAIN again' PROVE FromRead(again'[k], saving[k].change, base[k])
    BY <1>1 DEF AgainTrue
  <2>1. CASE k \in DOMAIN again
    BY <1>5, <2>1 DEF AgainTrue
  <2>2. CASE k \notin DOMAIN again
    <3>1. k = n
      BY <1>2, <1>5, <2>2
    <3> QED BY <1>5, <1>8, <3>1 DEF s
  <2> QED BY <2>1, <2>2
<1>10. SavedTrue'
  BY <1>6 DEF SavedTrue
<1>11. DirTrue' /\ FileValid' /\ RunsTrue'
  BY <1>1, DirStays, NoFileYet, RunsWait
<1> QED BY <1>3, <1>7, <1>9, <1>10, <1>11

LEMMA SaveKeeps == ASSUME SInv, Save PROVE SInv'
<1> USE DEF SInv
<1> DEFINE f == [project |-> input.project, digest |-> input.changes, changes |-> saving]
           now == referenceImpact(dir, again)
<1>1. /\ stage = "comparing"
      /\ \/ stage' = "saved" /\ saved' = f /\ sameAsShown(now)
         \/ stage' = "ended" /\ UNCHANGED saved
      /\ UNCHANGED <<dir, given, input, shown, refs, saving, again, base, revised, edited, runs, others>>
  BY DEF Save
<1>2. ToSave' = ToSave /\ ShownTrue' /\ SavingTrue' /\ AgainTrue'
  BY <1>1, ShownStays, SavingStays, AgainStays
<1>3. DirTrue' /\ RunsTrue'
  BY <1>1, DirStays, RunsWait
<1>4. CASE stage' = "saved" /\ saved' = f /\ sameAsShown(now)
  <2>1. Stages'
    BY <1>1, <1>2, <1>4 DEF Stages
  <2>2. SavedTrue'
    BY <1>1, <1>2, <1>4 DEF SavedTrue, sameAsShown
  <2>3. FileValid'
    <3>1. Listed(saving) /\ 0 < Len(saving) /\ \A k \in DOMAIN saving : saving[k].change \in ValidChanges
      BY <1>1, SavingIs DEF Stages, Doing
    <3> QED BY <1>1, <1>4, <3>1 DEF FileValid
  <2> QED BY <1>2, <1>3, <2>1, <2>2, <2>3
<1>5. CASE stage' = "ended" /\ UNCHANGED saved
  <2>1. Stages'
    <3>1. saved' # None => FALSE
      BY <1>1, <1>5, NoFileYet
    <3> QED BY <1>1, <1>2, <1>5, <3>1 DEF Stages
  <2>2. SavedTrue' /\ FileValid'
    BY <1>1, <1>5, NoFileYet DEF SavedTrue
  <2> QED BY <1>2, <1>3, <2>1, <2>2
<1> QED BY <1>1, <1>4, <1>5

-----------------------------------------------------------------------------
(* Other people *)

\* A change as it is carried out: an add gets its identity.
Lands(c, e) ==
  /\ e \in ValidChanges /\ e.type = c.type /\ e.dn = c.dn
  /\ c.type # "add" => e = c
  /\ c.type = "add" => \A a \in Attrs \ {UniqueId} : e.attrs[a] = c.attrs[a]

LEMMA IdentityTyped ==
  ASSUME NEW n \in 1..Len(Ids), NEW c \in ValidChanges, c.type = "add"
  PROVE  Lands(c, [c EXCEPT !.attrs[UniqueId] = {Ids[n]}])
<1>1. c = Add(c.dn, c.attrs) /\ c.attrs \in [Attrs -> SUBSET Values] /\ c.dn \in DNs /\ c.dn # <<>>
  BY Kinds DEF Entries
<1>2. Ids[n] \in Values /\ UniqueId \in Attrs
  BY SavedPlanConstants, DirectoryConstants
<1> DEFINE f == [c.attrs EXCEPT ![UniqueId] = {Ids[n]}]
           g == [c EXCEPT !.attrs[UniqueId] = {Ids[n]}]
<1>3. g = Add(c.dn, f)
  <2>1. DOMAIN c = {"type", "dn", "attrs"} /\ c.type = "add"
    BY <1>1 DEF Add
  <2>2. g = [k \in DOMAIN c |-> g[k]]
    OBVIOUS
  <2>3. g.type = "add" /\ g.dn = c.dn /\ g.attrs = f
    BY <2>1
  <2> HIDE DEF g, f
  <2> QED BY <2>1, <2>2, <2>3 DEF Add
<1>4. f \in [Attrs -> SUBSET Values] /\ \A a \in Attrs \ {UniqueId} : f[a] = c.attrs[a]
  BY <1>1, <1>2
<1> HIDE DEF f, g
<1>5. Add(c.dn, f) \in ValidChanges
  <2>1. Add(c.dn, f) \in [type : {"add"}, dn : DNs, attrs : Entries]
    BY <1>1, <1>4 DEF Add, Entries
  <2>2. Add(c.dn, f) \in ChangeRecords
    BY <2>1 DEF ChangeRecords
  <2> QED BY <1>1, <2>2 DEF ValidChanges, Valid, Add
<1>6. Lands(c, Add(c.dn, f))
  BY <1>4, <1>5 DEF Lands, Add
<1> QED BY <1>3, <1>6 DEF g

LEMMA CarryIs ==
  ASSUME DirTrue, NEW c \in ValidChanges, Carry(c)
  PROVE  /\ \E e : Lands(c, e) /\ Accepts(dir, e) /\ dir' = Done(dir, e)
         /\ Accepts(dir, c) /\ given' \in 0..Len(Ids)
<1>0. given \in Nat /\ given <= Len(Ids) /\ Len(Ids) \in Nat
  BY SavedPlanConstants DEF DirTrue
<1>1. CASE c.type = "add"
  <2> DEFINE e == [c EXCEPT !.attrs[UniqueId] = {Ids[given + 1]}]
  <2>1. /\ Accepts(dir, c) /\ given < Len(Ids) /\ given' = given + 1 /\ dir' = Done(dir, e)
    BY <1>1 DEF Carry
  <2>2. given + 1 \in 1..Len(Ids)
    BY <1>0, <2>1
  <2>3. Lands(c, e)
    BY <1>1, <2>2, IdentityTyped
  <2> HIDE DEF e
  <2>4. Accepts(dir, e)
    BY <1>1, <2>1, <2>3 DEF Accepts, Lands
  <2>5. \E f : Lands(c, f) /\ Accepts(dir, f) /\ dir' = Done(dir, f)
    BY <2>1, <2>3, <2>4
  <2>6. given' \in 0..Len(Ids)
    BY <1>0, <2>1
  <2> QED BY <2>1, <2>5, <2>6
<1>2. CASE c.type # "add"
  <2>1. Accepts(dir, c) /\ dir' = Done(dir, c) /\ given' = given
    BY <1>2 DEF Carry
  <2>2. Lands(c, c)
    BY <1>2 DEF Lands
  <2> QED BY <2>1, <2>2 DEF DirTrue
<1> QED BY <1>1, <1>2

LEMMA CarryKeeps ==
  ASSUME DirTrue, NEW c \in ValidChanges, Carry(c)
  PROVE  DirTrue'
<1>1. PICK e : Lands(c, e) /\ Accepts(dir, e) /\ dir' = Done(dir, e)
  BY CarryIs
<1>2. e \in ValidChanges /\ given' \in 0..Len(Ids)
  BY <1>1, CarryIs DEF Lands
<1>3. WellFormed(Done(dir, e)) /\ Tree(Done(dir, e))
  BY <1>1, <1>2, DoneTyped, DoneTree DEF DirTrue
<1> QED BY <1>1, <1>2, <1>3 DEF DirTrue

\* The plan and its file stay as they are.
LEMMA PlanStays ==
  ASSUME SInv, UNCHANGED <<saver, saved>>
  PROVE  Stages' /\ ShownTrue' /\ SavingTrue' /\ AgainTrue' /\ SavedTrue' /\ FileValid'
<1>1. UNCHANGED <<input, stage, shown, saving, again, base, saved>>
  BY DEF saver
<1>2. ToSave' = ToSave /\ ShownTrue' /\ SavingTrue' /\ AgainTrue'
  BY <1>1, ShownStays, SavingStays, AgainStays DEF SInv
<1>3. Stages'
  BY <1>1, <1>2 DEF Stages, SInv
<1>4. SavedTrue'
  BY <1>1, <1>2 DEF SavedTrue, SInv
<1>5. FileValid'
  BY <1>1 DEF FileValid, SInv
<1> QED BY <1>2, <1>3, <1>4, <1>5

LEMMA OtherWritesKeeps == ASSUME SInv, OtherWrites PROVE SInv'
<1>1. PICK c \in Foreign : Carry(c)
  BY DEF OtherWrites
<1>2. c \in ValidChanges
  BY LiveDirectoryConstants DEF Valid, ValidChanges
<1>3. DirTrue'
  BY <1>1, <1>2, CarryKeeps DEF SInv
<1>4. UNCHANGED <<saver, saved, runs>> /\ UNCHANGED <<stage, input>>
  BY DEF OtherWrites, saver
<1>5. RunsTrue'
  BY <1>4, RunsStay DEF SInv
<1> QED BY <1>3, <1>4, <1>5, PlanStays DEF SInv

LEMMA ReviseFilesKeeps == ASSUME SInv, ReviseFiles PROVE SInv'
<1>1. UNCHANGED <<saver, saved, runs, dir, given>> /\ UNCHANGED <<stage, input>>
  BY DEF ReviseFiles, saver
<1>2. DirTrue' /\ RunsTrue'
  BY <1>1, DirStays, RunsStay DEF SInv
<1> QED BY <1>1, <1>2, PlanStays DEF SInv

LEMMA ListedAfter ==
  ASSUME NEW s, Listed(s), NEW i, NEW e
  PROVE  LET t == [s EXCEPT ![i] = e]
         IN Listed(t) /\ Len(t) = Len(s) /\ DOMAIN t = DOMAIN s
<1> DEFINE t == [s EXCEPT ![i] = e]
           n == Len(s)
           X == {t[k] : k \in DOMAIN t}
<1>1. n \in Nat /\ DOMAIN s = 1..n
  BY ListedIs
<1>2. DOMAIN t = 1..n
  BY <1>1
<1>3. t = [k \in 1..n |-> t[k]]
  BY <1>1
<1> HIDE DEF t, n
<1>4. t \in [1..n -> X]
  BY <1>2, <1>3
<1> HIDE DEF X
<1>5. t \in Seq(X) /\ Len(t) = n
  BY <1>1, <1>4, IsList
<1> QED BY <1>1, <1>2, <1>5 DEF Listed, t, n, X

LEMMA EditFileKeeps == ASSUME SInv, EditFile PROVE SInv'
<1> USE DEF SInv
<1>1. /\ saved # None /\ UNCHANGED <<dir, given, saver, revised, runs, others>>
      /\ UNCHANGED <<input, stage, shown, saving, again, base>>
  BY DEF EditFile, saver
<1>2. PICK i \in DOMAIN saved.changes, e \in Edits, d \in {saved.digest, Files} :
        saved' = [saved EXCEPT !.changes[i] = e, !.digest = d]
  BY DEF EditFile
<1>3. stage = "saved"
  BY <1>1 DEF Stages
<1>4. ToSave' = ToSave /\ ShownTrue' /\ SavingTrue' /\ AgainTrue'
  BY <1>1, ShownStays, SavingStays, AgainStays
<1>5. Stages'
  BY <1>1, <1>3, <1>4 DEF Stages
<1>6. SavedTrue'
  BY <1>1, <1>4 DEF SavedTrue
<1>7. DirTrue' /\ RunsTrue'
  BY <1>1, DirStays, RunsStay
<1>8. FileValid'
  <2> DEFINE t == [saved.changes EXCEPT ![i] = e]
  <2>1. /\ saved.project = input.project /\ DOMAIN saved = {"project", "digest", "changes"}
        /\ Listed(saved.changes) /\ 0 < Len(saved.changes)
        /\ \A k \in DOMAIN saved.changes : saved.changes[k].change \in ValidChanges
    BY <1>1 DEF FileValid
  <2>2. /\ saved'.project = saved.project /\ DOMAIN saved' = DOMAIN saved /\ saved'.changes = t
    BY <1>2, <2>1
  <2>3. Listed(t) /\ Len(t) = Len(saved.changes) /\ DOMAIN t = DOMAIN saved.changes
    BY <2>1, ListedAfter
  <2>4. e.change \in ValidChanges
    BY SavedPlanConstants DEF ValidChanges, Valid
  <2>5. ASSUME NEW k \in DOMAIN t PROVE t[k].change \in ValidChanges
    <3>1. CASE k = i
      BY <2>3, <2>4, <3>1
    <3>2. CASE k # i
      BY <2>1, <2>3, <3>2
    <3> QED BY <3>1, <3>2
  <2> HIDE DEF t
  <2> QED BY <1>1, <2>1, <2>2, <2>3, <2>5 DEF FileValid
<1> QED BY <1>4, <1>5, <1>6, <1>7, <1>8

-----------------------------------------------------------------------------
(* Applications *)

LEMMA RunChanges ==
  ASSUME RunsTrue, NEW r \in Runs, UNCHANGED <<stage, input>>,
         DOMAIN runs' = Runs, \A q \in Runs \ {r} : runs'[q] = runs[q],
         Applied(runs'[r], input.project), runs'[r].at \in UnderWay => stage = "saved"
  PROVE  RunsTrue'
<1>1. SUFFICES ASSUME NEW q \in Runs
               PROVE  Applied(runs'[q], input.project) /\ (runs'[q].at \in UnderWay => stage = "saved")
  BY DEF RunsTrue
<1>2. CASE q = r
  BY <1>2
<1>3. CASE q # r
  BY <1>3 DEF RunsTrue
<1> QED BY <1>2, <1>3

\* An application, and that the rest of a step of it leaves the plan and its file alone.
LEMMA RunIs ==
  ASSUME SInv, NEW r \in Runs
  PROVE  /\ DOMAIN runs = Runs /\ Applied(runs[r], input.project)
         /\ runs[r].at \in UnderWay => stage = "saved"
         /\ Listed(runs[r].changes) /\ Listed(runs[r].met)
         /\ DOMAIN runs[r] = {"at", "files", "changes", "items", "met", "done"}
  BY DEF SInv, RunsTrue, Applied

\* What is read back depends on the changes and on whether the file is a project's.
LEMMA DecodedSame ==
  ASSUME NEW f, NEW g, f.project = g.project, f.changes = g.changes, decodeSavedPlan(f)
  PROVE  decodeSavedPlan(g)
  BY DEF decodeSavedPlan

LEMMA LoadKeeps == ASSUME SInv, NEW r \in Runs, Load(r) PROVE SInv'
<1> DEFINE p == runs'[r]
<1>1. /\ runs[r].at = "idle" /\ saved # None
      /\ runs' = [runs EXCEPT ![r].at = IF Usable(saved) THEN "planning" ELSE "refused",
                              ![r].changes = saved.changes, ![r].files = Files]
      /\ UNCHANGED <<dir, given, saver, saved>> /\ UNCHANGED <<stage, input>>
  BY DEF Load, saver
<1>2. /\ DOMAIN runs = Runs /\ Applied(runs[r], input.project)
      /\ DOMAIN runs[r] = {"at", "files", "changes", "items", "met", "done"}
  BY RunIs
<1>3. /\ DOMAIN runs' = Runs /\ \A q \in Runs \ {r} : runs'[q] = runs[q]
      /\ DOMAIN p = {"at", "files", "changes", "items", "met", "done"}
      /\ p.at = (IF Usable(saved) THEN "planning" ELSE "refused")
      /\ p.changes = saved.changes /\ p.files = Files /\ p.met = runs[r].met /\ p.done = runs[r].done
  BY <1>1, <1>2
<1>4. /\ saved.project = input.project /\ Listed(saved.changes) /\ 0 < Len(saved.changes)
      /\ \A i \in DOMAIN saved.changes : saved.changes[i].change \in ValidChanges
      /\ stage = "saved"
  BY <1>1 DEF SInv, FileValid, Stages
<1>5. Usable(saved) => InUse(p, input.project)
  <2> SUFFICES ASSUME Usable(saved) PROVE InUse(p, input.project)
    OBVIOUS
  <2>1. decodeSavedPlan(saved) /\ (saved.project => bindToProject(saved.changes, Files))
    BY DEF Usable
  <2>2. decodeSavedPlan([project |-> input.project, changes |-> p.changes])
    BY <1>3, <1>4, <2>1, DecodedSame
  <2>3. input.project => bindToProject(p.changes, p.files)
    BY <1>3, <1>4, <2>1
  <2>4. \A k \in DOMAIN p.changes : p.changes[k].change \in ValidChanges
    BY <1>3, <1>4
  <2> QED BY <2>2, <2>3, <2>4 DEF InUse
<1>6. runs[r].met = <<>> /\ runs[r].done = 0
  BY <1>1, <1>2 DEF Applied
<1>7. Applied(p, input.project)
  BY <1>3, <1>4, <1>5, <1>6, NoneListed DEF Applied, UnderWay, Checks
<1>8. RunsTrue'
  BY <1>1, <1>3, <1>4, <1>7, RunChanges DEF SInv
<1>9. DirTrue'
  BY <1>1, DirStays DEF SInv
<1> QED BY <1>1, <1>8, <1>9, PlanStays DEF SInv

LEMMA PlanSavedKeeps == ASSUME SInv, NEW r \in Runs, PlanSaved(r) PROVE SInv'
<1> DEFINE p == runs'[r]
           s == runs[r].changes[Len(runs[r].items) + 1]
           items == Append(runs[r].items, planItem(dir, s.change, s.expect, FALSE, ProvidedBy(runs[r].items)))
           next == IF Len(items) < Len(runs[r].changes) THEN "planning"
                    ELSE IF holds(items) THEN "checking" ELSE "stale"
<1>1. /\ runs[r].at = "planning"
      /\ runs' = [runs EXCEPT ![r].items = items, ![r].at = next]
      /\ UNCHANGED <<dir, given, saver, saved>> /\ UNCHANGED <<stage, input>>
  BY DEF PlanSaved, saver
<1> HIDE DEF items
<1>2. next \in {"planning", "checking", "stale"}
  OBVIOUS
<1> HIDE DEF next
<1>3. /\ DOMAIN runs = Runs /\ Applied(runs[r], input.project)
      /\ DOMAIN runs[r] = {"at", "files", "changes", "items", "met", "done"}
      /\ stage = "saved"
  BY <1>1, RunIs DEF UnderWay
<1>4. /\ DOMAIN runs' = Runs /\ \A q \in Runs \ {r} : runs'[q] = runs[q]
      /\ DOMAIN p = {"at", "files", "changes", "items", "met", "done"}
      /\ p.at = next /\ p.changes = runs[r].changes /\ p.files = runs[r].files
      /\ p.met = runs[r].met /\ p.done = runs[r].done
  BY <1>1, <1>3
<1>5. Applied(p, input.project)
  BY <1>1, <1>2, <1>3, <1>4 DEF Applied, UnderWay, Checks, InUse
<1>6. RunsTrue'
  BY <1>1, <1>3, <1>4, <1>5, RunChanges DEF SInv
<1>7. DirTrue'
  BY <1>1, DirStays DEF SInv
<1> QED BY <1>1, <1>6, <1>7, PlanStays DEF SInv

LEMMA CheckOneKeeps == ASSUME SInv, NEW r \in Runs, CheckOne(r) PROVE SInv'
<1> DEFINE p == runs'[r]
           k == Len(runs[r].met) + 1
           s == runs[r].changes[k]
           found == Met(s.change.dn)
           verdict == Verify(s, runs[r].items[k].token)
           next == IF verdict # "current" THEN "stale"
                    ELSE IF k = Len(runs[r].changes) THEN "applying" ELSE runs[r].at
<1>1. /\ runs[r].at = "checking"
      /\ runs' = [runs EXCEPT ![r].met = Append(runs[r].met, found), ![r].at = next]
      /\ UNCHANGED <<dir, given, saver, saved>> /\ UNCHANGED <<stage, input>>
  BY DEF CheckOne, saver
<1>2. verdict = "current" => Upheld(s, found)
  BY VerifiedUpheld DEF SInv, DirTrue
<1> HIDE DEF found, verdict
<1>3. /\ next \in {"checking", "applying", "stale"}
      /\ next \in {"checking", "applying"} => verdict = "current" /\ (next = "applying" <=> k = Len(runs[r].changes))
  BY <1>1
<1> HIDE DEF next
<1>4. /\ DOMAIN runs = Runs /\ Applied(runs[r], input.project)
      /\ DOMAIN runs[r] = {"at", "files", "changes", "items", "met", "done"}
      /\ Listed(runs[r].met) /\ Listed(runs[r].changes) /\ stage = "saved"
  BY <1>1, RunIs DEF UnderWay
<1>5. /\ DOMAIN runs' = Runs /\ \A q \in Runs \ {r} : runs'[q] = runs[q]
      /\ DOMAIN p = {"at", "files", "changes", "items", "met", "done"}
      /\ p.at = next /\ p.changes = runs[r].changes /\ p.files = runs[r].files
      /\ p.met = Append(runs[r].met, found) /\ p.done = runs[r].done
  BY <1>1, <1>4
<1>6. /\ Len(runs[r].met) \in Nat /\ DOMAIN runs[r].met = 1..Len(runs[r].met)
      /\ Len(runs[r].changes) \in Nat /\ DOMAIN runs[r].changes = 1..Len(runs[r].changes)
  BY <1>4, ListedIs
<1>7. /\ InUse(runs[r], input.project) /\ Checks(runs[r]) /\ Len(runs[r].met) < Len(runs[r].changes)
      /\ runs[r].done = 0
  BY <1>1, <1>4 DEF Applied, UnderWay
<1>8. /\ Listed(p.met) /\ Len(p.met) = k /\ DOMAIN p.met = 1..k
      /\ \A j \in DOMAIN runs[r].met : p.met[j] = runs[r].met[j]
      /\ p.met[k] = found
  BY <1>4, <1>5, ListedGrows
<1>9. verdict = "current" => Checks(p)
  <2> SUFFICES ASSUME verdict = "current", NEW j \in 1..k
               PROVE  j \in DOMAIN runs[r].changes /\ Upheld(runs[r].changes[j], p.met[j])
    BY <1>5, <1>8 DEF Checks
  <2>1. CASE j = k
    BY <1>2, <1>6, <1>7, <1>8, <2>1
  <2>2. CASE j # k
    <3>1. j \in DOMAIN runs[r].met
      BY <1>6, <2>2
    <3> QED BY <1>7, <1>8, <3>1 DEF Checks
  <2> QED BY <2>1, <2>2
<1>10. InUse(p, input.project)
  BY <1>5, <1>7 DEF InUse
<1>11. /\ p.at = "checking" => Len(p.met) < Len(p.changes)
       /\ p.at = "applying" => Len(p.met) = Len(p.changes) /\ p.done < Len(p.changes)
  BY <1>3, <1>5, <1>6, <1>7, <1>8
<1>12. Applied(p, input.project)
  <2>1. p.at \in {"checking", "applying", "stale"} /\ (p.at \in UnderWay => Checks(p))
    BY <1>3, <1>5, <1>9 DEF UnderWay
  <2>2. Listed(p.changes) /\ p.done = 0
    BY <1>4, <1>5, <1>7
  <2> QED BY <1>5, <1>8, <1>10, <1>11, <2>1, <2>2 DEF Applied
<1>13. RunsTrue'
  BY <1>1, <1>4, <1>5, <1>12, RunChanges DEF SInv
<1>14. DirTrue'
  BY <1>1, DirStays DEF SInv
<1> QED BY <1>1, <1>13, <1>14, PlanStays DEF SInv

LEMMA SendKeeps == ASSUME SInv, NEW r \in Runs, Send(r) PROVE SInv'
<1> DEFINE p == runs'[r]
           k == runs[r].done + 1
           c == runs[r].changes[k].change
           next == IF k = Len(runs[r].changes) THEN "done" ELSE runs[r].at
<1>1. /\ runs[r].at = "applying"
      /\ \/ Carry(c) /\ runs' = [runs EXCEPT ![r].done = k, ![r].at = next]
         \/ runs' = [runs EXCEPT ![r].at = "stopped"] /\ UNCHANGED <<dir, given>>
      /\ UNCHANGED <<saver, saved>> /\ UNCHANGED <<stage, input>>
  BY DEF Send, saver
<1>2. /\ DOMAIN runs = Runs /\ Applied(runs[r], input.project)
      /\ DOMAIN runs[r] = {"at", "files", "changes", "items", "met", "done"}
      /\ Listed(runs[r].met) /\ Listed(runs[r].changes) /\ stage = "saved"
  BY <1>1, RunIs DEF UnderWay
<1>3. /\ InUse(runs[r], input.project) /\ Checks(runs[r]) /\ Len(runs[r].met) = Len(runs[r].changes)
      /\ runs[r].done \in Nat /\ runs[r].done < Len(runs[r].changes)
  BY <1>1, <1>2 DEF Applied, UnderWay
<1>4. Len(runs[r].changes) \in Nat /\ DOMAIN runs[r].changes = 1..Len(runs[r].changes)
  BY <1>2, ListedIs
<1>5. c \in ValidChanges
  <2>1. k \in DOMAIN runs[r].changes
    BY <1>3, <1>4
  <2> HIDE DEF k
  <2> QED BY <1>3, <2>1 DEF InUse
<1>6. CASE Carry(c) /\ runs' = [runs EXCEPT ![r].done = k, ![r].at = next]
  <2>1. /\ DOMAIN runs' = Runs /\ \A q \in Runs \ {r} : runs'[q] = runs[q]
        /\ DOMAIN p = {"at", "files", "changes", "items", "met", "done"}
        /\ p.at = next /\ p.changes = runs[r].changes /\ p.files = runs[r].files
        /\ p.met = runs[r].met /\ p.done = k
    BY <1>2, <1>6
  <2>2. next \in {"done", "applying"} /\ (next = "applying" => k < Len(runs[r].changes))
    BY <1>1, <1>3, <1>4
  <2> HIDE DEF next
  <2>3. InUse(p, input.project) /\ Checks(p)
    BY <1>3, <2>1 DEF InUse, Checks
  <2>4. Applied(p, input.project)
    BY <1>2, <1>3, <2>1, <2>2, <2>3 DEF Applied
  <2>5. RunsTrue'
    BY <1>1, <1>2, <2>1, <2>4, RunChanges DEF SInv
  <2>6. DirTrue'
    <3> HIDE DEF c
    <3> QED BY <1>5, <1>6, CarryKeeps DEF SInv
  <2> QED BY <1>1, <2>5, <2>6, PlanStays DEF SInv
<1>7. CASE runs' = [runs EXCEPT ![r].at = "stopped"] /\ UNCHANGED <<dir, given>>
  <2>1. /\ DOMAIN runs' = Runs /\ \A q \in Runs \ {r} : runs'[q] = runs[q]
        /\ DOMAIN p = {"at", "files", "changes", "items", "met", "done"}
        /\ p.at = "stopped" /\ p.changes = runs[r].changes /\ p.met = runs[r].met /\ p.done = runs[r].done
    BY <1>2, <1>7
  <2>2. Applied(p, input.project)
    BY <1>2, <1>3, <2>1 DEF Applied, UnderWay
  <2>3. RunsTrue'
    BY <1>1, <1>2, <2>1, <2>2, RunChanges DEF SInv
  <2>4. DirTrue'
    BY <1>7, DirStays DEF SInv
  <2> QED BY <1>1, <2>3, <2>4, PlanStays DEF SInv
<1> QED BY <1>1, <1>6, <1>7

-----------------------------------------------------------------------------
(* The invariant holds *)

LEMMA SavedInitKeeps == ASSUME SavedInit PROVE SInv
<1>1. DirTrue
  BY SavedPlanConstants DEF SavedInit, DirTrue
<1>2. Len(ToSave) \in Nat
  BY NoneListed, ToSaveIs DEF SavedInit, ToSave
<1>3. input \in Inputs /\ Len(input.changes) \in Nat /\ 0 < Len(input.changes)
  <2>1. input \in Inputs
    BY DEF SavedInit
  <2>2. input.changes \in Seq(ValidChanges) /\ input.changes # <<>>
    BY <2>1, InputIs
  <2> QED BY <2>1, <2>2
<1>4. Stages
  BY <1>2, <1>3, NoneListed DEF SavedInit, Stages
<1>5. ShownTrue /\ SavingTrue /\ AgainTrue /\ SavedTrue /\ FileValid
  BY NoneListed DEF SavedInit, ShownTrue, SavingTrue, AgainTrue, SavedTrue, FileValid
<1>6. RunsTrue
  BY NoneListed DEF SavedInit, RunsTrue, Applied, UnderWay
<1> QED BY <1>1, <1>4, <1>5, <1>6 DEF SInv

LEMMA SavedStutter == ASSUME SInv, UNCHANGED savedVars PROVE SInv'
<1>1. UNCHANGED <<saver, saved, runs, dir, given>> /\ UNCHANGED <<stage, input>>
  BY DEF savedVars, saver
<1>2. DirTrue' /\ RunsTrue'
  BY <1>1, DirStays, RunsStay DEF SInv
<1> QED BY <1>1, <1>2, PlanStays DEF SInv

\* The invariant of the saved plan holds of every reachable state.
THEOREM SavedInvariantHolds == SavedSpec => []SInv
<1>1. SavedInit => SInv
  BY SavedInitKeeps
<1>2. SInv /\ [SavedNext]_savedVars => SInv'
  <2> SUFFICES ASSUME SInv, [SavedNext]_savedVars PROVE SInv'
    OBVIOUS
  <2>1. ASSUME NEW r \in Runs, Load(r) \/ PlanSaved(r) \/ CheckOne(r) \/ Send(r) PROVE SInv'
    BY <2>1, LoadKeeps, PlanSavedKeeps, CheckOneKeeps, SendKeeps
  <2>2. CASE UNCHANGED savedVars
    BY <2>2, SavedStutter
  <2> QED BY <2>1, <2>2, ShowOneKeeps, SearchShownKeeps, ReadOneKeeps, PlanAgainKeeps, SaveKeeps,
             OtherWritesKeeps, ReviseFilesKeeps, EditFileKeeps DEF SavedNext
<1> QED BY <1>1, <1>2, PTL DEF SavedSpec

-----------------------------------------------------------------------------
(* What lands of a saved plan *)

\* A change lands in one step only, of an application whose checks have all been made.
LandsNow(r) ==
  /\ runs[r].at = "applying" /\ stage = "saved"
  /\ Position(r) \in DOMAIN runs[r].changes /\ Position(r) \in DOMAIN runs[r].met
  /\ Now(r) \in ValidChanges /\ InUse(runs[r], input.project) /\ Checks(runs[r])
  /\ Accepts(dir, Now(r)) /\ \E e : Lands(Now(r), e) /\ Accepts(dir, e) /\ dir' = Done(dir, e)

LEMMA LandingIs ==
  ASSUME SInv, [SavedNext]_savedVars, NEW r \in Runs, Landing(r)
  PROVE  LandsNow(r)
<1>1. /\ DOMAIN runs = Runs /\ Applied(runs[r], input.project)
      /\ runs[r].at \in UnderWay => stage = "saved"
      /\ Listed(runs[r].changes) /\ Listed(runs[r].met)
      /\ DOMAIN runs[r] = {"at", "files", "changes", "items", "met", "done"}
  BY RunIs
<1>2. runs[r].done \in Nat /\ runs'[r].done # runs[r].done
  BY <1>1 DEF Applied, Landing
<1>3. runs' # runs
  BY <1>2
<1>4. PICK q \in Runs : Load(q) \/ PlanSaved(q) \/ CheckOne(q) \/ Send(q)
  BY <1>3 DEF SavedNext, savedVars, ShowOne, SearchShown, ReadOne, PlanAgain, Save, OtherWrites,
              ReviseFiles, EditFile
<1>5. ~Load(q) /\ ~PlanSaved(q) /\ ~CheckOne(q)
  <2>1. ASSUME Load(q) PROVE FALSE
    <3>1. runs' = [runs EXCEPT ![q].at = IF Usable(saved) THEN "planning" ELSE "refused",
                               ![q].changes = saved.changes, ![q].files = Files]
      BY <2>1 DEF Load
    <3> QED BY <1>1, <1>2, <3>1
  <2>2. ASSUME PlanSaved(q) PROVE FALSE
    <3>1. \E x, y : runs' = [runs EXCEPT ![q].items = x, ![q].at = y]
      BY <2>2 DEF PlanSaved
    <3> QED BY <1>1, <1>2, <3>1
  <2>3. ASSUME CheckOne(q) PROVE FALSE
    <3>1. \E x, y : runs' = [runs EXCEPT ![q].met = x, ![q].at = y]
      BY <2>3 DEF CheckOne
    <3> QED BY <1>1, <1>2, <3>1
  <2> QED BY <2>1, <2>2, <2>3
<1>6. Send(q)
  BY <1>4, <1>5
<1>7. q = r
  <2>1. (\E x, y : runs' = [runs EXCEPT ![q].done = x, ![q].at = y]) \/ \E x : runs' = [runs EXCEPT ![q].at = x]
    BY <1>6 DEF Send
  <2> QED BY <1>1, <1>2, <2>1
<1>8. runs[r].at = "applying"
  BY <1>6, <1>7 DEF Send
<1>9. Carry(Now(r))
  <2>1. Carry(Now(r)) \/ runs' = [runs EXCEPT ![r].at = "stopped"]
    BY <1>6, <1>7 DEF Send, Now, Position
  <2> QED BY <1>1, <1>2, <2>1
<1>10. /\ InUse(runs[r], input.project) /\ Checks(runs[r]) /\ Len(runs[r].met) = Len(runs[r].changes)
       /\ runs[r].done < Len(runs[r].changes) /\ stage = "saved"
  BY <1>1, <1>8 DEF Applied, UnderWay
<1>11. /\ Len(runs[r].changes) \in Nat /\ DOMAIN runs[r].changes = 1..Len(runs[r].changes)
       /\ DOMAIN runs[r].met = 1..Len(runs[r].met)
  BY <1>1, ListedIs
<1>12. Position(r) \in DOMAIN runs[r].changes /\ Position(r) \in DOMAIN runs[r].met
  BY <1>2, <1>10, <1>11 DEF Position
<1>13. Now(r) \in ValidChanges
  BY <1>10, <1>12 DEF InUse, Now
<1> DEFINE c == Now(r)
<1>14. c \in ValidChanges /\ Carry(c)
  BY <1>9, <1>13
<1> HIDE DEF c
<1>15. Accepts(dir, c) /\ \E e : Lands(c, e) /\ Accepts(dir, e) /\ dir' = Done(dir, e)
  BY <1>14, CarryIs DEF SInv
<1> QED BY <1>8, <1>10, <1>12, <1>13, <1>15 DEF LandsNow, c

\* A change of a project's plan lands as the files describe it.
LEMMA LandsAsDescribed ==
  ASSUME SInv, NEW r \in Runs, LandsNow(r), input.project
  PROVE  AsDescribed(runs[r].files)
<1> DEFINE c == Now(r)
           files == runs[r].files
<1>1. /\ c \in ValidChanges /\ InUse(runs[r], input.project) /\ Accepts(dir, c)
      /\ Position(r) \in DOMAIN runs[r].changes
  BY DEF LandsNow
<1>2. PICK e : Lands(c, e) /\ Accepts(dir, e) /\ dir' = Done(dir, e)
  BY DEF LandsNow
<1>3. e \in ValidChanges /\ e.type = c.type /\ e.dn = c.dn
  BY <1>2 DEF Lands
<1>4. WellFormed(dir)
  BY DEF SInv, DirTrue
<1>5. c.type \in {"add", "modify"}
  <2>1. decodeSavedPlan([project |-> input.project, changes |-> runs[r].changes])
    BY <1>1 DEF InUse
  <2> QED BY <1>1, <2>1 DEF decodeSavedPlan, Now
<1>6. PICK k \in DOMAIN files :
        /\ files[k].dn = c.dn
        /\ \/ c.type = "add" /\ c.attrs = files[k].attrs
           \/ /\ c.type = "modify"
              /\ \A j \in DOMAIN c.mods : /\ c.mods[j].op = "replace"
                                          /\ c.mods[j].vals = files[k].attrs[c.mods[j].attr]
  <2>1. bindToProject(runs[r].changes, files)
    BY <1>1 DEF InUse
  <2> QED BY <1>1, <2>1 DEF bindToProject, Now
<1> DEFINE f == files[k]
           Given(x, a) == /\ f.dn = x
                          /\ \/ dir'[x][a] = f.attrs[a]
                             \/ /\ x \notin DOMAIN dir /\ a = NamingAttr
                                /\ dir'[x][a] = f.attrs[a] \cup Without({Last(x)}, f.attrs[a])
<1> HIDE DEF c, files
<1>7. SUFFICES /\ DOMAIN dir \subseteq DOMAIN dir'
               /\ \A x \in DOMAIN dir', a \in Attrs \ ServerOwned :
                    x \notin DOMAIN dir \/ dir'[x][a] # dir[x][a] => Given(x, a)
  BY DEF AsDescribed, files
<1>8. CASE c.type = "add"
  <2>1. /\ c.dn \notin DOMAIN dir /\ DOMAIN dir' = DOMAIN dir \cup {c.dn}
        /\ \A x \in DOMAIN dir : dir'[x] = dir[x]
        /\ \A a \in Attrs : dir'[c.dn][a] =
             IF a = NamingAttr THEN e.attrs[a] \cup Without({Last(c.dn)}, e.attrs[a]) ELSE e.attrs[a]
    <3>1. e.type = "add" /\ e \in ValidChanges /\ Accepts(dir, e)
      BY <1>2, <1>3, <1>8
    <3>2. Created(dir, e, dir')
      BY <1>2, <3>1, DoneAdd
    <3> QED BY <1>3, <3>2 DEF Created
  <2>2. \A a \in Attrs \ ServerOwned : e.attrs[a] = f.attrs[a]
    BY <1>2, <1>6, <1>8, SavedPlanConstants DEF Lands
  <2>3. f.dn = c.dn
    BY <1>6
  <2> HIDE DEF f
  <2>4. \A a \in Attrs \ ServerOwned : Given(c.dn, a)
    BY <2>1, <2>2, <2>3
  <2> HIDE DEF Given
  <2> QED BY <2>1, <2>4
<1>9. CASE c.type = "modify"
  <2>1. e = c
    BY <1>2, <1>9 DEF Lands
  <2>2. /\ DOMAIN dir' = DOMAIN dir /\ c.dn \in DOMAIN dir
        /\ \A x \in DOMAIN dir : x # c.dn => dir'[x] = dir[x]
        /\ dir'[c.dn] = [a \in Attrs |-> applyMods(dir[c.dn][a], a, c.mods)]
    BY <1>1, <1>2, <1>9, <2>1, DoneModify DEF c
  <2>3. c.mods \in Seq(Mods) /\ DOMAIN c.mods = 1..Len(c.mods)
    BY <1>3, <1>9, <2>1, ModsOfChange
  <2>4. f.dn = c.dn /\ \A j \in DOMAIN c.mods : c.mods[j].op = "replace" /\ c.mods[j].vals = f.attrs[c.mods[j].attr]
    BY <1>6, <1>9
  <2> HIDE DEF f
  <2>5. ASSUME NEW a \in Attrs, dir'[c.dn][a] # dir[c.dn][a] PROVE dir'[c.dn][a] = f.attrs[a]
    <3> DEFINE S == dir[c.dn][a]
               T == applyMods(S, a, c.mods)
    <3>1. T = S \/ \E j \in 1..Len(c.mods) : c.mods[j].attr = a /\ T = c.mods[j].vals
      BY <2>3, <2>4, ModsReplace
    <3>2. dir'[c.dn][a] = T
      BY <2>2
    <3> HIDE DEF T
    <3> QED BY <2>3, <2>4, <2>5, <3>1, <3>2
  <2> QED BY <2>2, <2>4, <2>5
<1> QED BY <1>5, <1>8, <1>9

\* Whatever the saved file says, what a project's plan changes is what the project's files describe.
THEOREM FilesAreAsked == SavedSpec => OnlyWhatFilesAsk
<1>1. SInv /\ [SavedNext]_savedVars => (\A r \in Runs : Landing(r) /\ input.project => AsDescribed(runs[r].files))
  BY LandingIs, LandsAsDescribed
<1> QED BY <1>1, SavedInvariantHolds, PTL DEF SavedSpec, OnlyWhatFilesAsk

\* A change that lands of the file as it was saved, with its entry as the server's check found it: the
\* item it was shown as, and what has been vouched for.
Reviewed(r, told, read) ==
  LET c == Now(r) IN
  /\ LandsNow(r) /\ Doing(told) /\ c = told.record /\ (told.action = "add" <=> c.type = "add")
  /\ told.action # "rename" =>
       told.membership = membershipChanges(told.action, c, IF told.action = "add" THEN NoEntry ELSE read)
  /\ c.type # "add" => /\ c.type \in {"modify", "delete", "modrdn"} /\ c.dn \in DOMAIN dir
                       /\ read \in Entries /\ dir[c.dn] \in Entries /\ AsRead(c, dir[c.dn], read)
                       /\ told.action = "rename" => told.below = Below(dir, c.dn)

LEMMA AsSavedIs ==
  ASSUME SInv, [SavedNext]_savedVars, NEW r \in Runs, AsSaved(r)
  PROVE  Reviewed(r, shown[ToSave[Position(r)]], base[Position(r)])
<1> DEFINE k == Position(r)
           c == Now(r)
           told == shown[ToSave[k]]
           read == base[k]
           ex == Expectation(told, read)
<1>1. LandsNow(r)
  BY LandingIs DEF AsSaved
<1>2. /\ runs[r].changes = saving /\ runs[r].met[k] = Met(c.dn) /\ k \in DOMAIN saving
      /\ k \in DOMAIN runs[r].met /\ Checks(runs[r]) /\ Accepts(dir, c) /\ stage = "saved"
  BY <1>1 DEF AsSaved, Unraced, LandsNow
<1>3. /\ Doing(told) /\ saving[k].change = told.record /\ saving[k].expect = ex
      /\ Expectable(told.record, read) /\ read \in Entries \cup {NoEntry}
  <2> HIDE DEF k
  <2> QED BY <1>2, SavingIs DEF SInv
<1>4. c = told.record
  BY <1>2, <1>3 DEF Now
<1>5. Upheld(saving[k], Met(c.dn))
  BY <1>2 DEF Checks
<1>6. k \in DOMAIN again
  <2>1. Listed(again) /\ Listed(saving) /\ Len(again) = Len(saving)
    BY <1>2 DEF SInv, Stages
  <2>2. DOMAIN again = DOMAIN saving
    BY <2>1, ListedIs
  <2> QED BY <1>2, <2>2
<1>7. again[k].action = told.action /\ again[k].membership = told.membership
  BY <1>2, <1>6 DEF SInv, SavedTrue
<1>8. FromRead(again[k], c, read)
  BY <1>3, <1>4, <1>6 DEF SInv, AgainTrue
<1> HIDE DEF k, c, told, read
<1>9. ~AppliesNothing(told.action) /\ (told.action = "add" <=> c.type = "add")
      /\ (told.action = "rename" => c.type = "modrdn")
  BY <1>3, <1>4, Kinds DEF Doing, Fits, AppliesNothing, Expectable
<1>10. told.action # "rename" =>
         told.membership = membershipChanges(told.action, c, IF told.action = "add" THEN NoEntry ELSE read)
  BY <1>7, <1>8, <1>9 DEF FromRead
<1>11. ASSUME c.type # "add"
       PROVE  /\ c.type \in {"modify", "delete", "modrdn"} /\ c.dn \in DOMAIN dir
              /\ read \in Entries /\ dir[c.dn] \in Entries /\ AsRead(c, dir[c.dn], read)
              /\ told.action = "rename" => told.below = Below(dir, c.dn)
  <2>1. /\ c.type \in {"modify", "delete", "modrdn"} /\ read \in Entries
        /\ ex # NoExpect /\ DOMAIN ex.attrs \subseteq Attrs
        /\ ex.below = IF told.action = "rename" THEN told.below ELSE Uncounted
        /\ \A live \in Entries : ~Differs(ex, live) => AsRead(c, live, read)
    BY <1>3, <1>4, <1>9, <1>11, ExpectedIs
  <2> HIDE DEF ex
  <2>2. c.dn \in DOMAIN dir
    BY <1>2, <1>11 DEF Accepts
  <2>3. Entry(dir, c.dn) = dir[c.dn] /\ dir[c.dn] \in Entries
    BY <2>2, EntryRead DEF SInv, DirTrue
  <2>4. /\ ~Differs(ex, dir[c.dn])
        /\ ex.below # Uncounted => Below(dir, c.dn) = ex.below
    BY <1>3, <1>5, <2>1, <2>3 DEF Upheld, Met
  <2>5. told.action = "rename" => told.below # Uncounted
    BY <1>3, SavedPlanConstants DEF Doing
  <2> QED BY <2>1, <2>2, <2>3, <2>4, <2>5
<1> QED BY <1>1, <1>3, <1>4, <1>9, <1>10, <1>11 DEF Reviewed, k, c, told, read

LEMMA ReviewedSpares ==
  ASSUME SInv, NEW r \in Runs, Reviewed(r, shown[ToSave[Position(r)]], base[Position(r)])
  PROVE  Spares(r)
<1> DEFINE c == Now(r)
           read == base[Position(r)]
           told == shown[ToSave[Position(r)]]
<1>1. LandsNow(r) /\ Doing(told) /\ c = told.record
  BY DEF Reviewed
<1>2. c.type # "add" => /\ c.type \in {"modify", "delete", "modrdn"} /\ c.dn \in DOMAIN dir
                        /\ read \in Entries /\ dir[c.dn] \in Entries /\ AsRead(c, dir[c.dn], read)
  BY DEF Reviewed
<1>3. c \in ValidChanges /\ Accepts(dir, c)
  BY <1>1 DEF LandsNow
<1>4. PICK e : Lands(c, e) /\ Accepts(dir, e) /\ dir' = Done(dir, e)
  BY <1>1 DEF LandsNow
<1> HIDE DEF c, told, read
<1>5. ASSUME c.dn \in DOMAIN dir
      PROVE  /\ c.type \in {"modify", "delete", "modrdn"} /\ dir[c.dn] \in Entries /\ AsRead(c, dir[c.dn], read)
             /\ dir' = Done(dir, c)
  <2>1. c.type # "add"
    BY <1>3, <1>5 DEF Accepts
  <2> QED BY <1>2, <1>4, <2>1 DEF Lands
<1>6. ASSUME c.dn \in DOMAIN dir, NEW a \in Comparable, c.type # "modrdn",
             c.dn \in DOMAIN dir' => dir'[c.dn][a] # dir[c.dn][a]
      PROVE  sameByRule(a, dir[c.dn][a], read[a])
  <2>1. a \in Attrs
    BY DEF Comparable
  <2>2. CASE c.type = "delete"
    BY <1>5, <1>6, <2>2 DEF AsRead
  <2>3. CASE c.type = "modify"
    <3>1. /\ DOMAIN dir' = DOMAIN dir
          /\ dir'[c.dn] = [b \in Attrs |-> applyMods(dir[c.dn][b], b, c.mods)]
      BY <1>3, <1>5, <1>6, <2>3, DoneModify
    <3>2. /\ c.mods \in Seq(Mods) /\ DOMAIN c.mods = 1..Len(c.mods)
          /\ Named(c) = {c.mods[i].attr : i \in DOMAIN c.mods}
      BY <1>3, <2>3, ModsOfChange
    <3>3. a \in Named(c)
      <4>1. ASSUME a \notin Named(c) PROVE FALSE
        <5>1. \A i \in 1..Len(c.mods) : c.mods[i].attr # a
          BY <3>2, <4>1
        <5>2. applyMods(dir[c.dn][a], a, c.mods) = dir[c.dn][a]
          BY <3>2, <5>1, ModsElsewhere
        <5> QED BY <1>6, <2>1, <3>1, <5>2
      <4> QED BY <4>1
    <3> QED BY <1>5, <1>6, <2>3, <3>3 DEF AsRead
  <2> QED BY <1>5, <1>6, <2>2, <2>3
<1>7. ASSUME c.dn \in DOMAIN dir, c.type = "modrdn"
      PROVE  sameByRule(UniqueId, dir'[c.to][UniqueId], read[UniqueId])
  <2>1. UniqueId \in Attrs /\ UniqueId # NamingAttr /\ UniqueId # RefAttr
    BY DirectoryConstants, SavedPlanConstants
  <2>2. Done(dir, c)[c.to][UniqueId] = dir[c.dn][UniqueId]
    BY <1>3, <1>7, <2>1, DoneRename DEF SInv, DirTrue
  <2> QED BY <1>5, <1>7, <2>2 DEF AsRead
<1> QED BY <1>6, <1>7 DEF Spares, c, read

\* Nobody's edit is overwritten once what the change expects has been read.
THEOREM NobodyIsOverwritten == SavedSpec => OverwritesNobody
<1>1. SInv /\ [SavedNext]_savedVars => (\A r \in Runs : AsSaved(r) => Spares(r))
  BY AsSavedIs, ReviewedSpares
<1> QED BY <1>1, SavedInvariantHolds, PTL DEF SavedSpec, OverwritesNobody

LEMMA ReviewedEffect ==
  ASSUME SInv, NEW r \in Runs, Reviewed(r, shown[ToSave[Position(r)]], base[Position(r)])
  PROVE  Effect(r)
<1> DEFINE c == Now(r)
           read == base[Position(r)]
           told == shown[ToSave[Position(r)]]
           before == Members(dir, c.dn)
           after == Members(dir', c.dn)
<1>1. LandsNow(r) /\ Doing(told) /\ c = told.record /\ (told.action = "add" <=> c.type = "add")
  BY DEF Reviewed
<1>2. c.type # "add" => /\ c.type \in {"modify", "delete", "modrdn"} /\ c.dn \in DOMAIN dir
                        /\ read \in Entries /\ dir[c.dn] \in Entries /\ AsRead(c, dir[c.dn], read)
                        /\ told.action = "rename" => told.below = Below(dir, c.dn)
  BY DEF Reviewed
<1>3. told.action # "rename" =>
        told.membership = membershipChanges(told.action, c, IF told.action = "add" THEN NoEntry ELSE read)
  BY DEF Reviewed
<1>4. c \in ValidChanges /\ Accepts(dir, c)
  BY <1>1 DEF LandsNow
<1>5. PICK e : Lands(c, e) /\ Accepts(dir, e) /\ dir' = Done(dir, e)
  BY <1>1 DEF LandsNow
<1> HIDE DEF c, told, read
<1>6. Fits(told.action, c) /\ ~AppliesNothing(told.action) /\ WellFormed(dir) /\ Tree(dir)
  BY <1>1 DEF Doing, SInv, DirTrue
<1>7. told.action = "add" <=> c.dn \notin DOMAIN dir
  BY <1>1, <1>4 DEF Accepts
<1>8. ASSUME told.action = "rename", c.to # c.dn
      PROVE  told.below = Cardinality(DOMAIN dir \ DOMAIN dir') - 1
  <2>1. c.type = "modrdn" /\ dir' = Done(dir, c)
    BY <1>5, <1>6, <1>8 DEF Fits, Lands
  <2>2. DOMAIN dir \ DOMAIN dir' = Subtree(dir, c.dn)
    BY <1>4, <1>6, <1>8, <2>1, MovedAway
  <2>3. Cardinality(Subtree(dir, c.dn)) = Below(dir, c.dn) + 1 /\ Below(dir, c.dn) \in Nat
    BY <1>2, <1>6, <2>1, SubtreeCounted
  <2>4. told.below = Below(dir, c.dn)
    BY <1>2, <1>8, <2>1
  <2> DEFINE gone == Cardinality(DOMAIN dir \ DOMAIN dir')
  <2>5. gone = Below(dir, c.dn) + 1
    BY <2>2, <2>3
  <2> HIDE DEF gone
  <2>6. told.below = gone - 1
    BY <2>3, <2>4, <2>5
  <2> QED BY <2>6 DEF gone
<1>9. ASSUME told.action # "rename"
      PROVE  told.membership = [gained |-> after \ before, removed |-> before \ after]
  <2>1. /\ RefAttr \in Attrs /\ RefAttr # NamingAttr /\ RefAttr # UniqueId /\ RefAttr \in Comparable
    BY DirectoryConstants, SavedPlanConstants DEF Comparable
  <2>2. Keys({}) = {}
    BY DEF Keys
  <2>3. CASE told.action = "add"
    <3>1. e.type = "add" /\ e \in ValidChanges /\ e.dn = c.dn /\ e.attrs[RefAttr] = c.attrs[RefAttr]
      BY <1>1, <1>5, <2>1, <2>3 DEF Lands
    <3>2. Created(dir, e, dir')
      BY <1>5, <3>1, DoneAdd
    <3>3. c.dn \in DOMAIN dir' /\ c.dn \notin DOMAIN dir /\ dir'[c.dn][RefAttr] = c.attrs[RefAttr]
      BY <2>1, <3>1, <3>2 DEF Created
    <3>4. before = {} /\ after = Keys(c.attrs[RefAttr])
      BY <3>3 DEF Members
    <3>5. told.membership = [gained |-> Keys(c.attrs[RefAttr]) \ Keys({}), removed |-> Keys({}) \ Keys(c.attrs[RefAttr])]
      BY <1>3, <1>9, <2>3 DEF membershipChanges
    <3> QED BY <2>2, <3>4, <3>5
  <2>4. CASE told.action # "add"
    <3>1. /\ c.type \in {"modify", "delete", "modrdn"} /\ c.dn \in DOMAIN dir
          /\ read \in Entries /\ dir[c.dn] \in Entries /\ AsRead(c, dir[c.dn], read) /\ dir' = Done(dir, c)
      BY <1>1, <1>2, <1>5, <2>4 DEF Lands
    <3>2. told.action \in {"modify", "delete"} /\ c.type = told.action
      BY <1>6, <1>9, <2>4, <3>1 DEF Fits, AppliesNothing
    <3>3. told.membership = membershipChanges(told.action, c, dir[c.dn])
      BY <1>3, <1>4, <1>6, <1>9, <2>4, <3>1, <3>2, MembersSame
    <3>4. dir[c.dn] # NoEntry
      BY <3>1, DirectoryConstants DEF Entries
    <3>5. before = Keys(dir[c.dn][RefAttr])
      BY <3>1 DEF Members
    <3>6. CASE c.type = "delete"
      <4>1. c.dn \notin DOMAIN dir'
        <5>1. DOMAIN Done(dir, c) = DOMAIN dir \ {c.dn}
          BY <1>4, <3>6, DoneNames
        <5> QED BY <3>1, <5>1
      <4>2. after = {}
        BY <4>1 DEF Members
      <4>3. told.membership = [gained |-> Keys({}) \ before, removed |-> before \ Keys({})]
        BY <3>2, <3>3, <3>4, <3>5, <3>6 DEF membershipChanges
      <4> QED BY <2>2, <4>2, <4>3
    <3>7. CASE c.type = "modify"
      <4> DEFINE T == applyMods(dir[c.dn][RefAttr], RefAttr, c.mods)
      <4>1. c.dn \in DOMAIN dir' /\ dir'[c.dn][RefAttr] = T
        <5>1. /\ DOMAIN dir' = DOMAIN dir
              /\ dir'[c.dn] = [b \in Attrs |-> applyMods(dir[c.dn][b], b, c.mods)]
          BY <1>4, <3>1, <3>7, DoneModify
        <5> QED BY <2>1, <3>1, <5>1
      <4>2. after = Keys(T)
        BY <4>1 DEF Members
      <4>3. told.membership = [gained |-> Keys(T) \ before, removed |-> before \ Keys(T)]
        BY <3>2, <3>3, <3>4, <3>5, <3>7 DEF membershipChanges
      <4> QED BY <4>2, <4>3
    <3> QED BY <3>2, <3>6, <3>7
  <2> QED BY <2>3, <2>4
<1> QED BY <1>7, <1>8, <1>9 DEF Effect, c, told

\* What was reviewed is what happens.
THEOREM EffectIsShown == SavedSpec => EffectAsShown
<1>1. SInv /\ [SavedNext]_savedVars => (\A r \in Runs : AsSaved(r) => Effect(r))
  BY AsSavedIs, ReviewedEffect
<1> QED BY <1>1, SavedInvariantHolds, PTL DEF SavedSpec, EffectAsShown

-----------------------------------------------------------------------------
(* A plan that is left alone: its invariant *)

Started(run) == run.at \notin {"idle", "refused"}

\* The plan covers the input, is saved whole, and an application is done when its last change is.
Covers ==
  /\ others \in Nat
  /\ stage # "showing" => Len(shown) = Len(input.changes)
  /\ stage \notin {"showing", "searching", "ended"} => ~blocked(shown)
  /\ stage \in {"planning", "comparing", "saved"} => Len(saving) = Len(ToSave)
  /\ \A r \in Runs : /\ Started(runs[r]) => stage = "saved"
                     /\ runs[r].at = "done" => runs[r].done = Len(runs[r].changes)

\* The file, and what is applied of it, is what was saved.
Kept == LeftAlone =>
  /\ saved # None => saved.changes = saving /\ saved.digest = input.changes
  /\ \A r \in Runs : Started(runs[r]) => runs[r].changes = saving /\ runs[r].files = input.changes

\* What is as the files have it already, the item need not change.
Completes(d, item, c) ==
  /\ item.action = "unchanged" => Described(d, c)
  /\ ~AppliesNothing(item.action) =>
       \/ item.record = c
       \/ /\ item.record.type = "modify" /\ item.record.dn = c.dn /\ c.dn \in DOMAIN d
          /\ \A a \in Named(c) \ ServerOwned :
               Gives(d, c, a) \/ \E j \in DOMAIN item.record.mods : item.record.mods[j].attr = a

ShownCompletes == LeftAlone => \A i \in DOMAIN shown : Completes(dir, shown[i], input.changes[i])

\* What has been carried out stands.
Stands == LeftAlone =>
  \A r \in Runs : Started(runs[r]) =>
    \A k \in 1..runs[r].done : k \in DOMAIN saving /\ Described(dir, input.changes[ToSave[k]])

AloneInv == SInv /\ Covers /\ Kept /\ ShownCompletes /\ Stands

-----------------------------------------------------------------------------
(* What a plan that is left alone has yet to do *)

\* An attribute that differs from the files is among those the plan replaces.
LEMMA ReconcileAll ==
  ASSUME NEW c \in ValidChanges, c.type = "add", NEW live, NEW a \in Named(c) \ ServerOwned,
         live[a] # c.attrs[a]
  PROVE  \E j \in DOMAIN Reconcile(c, live) : Reconcile(c, live)[j].attr = a
<1> DEFINE A == {b \in Named(c) \ ServerOwned : live[b] # c.attrs[b]}
           M == {Mod("replace", b, c.attrs[b]) : b \in A}
<1>1. c.attrs \in [Attrs -> SUBSET Values]
  BY Kinds DEF Entries
<1>2. IsFiniteSet(A)
  <2>1. A \subseteq Attrs
    BY DEF Named
  <2> QED BY <2>1, SavedPlanConstants, FS_Subset
<1>3. Reconcile(c, live) = SetToSeq(M)
  BY DEF Reconcile
<1>4. a \in A
  OBVIOUS
<1> HIDE DEF A
<1>5. IsFiniteSet(M)
  <2> DEFINE f == [b \in A |-> Mod("replace", b, c.attrs[b])]
  <2>1. f \in Surjection(A, M)
    BY DEF Surjection
  <2> QED BY <1>2, <2>1, FS_Surjection
<1>6. Mod("replace", a, c.attrs[a]) \in M
  BY <1>4
<1> HIDE DEF M
<1>7. PICK j \in DOMAIN SetToSeq(M) : SetToSeq(M)[j] = Mod("replace", a, c.attrs[a])
  BY <1>5, <1>6, SetToSeqAll
<1> QED BY <1>3, <1>7 DEF Mod

LEMMA ItemOfIs ==
  ASSUME NEW action, NEW c, NEW token, NEW live, NEW n
  PROVE  ItemOf(action, c, token, live, n).action = action /\ ItemOf(action, c, token, live, n).record = c
  BY DEF ItemOf

LEMMA ModifyIs ==
  ASSUME NEW x, NEW ms
  PROVE  Modify(x, ms).type = "modify" /\ Modify(x, ms).dn = x /\ Modify(x, ms).mods = ms
  BY DEF Modify

\* What is shown of a record of the project completes the entry the record describes.
LEMMA ShownOfRecord ==
  ASSUME NEW d, WellFormed(d), NEW c \in ValidChanges, c.type = "add", NEW provided, NEW desired, desired
  PROVE  Completes(d, planItem(d, c, NoExpect, desired, provided), c)
<1> DEFINE live == Entry(d, c.dn)
           item == planItem(d, c, NoExpect, desired, provided)
<1>1. CASE live # NoEntry
  <2> DEFINE mods == Reconcile(c, live)
             action == IF mods = <<>> THEN "unchanged" ELSE "modify"
  <2>1. item = ItemOf(action, Modify(c.dn, mods), NoToken, live, 0)
    BY <1>1 DEF planItem
  <2>2. c.dn \in DOMAIN d /\ live = d[c.dn]
    BY <1>1 DEF Entry
  <2>3. \A a \in Named(c) \ ServerOwned : d[c.dn][a] = c.attrs[a] \/ \E j \in DOMAIN mods : mods[j].attr = a
    BY <2>2, ReconcileAll
  <2> HIDE DEF mods, live, action, item
  <2>4. item.action = action /\ item.record = Modify(c.dn, mods)
    BY <2>1, ItemOfIs
  <2>5. item.record.type = "modify" /\ item.record.dn = c.dn /\ item.record.mods = mods
    BY <2>4, ModifyIs
  <2>6. item.action = "unchanged" => Described(d, c)
    <3> SUFFICES ASSUME mods = <<>> PROVE Described(d, c)
      BY <2>4 DEF action
    <3>1. DOMAIN mods = {}
      BY NoneListed
    <3> QED BY <2>2, <2>3, <3>1 DEF Described, Gives
  <2>7. Completes(d, item, c)
    BY <2>2, <2>3, <2>5, <2>6 DEF Completes, Gives
  <2> QED BY <2>7 DEF item
<1>2. CASE live = NoEntry
  <2>1. classify(d, c, NoExpect, provided).action \in {"add", "conflict"}
    BY DEF classify, Action
  <2> DEFINE found == classify(d, c, NoExpect, provided)
             action == IF live # NoEntry /\ subordinatesDiffer(d, c, NoExpect) THEN "conflict" ELSE found.action
  <2>2. item = ItemOf(action, c, found.token, live, IF action = "rename" THEN Below(d, c.dn) ELSE 0)
    BY <1>2 DEF planItem
  <2> HIDE DEF found, live, action, item
  <2>3. item.action = action /\ item.record = c
    BY <2>2, ItemOfIs
  <2>4. item.action \in {"add", "conflict"}
    BY <2>1, <2>3 DEF found, action
  <2>5. Completes(d, item, c)
    BY <2>3, <2>4 DEF Completes
  <2> QED BY <2>5 DEF item
<1> QED BY <1>1, <1>2

\* What a record of a project is.
LEMMA RecordIs ==
  ASSUME input \in Inputs, input.project, NEW i \in DOMAIN input.changes
  PROVE  /\ input.changes[i] \in ValidChanges /\ input.changes[i].type = "add"
         /\ Named(input.changes[i]) \subseteq Attrs
<1>1. input.changes \in Seq(ValidChanges) /\ input.changes[i].type = "add"
  BY InputIs
<1> QED BY <1>1 DEF Named

\* The records of a project name different entries.
LEMMA RecordsApart ==
  ASSUME input \in Inputs, input.project, NEW i \in DOMAIN input.changes, NEW k \in DOMAIN input.changes,
         input.changes[i].dn = input.changes[k].dn
  PROVE  i = k
  BY SavedPlanConstants

\* What is as the files have it stays so, whatever lands of the plan.
LEMMA GivesStays ==
  ASSUME input \in Inputs, input.project, AsDescribed(input.changes), NEW i \in DOMAIN input.changes,
         NEW c, c = input.changes[i], c.dn \in DOMAIN dir, NEW a \in Attrs \ ServerOwned, Gives(dir, c, a)
  PROVE  c.dn \in DOMAIN dir' /\ Gives(dir', c, a)
<1>1. c.dn \in DOMAIN dir'
  BY DEF AsDescribed
<1>2. CASE dir'[c.dn][a] = dir[c.dn][a]
  BY <1>1, <1>2 DEF Gives
<1>3. CASE dir'[c.dn][a] # dir[c.dn][a]
  <2>1. PICK k \in DOMAIN input.changes : LET f == input.changes[k] IN
          /\ f.dn = c.dn
          /\ \/ dir'[c.dn][a] = f.attrs[a]
             \/ c.dn \notin DOMAIN dir /\ a = NamingAttr
                /\ dir'[c.dn][a] = f.attrs[a] \cup Without({Last(c.dn)}, f.attrs[a])
    BY <1>1, <1>3 DEF AsDescribed
  <2>2. i = k
    BY <2>1, RecordsApart
  <2> QED BY <1>1, <2>1, <2>2 DEF Gives
<1> QED BY <1>2, <1>3

LEMMA DescribedStays ==
  ASSUME input \in Inputs, input.project, AsDescribed(input.changes), NEW i \in DOMAIN input.changes,
         NEW c, c = input.changes[i], Described(dir, c)
  PROVE  Described(dir', c)
<1>1. c.dn \in DOMAIN dir /\ \A a \in Named(c) \ ServerOwned : Gives(dir, c, a)
  BY DEF Described
<1>2. c.dn \in DOMAIN dir'
  BY <1>1 DEF AsDescribed
<1>3. ASSUME NEW a \in Named(c) \ ServerOwned PROVE Gives(dir', c, a)
  <2>1. a \in Attrs \ ServerOwned
    BY RecordIs
  <2> QED BY <1>1, <2>1, GivesStays
<1> QED BY <1>2, <1>3 DEF Described

\* So an item goes on completing its entry.
LEMMA CompletesStays ==
  ASSUME input \in Inputs, input.project, AsDescribed(input.changes), NEW i \in DOMAIN input.changes,
         NEW c, c = input.changes[i], NEW item, Completes(dir, item, c)
  PROVE  Completes(dir', item, c)
<1>1. item.action = "unchanged" => Described(dir', c)
  BY DescribedStays DEF Completes
<1>2. ASSUME ~AppliesNothing(item.action), item.record # c
      PROVE  /\ item.record.type = "modify" /\ item.record.dn = c.dn /\ c.dn \in DOMAIN dir'
             /\ \A a \in Named(c) \ ServerOwned :
                  Gives(dir', c, a) \/ \E j \in DOMAIN item.record.mods : item.record.mods[j].attr = a
  <2>1. /\ item.record.type = "modify" /\ item.record.dn = c.dn /\ c.dn \in DOMAIN dir
        /\ \A a \in Named(c) \ ServerOwned :
             Gives(dir, c, a) \/ \E j \in DOMAIN item.record.mods : item.record.mods[j].attr = a
    BY <1>2 DEF Completes
  <2>2. c.dn \in DOMAIN dir'
    BY <2>1 DEF AsDescribed
  <2>3. ASSUME NEW a \in Named(c) \ ServerOwned, Gives(dir, c, a) PROVE Gives(dir', c, a)
    <3>1. a \in Attrs \ ServerOwned
      BY RecordIs
    <3> QED BY <2>1, <2>3, <3>1, GivesStays
  <2> QED BY <2>1, <2>2, <2>3
<1> QED BY <1>1, <1>2 DEF Completes

\* A modification of an entry that replaces attributes, each by what the files give it.
ReplacesBy(m, c) ==
  /\ c.dn = m.dn
  /\ \A n \in DOMAIN m.mods : m.mods[n].op = "replace" /\ m.mods[n].vals = c.attrs[m.mods[n].attr]

LEMMA BoundTo ==
  ASSUME NEW cs, NEW files, bindToProject(cs, files), NEW p \in DOMAIN cs, cs[p].change.type = "modify"
  PROVE  \E k \in DOMAIN files : ReplacesBy(cs[p].change, files[k])
<1>1. PICK k \in DOMAIN files : LET c == cs[p].change IN
        /\ files[k].dn = c.dn
        /\ c.type = "modify" =>
             \A n \in DOMAIN c.mods : c.mods[n].op = "replace" /\ c.mods[n].vals = files[k].attrs[c.mods[n].attr]
  BY DEF bindToProject
<1> QED BY <1>1 DEF ReplacesBy

LEMMA ReplacedBy ==
  ASSUME NEW m \in ValidChanges, m.type = "modify", NEW c, ReplacesBy(m, c), NEW S, NEW a,
         NEW j \in DOMAIN m.mods, m.mods[j].attr = a
  PROVE  applyMods(S, a, m.mods) = c.attrs[a]
<1> DEFINE ms == m.mods
           V == c.attrs[a]
<1>1. ms \in Seq(Mods) /\ DOMAIN ms = 1..Len(ms)
  BY ModsOfChange
<1>2. j \in 1..Len(ms) /\ ms[j].attr = a /\ ms[j].vals = V
  BY <1>1 DEF ReplacesBy
<1>3. \A n \in 1..Len(ms) : ms[n].attr = a => ms[n].op = "replace" /\ ms[n].vals = ms[j].vals
  BY <1>1, <1>2 DEF ReplacesBy
<1> HIDE DEF ms, V
<1>4. applyMods(S, a, ms) = ms[j].vals
  BY <1>1, <1>2, <1>3, ModsReplaced
<1> QED BY <1>2, <1>4 DEF ms, V

\* What lands of an item leaves its entry as the record describes it.
LEMMA LandsDescribed ==
  ASSUME SInv, NEW r \in Runs, LandsNow(r), input.project, runs[r].files = input.changes,
         NEW i \in DOMAIN input.changes, NEW item, Now(r) = item.record, ~AppliesNothing(item.action),
         Completes(dir, item, input.changes[i])
  PROVE  Described(dir', input.changes[i])
<1> DEFINE c == input.changes[i]
<1>0. input \in Inputs
  BY DEF SInv, Stages
<1>1. AsDescribed(input.changes)
  <2>1. AsDescribed(runs[r].files)
    BY LandsAsDescribed
  <2> QED BY <2>1
<1>2. PICK e : Lands(Now(r), e) /\ Accepts(dir, e) /\ dir' = Done(dir, e)
  BY DEF LandsNow
<1>3. c \in ValidChanges /\ c.type = "add" /\ Named(c) \subseteq Attrs
  BY <1>0, RecordIs
<1>4. CASE item.record = c
  <2> HIDE DEF c
  <2>1. e \in ValidChanges /\ e.type = "add" /\ e.dn = c.dn /\ \A a \in Attrs \ {UniqueId} : e.attrs[a] = c.attrs[a]
    BY <1>2, <1>3, <1>4 DEF Lands
  <2>2. Created(dir, e, dir')
    BY <1>2, <2>1, DoneAdd
  <2>3. c.dn \in DOMAIN dir' /\ \A a \in Attrs : dir'[c.dn][a] =
          IF a = NamingAttr THEN e.attrs[a] \cup Without({Last(c.dn)}, e.attrs[a]) ELSE e.attrs[a]
    BY <2>1, <2>2 DEF Created
  <2>4. ASSUME NEW a \in Named(c) \ ServerOwned PROVE Gives(dir', c, a)
    <3>1. a \in Attrs \ {UniqueId}
      BY <1>3, SavedPlanConstants
    <3>2. e.attrs[a] = c.attrs[a]
      BY <2>1, <3>1
    <3> QED BY <2>3, <3>1, <3>2 DEF Gives
  <2>5. Described(dir', c)
    BY <2>3, <2>4 DEF Described
  <2> QED BY <2>5 DEF c
<1>5. CASE item.record # c
  <2> DEFINE m == item.record
  <2>1. /\ m.type = "modify" /\ m.dn = c.dn /\ c.dn \in DOMAIN dir
        /\ \A a \in Named(c) \ ServerOwned : Gives(dir, c, a) \/ \E j \in DOMAIN m.mods : m.mods[j].attr = a
    BY <1>5 DEF Completes
  <2>2. m \in ValidChanges /\ e = m
    BY <1>2, <2>1 DEF Lands, LandsNow
  <2>3. dir'[c.dn] = [a \in Attrs |-> applyMods(dir[c.dn][a], a, m.mods)]
    BY <1>2, <2>1, <2>2, DoneModify
  <2>5. PICK k \in DOMAIN input.changes : ReplacesBy(Now(r), input.changes[k])
    <3>1. bindToProject(runs[r].changes, input.changes) /\ Position(r) \in DOMAIN runs[r].changes
      BY DEF LandsNow, InUse
    <3>2. runs[r].changes[Position(r)].change.type = "modify"
      BY <2>1 DEF Now
    <3>3. \E k \in DOMAIN input.changes : ReplacesBy(runs[r].changes[Position(r)].change, input.changes[k])
      BY <3>1, <3>2, BoundTo
    <3> QED BY <3>3 DEF Now
  <2>6. ReplacesBy(m, c)
    <3>1. input.changes[k].dn = c.dn
      BY <2>1, <2>5 DEF ReplacesBy
    <3>2. k = i
      BY <1>0, <3>1, RecordsApart
    <3> QED BY <2>5, <3>2
  <2> HIDE DEF m, c
  <2>8. ASSUME NEW a \in Named(c) \ ServerOwned PROVE Gives(dir', c, a)
    <3>1. a \in Attrs /\ a \in Attrs \ ServerOwned
      BY <1>3
    <3>2. CASE Gives(dir, c, a)
      <4>1. c.dn \in DOMAIN dir /\ input \in Inputs
        BY <1>0, <2>1
      <4> QED BY <1>1, <3>1, <3>2, <4>1, GivesStays DEF c
    <3>3. ASSUME NEW j \in DOMAIN m.mods, m.mods[j].attr = a PROVE Gives(dir', c, a)
      <4> DEFINE S == dir[c.dn][a]
      <4>1. m \in ValidChanges /\ m.type = "modify" /\ j \in DOMAIN m.mods /\ m.mods[j].attr = a
        BY <2>1, <2>2, <3>3
      <4> HIDE DEF S
      <4>3. applyMods(S, a, m.mods) = c.attrs[a]
        BY <2>6, <4>1, ReplacedBy
      <4>2. dir'[c.dn][a] = applyMods(dir[c.dn][a], a, m.mods)
        BY <2>3, <3>1
      <4> QED BY <4>2, <4>3 DEF S, Gives
    <3> QED BY <2>1, <3>2, <3>3
  <2>9. c.dn \in DOMAIN dir'
    BY <1>1, <2>1 DEF AsDescribed
  <2>10. Described(dir', c)
    BY <2>8, <2>9 DEF Described
  <2> QED BY <2>10 DEF c
<1> QED BY <1>4, <1>5

-----------------------------------------------------------------------------
(* A plan that is left alone: its invariant holds *)

\* Until the plan is saved nothing has been started, and so nothing carried out.
LEMMA NothingYet ==
  ASSUME AloneInv, stage # "saved", UNCHANGED <<runs, others>>
  PROVE  /\ Stands' /\ others' \in Nat
         /\ \A r \in Runs : ~Started(runs'[r]) /\ runs'[r].at # "done"
<1>1. \A r \in Runs : ~Started(runs'[r])
  BY DEF AloneInv, Covers
<1>2. \A r \in Runs : runs'[r].at # "done"
  BY <1>1 DEF Started
<1>3. Stands'
  BY <1>1 DEF Stands
<1>4. others' \in Nat
  BY DEF AloneInv, Covers
<1> QED BY <1>1, <1>2, <1>3, <1>4

LEMMA ShownSame ==
  ASSUME ShownCompletes, UNCHANGED <<dir, shown, input, others, edited>>
  PROVE  ShownCompletes' /\ ToSave' = ToSave /\ (LeftAlone' => LeftAlone)
  BY DEF ShownCompletes, LeftAlone, ToSave

LEMMA ShowOneAlone == ASSUME AloneInv, ShowOne PROVE AloneInv'
<1> DEFINE n == Len(shown) + 1
           c == input.changes[n]
           item == planItem(dir, c, NoExpect, input.project, ProvidedBy(shown))
<1>1. /\ stage = "showing" /\ shown' = Append(shown, item)
      /\ stage' = (IF Len(shown') = Len(input.changes) THEN "searching" ELSE stage)
      /\ UNCHANGED <<dir, given, input, refs, saving, again, base, revised, saved, edited, runs, others>>
  BY DEF ShowOne
<1>2. SInv' /\ SInv
  BY ShowOneKeeps DEF AloneInv
<1>3. /\ Listed(shown) /\ input \in Inputs /\ Len(shown) < Len(input.changes) /\ saved = None /\ WellFormed(dir)
  BY <1>1, <1>2 DEF SInv, Stages, DirTrue
<1>4. Len(shown) \in Nat /\ DOMAIN shown = 1..Len(shown)
  BY <1>3, ListedIs
<1>5. n \in DOMAIN input.changes
  BY <1>3, <1>4, InputIs
<1>6. input.project => Completes(dir, item, c)
  <2>1. input.project => c \in ValidChanges /\ c.type = "add"
    BY <1>3, <1>5, RecordIs
  <2> QED BY <1>3, <2>1, ShownOfRecord
<1> HIDE DEF item, c
<1>7. /\ Len(shown') = n /\ DOMAIN shown' = 1..n
      /\ \A k \in DOMAIN shown : shown'[k] = shown[k]
      /\ shown'[n] = item
  BY <1>1, <1>3, ListedGrows
<1>8. ShownCompletes'
  <2> SUFFICES ASSUME LeftAlone', NEW i \in DOMAIN shown' PROVE Completes(dir', shown'[i], input'.changes[i])
    BY DEF ShownCompletes
  <2>1. LeftAlone /\ input.project /\ dir' = dir /\ input' = input
    BY <1>1 DEF LeftAlone
  <2>2. CASE i \in DOMAIN shown
    BY <1>7, <2>1, <2>2 DEF AloneInv, ShownCompletes
  <2>3. CASE i \notin DOMAIN shown
    <3>1. i = n
      BY <1>4, <1>7, <2>3
    <3> QED BY <1>6, <1>7, <2>1, <3>1 DEF c
  <2> QED BY <2>2, <2>3
<1>9. /\ Stands' /\ others' \in Nat /\ \A r \in Runs : ~Started(runs'[r]) /\ runs'[r].at # "done"
  BY <1>1, NothingYet
<1>10. Kept'
  BY <1>1, <1>3, <1>9 DEF Kept
<1>11. Covers'
  BY <1>1, <1>9 DEF Covers
<1> QED BY <1>2, <1>8, <1>9, <1>10, <1>11 DEF AloneInv

LEMMA SearchShownAlone == ASSUME AloneInv, SearchShown PROVE AloneInv'
<1>1. /\ stage = "searching"
      /\ stage' = (IF blocked(shown) \/ ToSave = <<>> THEN "ended" ELSE "reading")
      /\ UNCHANGED <<dir, given, input, shown, saving, again, base, revised, saved, edited, runs, others>>
  BY DEF SearchShown
<1>2. SInv' /\ SInv /\ saved = None
  BY <1>1, SearchShownKeeps DEF AloneInv, SInv, Stages
<1>3. /\ Stands' /\ others' \in Nat /\ \A r \in Runs : ~Started(runs'[r]) /\ runs'[r].at # "done"
  BY <1>1, NothingYet
<1>4. ShownCompletes' /\ ToSave' = ToSave
  BY <1>1, ShownSame DEF AloneInv
<1>5. Kept'
  BY <1>1, <1>2, <1>3 DEF Kept
<1>6. Covers'
  <2>1. stage' \in {"ended", "reading"} /\ (stage' = "reading" => ~blocked(shown')) /\ Len(shown') = Len(input'.changes)
    BY <1>1 DEF AloneInv, Covers
  <2> QED BY <1>3, <2>1 DEF Covers
<1> QED BY <1>2, <1>3, <1>4, <1>5, <1>6 DEF AloneInv

LEMMA ReadOneAlone == ASSUME AloneInv, ReadOne PROVE AloneInv'
<1>1. /\ stage = "reading"
      /\ \/ stage' = "ended"
         \/ stage' = "reading"
         \/ stage' = "planning" /\ Len(saving') = Len(ToSave)
      /\ UNCHANGED <<dir, given, input, shown, refs, again, revised, saved, edited, runs, others>>
  BY DEF ReadOne
<1>2. SInv' /\ SInv /\ saved = None
  BY <1>1, ReadOneKeeps DEF AloneInv, SInv, Stages
<1>3. /\ Stands' /\ others' \in Nat /\ \A r \in Runs : ~Started(runs'[r]) /\ runs'[r].at # "done"
  BY <1>1, NothingYet
<1>4. ShownCompletes' /\ ToSave' = ToSave
  BY <1>1, ShownSame DEF AloneInv
<1>5. Kept'
  BY <1>1, <1>2, <1>3 DEF Kept
<1>6. Covers'
  <2>1. ~blocked(shown') /\ Len(shown') = Len(input'.changes)
    BY <1>1 DEF AloneInv, Covers
  <2> QED BY <1>1, <1>3, <1>4, <2>1 DEF Covers
<1> QED BY <1>2, <1>3, <1>4, <1>5, <1>6 DEF AloneInv

LEMMA PlanAgainAlone == ASSUME AloneInv, PlanAgain PROVE AloneInv'
<1>1. /\ stage = "planning" /\ stage' \in {"planning", "comparing"}
      /\ UNCHANGED <<dir, given, input, shown, refs, saving, base, revised, saved, edited, runs, others>>
  BY DEF PlanAgain
<1>2. SInv' /\ SInv /\ saved = None
  BY <1>1, PlanAgainKeeps DEF AloneInv, SInv, Stages
<1>3. /\ Stands' /\ others' \in Nat /\ \A r \in Runs : ~Started(runs'[r]) /\ runs'[r].at # "done"
  BY <1>1, NothingYet
<1>4. ShownCompletes' /\ ToSave' = ToSave
  BY <1>1, ShownSame DEF AloneInv
<1>5. Kept'
  BY <1>1, <1>2, <1>3 DEF Kept
<1>6. Covers'
  <2>1. ~blocked(shown') /\ Len(shown') = Len(input'.changes) /\ Len(saving') = Len(ToSave')
    BY <1>1, <1>4 DEF AloneInv, Covers
  <2> QED BY <1>1, <1>3, <2>1 DEF Covers
<1> QED BY <1>2, <1>3, <1>4, <1>5, <1>6 DEF AloneInv

LEMMA SaveAlone == ASSUME AloneInv, Save PROVE AloneInv'
<1>1. /\ stage = "comparing"
      /\ \/ stage' = "ended" /\ saved' = saved
         \/ /\ stage' = "saved"
            /\ saved' = [project |-> input.project, digest |-> input.changes, changes |-> saving]
      /\ UNCHANGED <<dir, given, input, shown, refs, saving, again, base, revised, edited, runs, others>>
  BY DEF Save
<1>2. SInv' /\ SInv /\ saved = None
  BY <1>1, SaveKeeps DEF AloneInv, SInv, Stages
<1>3. /\ Stands' /\ others' \in Nat /\ \A r \in Runs : ~Started(runs'[r]) /\ runs'[r].at # "done"
  BY <1>1, NothingYet
<1>4. ShownCompletes' /\ ToSave' = ToSave
  BY <1>1, ShownSame DEF AloneInv
<1>5. Kept'
  <2>1. saved' # None => saved'.changes = saving' /\ saved'.digest = input'.changes
    BY <1>1, <1>2
  <2> QED BY <1>3, <2>1 DEF Kept
<1>6. Covers'
  <2>1. ~blocked(shown') /\ Len(shown') = Len(input'.changes) /\ Len(saving') = Len(ToSave')
    BY <1>1, <1>4 DEF AloneInv, Covers
  <2> QED BY <1>1, <1>3, <2>1 DEF Covers
<1> QED BY <1>2, <1>3, <1>4, <1>5, <1>6 DEF AloneInv

\* What a step leaves alone that neither plans nor saves.
LEMMA CoversStay ==
  ASSUME Covers, UNCHANGED saver, others' \in Nat,
         \A r \in Runs : /\ Started(runs'[r]) => stage = "saved"
                         /\ runs'[r].at = "done" => runs'[r].done = Len(runs'[r].changes)
  PROVE  Covers'
<1>1. UNCHANGED <<input, stage, shown, saving>> /\ ToSave' = ToSave
  BY DEF saver, ToSave
<1>2. /\ stage' # "showing" => Len(shown') = Len(input'.changes)
      /\ stage' \notin {"showing", "searching", "ended"} => ~blocked(shown')
      /\ stage' \in {"planning", "comparing", "saved"} => Len(saving') = Len(ToSave')
  BY <1>1 DEF Covers
<1> QED BY <1>1, <1>2 DEF Covers

\* A write of others, or an edit of the saved file, and the plan is not left alone.
LEMMA Disturbed ==
  ASSUME AloneInv, SInv', UNCHANGED <<saver, runs>>, others' \in Nat, ~LeftAlone'
  PROVE  AloneInv'
<1>1. stage' = stage
  BY DEF saver
<1>2. Covers'
  BY CoversStay DEF AloneInv, Covers
<1> QED BY <1>2 DEF AloneInv, Kept, ShownCompletes, Stands

LEMMA OtherWritesAlone == ASSUME AloneInv, OtherWrites PROVE AloneInv'
<1>1. SInv' /\ others \in Nat /\ others' = others + 1 /\ UNCHANGED <<saver, runs>>
  BY OtherWritesKeeps DEF AloneInv, Covers, OtherWrites
<1>2. others' \in Nat /\ others' # 0
  BY <1>1
<1> QED BY <1>1, <1>2, Disturbed DEF LeftAlone

LEMMA EditFileAlone == ASSUME AloneInv, EditFile PROVE AloneInv'
<1>1. SInv' /\ others' \in Nat /\ edited' /\ UNCHANGED <<saver, runs>>
  BY EditFileKeeps DEF AloneInv, Covers, EditFile
<1> QED BY <1>1, Disturbed DEF LeftAlone

\* The rest of a step that touches neither the directory nor what was saved.
LEMMA AloneStays ==
  ASSUME AloneInv, SInv', UNCHANGED <<dir, saver, saved, edited, others>>,
         \A r \in Runs : LeftAlone /\ Started(runs'[r]) =>
           /\ runs'[r].changes = saving /\ runs'[r].files = input.changes
           /\ runs'[r].done = 0 \/ (Started(runs[r]) /\ runs'[r].done = runs[r].done),
         \A r \in Runs : /\ Started(runs'[r]) => stage = "saved"
                         /\ runs'[r].at = "done" => runs'[r].done = Len(runs'[r].changes)
  PROVE  AloneInv'
<1>1. UNCHANGED <<input, stage, shown, saving>>
  BY DEF saver
<1>2. ShownCompletes' /\ ToSave' = ToSave /\ (LeftAlone' => LeftAlone)
  BY <1>1, ShownSame DEF AloneInv
<1>3. Covers'
  <2>1. others' \in Nat
    BY DEF AloneInv, Covers
  <2> QED BY <2>1, CoversStay DEF AloneInv
<1>4. Kept'
  BY <1>1, <1>2 DEF AloneInv, Kept
<1>5. Stands'
  <2> SUFFICES ASSUME LeftAlone', NEW r \in Runs, Started(runs'[r]), NEW k \in 1..runs'[r].done
               PROVE  k \in DOMAIN saving /\ Described(dir, input.changes[ToSave[k]])
    BY <1>1, <1>2 DEF Stands
  <2>1. Started(runs[r]) /\ k \in 1..runs[r].done
    BY <1>2
  <2> QED BY <1>2, <2>1 DEF AloneInv, Stands
<1> QED BY <1>2, <1>3, <1>4, <1>5 DEF AloneInv

LEMMA ReviseFilesAlone == ASSUME AloneInv, ReviseFiles PROVE AloneInv'
<1>1. SInv' /\ UNCHANGED <<dir, saver, saved, edited, others, runs>>
  BY ReviseFilesKeeps DEF AloneInv, ReviseFiles
<1> QED BY <1>1, AloneStays DEF AloneInv, Kept, Covers

LEMMA LoadAlone == ASSUME AloneInv, NEW r \in Runs, Load(r) PROVE AloneInv'
<1>1. /\ runs[r].at = "idle" /\ saved # None
      /\ runs' = [runs EXCEPT ![r].at = IF Usable(saved) THEN "planning" ELSE "refused",
                              ![r].changes = saved.changes, ![r].files = Files]
      /\ UNCHANGED <<dir, saver, saved, edited, others>>
  BY DEF Load
<1>2. SInv /\ SInv' /\ stage = "saved"
  BY <1>1, LoadKeeps DEF AloneInv, SInv, Stages
<1>3. /\ DOMAIN runs = Runs /\ Applied(runs[r], input.project)
      /\ DOMAIN runs[r] = {"at", "files", "changes", "items", "met", "done"}
  BY <1>2, RunIs
<1>4. /\ \A q \in Runs \ {r} : runs'[q] = runs[q]
      /\ runs'[r].at = (IF Usable(saved) THEN "planning" ELSE "refused")
      /\ runs'[r].changes = saved.changes /\ runs'[r].files = Files /\ runs'[r].done = runs[r].done
  BY <1>1, <1>3
<1>5. runs'[r].done = 0
  BY <1>1, <1>3, <1>4 DEF Applied
<1>6. ASSUME LeftAlone, Started(runs'[r])
      PROVE  runs'[r].changes = saving /\ runs'[r].files = input.changes
  <2>1. Usable(saved) /\ saved.project = input.project
    BY <1>1, <1>2, <1>4, <1>6 DEF Started, SInv, FileValid
  <2>2. saved.digest = Files
    BY <1>6, <2>1 DEF Usable, LeftAlone
  <2>3. saved.changes = saving /\ saved.digest = input.changes
    BY <1>1, <1>6 DEF AloneInv, Kept
  <2> QED BY <1>4, <2>2, <2>3
<1>7. runs'[r].at # "done"
  BY <1>4
<1>8. ASSUME NEW q \in Runs
      PROVE  /\ LeftAlone /\ Started(runs'[q]) =>
                  /\ runs'[q].changes = saving /\ runs'[q].files = input.changes
                  /\ runs'[q].done = 0 \/ (Started(runs[q]) /\ runs'[q].done = runs[q].done)
             /\ Started(runs'[q]) => stage = "saved"
             /\ runs'[q].at = "done" => runs'[q].done = Len(runs'[q].changes)
  <2>1. CASE q = r
    BY <1>2, <1>5, <1>6, <1>7, <2>1
  <2>2. CASE q # r
    BY <1>4, <2>2 DEF AloneInv, Kept, Covers
  <2> QED BY <2>1, <2>2
<1> QED BY <1>1, <1>2, <1>8, AloneStays

\* A step of an application under way that carries nothing out.
LEMMA UnderWayAlone ==
  ASSUME AloneInv, SInv', UNCHANGED <<dir, saver, saved, edited, others>>, NEW r \in Runs, Started(runs[r]),
         \A q \in Runs \ {r} : runs'[q] = runs[q],
         runs'[r].changes = runs[r].changes, runs'[r].files = runs[r].files, runs'[r].done = runs[r].done,
         runs'[r].at # "done"
  PROVE  AloneInv'
<1>1. ASSUME NEW q \in Runs
      PROVE  /\ LeftAlone /\ Started(runs'[q]) =>
                  /\ runs'[q].changes = saving /\ runs'[q].files = input.changes
                  /\ runs'[q].done = 0 \/ (Started(runs[q]) /\ runs'[q].done = runs[q].done)
             /\ Started(runs'[q]) => stage = "saved"
             /\ runs'[q].at = "done" => runs'[q].done = Len(runs'[q].changes)
  <2>1. CASE q = r
    BY <2>1 DEF AloneInv, Kept, Covers
  <2>2. CASE q # r
    BY <2>2 DEF AloneInv, Kept, Covers
  <2> QED BY <2>1, <2>2
<1> QED BY <1>1, AloneStays

LEMMA PlanSavedAlone == ASSUME AloneInv, NEW r \in Runs, PlanSaved(r) PROVE AloneInv'
<1>1. PICK x, y : y # "done" /\ runs' = [runs EXCEPT ![r].items = x, ![r].at = y]
  BY DEF PlanSaved
<1>2. runs[r].at = "planning" /\ UNCHANGED <<dir, saver, saved, edited, others>>
  BY DEF PlanSaved
<1>3. SInv' /\ DOMAIN runs = Runs /\ DOMAIN runs[r] = {"at", "files", "changes", "items", "met", "done"}
  BY PlanSavedKeeps, RunIs DEF AloneInv
<1>4. /\ \A q \in Runs \ {r} : runs'[q] = runs[q]
      /\ runs'[r].changes = runs[r].changes /\ runs'[r].files = runs[r].files
      /\ runs'[r].done = runs[r].done /\ runs'[r].at = y
  BY <1>1, <1>3
<1>5. Started(runs[r])
  BY <1>2 DEF Started
<1> QED BY <1>1, <1>2, <1>3, <1>4, <1>5, UnderWayAlone

LEMMA CheckOneAlone == ASSUME AloneInv, NEW r \in Runs, CheckOne(r) PROVE AloneInv'
<1>1. runs[r].at = "checking" /\ UNCHANGED <<dir, saver, saved, edited, others>>
  BY DEF CheckOne
<1>2. SInv' /\ DOMAIN runs = Runs /\ DOMAIN runs[r] = {"at", "files", "changes", "items", "met", "done"}
  BY CheckOneKeeps, RunIs DEF AloneInv
<1>3. \E x, y : y # "done" /\ runs' = [runs EXCEPT ![r].met = x, ![r].at = y]
  <2> DEFINE run == runs[r]
             k == Len(run.met) + 1
             s == run.changes[k]
             verdict == Verify(s, run.items[k].token)
             found == Met(s.change.dn)
             next == IF verdict # "current" THEN "stale" ELSE IF k = Len(run.changes) THEN "applying" ELSE run.at
  <2>1. runs' = [runs EXCEPT ![r].met = Append(runs[r].met, found), ![r].at = next]
    BY DEF CheckOne
  <2> HIDE DEF verdict, found
  <2>2. next # "done"
    BY <1>1
  <2> QED BY <2>1, <2>2
<1>4. PICK x, y : y # "done" /\ runs' = [runs EXCEPT ![r].met = x, ![r].at = y]
  BY <1>3
<1>5. /\ \A q \in Runs \ {r} : runs'[q] = runs[q]
      /\ runs'[r].changes = runs[r].changes /\ runs'[r].files = runs[r].files
      /\ runs'[r].done = runs[r].done /\ runs'[r].at = y
  BY <1>2, <1>4
<1>6. Started(runs[r])
  BY <1>1 DEF Started
<1> QED BY <1>1, <1>2, <1>4, <1>5, <1>6, UnderWayAlone

LEMMA SendIs ==
  ASSUME SInv, NEW r \in Runs, Send(r), Landing(r)
  PROVE  LandsNow(r)
<1>1. SavedNext
  BY DEF SavedNext
<1> QED BY <1>1, LandingIs

\* What is saved is of a record of the project.
LEMMA SavedOfInput ==
  ASSUME AloneInv, stage = "saved", NEW k \in DOMAIN saving
  PROVE  /\ k \in 1..Len(ToSave) /\ ToSave[k] \in DOMAIN input.changes
         /\ ToSave[k] \in DOMAIN shown /\ ~AppliesNothing(shown[ToSave[k]].action)
<1>1. Listed(shown) /\ Listed(saving) /\ Len(saving) <= Len(ToSave) /\ input \in Inputs
  BY DEF AloneInv, SInv, Stages
<1>2. k \in 1..Len(ToSave)
  <2>1. Len(ToSave) \in Nat
    BY <1>1, ToSaveIs DEF ToSave
  <2> QED BY <1>1, <2>1, ListedIs
<1>3. ToSave[k] \in DOMAIN shown /\ ~AppliesNothing(shown[ToSave[k]].action)
  BY <1>1, <1>2, ToSaveIs DEF ToSave
<1>4. Len(shown) = Len(input.changes)
  BY DEF AloneInv, Covers
<1>5. DOMAIN shown = DOMAIN input.changes
  BY <1>1, <1>4, ListedIs, InputIs
<1> QED BY <1>2, <1>3, <1>5

\* A change is carried out of the plan as it was saved.
LEMMA LandsShown ==
  ASSUME AloneInv, LeftAlone, NEW r \in Runs, LandsNow(r)
  PROVE  /\ runs[r].files = input.changes /\ Position(r) \in DOMAIN saving
         /\ ToSave[Position(r)] \in DOMAIN input.changes /\ ToSave[Position(r)] \in DOMAIN shown
         /\ Described(dir', input.changes[ToSave[Position(r)]])
<1> DEFINE k == Position(r)
           i == ToSave[k]
           item == shown[i]
<1>1. SInv /\ input.project /\ input \in Inputs /\ stage = "saved"
  BY DEF AloneInv, SInv, Stages, LeftAlone, LandsNow
<1>2. Started(runs[r])
  BY DEF LandsNow, Started
<1>3. runs[r].changes = saving /\ runs[r].files = input.changes /\ Len(shown) = Len(input.changes)
  BY <1>1, <1>2 DEF AloneInv, Kept, Covers
<1>4. k \in DOMAIN saving
  BY <1>3 DEF LandsNow
<1> HIDE DEF k
<1>5. /\ i \in DOMAIN shown /\ ~AppliesNothing(item.action)
      /\ i \in DOMAIN input.changes
  BY <1>1, <1>4, SavedOfInput
<1>6. Now(r) = item.record
  <2>1. saving[k].change = item.record
    BY <1>1, <1>4, SavingIs DEF SInv
  <2> QED BY <1>3, <2>1 DEF Now, k
<1>7. Completes(dir, item, input.changes[i])
  BY <1>5 DEF AloneInv, ShownCompletes
<1> HIDE DEF i, item
<1>8. Described(dir', input.changes[i])
  BY <1>1, <1>3, <1>5, <1>6, <1>7, LandsDescribed
<1> QED BY <1>3, <1>4, <1>5, <1>8 DEF k, i

\* What a change of the plan leaves described, and what it leaves to be completed.
LEMMA LandsAlone ==
  ASSUME AloneInv, NEW r \in Runs, LandsNow(r), UNCHANGED <<saver, edited, others>>
  PROVE  /\ ShownCompletes'
         /\ LeftAlone => \A i \in DOMAIN input.changes : Described(dir, input.changes[i]) => Described(dir', input.changes[i])
<1>1. UNCHANGED <<input, shown>> /\ (LeftAlone' <=> LeftAlone)
  BY DEF saver, LeftAlone
<1>2. CASE ~LeftAlone
  BY <1>1, <1>2 DEF ShownCompletes
<1>3. CASE LeftAlone
  <2>1. SInv /\ input.project /\ input \in Inputs /\ stage = "saved" /\ Listed(shown)
    BY <1>3 DEF AloneInv, SInv, Stages, LeftAlone, LandsNow
  <2>2. AsDescribed(input.changes)
    <3>1. AsDescribed(runs[r].files) /\ runs[r].files = input.changes
      BY <1>3, <2>1, LandsAsDescribed, LandsShown
    <3> QED BY <3>1
  <2>3. DOMAIN shown = DOMAIN input.changes
    <3>1. Len(shown) = Len(input.changes)
      BY <2>1 DEF AloneInv, Covers
    <3> QED BY <2>1, <3>1, ListedIs, InputIs
  <2>4. ASSUME NEW i \in DOMAIN shown PROVE Completes(dir', shown[i], input.changes[i])
    <3>1. Completes(dir, shown[i], input.changes[i]) /\ i \in DOMAIN input.changes
      BY <1>3, <2>3 DEF AloneInv, ShownCompletes
    <3> QED BY <2>1, <2>2, <3>1, CompletesStays
  <2>5. ShownCompletes'
    BY <1>1, <2>4 DEF ShownCompletes
  <2>6. ASSUME NEW i \in DOMAIN input.changes, Described(dir, input.changes[i])
        PROVE  Described(dir', input.changes[i])
    BY <2>1, <2>2, <2>6, DescribedStays
  <2> QED BY <2>5, <2>6
<1> QED BY <1>2, <1>3

LEMMA SendAlone == ASSUME AloneInv, NEW r \in Runs, Send(r) PROVE AloneInv'
<1> DEFINE k == runs[r].done + 1
           n == Len(runs[r].changes)
           next == IF k = n THEN "done" ELSE runs[r].at
<1>1. /\ runs[r].at = "applying"
      /\ \/ runs' = [runs EXCEPT ![r].done = k, ![r].at = next]
         \/ runs' = [runs EXCEPT ![r].at = "stopped"] /\ UNCHANGED dir
      /\ UNCHANGED <<saver, revised, saved, edited, others>>
  BY DEF Send
<1>2. SInv' /\ SInv
  BY SendKeeps DEF AloneInv
<1>3. /\ DOMAIN runs = Runs /\ Applied(runs[r], input.project)
      /\ DOMAIN runs[r] = {"at", "files", "changes", "items", "met", "done"}
  BY <1>2, RunIs
<1>4. Started(runs[r])
  BY <1>1 DEF Started
<1>5. CASE runs' = [runs EXCEPT ![r].at = "stopped"] /\ UNCHANGED dir
  <2>1. /\ \A q \in Runs \ {r} : runs'[q] = runs[q]
        /\ runs'[r].changes = runs[r].changes /\ runs'[r].files = runs[r].files
        /\ runs'[r].done = runs[r].done /\ runs'[r].at # "done"
    BY <1>3, <1>5
  <2> QED BY <1>1, <1>2, <1>4, <1>5, <2>1, UnderWayAlone
<1>6. CASE runs' = [runs EXCEPT ![r].done = k, ![r].at = next]
  <2>1. /\ \A q \in Runs \ {r} : runs'[q] = runs[q]
        /\ runs'[r].changes = runs[r].changes /\ runs'[r].files = runs[r].files
        /\ runs'[r].done = k /\ runs'[r].at = next
    BY <1>3, <1>6
  <2>2. LandsNow(r) /\ Position(r) = k
    <3>1. Landing(r)
      BY <2>1 DEF Landing
    <3> QED BY <1>2, <3>1, SendIs DEF Position
  <2>3. stage = "saved" /\ UNCHANGED <<input, stage, shown, saving>> /\ ToSave' = ToSave
    BY <1>1, <2>2 DEF LandsNow, saver, ToSave
  <2>4. Covers'
    <3>1. others' \in Nat
      BY <1>1 DEF AloneInv, Covers
    <3>2. ASSUME NEW q \in Runs
          PROVE  /\ Started(runs'[q]) => stage = "saved"
                 /\ runs'[q].at = "done" => runs'[q].done = Len(runs'[q].changes)
      <4>1. CASE q = r
        <5>1. runs'[r].at = "done" => k = n
          BY <1>1, <2>1
        <5> QED BY <2>1, <2>3, <4>1, <5>1
      <4>2. CASE q # r
        BY <2>1, <2>3, <4>2 DEF AloneInv, Covers
      <4> QED BY <4>1, <4>2
    <3> QED BY <1>1, <3>1, <3>2, CoversStay DEF AloneInv
  <2>5. LeftAlone' => LeftAlone
    BY <1>1, <2>3 DEF LeftAlone
  <2>6. Kept'
    <3> SUFFICES ASSUME LeftAlone'
                 PROVE  /\ saved' # None => saved'.changes = saving' /\ saved'.digest = input'.changes
                        /\ \A q \in Runs : Started(runs'[q]) =>
                             runs'[q].changes = saving' /\ runs'[q].files = input'.changes
      BY DEF Kept
    <3>1. /\ saved # None => saved.changes = saving /\ saved.digest = input.changes
          /\ \A q \in Runs : Started(runs[q]) => runs[q].changes = saving /\ runs[q].files = input.changes
      BY <2>5 DEF AloneInv, Kept
    <3>2. ASSUME NEW q \in Runs, Started(runs'[q])
          PROVE  runs'[q].changes = saving' /\ runs'[q].files = input'.changes
      <4>1. CASE q = r
        BY <1>4, <2>1, <2>3, <3>1, <4>1
      <4>2. CASE q # r
        BY <2>1, <2>3, <3>1, <3>2, <4>2
      <4> QED BY <4>1, <4>2
    <3> QED BY <1>1, <2>3, <3>1, <3>2
  <2>7. /\ ShownCompletes'
        /\ LeftAlone => \A i \in DOMAIN input.changes : Described(dir, input.changes[i]) => Described(dir', input.changes[i])
    BY <1>1, <2>2, LandsAlone
  <2>8. Stands'
    <3> SUFFICES ASSUME LeftAlone', NEW q \in Runs, Started(runs'[q]), NEW j \in 1..runs'[q].done
                 PROVE  j \in DOMAIN saving /\ Described(dir', input.changes[ToSave[j]])
      BY <2>3 DEF Stands
    <3>1. LeftAlone
      BY <2>5
    <3>2. CASE q = r /\ j = k
      BY <2>2, <3>1, <3>2, LandsShown
    <3>3. CASE ~(q = r /\ j = k)
      <4>1. Started(runs[q]) /\ j \in 1..runs[q].done
        <5>1. CASE q = r
          <6>1. j \in 1..k /\ j # k
            BY <2>1, <3>3, <5>1
          <6>2. runs[r].done \in Nat
            BY <1>3 DEF Applied
          <6> QED BY <1>4, <5>1, <6>1, <6>2
        <5>2. CASE q # r
          BY <2>1, <5>2
        <5> QED BY <5>1, <5>2
      <4>2. j \in DOMAIN saving /\ Described(dir, input.changes[ToSave[j]])
        BY <3>1, <4>1 DEF AloneInv, Stands
      <4>3. ToSave[j] \in DOMAIN input.changes
        BY <2>2, <3>1, <4>2, SavedOfInput DEF LandsNow
      <4> QED BY <2>7, <3>1, <4>2, <4>3
    <3> QED BY <3>2, <3>3
  <2> QED BY <1>2, <2>4, <2>6, <2>7, <2>8 DEF AloneInv
<1> QED BY <1>1, <1>5, <1>6

LEMMA AloneInit == ASSUME SavedInit PROVE AloneInv
<1>1. SInv
  BY SavedInitKeeps
<1>2. /\ others = 0 /\ shown = <<>> /\ saved = None /\ stage = "showing" /\ DOMAIN shown = {}
      /\ \A r \in Runs : runs[r].at = "idle" /\ ~Started(runs[r])
  BY NoneListed DEF SavedInit, Started
<1> QED BY <1>1, <1>2 DEF AloneInv, Covers, Kept, ShownCompletes, Stands

LEMMA AloneStutter == ASSUME AloneInv, UNCHANGED savedVars PROVE AloneInv'
<1>1. SInv' /\ UNCHANGED <<dir, saver, saved, edited, others, runs>>
  BY SavedStutter DEF AloneInv, savedVars
<1>2. ASSUME NEW r \in Runs
      PROVE  /\ LeftAlone /\ Started(runs'[r]) => runs'[r].changes = saving /\ runs'[r].files = input.changes
             /\ Started(runs'[r]) => stage = "saved"
             /\ runs'[r].at = "done" => runs'[r].done = Len(runs'[r].changes)
  BY <1>1 DEF AloneInv, Kept, Covers
<1> QED BY <1>1, <1>2, AloneStays

\* What is known of a plan that is left alone holds of every reachable state.
THEOREM AloneInvariantHolds == SavedSpec => []AloneInv
<1>1. SavedInit => AloneInv
  BY AloneInit
<1>2. AloneInv /\ [SavedNext]_savedVars => AloneInv'
  <2> SUFFICES ASSUME AloneInv, [SavedNext]_savedVars PROVE AloneInv'
    OBVIOUS
  <2>1. ASSUME NEW r \in Runs, Load(r) \/ PlanSaved(r) \/ CheckOne(r) \/ Send(r) PROVE AloneInv'
    BY <2>1, LoadAlone, PlanSavedAlone, CheckOneAlone, SendAlone
  <2>2. CASE UNCHANGED savedVars
    BY <2>2, AloneStutter
  <2> QED BY <2>1, <2>2, ShowOneAlone, SearchShownAlone, ReadOneAlone, PlanAgainAlone, SaveAlone,
             OtherWritesAlone, ReviseFilesAlone, EditFileAlone DEF SavedNext
<1> QED BY <1>1, <1>2, PTL DEF SavedSpec

\* Each item of the plan is saved, or had nothing left to do.
LEMMA AllIsSaved ==
  ASSUME AloneInv, NEW i \in DOMAIN shown, ~AppliesNothing(shown[i].action)
  PROVE  \E k \in 1..Len(ToSave) : ToSave[k] = i
<1> DEFINE I == {j \in DOMAIN shown : ~AppliesNothing(shown[j].action)}
           n == Len(shown)
<1>1. n \in Nat /\ DOMAIN shown = 1..n
  BY ListedIs DEF AloneInv, SInv, Stages
<1>2. I \in SUBSET (1..n) /\ i \in I
  BY <1>1
<1>3. ToSave = InOrder(I)
  BY DEF ToSave
<1> HIDE DEF I, n
<1>4. /\ InOrder(I) \in [1..Cardinality(I) -> I] /\ Cardinality(I) \in 0..n
      /\ \E k \in 1..Cardinality(I) : InOrder(I)[k] = i
  BY <1>1, <1>2, InOrderIs
<1>5. Len(ToSave) = Cardinality(I)
  BY <1>1, <1>3, <1>4
<1> QED BY <1>3, <1>4, <1>5

LEMMA AllIsDescribed ==
  ASSUME AloneInv, LeftAlone, NEW r \in Runs, runs[r].at = "done", runs[r].changes = saving,
         NEW i \in DOMAIN input.changes
  PROVE  Described(dir, input.changes[i])
<1>1. Started(runs[r])
  BY DEF Started
<1>2. stage = "saved" /\ runs[r].done = Len(saving) /\ Len(saving) = Len(ToSave)
      /\ Len(shown) = Len(input.changes) /\ ~blocked(shown)
  BY <1>1 DEF AloneInv, Covers
<1>3. i \in DOMAIN shown
  <2>1. Listed(shown) /\ input \in Inputs
    BY DEF AloneInv, SInv, Stages
  <2> QED BY <1>2, <2>1, ListedIs, InputIs
<1>4. Completes(dir, shown[i], input.changes[i]) /\ shown[i].action # "conflict"
  BY <1>2, <1>3 DEF AloneInv, ShownCompletes, blocked
<1>5. CASE AppliesNothing(shown[i].action)
  BY <1>4, <1>5 DEF Completes, AppliesNothing
<1>6. CASE ~AppliesNothing(shown[i].action)
  <2>1. PICK k \in 1..Len(ToSave) : ToSave[k] = i
    BY <1>3, <1>6, AllIsSaved
  <2>2. k \in 1..runs[r].done
    BY <1>2, <2>1
  <2> QED BY <1>1, <2>1, <2>2 DEF AloneInv, Stands
<1> QED BY <1>5, <1>6

\* With nobody else writing and nobody editing the saved file, a project's plan that went through
\* leaves what the files describe, though two runs of it may have taken turns.
THEOREM FilesAreMet == SavedSpec => []LeavesWhatFilesDescribe
<1>1. AloneInv => LeavesWhatFilesDescribe
  BY AllIsDescribed DEF LeavesWhatFilesDescribe
<1> QED BY <1>1, AloneInvariantHolds, PTL
=============================================================================
