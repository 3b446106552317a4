------------------------------ MODULE StateDiff ------------------------------
(***************************************************************************)
(* Two captured states of a directory, what differs between them, and the  *)
(* changes proposed for a difference: internal/snapshot's Build and        *)
(* lookups, and internal/diff's Compare and Derive.  The scope is always   *)
(* the whole subtree, a filter asks for the entries holding an attribute,  *)
(* and every rule a schema names is one Alder implements.                  *)
(***************************************************************************)
EXTENDS Planning

CONSTANTS
  Identity,  \* the server-owned attribute that names an entry for good: entryUUID
  NoFilter   \* the filter every entry matches

ASSUME StateDiffConstants == Identity \in ServerOwned /\ NoFilter \notin Attrs

-----------------------------------------------------------------------------
(* Capturing *)

Request(base, filter, operational) == [base |-> base, filter |-> filter, operational |-> operational]

\* A search fails when its base is not there; the top of the tree always is.
BaseExists(d, req) == req.base = <<>> \/ req.base \in DOMAIN d

\* What a search of the request returns, to somebody who may not read the attributes in hidden.
InSearch(d, req, hidden) ==
  {x \in DOMAIN d : IsUnder(x, req.base)
                      /\ (req.filter # NoFilter => req.filter \notin hidden /\ d[x][req.filter] # {})}

\* Build: one entry.  The identity becomes its id; of a sensitive attribute only the count is kept.
Captured(e, req, hidden) ==
  [id |-> e[Identity],
   attrs |-> [a \in Attrs \ Sensitive |->
                IF a \in hidden \/ (a \in ServerOwned /\ ~req.operational) THEN {} ELSE e[a]],
   withheld |-> [a \in Sensitive |-> IF a \in hidden THEN 0 ELSE Cardinality(e[a])]]

\* The document, once every entry is in it; schema is whether the session could read one.
Snapshot(req, schema, entries) ==
  [base |-> req.base, filter |-> req.filter, operational |-> req.operational, schema |-> schema,
   entries |-> entries]

Holds(e, a) == IF a \in Sensitive THEN e.withheld[a] # 0 ELSE e.attrs[a] # {}

\* Info(name).Operational: only what a schema said about an attribute the snapshot holds.
isOperational(s, a) == s.schema /\ a \in ServerOwned /\ \E x \in DOMAIN s.entries : Holds(s.entries[x], a)

\* EntryByID: the names an identity has in the snapshot; one that is not unique identifies nothing.
EntryByID(s, id) ==
  LET named == {x \in DOMAIN s.entries : s.entries[x].id = id}
  IN IF id # {} /\ Cardinality(named) = 1 THEN named ELSE {}

-----------------------------------------------------------------------------
(* Comparing *)

\* A side: its snapshot, whether its read was cut off, and the directories that can be asked about
\* it, the one it was read from just now or none when it is a document, with what the reader may
\* not read there.
Side(snapshot, truncated, asked, hidden) ==
  [snapshot |-> snapshot, truncated |-> truncated, asked |-> asked, hidden |-> hidden]

\* keyer: by the attribute's rule where both sides recorded one, byte for byte otherwise.
Lacking(S, T, byRule) == IF byRule THEN Without(S, T) ELSE S \ T
ByRule(s, t) == s.schema /\ t.schema

\* compareAttributes: the attributes that differ.
Changed(s, t, se, te) ==
  {a \in Attrs :
     /\ isOperational(s, a) \/ isOperational(t, a) => s.operational /\ t.operational
     /\ IF a \in Sensitive THEN se.withheld[a] # te.withheld[a]
        ELSE \/ Lacking(se.attrs[a], te.attrs[a], ByRule(s, t)) # {}
             \/ Lacking(te.attrs[a], se.attrs[a], ByRule(s, t)) # {}}

Item(kind, from, to, changed) == [kind |-> kind, from |-> from, to |-> to, changed |-> changed]

\* presenceUnknown: not being on that side cannot be trusted.
presenceUnknown(this, other, x) ==
  \/ other.truncated
  \/ this.snapshot.filter # other.snapshot.filter
  \/ ~IsUnder(x, other.snapshot.base)

\* Where an entry of the source is in the target: under its name, or else where its identity is.
Matches(s, t, x) ==
  IF x \in DOMAIN t.entries THEN {x} ELSE EntryByID(t, s.entries[x].id) \ DOMAIN s.entries

\* Compare: the differences, before the directories are asked about what they seem to lack.
Differences(source, target) ==
  LET s == source.snapshot
      t == target.snapshot
      pairs == {p \in (DOMAIN s.entries) \X (DOMAIN t.entries) : p[2] \in Matches(s, t, p[1])}
      matched(p) == Item(IF p[1] = p[2] THEN "modified" ELSE "renamed", p[1], p[2],
                         Changed(s, t, s.entries[p[1]], t.entries[p[2]]))
      differing == {i \in {matched(p) : p \in pairs} : i.kind = "renamed" \/ i.changed # {}}
      gone == {x \in DOMAIN s.entries : Matches(s, t, x) = {}}
      new == DOMAIN t.entries \ {p[2] : p \in pairs}
  IN differing
       \cup {Item(IF presenceUnknown(source, target, x) THEN "unknown" ELSE "removed", x, <<>>, {}) : x \in gone}
       \cup {Item(IF presenceUnknown(target, source, y) THEN "unknown" ELSE "added", <<>>, y, {}) : y \in new}

\* probeMissing: what one side holds and the other, read just now, does not; and of that what the
\* directory, asked, says is not hidden but absent.
Missing(source, target, items) ==
  LET se(i) == source.snapshot.entries[i.from]
      te(i) == target.snapshot.entries[i.to]
      paired == {i \in items : i.kind \in {"modified", "renamed"}}
  IN UNION {{[item |-> i, attr |-> a, side |-> IF Holds(se(i), a) THEN target ELSE source,
              at |-> IF Holds(se(i), a) THEN i.to ELSE i.from] :
               a \in {a \in i.changed : Holds(se(i), a) # Holds(te(i), a)}} : i \in paired}

Asked(m) == m.side.asked # {}

Absent(m) == \A d \in m.side.asked :
  m.at \in DOMAIN d /\ m.attr \notin m.side.hidden /\ d[m.at][m.attr] = {}

\* Mutated form: past the budget a missing attribute is taken for absent.
UnknownsOfProbed(missing, probed) == {m \in missing : Asked(m) /\ m \in probed /\ ~Absent(m)}

\* What stays unknown when only the questions in probed could be put.
Unknowns(missing, probed) == {m \in missing : Asked(m) /\ ~(m \in probed /\ Absent(m))}

Complete(source, target, unknowns) ==
  /\ source.snapshot.base = target.snapshot.base /\ source.snapshot.filter = target.snapshot.filter
  /\ ~source.truncated /\ ~target.truncated
  /\ ByRule(source.snapshot, target.snapshot)
  /\ unknowns = {}

\* Compare: a result, with the questions that were put.
Result(source, target, probed) ==
  LET items == Differences(source, target)
      unknowns == Unknowns(Missing(source, target, items), probed)
  IN [source |-> source.snapshot, target |-> target.snapshot,
      complete |-> Complete(source, target, unknowns),
      items |-> {[kind |-> i.kind, from |-> i.from, to |-> i.to, changed |-> i.changed,
                  unknown |-> {m.attr : m \in {m \in unknowns : m.item = i}}] : i \in items}]

-----------------------------------------------------------------------------
(* Proposing *)

\* Mutated form: an attribute the target lacks stays.
ModsOfHeld(r, i, a) ==
  LET S == r.source.entries[i.from].attrs[a]
      T == r.target.entries[i.to].attrs[a]
  IN CASE T = {} -> <<>>
       [] T # {} /\ S = {} -> <<Mod("add", a, T)>>
       [] OTHER -> <<Mod("replace", a, T)>>

\* modsFor: attribute by attribute, none that is unknown, sensitive, operational or the identity.
ModsOf(r, i, a) ==
  LET S == r.source.entries[i.from].attrs[a]
      T == r.target.entries[i.to].attrs[a]
      byRule == ByRule(r.source, r.target)
      remove == Lacking(S, T, byRule)
      add == Lacking(T, S, byRule)
  IN CASE T = {} -> <<Mod("delete", a, {})>>
       [] T # {} /\ S = {} -> <<Mod("add", a, T)>>
       [] OTHER -> (IF remove # {} THEN <<Mod("delete", a, remove)>> ELSE <<>>)
                     \o (IF add # {} THEN <<Mod("add", a, add)>> ELSE <<>>)

modsFor(r, i, skip) ==
  LET settable == {a \in i.changed \ (i.unknown \cup Sensitive \cup {Identity} \cup skip) :
                     ~isOperational(r.source, a) /\ ~isOperational(r.target, a)}
  IN FoldSet(LAMBDA a, ms : ms \o ModsOf(r, i, a), <<>>, settable)

deriveAdd(r, i) ==
  LET kept == [a \in Attrs |-> IF a \in Sensitive \cup {Identity} \/ isOperational(r.target, a) THEN {}
                               ELSE r.target.entries[i.to].attrs[a]]
  IN IF \A a \in Attrs : kept[a] = {} THEN <<>> ELSE <<Add(i.to, kept)>>

\* deriveRename: the old naming value stays only where the target holds it too.
deriveRename(r, i) ==
  LET ms == modsFor(r, i, {NamingAttr})
      drop == Key[Last(i.from)] \notin Keys(r.target.entries[i.to].attrs[NamingAttr])
  IN <<Rename(i.from, i.to, drop)>> \o (IF ms # <<>> THEN <<Modify(i.to, ms)>> ELSE <<>>)

\* The changes a difference is offered as; none when it is blocked.
Derive(r, i) ==
  CASE i.kind = "added" -> deriveAdd(r, i)
    [] i.kind = "removed" /\ r.complete -> <<Delete(i.from)>>
    [] i.kind = "modified" ->
         (IF modsFor(r, i, {}) # <<>> THEN <<Modify(i.from, modsFor(r, i, {}))>> ELSE <<>>)
    [] i.kind = "renamed" -> deriveRename(r, i)
    [] OTHER -> <<>>
=============================================================================
