------------------------------ MODULE Directory ------------------------------
(***************************************************************************)
(* What Alder sends to a directory, and what a directory does with it.     *)
(* The change records are internal/directory's; how a server answers one   *)
(* is LDAP's (RFC 4511), modelled from what the code in src/ relies on.    *)
(*                                                                         *)
(* A DN is the sequence of its naming values, the topmost first, so that a *)
(* parent is a prefix; <<>> is the suffix, which is always there.  A       *)
(* directory maps the DNs that exist to entries, an entry every attribute  *)
(* to its set of values.  objectClass is left out: it decides nothing here.*)
(***************************************************************************)
EXTENDS Integers, FiniteSets, SequencesExt

CONSTANTS
  Attrs,       \* attribute names
  Key,         \* of a value, the form the equality rule compares: two spellings share it
  NamingAttr,  \* the attribute RDNs are made of
  Sensitive,   \* schema.IsSensitive: attributes whose values Alder never shows or keeps
  ServerOwned, \* operational attributes, which the server maintains
  AccessRules, \* attributes that carry access rules
  RefAttr,     \* the attribute whose values name entries
  Ref,         \* of some DNs, the value that names the entry
  NoEntry

Values == DOMAIN Key

ASSUME DirectoryConstants ==
  /\ Key \in [Values -> Values] /\ \A v \in Values : Key[Key[v]] = Key[v]
  /\ NamingAttr \in Attrs \ (Sensitive \cup ServerOwned) /\ RefAttr \in Attrs
  /\ Sensitive \cup ServerOwned \cup AccessRules \subseteq Attrs
  /\ \A x \in DOMAIN Ref : Ref[x] \in Values
  /\ NoEntry \notin [Attrs -> SUBSET Values]

DNs == Seq(Values)
Entries == [Attrs -> SUBSET Values]

\* What a directory is.
WellFormed(d) == DOMAIN d \subseteq DNs /\ \A x \in DOMAIN d : d[x] \in Entries

\* Two functions as one; the first has its way.
Over(f, g) == [x \in DOMAIN f \cup DOMAIN g |-> IF x \in DOMAIN f THEN f[x] ELSE g[x]]

-----------------------------------------------------------------------------
(* Values under an equality rule *)

Keys(S) == {Key[v] : v \in S}

\* What S holds and T does not.
Without(S, T) == {v \in S : Key[v] \notin Keys(T)}
SameByRule(S, T) == Keys(S) = Keys(T)

Parent(x) == Front(x)
IsUnder(x, top) == IsPrefix(top, x)
Moved(x, from, to) == to \o SubSeq(x, Len(from) + 1, Len(x))

-----------------------------------------------------------------------------
(* Change records *)

Add(x, given) == [type |-> "add", dn |-> x, attrs |-> given]
Modify(x, ms) == [type |-> "modify", dn |-> x, mods |-> ms]
Delete(x) == [type |-> "delete", dn |-> x]
Rename(x, y, drop) == [type |-> "modrdn", dn |-> x, to |-> y, deleteOld |-> drop]
SetPassword(x, S) == [type |-> "setpassword", dn |-> x, new |-> S]

Mod(o, a, S) == [op |-> o, attr |-> a, vals |-> S]
Mods == [op : {"add", "delete", "replace"}, attr : Attrs, vals : SUBSET Values]

ChangeRecords ==
  [type : {"add"}, dn : DNs, attrs : Entries]
    \cup [type : {"modify"}, dn : DNs, mods : Seq(Mods)]
    \cup [type : {"delete"}, dn : DNs]
    \cup [type : {"modrdn"}, dn : DNs, to : DNs, deleteOld : BOOLEAN]
    \cup [type : {"setpassword"}, dn : DNs, new : SUBSET Values]

\* ChangeRecord.Validate.  An add always gives an objectClass, which is left out here.
Valid(c) ==
  /\ c \in ChangeRecords
  /\ c.dn # <<>>
  /\ c.type = "modify" => c.mods # <<>> /\ \A i \in DOMAIN c.mods :
                            c.mods[i].op = "add" => c.mods[i].vals # {}
  /\ c.type = "setpassword" => c.new # {}
  /\ c.type = "modrdn" => c.to # <<>>

Target(c) == IF c.type = "modrdn" THEN c.to ELSE c.dn

\* The attributes whose values the operation names.
Named(c) ==
  CASE c.type = "add" -> {a \in Attrs : c.attrs[a] # {}}
    [] c.type = "modify" -> {c.mods[i].attr : i \in DOMAIN c.mods}
    [] OTHER -> {}

\* One modification of the values S of its attribute, as LDAP and applyMods carry it out.
AfterMod(S, m) ==
  CASE m.op = "replace" -> m.vals
    [] m.op = "add" -> S \cup Without(m.vals, S)
    [] m.op = "delete" /\ m.vals = {} -> {}
    [] m.op = "delete" /\ m.vals # {} -> Without(S, m.vals)

\* applyMods: the attribute after those of the modifications that are of it, in order.
applyMods(S, a, ms) ==
  FoldLeft(LAMBDA T, m : IF m.attr = a THEN AfterMod(T, m) ELSE T, S, ms)

-----------------------------------------------------------------------------
(* The server *)

Present(d, x) == x = <<>> \/ x \in DOMAIN d

\* Entries are named below the suffix, and so are their parents, up to it.
Tree(d) == /\ IsFiniteSet(DOMAIN d) /\ DOMAIN d \subseteq DNs /\ <<>> \notin DOMAIN d
           /\ \A x \in DOMAIN d : Present(d, Parent(x))

\* Adding a value that is there, or deleting one that is not, is refused.
ModAllowed(S, m) ==
  /\ m.op = "add" => Keys(m.vals) \cap Keys(S) = {}
  /\ m.op = "delete" => IF m.vals = {} THEN S # {} ELSE Keys(m.vals) \subseteq Keys(S)

ModsAllowed(e, ms) == \A i \in DOMAIN ms :
  ModAllowed(applyMods(e[ms[i].attr], ms[i].attr, SubSeq(ms, 1, i - 1)), ms[i])

Accepts(d, c) ==
  /\ c.type # "add" => c.dn \in DOMAIN d
  /\ c.type = "add" => c.dn \notin DOMAIN d /\ Present(d, Parent(c.dn))
  /\ c.type = "modify" =>
       /\ ModsAllowed(d[c.dn], c.mods)
       /\ Key[Last(c.dn)] \in Keys(applyMods(d[c.dn][NamingAttr], NamingAttr, c.mods))
  /\ c.type = "delete" => \A x \in DOMAIN d : IsUnder(x, c.dn) => x = c.dn
  /\ c.type = "modrdn" =>
       /\ Present(d, Parent(c.to))
       /\ c.to # c.dn => c.to \notin DOMAIN d /\ ~IsUnder(c.to, c.dn)

\* The naming attribute of a renamed entry.
Renamed(S, from, to, drop) ==
  LET kept == IF drop THEN Without(S, {Last(from)}) ELSE S
  IN kept \cup Without({Last(to)}, kept)

\* Referential integrity: values that name entries which left a name go, or follow them.
Repointed(d, gone, renames) ==
  [x \in DOMAIN d |-> [d[x] EXCEPT ![RefAttr] =
    {v \in @ : \A y \in gone : v # Ref[y]}
      \cup UNION {IF Ref[y] \in @ THEN {Ref[renames[y]]} ELSE {} : y \in DOMAIN renames}]]

\* The directory once it has carried out a change it accepts.
Done(d, c) ==
  CASE c.type = "add" ->
         Over(d, [x \in {c.dn} |-> [c.attrs EXCEPT ![NamingAttr] = @ \cup Without({Last(c.dn)}, @)]])
    [] c.type = "modify" ->
         [d EXCEPT ![c.dn] = [a \in Attrs |-> applyMods(@[a], a, c.mods)]]
    [] c.type = "delete" ->
         Repointed([x \in DOMAIN d \ {c.dn} |-> d[x]], {c.dn} \cap DOMAIN Ref, <<>>)
    [] c.type = "modrdn" ->
         LET under == {x \in DOMAIN d : IsUnder(x, c.dn)}
             named == under \cap DOMAIN Ref
             follow == {x \in named : Moved(x, c.dn, c.to) \in DOMAIN Ref}
             there == (DOMAIN d \ under) \cup {Moved(x, c.dn, c.to) : x \in under}
             source(y) == IF y \in DOMAIN d \ under THEN y ELSE Moved(y, c.to, c.dn)
             moved == [y \in there |->
               IF y = c.to
               THEN [d[c.dn] EXCEPT ![NamingAttr] = Renamed(@, c.dn, c.to, c.deleteOld)]
               ELSE d[source(y)]]
         IN Repointed(moved, named, [x \in follow |-> Moved(x, c.dn, c.to)])
    [] c.type = "setpassword" ->
         [d EXCEPT ![c.dn] = [a \in Attrs |-> IF a \in Sensitive THEN c.new ELSE @[a]]]

\* A read of the attributes in names: an entry comes back with those and nothing else.
UserAttrs == Attrs \ ServerOwned   \* "*"
Read(d, x, names) ==
  IF x \in DOMAIN d THEN [a \in Attrs |-> IF a \in names THEN d[x][a] ELSE {}] ELSE NoEntry
=============================================================================
