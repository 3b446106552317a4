------------------------------- MODULE Planning -------------------------------
(***************************************************************************)
(* internal/plan: what a change would do to the directory as it is, the    *)
(* token a plan hands out for it, the expectation a derived change carries, *)
(* and how a token is checked against a directory that may have moved.     *)
(* Keyed hashes are modelled by what they bind: two are equal exactly when *)
(* what they were computed over is.                                        *)
(***************************************************************************)
EXTENDS Directory

CONSTANTS NoToken, NoExpect

\* An expectation: values of some attributes, and whether the entry may hold no others.
Expecting(e, all) == [attrs |-> e, exhaustive |-> all]

\* Attributes an expectation can speak about.
Comparable == Attrs \ (Sensitive \cup ServerOwned)

-----------------------------------------------------------------------------
(* Expectations *)

\* By the attribute's rule; an access rule byte for byte.
sameByRule(a, S, T) == IF a \in AccessRules THEN S = T ELSE SameByRule(S, T)

\* Mutated form: an attribute the expectation does not name may be anything.
DiffersNamed(ex, live) == \E a \in DOMAIN ex.attrs : ~sameByRule(a, live[a], ex.attrs[a])

Differs(ex, live) ==
  \/ \E a \in DOMAIN ex.attrs : ~sameByRule(a, live[a], ex.attrs[a])
  \/ ex.exhaustive /\ \E a \in Comparable : live[a] # {} /\ a \notin DOMAIN ex.attrs

ExpectReads(ex) ==
  IF ex = NoExpect THEN {} ELSE DOMAIN ex.attrs \cup (IF ex.exhaustive THEN UserAttrs ELSE {})

\* What the expectation adds to what the plan depends on.
dependencies(ex, live) ==
  IF ex = NoExpect \/ live = NoEntry THEN {}
  ELSE DOMAIN ex.attrs \cup (IF ex.exhaustive THEN {a \in Comparable : live[a] # {}} ELSE {})

-----------------------------------------------------------------------------
(* Tokens *)

dependsOn(c) == Named(c)

\* stateMAC: of a sensitive attribute only how many values it has.
stateMAC(deps, live) ==
  IF live = NoEntry THEN NoEntry
  ELSE [a \in deps |-> IF a \in Sensitive THEN Cardinality(live[a]) ELSE live[a]]

Token(deps, c, live) == [op |-> c, deps |-> deps, state |-> stateMAC(deps, live)]

\* Mutated form: only the operation is checked.
CheckOperation(token, c, live) == IF token.op = c THEN "current" ELSE "mismatch"

Check(token, c, live) ==
  IF stateMAC(token.deps, live) # token.state THEN "stale"
  ELSE IF token.op # c THEN "mismatch" ELSE "current"

\* What VerifyRead asks for: the operation's attributes, the token's, the expectation's.
VerifyReads(c, token, ex) == Named(c) \cup token.deps \cup ExpectReads(ex)

\* VerifyRead, once the entry has been read.
VerifyRead(c, token, ex, live) ==
  LET checked == Check(token, c, live)
  IN IF checked # "current" THEN checked
     ELSE IF ex # NoExpect /\ (live = NoEntry \/ Differs(ex, live)) THEN "stale"
     ELSE "current"

-----------------------------------------------------------------------------
(* Classification *)

\* A modification the entry already satisfies: a replacement by its bytes, the others by rule.
Satisfied(m, live) ==
  CASE m.op = "replace" -> live[m.attr] = m.vals
    [] m.op = "add" -> Keys(m.vals) \subseteq Keys(live[m.attr])
    [] m.op = "delete" /\ m.vals = {} -> live[m.attr] = {}
    [] m.op = "delete" /\ m.vals # {} -> Keys(m.vals) \cap Keys(live[m.attr]) = {}

satisfied(ms, live) == ms # <<>> /\ \A i \in DOMAIN ms : Satisfied(ms[i], live)

planModify(c, live) ==
  IF live = NoEntry THEN "conflict" ELSE IF satisfied(c.mods, live) THEN "unchanged" ELSE "modify"

planDelete(d, c, live) ==
  IF live = NoEntry THEN "unchanged"
  ELSE IF \E x \in DOMAIN d : IsStrictPrefix(c.dn, x) THEN "conflict" ELSE "delete"

\* provided are the names changes before this one in the set would create.
planRename(d, c, live, provided) ==
  IF \/ live = NoEntry
     \/ c.to # c.dn /\ c.to \in DOMAIN d
     \/ Parent(c.to) # Parent(c.dn) /\ Parent(c.to) \notin provided /\ ~Present(d, Parent(c.to))
  THEN "conflict" ELSE "rename"

Action(d, c, live, provided) ==
  CASE c.type = "add" -> IF live = NoEntry THEN "add" ELSE "conflict"
    [] c.type = "modify" -> planModify(c, live)
    [] c.type = "delete" -> planDelete(d, c, live)
    [] c.type = "modrdn" -> planRename(d, c, live, provided)
    [] c.type = "setpassword" -> IF live = NoEntry THEN "conflict" ELSE "setpassword"

AppliesNothing(action) == action \in {"unchanged", "conflict"}

\* One proposal against the directory d: what it would do, and its token unless it does nothing.
classify(d, c, ex, provided) ==
  LET live == Read(d, c.dn, Named(c) \cup ExpectReads(ex))
      action == IF ex # NoExpect /\ live # NoEntry /\ Differs(ex, live)
                THEN "conflict" ELSE Action(d, c, live, provided)
      deps == dependsOn(c) \cup dependencies(ex, live)
  IN [action |-> action,
      token |-> IF AppliesNothing(action) THEN NoToken ELSE Token(deps, c, live)]

\* The name a planned change provides to the moves after it.
Provides(c, action) == IF action \in {"add", "rename"} THEN {Target(c)} ELSE {}
=============================================================================
