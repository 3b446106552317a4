------------------------------- MODULE Outcome -------------------------------
(***************************************************************************)
(* internal/outcome: what became of a change whose answer never came, as   *)
(* far as reading the directory can tell.                                  *)
(***************************************************************************)
EXTENDS Directory

determineAdd(d, c) ==
  IF c.dn \notin DOMAIN d THEN "not_applied"
  ELSE IF \E a \in Named(c) \ Sensitive : ~SameByRule(d[c.dn][a], c.attrs[a]) THEN "conflicted"
  ELSE "applied"

determineDelete(d, c) == IF c.dn \in DOMAIN d THEN "not_applied" ELSE "applied"

\* Mutated form: a delete without values is taken to name none that is still there.
ShowsNamed(S, m) ==
  CASE m.op = "replace" -> SameByRule(S, m.vals)
    [] m.op = "add" -> Keys(m.vals) \subseteq Keys(S)
    [] m.op = "delete" -> Keys(m.vals) \cap Keys(S) = {}

\* Whether the entry shows what one modification would have written.
Shows(S, m) ==
  CASE m.op = "replace" -> SameByRule(S, m.vals)
    [] m.op = "add" -> Keys(m.vals) \subseteq Keys(S)
    [] m.op = "delete" -> IF m.vals = {} THEN S = {} ELSE Keys(m.vals) \cap Keys(S) = {}

\* The modifications are looked at in order, and the first that is secret or not shown decides.
determineModify(d, c) ==
  IF c.dn \notin DOMAIN d THEN "conflicted"
  ELSE LET secret == {i \in DOMAIN c.mods : c.mods[i].attr \in Sensitive}
           missing == {i \in DOMAIN c.mods : ~Shows(d[c.dn][c.mods[i].attr], c.mods[i])}
       IN IF secret \cup missing = {} THEN "applied"
          ELSE IF \E i \in secret : \A j \in missing : i <= j THEN "undeterminable"
          ELSE "not_applied"

determineModRDN(d, c) ==
  CASE c.to \in DOMAIN d /\ c.dn \notin DOMAIN d -> "applied"
    [] c.to \notin DOMAIN d /\ c.dn \in DOMAIN d -> "not_applied"
    [] OTHER -> "conflicted"

Determine(d, c) ==
  CASE c.type = "add" -> determineAdd(d, c)
    [] c.type = "delete" -> determineDelete(d, c)
    [] c.type = "modify" -> determineModify(d, c)
    [] c.type = "modrdn" -> determineModRDN(d, c)
    [] c.type = "setpassword" -> "undeterminable"
=============================================================================
