------------------------------- MODULE Recovery -------------------------------
(***************************************************************************)
(* internal/recovery: the compensation of one applied change, derived from *)
(* the entry as it was read before the change ran, and the order and the   *)
(* form in which a bundle offers its compensations.  Ordinary data only:   *)
(* the schema and the configuration tree are compensated by other code.    *)
(***************************************************************************)
EXTENDS Planning

\* A compensating change and the state it expects.
Compensating(c, ex) == [change |-> c, expect |-> ex]

Step(c, level, comps) == [change |-> c, level |-> level, comps |-> comps]
unavailable(c) == Step(c, "unavailable", <<>>)

-----------------------------------------------------------------------------
(* Deriving *)

deriveAdd(c) ==
  LET held == {a \in Comparable : c.attrs[a] # {}} \cup {NamingAttr}
  IN Step(c, "exact", <<Compensating(Delete(c.dn),
       Expecting([a \in held |-> IF c.attrs[a] = {} THEN {Last(c.dn)} ELSE c.attrs[a]], TRUE))>>)

\* What turns the values a modification left back into those it found, value by value.
Undo(a, before, after) ==
  IF SameByRule(before, after)
  THEN IF before = after THEN <<>> ELSE <<Mod("replace", a, before)>>
  ELSE IF before = {} THEN <<Mod("delete", a, after)>>
  ELSE IF after = {} THEN <<Mod("add", a, before)>>
  ELSE (IF Without(after, before) = {} THEN <<>> ELSE <<Mod("delete", a, Without(after, before))>>)
       \o (IF Without(before, after) = {} THEN <<>> ELSE <<Mod("add", a, Without(before, after))>>)

level(skipped, touched) ==
  IF skipped = touched THEN "unavailable" ELSE IF skipped # {} THEN "partial" ELSE "exact"

deriveModify(c, pre) ==
  LET after(a) == applyMods(pre[a], a, c.mods)
      changed == {a \in Named(c) \cap Comparable : after(a) # pre[a]}
      mods == FlattenSeq([i \in 1..Cardinality(changed) |->
                LET a == SetToSeq(changed)[i] IN Undo(a, pre[a], after(a))])
      ex == Expecting([a \in changed |-> after(a)], FALSE)
  IN Step(c, level(Named(c) \ Comparable, Named(c)),
          IF mods = <<>> THEN <<>> ELSE <<Compensating(Modify(c.dn, mods), ex)>>)

deriveDelete(c, pre) ==
  Step(c, "partial",
       <<Compensating(Add(c.dn, [a \in Attrs |-> IF a \in Comparable THEN pre[a] ELSE {}]), NoExpect)>>)

\* Mutated form: the new naming value goes on the way back, held before or not.
deriveRenameDropping(c, pre) ==
  Step(c, "exact", <<Compensating(Rename(c.to, c.dn, TRUE), NoExpect)>>)

deriveRename(c, pre) ==
  LET heldNew == Key[Last(c.to)] \in Keys(pre[NamingAttr])
  IN Step(c, "exact", <<Compensating(Rename(c.to, c.dn, ~heldNew), NoExpect)>>)

Derive(c, pre) ==
  CASE c.type = "setpassword" -> unavailable(c)
    [] c.type = "add" -> deriveAdd(c)
    [] c.type \in {"modify", "delete", "modrdn"} /\ pre = NoEntry -> unavailable(c)
    [] c.type = "modify" /\ pre # NoEntry -> deriveModify(c, pre)
    [] c.type = "delete" /\ pre # NoEntry -> deriveDelete(c, pre)
    [] c.type = "modrdn" /\ pre # NoEntry -> deriveRename(c, pre)

\* What Derive needs read of the entry before the change.
ReadAttributes(c) ==
  CASE c.type = "delete" -> UserAttrs
    [] c.type = "modrdn" -> {NamingAttr}
    [] c.type = "modify" -> Named(c)
    [] OTHER -> {}

Covers(got, want) == want \subseteq got

\* The names a change reads or writes.
Touched(c) == {c.dn, Target(c)}

-----------------------------------------------------------------------------
(* The bundle as changes *)

touchesAccessRule(c) == Named(c) \cap AccessRules # {}

\* Mutated form: the one that runs last wins.
mergeExpectLast(first, second) ==
  IF first = NoExpect THEN second ELSE IF second = NoExpect THEN first
  ELSE Expecting(Over(second.attrs, first.attrs), first.exhaustive \/ second.exhaustive)

\* The expectation of the compensation that runs first wins.
mergeExpect(first, second) ==
  IF first = NoExpect THEN second ELSE IF second = NoExpect THEN first
  ELSE Expecting(Over(first.attrs, second.attrs), first.exhaustive \/ second.exhaustive)

\* One step of merge.  run holds where the modifications since the last change that was not one
\* are in out.
MergeOne(acc, x) ==
  LET c == x.change
      seen == c.type \in {"modify", "delete"} /\ c.dn \in DOMAIN acc.run
      at == acc.run[c.dn]
      earlier == acc.out[at]
      alone == [out |-> Append(acc.out, x), run |-> <<>>]
  IN CASE c.type = "modify" /\ touchesAccessRule(c) -> alone
       [] c.type = "modify" /\ ~touchesAccessRule(c) /\ seen ->
            [acc EXCEPT !.out[at] =
               Compensating(Modify(c.dn, earlier.change.mods \o c.mods), mergeExpect(earlier.expect, x.expect))]
       [] c.type = "modify" /\ ~touchesAccessRule(c) /\ ~seen ->
            [out |-> alone.out, run |-> Over(acc.run, [y \in {c.dn} |-> Len(alone.out)])]
       [] c.type = "delete" /\ seen ->
            [out |-> Append(RemoveAt(acc.out, at), Compensating(c, mergeExpect(earlier.expect, x.expect))),
             run |-> <<>>]
       [] OTHER -> alone

merge(ordered) == FoldLeft(MergeOne, [out |-> <<>>, run |-> <<>>], ordered).out

\* Changes: the compensation of the last applied change first.
Changes(steps) == merge(FlattenSeq(Reverse([i \in DOMAIN steps |-> steps[i].comps])))
=============================================================================
