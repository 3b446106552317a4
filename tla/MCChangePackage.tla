--------------------------- MODULE MCChangePackage ---------------------------
EXTENDS ChangePackage

MCIds == (Earlier + 1)..(Earlier + MaxStaged)
MCAttrs == {"cn", "mail", "userPassword"}
MCKey == [v \in {"x", "y", "z", "k", "a", "A", "b", "c", "q"} |-> IF v = "A" THEN "a" ELSE v]

Holding(names, mail) == [cn |-> names, mail |-> mail, userPassword |-> {}]
Given(mail) == Holding({}, mail)

X == <<"x">>  Y == <<"y">>  Z == <<"z">>  YK == <<"y", "k">>  XK == <<"x", "k">>  YX == <<"y", "x">>

MCStarts == {
  X :> Holding({"x"}, {"a"}),
  (X :> Holding({"x"}, {"a"})) @@ (XK :> Holding({"k"}, {})),
  (X :> Holding({"x"}, {"A"})) @@ (Y :> Holding({"y"}, {"b"})) }
MCMenu == {
  Add(Y, Given({"b"})), Add(YK, Given({})), Add(X, Given({"b"})),
  Modify(X, <<Mod("replace", "mail", {"b"})>>),
  Modify(X, <<Mod("replace", "mail", {"c"})>>),
  Modify(X, <<Mod("delete", "mail", {"a"})>>),
  Modify(Y, <<Mod("add", "mail", {"a"})>>),
  Delete(X), Delete(XK),
  Rename(X, Z, TRUE), Rename(X, YX, FALSE),
  SetPassword(X, {"q"}) }
\* Mail of b names x, so that a deletion or a rename of x reaches other entries.
MCRef == X :> "b"
MCForeign == {
  Modify(X, <<Mod("replace", "mail", {"b"})>>), Add(Y, Given({"b"})) }
\* Bound: one disturbance, a write of somebody else or a read that fails, and none where there is a
\* second promotion, of which only PromotedIsSatisfied speaks, and that only of an undisturbed target.
Disturbances == others + faults <= (IF rounds > 1 THEN 0 ELSE 1)
=============================================================================
