----------------------------- MODULE MCChangeset -----------------------------
EXTENDS Changeset

MCAttrs == {"cn", "mail", "aci", "member", "userPassword"}
MCKey == [v \in {"x", "y", "z", "k", "a", "A", "b", "r1", "r2", "p", "q", "is x"} |-> IF v = "A" THEN "a" ELSE v]

Holding(names, mail, aci, member, pw) ==
  [cn |-> names, mail |-> mail, aci |-> aci, member |-> member, userPassword |-> pw]
Given(mail) == [cn |-> {}, mail |-> mail, aci |-> {}, member |-> {}, userPassword |-> {}]

X == <<"x">>  Y == <<"y">>  Z == <<"z">>  YK == <<"y", "k">>  YX == <<"y", "x">>

\* For the recovery runs: one entry with every kind of attribute, and nobody else about.
MCStart == {X :> Holding({"x", "z"}, {"a"}, {"r1"}, {}, {"p"})}
MCMenu == {
  Add(Y, Given({"b"})), Add(YK, Given({})),
  Modify(Y, <<Mod("add", "mail", {"a"})>>),
  Modify(X, <<Mod("replace", "mail", {"b"})>>),
  Modify(X, <<Mod("replace", "mail", {"A"})>>),
  Modify(X, <<Mod("delete", "mail", {"a"}), Mod("add", "mail", {"b"})>>),
  Modify(X, <<Mod("replace", "aci", {"r2"})>>),
  Modify(X, <<Mod("add", "cn", {"k"})>>),
  Delete(X), Add(X, Given({"b"})),
  Rename(X, Z, TRUE), Rename(X, YX, FALSE),
  SetPassword(X, {"q"}) }
NoRef == <<>>

\* For the runs with other people: a group whose member entry may go, and writes that race.
MCGroup == {(X :> Holding({"x"}, {"a"}, {"r1"}, {}, {})) @@ (Y :> Holding({"y"}, {}, {}, {"is x"}, {}))}
MCMenuGroup == {
  Modify(X, <<Mod("replace", "mail", {"b"})>>),
  Modify(X, <<Mod("delete", "mail", {"a"}), Mod("add", "mail", {"A"})>>),
  Modify(X, <<Mod("delete", "aci", {})>>),
  Modify(Y, <<Mod("add", "member", {"r1"})>>),
  Add(Z, Given({"a"})), Delete(X) }
MCForeign == {
  Modify(X, <<Mod("replace", "mail", {"z"})>>),
  Modify(X, <<Mod("replace", "mail", {"A"})>>),
  Modify(Z, <<Mod("replace", "aci", {"r1"})>>),
  Modify(Y, <<Mod("add", "member", {"k"})>>),
  Delete(X), Add(X, Given({"b"})) }
MCRef == X :> "is x"
=============================================================================
