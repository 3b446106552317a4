---------------------------- MODULE MCComparison ----------------------------
EXTENDS Comparison

MCAttrs == {"cn", "mail", "title", "userPassword", "entryUUID"}
MCIdentities == {"i1", "i2", "i3", "i4", "i5", "i6", "i7", "i8"}
MCKey == [v \in {"x", "y", "z", "a", "A", "b", "p"} \cup MCIdentities |-> IF v = "A" THEN "a" ELSE v]

Holding(names, mail, pw, id) ==
  [cn |-> names, mail |-> mail, title |-> {}, userPassword |-> pw, entryUUID |-> {id}]
Given(mail) == [cn |-> {}, mail |-> mail, title |-> {}, userPassword |-> {}, entryUUID |-> {}]

X == <<"x">>  Y == <<"y">>  XY == <<"x", "y">>  Z == <<"z">>

MCStarts == {(X :> Holding({"x"}, {"a"}, {"p"}, "i1")) @@ (XY :> Holding({"y"}, {}, {}, "i2"))}
MCReferences == {(X :> [Holding({"x"}, {"b"}, {}, "i4") EXCEPT !.title = {"a"}])
                   @@ (Y :> Holding({"y"}, {"A"}, {}, "i5"))}
MCForeign == {Modify(XY, <<Mod("add", "mail", {"a"})>>), Rename(X, Z, TRUE), Rename(XY, Y, FALSE), Delete(XY),
  Add(Y, Given({"b"}))}
MCRequests == {Request(<<>>, NoFilter, FALSE), Request(X, NoFilter, TRUE), Request(<<>>, "mail", FALSE)}
MCRef == <<>>
=============================================================================
