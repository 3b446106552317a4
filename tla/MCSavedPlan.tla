---------------------------- MODULE MCSavedPlan ----------------------------
(* A person, a group, and an entry below the person that comes and goes.   *)
EXTENDS SavedPlan, TLC

MCAttrs == {"cn", "mail", "member", "id"}
MCKey == [v \in {"x", "y", "z", "k", "a", "A", "b", "is x", "m", "u1", "u2", "u3", "u4", "u5", "u6"} |->
            IF v = "A" THEN "a" ELSE v]
MCIds == <<"u3", "u4", "u5", "u6">>

Holding(names, mail, member, id) == [cn |-> names, mail |-> mail, member |-> member, id |-> id]

X == <<"x">>  Y == <<"y">>  Z == <<"z">>  XK == <<"x", "k">>

MCStart == {(X :> Holding({"x"}, {"a"}, {}, {"u1"})) @@ (Y :> Holding({"y"}, {}, {"is x"}, {"u2"}))}
MCRef == X :> "is x"

Exact(cs) == [project |-> FALSE, changes |-> cs, revised |-> cs]
Project(cs, ds) == [project |-> TRUE, changes |-> cs, revised |-> ds]
PersonFile(mail) == Add(X, Holding({"x"}, mail, {}, {}))
GroupFile(member) == Add(Y, Holding({"y"}, {}, member, {}))
NewFile == Add(Z, Holding({"z"}, {"b"}, {}, {}))

MCInputs == {
  Project(<<PersonFile({"A"}), GroupFile({"m"})>>, <<PersonFile({"b"}), GroupFile({"m"})>>),
  Project(<<NewFile, PersonFile({"b"})>>, <<NewFile>>),
  Exact(<<Delete(X), Modify(Y, <<Mod("delete", "member", {"is x"})>>)>>),
  Exact(<<Rename(X, Z, TRUE)>>),
  Exact(<<Modify(X, <<Mod("add", "mail", {"b"}), Mod("replace", "member", {"m"})>>)>>) }

MCForeign == {
  Modify(X, <<Mod("replace", "mail", {"z"})>>), Modify(X, <<Mod("replace", "mail", {"A"})>>),
  Modify(X, <<Mod("add", "member", {"k"})>>), Modify(Y, <<Mod("add", "member", {"k"})>>),
  Delete(X), Add(X, Holding({"x"}, {"a"}, {}, {})),
  Add(XK, Holding({"k"}, {}, {}, {})), Delete(XK) }

Change(c, ex) == [change |-> c, expect |-> ex]
MailNow == Expect([mail |-> {"a"}], FALSE, Uncounted)
MCEdits == {
  Change(Modify(X, <<Mod("replace", "mail", {"z"})>>), MailNow),
  Change(Modify(X, <<Mod("replace", "mail", {"b"})>>), MailNow),
  Change(Modify(X, <<Mod("replace", "mail", {"b"})>>), Expect([cn |-> {"x"}], FALSE, Uncounted)),
  Change(Delete(Y), Expect([cn |-> {"y"}, member |-> {"is x"}], TRUE, Uncounted)) }

Interchangeable == Permutations(Runs)
=============================================================================
