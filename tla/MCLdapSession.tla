---------------------------- MODULE MCLdapSession ----------------------------
(* Small instances of LdapSession for TLC. *)
EXTENDS LdapSession, TLC

Interchangeable == Permutations(Conns)
=============================================================================
