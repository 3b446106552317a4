--------------------------- MODULE MCSessionStore ---------------------------
(* Small instances of SessionStore for TLC.  Session IDs, references and   *)
(* requests are interchangeable: nothing in the store orders or compares   *)
(* them.  The runs that check a temporal property use no symmetry.         *)
EXTENDS SessionStore, TLC

Interchangeable == Permutations(Sess) \cup Permutations(Refs) \cup Permutations(Requests)
=============================================================================
