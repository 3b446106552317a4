------------------------------ MODULE Positions ------------------------------
(***************************************************************************)
(* Positions of a list, in order, and what a list holds at some of them:   *)
(* how a basket, a plan and a package keep part of what they were given.   *)
(***************************************************************************)
EXTENDS Integers, FiniteSets, Sequences

\* The numbers of a set, the least first.
InOrder(I) ==
  CHOOSE s \in [1..Cardinality(I) -> I] : \A j, k \in DOMAIN s : j < k => s[j] < s[k]

\* What the list s holds at the positions I: Array.filter.
Selected(s, I) == LET at == InOrder(I) IN [k \in DOMAIN at |-> s[at[k]]]
=============================================================================
