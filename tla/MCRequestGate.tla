---------------------------- MODULE MCRequestGate ----------------------------
EXTENDS RequestGate

CONSTANTS r1, r2

\* Up to three matching entries, pages of up to two, and a size limit within them or none.
MCDirectories ==
  [paging : {TRUE}, matches : 0..3, page : 1..2, most : {None, 1, 2}, eager : BOOLEAN]
    \cup [paging : {FALSE}, matches : 0..3, page : {1}, most : {None, 2}, eager : {FALSE}]

\* One request of any kind, and one that competes with it for the only slot, or does not need it.
MCWorkloads ==
  {w \in [{r1, r2} -> [kind : Kinds \cup {Bypass}, limit : 1..3]] :
    /\ w[r1].kind # Bypass
    /\ w[r2] \in {[kind |-> "count", limit |-> 3], [kind |-> "search", limit |-> 2], [kind |-> Bypass, limit |-> 1]}}
=============================================================================
