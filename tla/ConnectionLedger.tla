-------------------------- MODULE ConnectionLedger --------------------------
(***************************************************************************)
(* What the session store promises an operator, with no sessions, cookies, *)
(* locks or goroutines in it: directory connections are dialled, some of   *)
(* them are held, never more than --max-sessions are held at once, and a   *)
(* connection is closed once, after the store has let go of it.            *)
(***************************************************************************)
EXTENDS Integers, FiniteSets

CONSTANTS
  Conns,   \* every directory connection there can be
  Limit    \* --max-sessions: zero or less is no limit

VARIABLES
  open,    \* connections dialled and not closed
  held,    \* the ones the store holds: sessions, and references of sessions
  gone     \* connections closed

ledger == <<open, held, gone>>

Init == open = {} /\ held = {} /\ gone = {}

WithinLimit(S) == Limit <= 0 \/ Cardinality(S) <= Limit

\* A connection is dialled: outside the store, and counted by nobody yet.
Dial(c) ==
  /\ c \notin open \cup gone
  /\ open' = open \cup {c}
  /\ UNCHANGED <<held, gone>>

\* The store takes a connection, letting go of the ones it replaces.
Hold(c) ==
  /\ c \in open \ held
  /\ \E replaced \in SUBSET held :
       /\ held' = (held \ replaced) \cup {c}
       /\ WithinLimit(held')
  /\ UNCHANGED <<open, gone>>

\* The store lets go of some of what it holds.
Release ==
  /\ held' \in SUBSET held
  /\ UNCHANGED <<open, gone>>

\* A connection nobody holds is closed.
CloseOne(c) ==
  /\ c \in open \ held
  /\ open' = open \ {c}
  /\ gone' = gone \cup {c}
  /\ UNCHANGED held

Next ==
  \/ \E c \in Conns : Dial(c) \/ Hold(c) \/ CloseOne(c)
  \/ Release

Spec == Init /\ [][Next]_ledger
=============================================================================
