---------------------------- MODULE LiveDirectory ----------------------------
(***************************************************************************)
(* The directory of a session's server, which other people write to while  *)
(* something that was recorded of it is held: a snapshot, or a saved plan. *)
(***************************************************************************)
EXTENDS Planning

CONSTANTS
  Starts,    \* the directories it may begin as
  Foreign,   \* what other people may do to it
  MaxOthers, \* bound: writes of other people
  None       \* nothing recorded

ASSUME LiveDirectoryConstants == MaxOthers \in Nat /\ \A c \in Foreign : Valid(c)

VARIABLES
  dir,    \* the directory
  others  \* how often other people have written
=============================================================================
