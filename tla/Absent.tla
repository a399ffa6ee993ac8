------------------------------- MODULE Absent -------------------------------
(***************************************************************************)
(* Two values that the policy files and the evaluation context share.      *)
(***************************************************************************)
CONSTANTS
  NULL,  \* a null pointer; an id out of range; what is not there
  Zero   \* the number 0 of an evaluator's value, and of zeroed static storage
=============================================================================
