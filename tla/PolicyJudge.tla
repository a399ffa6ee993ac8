---------------------------- MODULE PolicyJudge ----------------------------
(***************************************************************************)
(* What an evaluation of a buffer promises to its host, whatever goes on   *)
(* inside: the policies are judged one after the other, each of them once  *)
(* and a missing one not at all; the actions of a policy run when it has   *)
(* been judged, in the policy's order, each at most once and with that     *)
(* policy's result; and nothing more is judged when the host says stop.    *)
(***************************************************************************)
EXTENDS Naturals, Sequences

CONSTANTS
  Policy,    \* the rules and the actions of each policy
  Buffers,   \* what may be evaluated, sequences of policies
  Verdicts,  \* what a policy may be judged
  NULL

VARIABLES
  phase,    \* "idle", or the host waits for a "judging", is "acting" or "asked" to stop
  left,     \* the policies that are not done, the current one first
  asks,     \* whether the host wants to be asked after each policy
  result,   \* the current policy's, once it is judged
  told      \* the action that ran last, and the result it was told

judgeVars == <<phase, left, asks, result, told>>

Nothing == [action |-> 0, result |-> NULL]
Current == Policy[Head(left)]

JudgeInit ==
  /\ phase = "idle"
  /\ left = << >>
  /\ asks = FALSE
  /\ result = NULL
  /\ told = Nothing

Begin ==
  /\ phase = "idle"
  /\ phase' = "judging"
  /\ left' \in Buffers
  /\ asks' \in BOOLEAN
  /\ UNCHANGED <<result, told>>

PassOver ==
  /\ phase = "judging"
  /\ left # << >>
  /\ Head(left) = NULL
  /\ left' = Tail(left)
  /\ UNCHANGED <<phase, asks, result, told>>

\* Without rules there is nothing to judge by.
Judge ==
  /\ phase = "judging"
  /\ left # << >>
  /\ Head(left) # NULL
  /\ phase' = "acting"
  /\ result' \in IF Current.rules = NULL THEN {"ABSTAIN"} ELSE Verdicts
  /\ UNCHANGED <<left, asks, told>>

Act ==
  /\ phase = "acting"
  /\ \E i \in told.action + 1 .. Len(Current.actions) :
       /\ ~Current.actions[i].oversized
       /\ told' = [action |-> i, result |-> result]
  /\ UNCHANGED <<phase, left, asks, result>>

Finish ==
  /\ phase = "acting"
  /\ phase' = IF asks THEN "asked" ELSE "judging"
  /\ left' = Tail(left)
  /\ result' = NULL
  /\ told' = Nothing
  /\ UNCHANGED asks

GoOn ==
  /\ phase = "asked"
  /\ phase' = "judging"
  /\ UNCHANGED <<left, asks, result, told>>

\* The host said stop, or all policies are done.
End ==
  /\ phase = "asked" \/ (phase = "judging" /\ left = << >>)
  /\ phase' = "idle"
  /\ left' = << >>
  /\ asks' = FALSE
  /\ UNCHANGED <<result, told>>

JudgeNext == Begin \/ PassOver \/ Judge \/ Act \/ Finish \/ GoOn \/ End

JudgeSpec == JudgeInit /\ [][JudgeNext]_judgeVars
=============================================================================
