-------------------------- MODULE PolicyRefinement --------------------------
(***************************************************************************)
(* The engine, with its recursion, its observer and a host that changes    *)
(* the context from any callback, is an implementation of PolicyJudge.     *)
(***************************************************************************)
EXTENDS PolicyProperties

Phase ==
  CASE pc = "idle" -> "idle"
    [] pc = "stop" -> "asked"
    [] pc \in {"verdict", "policy_exit", "actions", "handler", "policy_done"} -> "acting"
    [] OTHER -> "judging"

\* The last event that an action left in the history.
LastTold ==
  IF ActionEvents = {} THEN [action |-> 0, result |-> NULL]
  ELSE LET e == trace[CHOOSE i \in ActionEvents : \A j \in ActionEvents : j <= i]
       IN  [action |-> e.ix, result |-> e.res]

Promise == INSTANCE PolicyJudge WITH
             Verdicts <- Outcomes,
             phase <- Phase,
             left <- SubSeq(buffer, pix, Len(buffer)),
             asks <- stopFn,
             result <- IF Phase = "acting" THEN verdict ELSE NULL,
             told <- LastTold

\* Whatever the leaves, the observer, the handlers and the host's calls of the
\* context API do, every step of plcs_evaluate_buffer_early_exit is a step of
\* PolicyJudge or none: no policy is judged twice or passed over, no action runs
\* before its policy is judged, out of order, or with the result of another node.
ImplementsJudge == Promise!JudgeSpec
=============================================================================
