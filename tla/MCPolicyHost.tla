---------------------------- MODULE MCPolicyHost ----------------------------
(***************************************************************************)
(* A host that calls the context API from its callbacks, between policies  *)
(* and between evaluations: it replaces the observer in the middle of a    *)
(* policy, resets the context under a running walk, registers and removes  *)
(* evaluators and actions, raises and reads the context's error.           *)
(***************************************************************************)
EXTENDS PolicyProperties, TLC

CONSTANTS None, Unset

MCParams == {None, Unset, "zero"}

Leaf(k, i, cmp) ==
  [kind |-> k, op |-> "AND", children |-> << >>, id |-> i, cmp |-> cmp, value |-> "zero"]

\* In the first tree an id out of range precedes a leaf the context knows; the
\* second has a leaf for each kind of evaluator.
MCTree ==
  "p" :> [Leaf("str", "s", "EQ") EXCEPT !.kind = "comp", !.op = "OR",
                                        !.children = <<"p1", "p2">>] @@
  "p1" :> Leaf("str", None, "EQ") @@ "p2" :> Leaf("num", "n", "EQ") @@
  "q" :> [Leaf("str", "s", "EQ") EXCEPT !.kind = "comp", !.op = "AND",
                                        !.children = <<"q1", "q2">>] @@
  "q1" :> Leaf("unum", "n", "EQ") @@ "q2" :> Leaf("str", "s", "BEYOND")

MCNodes == DOMAIN MCTree

Does(a, big) == [id |-> a, oversized |-> big]
MCPolicies == {"P", "Q"}
MCPolicy ==
  "P" :> [rules |-> "p",
          actions |-> <<Does(None, FALSE), Does("deny", TRUE), Does("allow", FALSE)>>] @@
  "Q" :> [rules |-> "q",
          actions |-> <<Does("allow", FALSE), Does("allow", FALSE)>>]

MCBuffers == {<<"P", None, "Q">>}

MCCompare(k, cmp, p, v) == IF p = v THEN "TRUE" ELSE "FALSE"
MCCallbacks == "full" :> CallbackNames @@ "exits" :> {"policy_exit", "node_exit"}

\* Nothing set up, not even initialised; and a host with an observer, an
\* evaluator of its own, parameters and a handler.
MCSetups ==
  LET fresh == InitCtx(ZeroedCtx)
      str == <<"str", "s">>
      num == <<"num", "n">>
      ready == SetParam(SetParam(RegisterAction(fresh, "allow", "h"), num, "zero"), str, "zero")
  IN  {ZeroedCtx, SetObserver(RegisterEvaluator(ready, num, "f"), "full")}
=============================================================================
