---------------------------- MODULE MCPolicyWalk ----------------------------
(***************************************************************************)
(* The walk over trees of every shape the composite code distinguishes,    *)
(* with leaves whose evaluator, a host function, may return anything.  The *)
(* host only answers its callbacks.                                        *)
(***************************************************************************)
EXTENDS PolicyRefinement, TLC

CONSTANTS None, Unset

MCParams == {None, Unset, "x"}

Leaf == [kind |-> "str", op |-> "AND", children |-> << >>, id |-> "s", cmp |-> "EQ", value |-> "x"]
Comp(o, kids) == [Leaf EXCEPT !.kind = "comp", !.op = o, !.children = kids]
Alien == [Leaf EXCEPT !.kind = "unknown"]

\* a: OR of an AND and a leaf; b: NOT over an empty OR; c: operators of a newer
\* schema, and ones with too few or too many children; d: deeper than the cap.
MCTree ==
  "a" :> Comp("OR", <<"a1", "a2">>) @@ "a1" :> Comp("AND", <<"a11", "a12">>) @@
  "a11" :> Leaf @@ "a12" :> Leaf @@ "a2" :> Leaf @@
  "b" :> Comp("AND", <<"b1", "b2">>) @@ "b1" :> Comp("NOT", <<"b11">>) @@
  "b11" :> Comp("OR", << >>) @@ "b2" :> Leaf @@
  "c" :> Comp("OR", <<"c1", "c2", "c3">>) @@ "c1" :> Comp("UNKNOWN", <<"c11", "c12">>) @@
  "c11" :> Leaf @@ "c12" :> Leaf @@ "c2" :> Alien @@ "c3" :> Comp("AND", << >>) @@
  "d" :> Comp("AND", <<"d1", "d2">>) @@ "d1" :> Comp("NOT", <<"d11">>) @@
  "d11" :> Comp("OR", <<"d111", "d112">>) @@ "d111" :> Comp("AND", <<"d1111">>) @@
  "d1111" :> Comp("NOT", <<"d11111">>) @@ "d11111" :> Comp("OR", <<"d111111">>) @@
  "d111111" :> Leaf @@ "d112" :> Leaf @@ "d2" :> Alien @@
  "e" :> Comp("NOT", <<"e1", "e2">>) @@ "e1" :> Leaf @@ "e2" :> Leaf @@
  "f" :> Comp("AND", <<"f1", "f2">>) @@ "f1" :> Comp("BEYOND", << >>) @@
  "f2" :> Comp("BEYOND", <<"f21">>) @@ "f21" :> Leaf

MCNodes == DOMAIN MCTree

Does(a, big) == [id |-> a, oversized |-> big]
MCActions == <<Does("allow", FALSE), Does(None, FALSE)>>
\* A policy for each tree, one without rules, and one that is a single leaf.
MCPolicies == {"a", "b", "c", "d", "e", "f", "none", "leaf"}
MCPolicy ==
  [p \in MCPolicies |->
     [rules |-> CASE p = "none" -> None [] p = "leaf" -> "f21" [] OTHER -> p,
      actions |-> IF p # "leaf" THEN MCActions
                  ELSE <<Does("allow", FALSE), Does("allow", FALSE)>>]]

\* Each tree, and several policies in a row, one of them missing.
MCBuffers == {<<p>> : p \in MCPolicies \ {"leaf"}} \cup {<<"leaf", None, "none", "leaf">>}

MCCompare(k, cmp, p, v) == IF p = v THEN "TRUE" ELSE "FALSE"
MCCallbacks == [o \in {"o"} |-> CallbackNames]

\* What the host has set up: the evaluator, the observer and the action.
MCSetups ==
  LET fresh == InitCtx(ZeroedCtx)
      entry == <<"str", "s">>
  IN  {SetObserver(RegisterAction(RegisterEvaluator(fresh, entry, "f"), "allow", "h"), "o")}
=============================================================================
