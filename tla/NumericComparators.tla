------------------------- MODULE NumericComparators -------------------------
(***************************************************************************)
(* The numeric evaluators of evaluator_default.c: the policy's number      *)
(* stands before the comparator, the process's behind it.  They are one    *)
(* text over `long' and over `unsigned long': what sets them apart is the  *)
(* integer that the bits of a value stand for.                             *)
(***************************************************************************)
EXTENDS Integers

boolToResult(b) == IF b THEN "TRUE" ELSE "FALSE"

plcs_default_numeric_evaluator(policy, cmp, ctx) ==
  CASE cmp = "EQ"  -> boolToResult(policy = ctx)
    [] cmp = "GT"  -> boolToResult(policy > ctx)
    [] cmp = "GTE" -> boolToResult(policy >= ctx)
    [] cmp = "LT"  -> boolToResult(policy < ctx)
    [] cmp = "LTE" -> boolToResult(policy <= ctx)
    [] OTHER       -> "ABSTAIN"

plcs_default_unumeric_evaluator(policy, cmp, ctx) == plcs_default_numeric_evaluator(policy, cmp, ctx)
=============================================================================
