------------------------------ MODULE TriState ------------------------------
(***************************************************************************)
(* The three-valued results of a policy's rule tree and the operators that *)
(* combine them, as evaluator.c folds them: DoAnd, DoOr, DoNot and DoOper, *)
(* the value a composite starts its fold from and the test that ends the   *)
(* fold early.                                                             *)
(***************************************************************************)

\* plcs_evaluation_result (evaluation_result.h).
Results == {"TRUE", "FALSE", "ABSTAIN"}

\* What a variable of that type can hold: "OTHER" is a value outside the
\* enumeration, as an uninitialised variable has one.
Outcomes == Results \cup {"OTHER"}

(***************************************************************************)
(* The operators a composite node can carry.  BOOL_UNKNOWN is what a       *)
(* failed parse leaves behind.  "BEYOND" stands for every value outside    *)
(* the enumeration, which the buffer verifier does not reject.             *)
(***************************************************************************)
Ops == {"AND", "OR", "NOT", "UNKNOWN", "BEYOND"}

\* A FALSE absorbs, and only two decided operands make a TRUE.
DoAnd(a, b) ==
  IF a = "FALSE" \/ b = "FALSE" THEN "FALSE"
  ELSE IF a # "ABSTAIN" /\ b # "ABSTAIN" THEN "TRUE" ELSE "ABSTAIN"

\* A TRUE absorbs, and only two decided operands make a FALSE.
DoOr(a, b) ==
  IF a = "TRUE" \/ b = "TRUE" THEN "TRUE"
  ELSE IF a # "ABSTAIN" /\ b # "ABSTAIN" THEN "FALSE" ELSE "ABSTAIN"

\* `!res`: TRUE is 0 in the enumeration, and every value but 0 becomes 0.
DoNot(a) ==
  CASE a = "ABSTAIN" -> "ABSTAIN"
    [] a = "TRUE"    -> "FALSE"
    [] OTHER         -> "TRUE"

\* The fold step of composite_evaluator; an operator it does not know abstains.
DoOper(op, a, b) ==
  CASE op = "AND" -> DoAnd(a, b)
    [] op = "OR"  -> DoOr(a, b)
    [] op = "NOT" -> DoNot(a)
    [] OTHER      -> "ABSTAIN"

(***************************************************************************)
(* The values `res` may hold before the loop over the children.  The       *)
(* switch has no default: for an operator outside the enumeration `res` is *)
(* never assigned, and reading it yields whatever the build left there.    *)
(***************************************************************************)
InitialResults(op) ==
  CASE op = "AND"     -> {"TRUE"}
    [] op = "OR"      -> {"FALSE"}
    [] op = "UNKNOWN" -> {"ABSTAIN"}
    [] OTHER          -> Outcomes

\* Mutant: an OR also stops at the first child that abstains.
StopsOnAbstain(op, r) == (op = "OR" /\ r # "FALSE") \/ (op = "AND" /\ r = "FALSE")
\* Mutant: the loop never stops before its last child.
NeverStops(op, r) == FALSE

\* The loop over the children stops as soon as the fold is decided.
ShortCircuits(op, r) == (op = "OR" /\ r = "TRUE") \/ (op = "AND" /\ r = "FALSE")
=============================================================================
