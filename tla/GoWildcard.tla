----------------------------- MODULE GoWildcard -----------------------------
(***************************************************************************)
(* wildcardMatch of evaluator.go, the Go engine's matcher, against the one *)
(* of the C engine.  The policies of one document go to both.              *)
(***************************************************************************)
EXTENDS Wildcard

(***************************************************************************)
(* The loop by its four variables: p, i, starPat and starStr.  Positions   *)
(* count from 1, and 0 is the -1 of the last two.  The place to go back to *)
(* is never ahead of i.                                                    *)
(***************************************************************************)
Turns ==
  {at \in PatternPlaces \X StringPlaces \X (0 .. Len(pattern)) \X (0 .. Len(str) + 1) :
     at[4] <= at[2]}

GoesOn ==
  LET goes[at \in Turns] ==
        LET q == at[1]
            i == at[2]
            more == q <= Len(pattern)
            after == AfterStars(q)
        IN  IF i > Len(str) THEN after > Len(pattern)
            ELSE IF more /\ pattern[q] \in {str[i], AnyOne}
              THEN goes[<<q + 1, i + 1, at[3], at[4]>>]
            ELSE IF more /\ pattern[q] = Star
              THEN after > Len(pattern) \/ goes[<<after, i, after, i>>]
            ELSE at[3] # 0 /\ goes[<<at[3], at[4] + 1, at[3], at[4] + 1>>]
  IN  goes

wildcardMatch == GoesOn[<<1, 1, 0, 0>>]

\* The two engines' matchers agree on every pattern and string, on a '*' in the
\* string as well.
MatchersAgree == result # "none" => (result = "TRUE" <=> wildcardMatch)
=============================================================================
