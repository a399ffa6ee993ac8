-------------------------- MODULE StringComparators --------------------------
(***************************************************************************)
(* The comparators of evaluator_default.c that need no search: a policy's  *)
(* value `eval` against the value `param` of the process.  A string is the *)
(* sequence of its bytes; reading it at its end yields the terminator.     *)
(***************************************************************************)
EXTENDS Integers, Sequences

CONSTANT NUL

ByteAt(s, i) == IF i <= Len(s) THEN s[i] ELSE NUL

\* strncmp over one byte more than `eval` has: the terminators are compared too.
Exact(eval, param) ==
  \A i \in 1 .. Len(eval) + 1 : ByteAt(eval, i) = ByteAt(param, i)

\* The loop stops at the end of `eval`, or at the end of `param` because its
\* terminator differs from every byte of `eval`.
Prefix(eval, param) == \A i \in 1 .. Len(eval) : eval[i] = ByteAt(param, i)

\* Mutant: the comparison starts one byte early.
SuffixFromBefore(eval, param) ==
  /\ Len(eval) <= Len(param)
  /\ \A i \in 1 .. Len(eval) :
       LET k == Len(param) - Len(eval) + i - 1
       IN  k > 0 => param[k] = eval[i]

Suffix(eval, param) ==
  /\ Len(eval) <= Len(param)
  /\ \A i \in 1 .. Len(eval) : param[Len(param) - Len(eval) + i] = eval[i]

\* The empty string is contained in every string; the rest is strstr.
Contains(eval, param) ==
  /\ Len(eval) <= Len(param)
  /\ \/ eval = << >>
     \/ \E k \in 0 .. Len(param) - Len(eval) :
          \A i \in 1 .. Len(eval) : param[k + i] = eval[i]
=============================================================================
