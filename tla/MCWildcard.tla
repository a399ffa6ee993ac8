----------------------------- MODULE MCWildcard -----------------------------
(***************************************************************************)
(* Every pattern of up to four bytes over two letters and both             *)
(* metacharacters, against every string of up to four bytes over the       *)
(* letters and '*'.                                                        *)
(***************************************************************************)
EXTENDS GoWildcard

CONSTANT MaxLen

Bounded == INSTANCE SequencesExt

Letters == {"a", "b"}
MCChars == Letters \cup {Star, AnyOne}
MCPatterns == Bounded!BoundedSeq(MCChars, MaxLen)
MCStrings == Bounded!BoundedSeq(Letters \cup {Star}, MaxLen)
=============================================================================
