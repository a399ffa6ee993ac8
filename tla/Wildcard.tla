------------------------------ MODULE Wildcard ------------------------------
(***************************************************************************)
(* string_evaluator_wildcard of evaluator_default.c: the matcher that goes *)
(* back to its last '*' when it is stuck.  One step is one turn of the     *)
(* `while` loop over the string, and the last one what follows the loop.   *)
(***************************************************************************)
EXTENDS StringComparators

CONSTANTS
  Chars,     \* the bytes of a string, the two metacharacters among them
  Star,      \* '*'
  AnyOne,    \* '?'
  Patterns,  \* values of policies
  Strings    \* values of processes

ASSUME CharAssumption ==
  NUL \notin Chars /\ {Star, AnyOne} \subseteq Chars /\ Star # AnyOne
ASSUME StringAssumption == Patterns \subseteq Seq(Chars) /\ Strings \subseteq Seq(Chars)

VARIABLES
  pattern, str,         \* the arguments
  p, s,                 \* where the pointers `pattern` and `str` are, from 1
  starPattern, starStr, \* where to go on after going back; 0 is NULL
  result                \* "none" until the function returns

args == <<pattern, str>>
stars == <<starPattern, starStr>>
vars == <<args, p, s, stars, result>>

\* The NULL of star_pattern and star_str.
NoStar == 0
Searching == result = "none" /\ s <= Len(str)
Byte == ByteAt(pattern, p)

\* `while (*pattern == '*') pattern++`
NotStars(i) == {j \in i .. Len(pattern) + 1 : ByteAt(pattern, j) # Star}
FirstOf(positions) == CHOOSE j \in positions : \A k \in positions : j <= k

\* Mutant: the byte after the stars is skipped, too.
StarsAndMore(i) == FirstOf(NotStars(i)) + 1
AfterStars(i) == FirstOf(NotStars(i))

\* Mutant: a '*' of the pattern is looked for before bytes are compared.
MatchesNoStar == Byte # Star /\ (Byte = str[s] \/ Byte = AnyOne)
\* A byte that matches, a '*' that meets a '*' among them.
Matches == Byte = str[s] \/ Byte = AnyOne

MatchOne ==
  /\ Searching
  /\ Matches
  /\ p' = p + 1
  /\ s' = s + 1
  /\ UNCHANGED <<args, stars, result>>

\* A run of stars that ends the pattern matches whatever is left.
PassStars ==
  /\ Searching
  /\ ~Matches
  /\ Byte = Star
  /\ p' = AfterStars(p)
  /\ IF p' > Len(pattern)
       THEN result' = "TRUE" /\ UNCHANGED stars
       ELSE starPattern' = p' /\ starStr' = s /\ UNCHANGED result
  /\ UNCHANGED <<args, s>>

\* Mutant: `str = star_str++`, the pointer before it advances.
GoOnFromSame(i) == i
GoOnFrom(i) == i + 1

\* The last star takes in one byte more.
GoBack ==
  /\ Searching
  /\ ~Matches
  /\ Byte # Star
  /\ starPattern # NoStar
  /\ p' = starPattern
  /\ s' = GoOnFrom(starStr)
  /\ starStr' = GoOnFrom(starStr)
  /\ UNCHANGED <<args, starPattern, result>>

Mismatch ==
  /\ Searching
  /\ ~Matches
  /\ Byte # Star
  /\ starPattern = NoStar
  /\ result' = "FALSE"
  /\ UNCHANGED <<args, p, s, stars>>

\* Mutant: what the pattern has left is not looked at.
AtEndAnywhere(i) == TRUE
\* Mutant: stars the pattern has left are not passed.
AtEndWithoutStars(i) == p > Len(pattern)
AtEnd(i) == i > Len(pattern)

\* The string is used up: so must be the pattern, but for stars.
Finish ==
  /\ result = "none"
  /\ s > Len(str)
  /\ p' = AfterStars(p)
  /\ result' = IF AtEnd(p') THEN "TRUE" ELSE "FALSE"
  /\ UNCHANGED <<args, s, stars>>

Init ==
  /\ pattern \in Patterns /\ str \in Strings
  /\ p = 1 /\ s = 1
  /\ starPattern = NoStar /\ starStr = NoStar
  /\ result = "none"

Next == MatchOne \/ PassStars \/ GoBack \/ Mismatch \/ Finish

Spec == Init /\ [][Next]_vars

\* The function runs to its end: nothing else can happen.
FairSpec == Spec /\ WF_vars(Next)

-----------------------------------------------------------------------------
\* No pointer passes the terminator of its string: every byte the matcher reads
\* is one of its arguments'.
TypeOK ==
  /\ pattern \in Patterns /\ str \in Strings
  /\ p \in 1 .. Len(pattern) + 1
  /\ s \in 1 .. Len(str) + 1
  /\ starPattern \in 0 .. Len(pattern)
  /\ starStr \in 0 .. Len(str) + 1
  /\ result \in {"none", "TRUE", "FALSE"}

(***************************************************************************)
(* What a glob means: an occurrence of '*' stands for any string, '?' for  *)
(* any byte, everything else for itself.                                   *)
(***************************************************************************)
PatternPlaces == 1 .. Len(pattern) + 1
StringPlaces == 1 .. Len(str) + 1

GlobFrom ==
  LET glob[at \in PatternPlaces \X StringPlaces] ==
        LET i == at[1]
            j == at[2]
        IN  IF i > Len(pattern) THEN j > Len(str)
            ELSE IF pattern[i] = Star
              THEN glob[<<i + 1, j>>] \/ (j <= Len(str) /\ glob[<<i, j + 1>>])
            ELSE /\ j <= Len(str) /\ pattern[i] \in {str[j], AnyOne}
                 /\ glob[<<i + 1, j + 1>>]
  IN  glob
Glob == GlobFrom[<<1, 1>>]

HasStar(t) == \E i \in 1 .. Len(t) : t[i] = Star

\* A match that is reported is one, for every string.
WildcardSound == result = "TRUE" => Glob

\* A match is found if there is one, as long as the string itself has no '*':
\* going back to the last star alone, and greedily, misses nothing.
WildcardComplete == result = "FALSE" /\ ~HasStar(str) => ~Glob

\* "'?' single char, '*' any chars": the same for every string.
WildcardMatchesAnything == result = "FALSE" => ~Glob

\* The comparators say the same of a value without metacharacters as the glob made
\* from it: EXACT, PREFIX "v*", SUFFIX "*v" and CONTAINS "*v*".  Policies are
\* written either way.
Plain(t) == \A i \in 1 .. Len(t) : t[i] \notin {Star, AnyOne}
ComparatorsAgree ==
  result # "none" /\ ~HasStar(str) =>
    LET n == Len(pattern)
        first == n > 0 /\ pattern[1] = Star
        last == n > 1 /\ pattern[n] = Star
        value == SubSeq(pattern, IF first THEN 2 ELSE 1, IF last THEN n - 1 ELSE n)
    IN  Plain(value) =>
          (result = "TRUE" <=>
             CASE first /\ last   -> Contains(value, str)
               [] first /\ ~last  -> Suffix(value, str)
               [] ~first /\ last  -> Prefix(value, str)
               [] ~first /\ ~last -> Exact(value, str))

\* Every turn of the loop makes headway, in the order of importance: a later star,
\* a longer run for the last star, a later byte of the string.  All three are
\* bounded, so the loop ends.
Headway ==
  \/ starPattern' > starPattern
  \/ starPattern' = starPattern /\ starStr' > starStr
  \/ starPattern' = starPattern /\ starStr' = starStr /\ s' > s
Progress == [][result' = "none" => Headway]_vars

\* The function returns.
Termination == <>(result # "none")
=============================================================================
