--------------------------- MODULE Wildcard_proofs ---------------------------
(***************************************************************************)
(* Theorems about the wildcard matcher, for every pattern and every        *)
(* string: its pointers stay inside their strings, terminator included;    *)
(* every turn of its loop makes headway; what it finds is a match; in a    *)
(* string without a star it misses none; the other comparators agree with  *)
(* the globs that say the same; and the matcher of the Go package, a       *)
(* recursion over the same turns, gives the same answers.                  *)
(***************************************************************************)
EXTENDS GoWildcard, WellFoundedInduction, TLAPS

\* The pointers never fall behind the place the matcher would go back to.
Ahead ==
  /\ p >= starPattern
  /\ s >= starStr
  /\ Len(str) + 1 >= starStr

Inv == TypeOK /\ Ahead

-----------------------------------------------------------------------------
\* A set of positions that is not empty has a first one.
LEMMA FirstExists ==
  ASSUME NEW positions \in SUBSET Nat, positions # {}
  PROVE  FirstOf(positions) \in positions /\ \A k \in positions : FirstOf(positions) <= k
<1>1. IsWellFoundedOn(OpToRel(<, Nat), Nat)
  BY NatLessThanWellFounded
<1>2. PICK j \in positions : \A k \in positions : ~(<<k, j>> \in OpToRel(<, Nat))
  BY <1>1, WFMin
<1>3. \A k \in positions : j <= k
  <2>1. SUFFICES ASSUME NEW k \in positions PROVE j <= k
    OBVIOUS
  <2>2. j \in Nat /\ k \in Nat
    OBVIOUS
  <2>3. ~(k < j)
    BY <1>2, <2>2 DEF OpToRel
  <2> QED BY <2>2, <2>3
<1> QED BY <1>3 DEF FirstOf

\* The pattern's terminator is no star, so passing stars stops there at the latest.
LEMMA AfterStarsInPattern ==
  ASSUME pattern \in Seq(Chars), NEW i \in 1 .. Len(pattern) + 1
  PROVE  /\ AfterStars(i) \in i .. Len(pattern) + 1
         /\ ByteAt(pattern, AfterStars(i)) # Star
<1>1. Len(pattern) \in Nat
  OBVIOUS
<1>2. Len(pattern) + 1 \in NotStars(i)
  BY <1>1, CharAssumption DEF NotStars, ByteAt
<1>3. NotStars(i) \in SUBSET Nat
  BY <1>1 DEF NotStars
<1>4. FirstOf(NotStars(i)) \in NotStars(i)
  BY <1>2, <1>3, FirstExists
<1> QED BY <1>4 DEF AfterStars, NotStars

\* What a byte that equals a character, or is a metacharacter, says of its place.
LEMMA ByteInPattern ==
  ASSUME pattern \in Seq(Chars), p \in 1 .. Len(pattern) + 1, Byte \in Chars
  PROVE  p <= Len(pattern)
<1>1. Len(pattern) \in Nat
  OBVIOUS
<1> QED BY <1>1, CharAssumption DEF Byte, ByteAt

-----------------------------------------------------------------------------
LEMMA InitInv == Init => Inv
<1>1. SUFFICES ASSUME Init PROVE Inv
  OBVIOUS
<1>2. pattern \in Seq(Chars) /\ str \in Seq(Chars)
  BY <1>1, StringAssumption DEF Init
<1>3. Len(pattern) \in Nat /\ Len(str) \in Nat
  BY <1>2
<1> QED BY <1>1, <1>3 DEF Init, Inv, TypeOK, Ahead, NoStar

LEMMA NextInv == Inv /\ [Next]_vars => Inv'
<1>1. SUFFICES ASSUME Inv, [Next]_vars PROVE Inv'
  OBVIOUS
<1>2. pattern \in Seq(Chars) /\ str \in Seq(Chars)
  BY <1>1, StringAssumption DEF Inv, TypeOK
<1>3. Len(pattern) \in Nat /\ Len(str) \in Nat
  BY <1>2
<1>4. CASE MatchOne
  <2>1. Byte \in Chars
    <3>1. str[s] \in Chars
      BY <1>1, <1>2, <1>3, <1>4 DEF MatchOne, Searching, Inv, TypeOK
    <3> QED BY <3>1, <1>4, CharAssumption DEF MatchOne, Matches
  <2>2. p <= Len(pattern)
    BY <1>1, <1>2, <2>1, ByteInPattern DEF Inv, TypeOK
  <2> QED BY <1>1, <1>3, <1>4, <2>2 DEF MatchOne, Searching, Inv, TypeOK, Ahead, args, stars
<1>5. CASE PassStars
  <2>1. p' \in p .. Len(pattern) + 1
    BY <1>1, <1>2, <1>5, AfterStarsInPattern DEF PassStars, Inv, TypeOK
  <2> QED BY <1>1, <1>3, <1>5, <2>1 DEF PassStars, Searching, Inv, TypeOK, Ahead, args, stars
<1>6. CASE GoBack
  BY <1>1, <1>3, <1>6 DEF GoBack, GoOnFrom, NoStar, Searching, Inv, TypeOK, Ahead, args
<1>7. CASE Mismatch
  BY <1>1, <1>7 DEF Mismatch, Inv, TypeOK, Ahead, args, stars
<1>8. CASE Finish
  <2>1. p' \in p .. Len(pattern) + 1
    BY <1>1, <1>2, <1>8, AfterStarsInPattern DEF Finish, Inv, TypeOK
  <2> QED BY <1>1, <1>3, <1>8, <2>1 DEF Finish, Inv, TypeOK, Ahead, args, stars
<1>9. CASE UNCHANGED vars
  BY <1>1, <1>9 DEF vars, args, stars, Inv, TypeOK, Ahead
<1> QED BY <1>1, <1>4, <1>5, <1>6, <1>7, <1>8, <1>9 DEF Next

LEMMA Invariance == Spec => []Inv
<1> QED BY InitInv, NextInv, PTL DEF Spec

\* No pointer of the matcher passes the terminator of its string, and it never
\* goes back to a place that is not inside its strings.
THEOREM InBounds == Spec => []TypeOK
<1>1. Inv => TypeOK
  BY DEF Inv
<1> QED BY <1>1, Invariance, PTL

LEMMA StepHeadway == Inv /\ [Next]_vars => [result' = "none" => Headway]_vars
<1>1. SUFFICES ASSUME Inv, Next, result' = "none" PROVE Headway
  OBVIOUS
<1>2. pattern \in Seq(Chars) /\ str \in Seq(Chars)
  BY <1>1, StringAssumption DEF Inv, TypeOK
<1>3. Len(pattern) \in Nat /\ Len(str) \in Nat
  BY <1>2
<1>4. CASE MatchOne
  BY <1>1, <1>4 DEF MatchOne, Headway, Inv, TypeOK, stars
<1>5. CASE PassStars
  <2>1. p' \in p .. Len(pattern) + 1 /\ ByteAt(pattern, p') # Star
    BY <1>1, <1>2, <1>5, AfterStarsInPattern DEF PassStars, Inv, TypeOK
  <2>2. p' # p
    BY <1>5, <2>1 DEF PassStars, Byte
  <2>3. starPattern' = p'
    BY <1>1, <1>5 DEF PassStars
  <2> QED BY <1>1, <1>3, <2>1, <2>2, <2>3 DEF Headway, Inv, TypeOK, Ahead
<1>6. CASE GoBack
  BY <1>1, <1>6 DEF GoBack, GoOnFrom, Headway, Inv, TypeOK
<1>7. CASE Mismatch
  BY <1>1, <1>7 DEF Mismatch
<1>8. CASE Finish
  BY <1>1, <1>8 DEF Finish
<1> QED BY <1>1, <1>4, <1>5, <1>6, <1>7, <1>8 DEF Next

\* The loop cannot run on the spot: each turn that does not end the function moves
\* on, in an order that is bounded by the lengths of the two strings.
THEOREM LoopProgress == Spec => Progress
<1> QED BY Invariance, StepHeadway, PTL DEF Spec, Progress

-----------------------------------------------------------------------------
(***************************************************************************)
(* What a glob means does not need its recursion: the pattern from i on    *)
(* matches the string from j on if each of its bytes can be given a place  *)
(* where what it takes in begins.  That solves the recursive definition,   *)
(* which therefore defines a function.                                     *)
(***************************************************************************)
GlobStep(g, i, j) ==
  IF i > Len(pattern) THEN j > Len(str)
  ELSE IF pattern[i] = Star
    THEN g[<<i + 1, j>>] \/ (j <= Len(str) /\ g[<<i, j + 1>>])
  ELSE /\ j <= Len(str) /\ pattern[i] \in {str[j], AnyOne}
       /\ g[<<i + 1, j + 1>>]

Fits(i, j, k) ==
  IF pattern[i] = Star THEN j <= k ELSE k = j + 1 /\ pattern[i] \in {str[j], AnyOne}

Aligned(i, j, at) ==
  /\ at \in [i .. Len(pattern) + 1 -> StringPlaces]
  /\ at[i] = j
  /\ at[Len(pattern) + 1] = Len(str) + 1
  /\ \A k \in i .. Len(pattern) : Fits(k, at[k], at[k + 1])

Aligns(i, j) == \E at : Aligned(i, j, at)

\* Past the end of the pattern there is one alignment, at the end of the string.
LEMMA AlignsAtEnd ==
  ASSUME pattern \in Seq(Chars), str \in Seq(Chars),
         NEW j \in StringPlaces
  PROVE  Aligns(Len(pattern) + 1, j) <=> j > Len(str)
<1>1. Len(pattern) \in Nat /\ Len(str) \in Nat
  OBVIOUS
<1> DEFINE n == Len(pattern) + 1
<1>2. ASSUME NEW at, Aligned(n, j, at) PROVE j > Len(str)
  BY <1>1, <1>2 DEF Aligned
<1>3. ASSUME j > Len(str) PROVE Aligned(n, j, [k \in n .. n |-> j])
  <2>1. j = Len(str) + 1
    BY <1>1, <1>3 DEF StringPlaces
  <2> QED BY <1>1, <2>1 DEF Aligned
<1> QED BY <1>2, <1>3 DEF Aligns

\* An alignment from a byte on is one from the next byte on, and a place for it.
LEMMA AlignsTail ==
  ASSUME pattern \in Seq(Chars), str \in Seq(Chars),
         NEW i \in 1 .. Len(pattern), NEW j \in StringPlaces, NEW at, Aligned(i, j, at)
  PROVE  \E k \in StringPlaces : Fits(i, j, k) /\ Aligns(i + 1, k)
<1>1. Len(pattern) \in Nat /\ Len(str) \in Nat
  OBVIOUS
<1> DEFINE rest == [k \in i + 1 .. Len(pattern) + 1 |-> at[k]]
<1>2. at[i + 1] \in StringPlaces /\ Fits(i, j, at[i + 1])
  BY <1>1 DEF Aligned
<1>3. rest \in [i + 1 .. Len(pattern) + 1 -> StringPlaces]
  BY <1>1 DEF Aligned
<1>4. rest[i + 1] = at[i + 1] /\ rest[Len(pattern) + 1] = Len(str) + 1
  BY <1>1 DEF Aligned
<1>5. \A k \in i + 1 .. Len(pattern) : Fits(k, rest[k], rest[k + 1])
  <2>1. SUFFICES ASSUME NEW k \in i + 1 .. Len(pattern) PROVE Fits(k, rest[k], rest[k + 1])
    OBVIOUS
  <2>2. k \in i .. Len(pattern) /\ k \in i + 1 .. Len(pattern) + 1
        /\ k + 1 \in i + 1 .. Len(pattern) + 1
    BY <1>1
  <2>3. rest[k] = at[k] /\ rest[k + 1] = at[k + 1]
    BY <2>2
  <2> QED BY <2>2, <2>3 DEF Aligned
<1>6. Aligned(i + 1, at[i + 1], rest)
  BY <1>3, <1>4, <1>5 DEF Aligned
<1> QED BY <1>2, <1>6 DEF Aligns

LEMMA AlignsCons ==
  ASSUME pattern \in Seq(Chars), str \in Seq(Chars),
         NEW i \in 1 .. Len(pattern), NEW j \in StringPlaces, NEW k \in StringPlaces,
         Fits(i, j, k), NEW rest, Aligned(i + 1, k, rest)
  PROVE  Aligns(i, j)
<1>1. Len(pattern) \in Nat /\ Len(str) \in Nat
  OBVIOUS
<1> DEFINE at == [l \in i .. Len(pattern) + 1 |-> IF l = i THEN j ELSE rest[l]]
<1>2. \A l \in i + 1 .. Len(pattern) + 1 : rest[l] \in StringPlaces /\ at[l] = rest[l]
  <2>1. SUFFICES ASSUME NEW l \in i + 1 .. Len(pattern) + 1
                 PROVE  rest[l] \in StringPlaces /\ at[l] = rest[l]
    OBVIOUS
  <2>2. l \in i .. Len(pattern) + 1 /\ l # i
    BY <1>1
  <2>3. rest[l] \in StringPlaces
    BY DEF Aligned
  <2> QED BY <2>2, <2>3
<1>3. at[i] = j
  BY <1>1
<1>4. at \in [i .. Len(pattern) + 1 -> StringPlaces]
  <2>1. \A l \in i .. Len(pattern) + 1 : l = i \/ l \in i + 1 .. Len(pattern) + 1
    BY <1>1
  <2> QED BY <1>2, <2>1
<1>5. at[Len(pattern) + 1] = Len(str) + 1
  BY <1>1, <1>2 DEF Aligned
<1>6. \A l \in i .. Len(pattern) : Fits(l, at[l], at[l + 1])
  <2>1. SUFFICES ASSUME NEW l \in i .. Len(pattern) PROVE Fits(l, at[l], at[l + 1])
    OBVIOUS
  <2>2. l + 1 \in i + 1 .. Len(pattern) + 1
    BY <1>1
  <2>3. at[l + 1] = rest[l + 1]
    BY <1>2, <2>2
  <2>4. CASE l = i
    BY <1>3, <2>3, <2>4 DEF Aligned
  <2>5. CASE l # i
    <3>1. l \in i + 1 .. Len(pattern) /\ l \in i + 1 .. Len(pattern) + 1
      BY <1>1, <2>5
    <3> QED BY <1>2, <2>3, <3>1 DEF Aligned
  <2> QED BY <2>4, <2>5
<1>7. Aligned(i, j, at)
  BY <1>3, <1>4, <1>5, <1>6 DEF Aligned
<1> QED BY <1>7 DEF Aligns

\* Aligning solves the recursion.
LEMMA AlignsStep ==
  ASSUME pattern \in Seq(Chars), str \in Seq(Chars),
         NEW i \in PatternPlaces, NEW j \in StringPlaces,
         NEW g, g = [at \in PatternPlaces \X StringPlaces |-> Aligns(at[1], at[2])]
  PROVE  Aligns(i, j) <=> GlobStep(g, i, j)
<1>1. Len(pattern) \in Nat /\ Len(str) \in Nat
  OBVIOUS
<1>2. \A a \in PatternPlaces, b \in StringPlaces : g[<<a, b>>] <=> Aligns(a, b)
  OBVIOUS
<1>3. CASE i > Len(pattern)
  <2>1. i = Len(pattern) + 1
    BY <1>1, <1>3 DEF PatternPlaces
  <2> QED BY <1>3, <2>1, AlignsAtEnd DEF GlobStep
<1>4. CASE i <= Len(pattern)
  <2>1. i \in 1 .. Len(pattern) /\ i + 1 \in PatternPlaces
    BY <1>1, <1>4 DEF PatternPlaces
  <2>2. Aligns(i, j) <=> \E k \in StringPlaces : Fits(i, j, k) /\ Aligns(i + 1, k)
    BY <2>1, AlignsTail, AlignsCons DEF Aligns
  <2>3. CASE pattern[i] = Star
    <3>1. ASSUME Aligns(i, j) PROVE Aligns(i + 1, j) \/ (j <= Len(str) /\ Aligns(i, j + 1))
      <4>1. PICK k \in StringPlaces : Fits(i, j, k) /\ Aligns(i + 1, k)
        BY <2>2, <3>1
      <4>2. CASE k = j
        BY <4>1, <4>2
      <4>3. CASE k # j
        <5>1. j + 1 \in StringPlaces /\ j <= Len(str) /\ Fits(i, j + 1, k)
          BY <1>1, <2>3, <4>1, <4>3 DEF Fits, StringPlaces
        <5>2. PICK rest : Aligned(i + 1, k, rest)
          BY <4>1 DEF Aligns
        <5> QED BY <2>1, <5>1, <5>2, AlignsCons
      <4> QED BY <4>2, <4>3
    <3>2. ASSUME Aligns(i + 1, j) PROVE Aligns(i, j)
      <4>1. Fits(i, j, j)
        BY <2>3 DEF Fits, StringPlaces
      <4> QED BY <2>2, <3>2, <4>1
    <3>3. ASSUME j <= Len(str), Aligns(i, j + 1) PROVE Aligns(i, j)
      <4>1. j + 1 \in StringPlaces
        BY <1>1, <3>3 DEF StringPlaces
      <4>2. PICK at : Aligned(i, j + 1, at)
        BY <3>3 DEF Aligns
      <4>3. PICK k \in StringPlaces : Fits(i, j + 1, k) /\ Aligns(i + 1, k)
        BY <2>1, <4>1, <4>2, AlignsTail
      <4>4. Fits(i, j, k)
        BY <1>1, <2>3, <4>3 DEF Fits, StringPlaces
      <4> QED BY <2>2, <4>3, <4>4
    <3>4. GlobStep(g, i, j) <=> (g[<<i + 1, j>>] \/ (j <= Len(str) /\ g[<<i, j + 1>>]))
      BY <1>1, <1>4, <2>3 DEF GlobStep, PatternPlaces
    <3>5. j <= Len(str) => j + 1 \in StringPlaces
      BY <1>1 DEF StringPlaces
    <3>6. g[<<i + 1, j>>] <=> Aligns(i + 1, j)
      BY <1>2, <2>1
    <3>7. j <= Len(str) => (g[<<i, j + 1>>] <=> Aligns(i, j + 1))
      BY <1>2, <3>5
    <3> QED BY <3>1, <3>2, <3>3, <3>4, <3>6, <3>7
  <2>4. CASE pattern[i] # Star
    <3>1. GlobStep(g, i, j)
          <=> (j <= Len(str) /\ pattern[i] \in {str[j], AnyOne} /\ g[<<i + 1, j + 1>>])
      BY <1>1, <1>4, <2>4 DEF GlobStep, PatternPlaces
    <3>2. \A k \in StringPlaces : Fits(i, j, k) <=> (k = j + 1 /\ pattern[i] \in {str[j], AnyOne})
      BY <2>4 DEF Fits
    <3>3. j <= Len(str) <=> j + 1 \in StringPlaces
      BY <1>1 DEF StringPlaces
    <3>4. j <= Len(str) => (g[<<i + 1, j + 1>>] <=> Aligns(i + 1, j + 1))
      BY <1>2, <2>1, <3>3
    <3> QED BY <2>2, <3>1, <3>2, <3>3, <3>4
  <2> QED BY <2>3, <2>4
<1> QED BY <1>1, <1>3, <1>4 DEF PatternPlaces

\* Two truth values that follow from each other are one.
LEMMA SameTruth ==
  ASSUME NEW a \in BOOLEAN, NEW b \in BOOLEAN, a <=> b
  PROVE  a = b
OBVIOUS

\* What a glob matches, place by place.
LEMMA GlobEquation ==
  ASSUME pattern \in Seq(Chars), str \in Seq(Chars),
         NEW g, g = GlobFrom, NEW i \in PatternPlaces, NEW j \in StringPlaces
  PROVE  g[<<i, j>>] = GlobStep(g, i, j)
<1> DEFINE P(f) == f = [at \in PatternPlaces \X StringPlaces |-> GlobStep(f, at[1], at[2])]
<1>1. PICK a : a = [at \in PatternPlaces \X StringPlaces |-> Aligns(at[1], at[2])]
  OBVIOUS
<1>2. ASSUME NEW at \in PatternPlaces \X StringPlaces
      PROVE  Aligns(at[1], at[2]) = GlobStep(a, at[1], at[2])
  <2>1. at[1] \in PatternPlaces /\ at[2] \in StringPlaces
    OBVIOUS
  <2>2. Aligns(at[1], at[2]) <=> GlobStep(a, at[1], at[2])
    BY <1>1, <2>1, AlignsStep
  <2>3. Aligns(at[1], at[2]) \in BOOLEAN
    BY DEF Aligns
  <2>4. GlobStep(a, at[1], at[2]) \in BOOLEAN
    <3>1. CASE at[1] > Len(pattern)
      <4>1. at[2] \in Nat /\ Len(str) \in Nat
        BY DEF StringPlaces
      <4>2. (at[2] > Len(str)) \in BOOLEAN
        BY <4>1
      <4> QED BY <3>1, <4>2, Zenon DEF GlobStep
    <3>2. CASE ~(at[1] > Len(pattern)) /\ pattern[at[1]] = Star
      BY <3>2, Zenon DEF GlobStep
    <3>3. CASE ~(at[1] > Len(pattern)) /\ pattern[at[1]] # Star
      BY <3>3, Zenon DEF GlobStep
    <3> QED BY <3>1, <3>2, <3>3
  <2> HIDE DEF GlobStep, Aligns
  <2> QED BY <2>2, <2>3, <2>4, SameTruth
<1>3. P(a)
  BY <1>1, <1>2
<1>4. g = CHOOSE f : P(f)
  BY DEF GlobFrom, GlobStep
<1> HIDE DEF P
<1>5. P(g)
  BY <1>3, <1>4
<1> QED BY <1>5 DEF P
-----------------------------------------------------------------------------
\* Counting from 0 reaches every number.
LEMMA Counting ==
  ASSUME NEW S \in SUBSET Nat, 0 \in S, \A d \in S : d + 1 \in S
  PROVE  \A d \in Nat : d \in S
<1>1. SUFFICES ASSUME NEW d \in Nat \ S PROVE FALSE
  OBVIOUS
<1>2. PICK f : f = FirstOf(Nat \ S)
  OBVIOUS
<1>3. f \in Nat \ S
  BY <1>1, <1>2, FirstExists
<1>4. IsWellFoundedOn(OpToRel(<, Nat), Nat)
  BY NatLessThanWellFounded
<1>5. PICK e \in Nat \ S : \A k \in Nat \ S : ~(<<k, e>> \in OpToRel(<, Nat))
  BY <1>1, <1>4, WFMin
<1>6. e # 0 /\ e - 1 \in Nat
  OBVIOUS
<1>7. e - 1 \in Nat \ S
  <2>1. e = (e - 1) + 1
    BY <1>6
  <2> QED BY <1>5, <1>6, <2>1
<1>8. <<e - 1, e>> \in OpToRel(<, Nat)
  BY <1>6 DEF OpToRel
<1> QED BY <1>5, <1>7, <1>8

\* What a star may take in, the equation of globs at a star and elsewhere.
LEMMA GlobAtStar ==
  ASSUME pattern \in Seq(Chars), str \in Seq(Chars), NEW g, g = GlobFrom,
         NEW i \in 1 .. Len(pattern), pattern[i] = Star, NEW j \in StringPlaces
  PROVE  /\ g[<<i + 1, j>>] => g[<<i, j>>]
         /\ j <= Len(str) /\ g[<<i, j + 1>>] => g[<<i, j>>]
         /\ g[<<i, j>>] => g[<<i + 1, j>>] \/ (j <= Len(str) /\ g[<<i, j + 1>>])
<1>1. i \in PatternPlaces /\ ~(i > Len(pattern))
  BY DEF PatternPlaces
<1>2. g[<<i, j>>] = GlobStep(g, i, j)
  BY <1>1, GlobEquation
<1> QED BY <1>1, <1>2 DEF GlobStep

LEMMA GlobElsewhere ==
  ASSUME pattern \in Seq(Chars), str \in Seq(Chars), NEW g, g = GlobFrom,
         NEW i \in 1 .. Len(pattern), pattern[i] # Star, NEW j \in StringPlaces
  PROVE  /\ j <= Len(str) /\ pattern[i] \in {str[j], AnyOne} /\ g[<<i + 1, j + 1>>] => g[<<i, j>>]
         /\ g[<<i, j>>] => j <= Len(str) /\ pattern[i] \in {str[j], AnyOne} /\ g[<<i + 1, j + 1>>]
<1>1. i \in PatternPlaces /\ ~(i > Len(pattern))
  BY DEF PatternPlaces
<1>2. g[<<i, j>>] = GlobStep(g, i, j)
  BY <1>1, GlobEquation
<1> QED BY <1>1, <1>2 DEF GlobStep

LEMMA GlobAtEnd ==
  ASSUME pattern \in Seq(Chars), str \in Seq(Chars), NEW g, g = GlobFrom,
         NEW j \in StringPlaces
  PROVE  /\ j > Len(str) => g[<<Len(pattern) + 1, j>>]
         /\ g[<<Len(pattern) + 1, j>>] => j > Len(str)
<1>1. Len(pattern) + 1 \in PatternPlaces /\ Len(pattern) + 1 > Len(pattern)
  BY DEF PatternPlaces
<1>2. g[<<Len(pattern) + 1, j>>] = GlobStep(g, Len(pattern) + 1, j)
  BY <1>1, GlobEquation
<1> QED BY <1>1, <1>2 DEF GlobStep

\* A star that matches from a byte on matches from every byte before it.
LEMMA StarFromBefore ==
  ASSUME pattern \in Seq(Chars), str \in Seq(Chars), NEW g, g = GlobFrom,
         NEW i \in 1 .. Len(pattern), pattern[i] = Star,
         NEW j \in StringPlaces, NEW k \in StringPlaces, j <= k, g[<<i, k>>]
  PROVE  g[<<i, j>>]
<1> DEFINE S == {d \in Nat : k - d >= j => g[<<i, k - d>>]}
<1>1. j \in Nat /\ k \in Nat /\ Len(str) \in Nat /\ k <= Len(str) + 1 /\ 1 <= j
  BY DEF StringPlaces
<1>2. 0 \in S
  <2>1. k - 0 = k
    BY <1>1
  <2> QED BY <2>1
<1>3. \A d \in S : d + 1 \in S
  <2>1. SUFFICES ASSUME NEW d \in S, k - (d + 1) >= j PROVE g[<<i, k - (d + 1)>>]
    OBVIOUS
  <2> DEFINE b == k - (d + 1)
  <2>2. d \in Nat /\ k - d >= j /\ b \in StringPlaces /\ b <= Len(str) /\ b + 1 = k - d
    BY <1>1, <2>1 DEF StringPlaces
  <2>3. g[<<i, b + 1>>]
    BY <2>2
  <2> QED BY <2>2, <2>3, GlobAtStar
<1>4. k - j \in S
  <2>1. k - j \in Nat
    BY <1>1
  <2> HIDE DEF S
  <2>2. S \in SUBSET Nat
    BY DEF S
  <2> QED BY <1>2, <1>3, <2>1, <2>2, Counting
<1>5. k - (k - j) = j
  BY <1>1
<1> QED BY <1>1, <1>4, <1>5

\* A star takes in some string, possibly the empty one.
LEMMA StarTakes ==
  ASSUME pattern \in Seq(Chars), str \in Seq(Chars), NEW g, g = GlobFrom,
         NEW i \in 1 .. Len(pattern), pattern[i] = Star,
         NEW j \in StringPlaces, g[<<i, j>>]
  PROVE  \E k \in j .. Len(str) + 1 : g[<<i + 1, k>>]
<1>1. SUFFICES ASSUME \A k \in j .. Len(str) + 1 : ~g[<<i + 1, k>>] PROVE FALSE
  OBVIOUS
<1> DEFINE S == {d \in Nat : j + d <= Len(str) + 1 => g[<<i, j + d>>]}
<1>2. j \in Nat /\ Len(str) \in Nat /\ j <= Len(str) + 1 /\ 1 <= j
  BY DEF StringPlaces
<1>3. 0 \in S
  <2>1. j + 0 = j
    BY <1>2
  <2> QED BY <2>1
<1>4. \A d \in S : d + 1 \in S
  <2>1. SUFFICES ASSUME NEW d \in S, j + (d + 1) <= Len(str) + 1 PROVE g[<<i, j + (d + 1)>>]
    OBVIOUS
  <2> DEFINE b == j + d
  <2>2. d \in Nat /\ b \in StringPlaces /\ b \in j .. Len(str) + 1 /\ b + 1 = j + (d + 1)
    BY <1>2, <2>1 DEF StringPlaces
  <2>3. g[<<i, b>>] /\ ~g[<<i + 1, b>>]
    BY <1>1, <1>2, <2>2
  <2> QED BY <2>2, <2>3, GlobAtStar
<1>5. (Len(str) + 1) - j \in S
  <2>1. (Len(str) + 1) - j \in Nat
    BY <1>2
  <2> HIDE DEF S
  <2>2. S \in SUBSET Nat
    BY DEF S
  <2> QED BY <1>3, <1>4, <2>1, <2>2, Counting
<1>6. j + ((Len(str) + 1) - j) = Len(str) + 1
  BY <1>2
<1>7. g[<<i, Len(str) + 1>>]
  BY <1>2, <1>5, <1>6
<1>8. Len(str) + 1 \in StringPlaces /\ ~(Len(str) + 1 <= Len(str))
      /\ Len(str) + 1 \in j .. Len(str) + 1
  BY <1>2 DEF StringPlaces
<1> QED BY <1>1, <1>7, <1>8, GlobAtStar

StarRun(i, q) == \A l \in i .. q - 1 : pattern[l] = Star

\* A run of stars matches from j on what matches behind it from a later byte on.
LEMMA StarsSkipped ==
  ASSUME pattern \in Seq(Chars), str \in Seq(Chars), NEW g, g = GlobFrom,
         NEW i \in 1 .. Len(pattern), NEW q \in PatternPlaces, i < q, StarRun(i, q),
         NEW j \in StringPlaces, NEW k \in StringPlaces, j <= k, g[<<q, k>>]
  PROVE  g[<<i, j>>]
<1> DEFINE S == {d \in Nat : q - d >= i => g[<<q - d, k>>]}
<1>1. q \in Nat /\ i \in Nat /\ Len(pattern) \in Nat /\ q <= Len(pattern) + 1 /\ 1 <= i
  BY DEF PatternPlaces
<1>2. 0 \in S
  <2>1. q - 0 = q
    BY <1>1
  <2> QED BY <2>1
<1>3. \A d \in S : d + 1 \in S
  <2>1. SUFFICES ASSUME NEW d \in S, q - (d + 1) >= i PROVE g[<<q - (d + 1), k>>]
    OBVIOUS
  <2> DEFINE b == q - (d + 1)
  <2>2. d \in Nat /\ q - d >= i /\ b \in 1 .. Len(pattern) /\ b \in i .. q - 1 /\ b + 1 = q - d
    BY <1>1, <2>1
  <2>3. g[<<b + 1, k>>] /\ pattern[b] = Star
    BY <2>2 DEF StarRun
  <2> QED BY <2>2, <2>3, GlobAtStar
<1>4. q - i \in S
  <2>1. q - i \in Nat
    BY <1>1
  <2> HIDE DEF S
  <2>2. S \in SUBSET Nat
    BY DEF S
  <2> QED BY <1>2, <1>3, <2>1, <2>2, Counting
<1>5. q - (q - i) = i
  BY <1>1
<1>6. g[<<i, k>>] /\ pattern[i] = Star
  <2>1. i \in i .. q - 1
    BY <1>1
  <2> QED BY <1>1, <1>4, <1>5, <2>1 DEF StarRun
<1> QED BY <1>6, StarFromBefore

\* A match of a run of stars and more is a match of what is behind, from some byte.
LEMMA StarsTaken ==
  ASSUME pattern \in Seq(Chars), str \in Seq(Chars), NEW g, g = GlobFrom,
         NEW i \in PatternPlaces, NEW q \in PatternPlaces, i <= q, StarRun(i, q),
         NEW j \in StringPlaces, g[<<i, j>>]
  PROVE  \E k \in j .. Len(str) + 1 : g[<<q, k>>]
<1> DEFINE R(d) == i + d <= q => \E k \in j .. Len(str) + 1 : g[<<i + d, k>>]
           S == {d \in Nat : R(d)}
<1>1. q \in Nat /\ i \in Nat /\ Len(pattern) \in Nat /\ q <= Len(pattern) + 1 /\ 1 <= i
      /\ Len(str) \in Nat /\ j \in Nat /\ j <= Len(str) + 1 /\ 1 <= j
  BY DEF PatternPlaces, StringPlaces
<1>2. 0 \in S
  <2>1. i + 0 = i /\ j \in j .. Len(str) + 1
    BY <1>1
  <2> QED BY <2>1
<1>3. \A d \in S : d + 1 \in S
  <2>1. SUFFICES ASSUME NEW d \in S PROVE d + 1 \in S
    OBVIOUS
  <2> DEFINE b == i + d
  <2>2. ASSUME i + (d + 1) <= q PROVE \E k \in j .. Len(str) + 1 : g[<<i + (d + 1), k>>]
    <3>1. d \in Nat /\ b <= q /\ b \in 1 .. Len(pattern) /\ b \in i .. q - 1 /\ b + 1 = i + (d + 1)
      BY <1>1, <2>2
    <3>2. PICK k \in j .. Len(str) + 1 : g[<<b, k>>]
      BY <3>1
    <3>3. k \in StringPlaces /\ pattern[b] = Star
      BY <1>1, <3>1 DEF StarRun, StringPlaces
    <3>4. PICK m \in k .. Len(str) + 1 : g[<<b + 1, m>>]
      BY <3>1, <3>2, <3>3, StarTakes
    <3>5. m \in j .. Len(str) + 1
      BY <1>1
    <3> QED BY <3>1, <3>4, <3>5
  <2>3. R(d + 1)
    BY <2>2
  <2> HIDE DEF R
  <2> QED BY <2>3
<1>4. q - i \in S
  <2>1. q - i \in Nat
    BY <1>1
  <2> HIDE DEF S
  <2>2. S \in SUBSET Nat
    BY DEF S
  <2> QED BY <1>2, <1>3, <2>1, <2>2, Counting
<1>5. i + (q - i) = q
  BY <1>1
<1> QED BY <1>1, <1>4, <1>5

\* The loop that passes stars passes nothing else.
LEMMA OnlyStarsPassed ==
  ASSUME pattern \in Seq(Chars), NEW i \in PatternPlaces
  PROVE  StarRun(i, AfterStars(i))
<1>1. Len(pattern) \in Nat /\ i \in Nat /\ i <= Len(pattern) + 1 /\ 1 <= i
  BY DEF PatternPlaces
<1>2. SUFFICES ASSUME NEW l \in i .. AfterStars(i) - 1 PROVE pattern[l] = Star
  BY DEF StarRun
<1>3. AfterStars(i) \in i .. Len(pattern) + 1
  BY AfterStarsInPattern DEF PatternPlaces
<1>4. l \in i .. Len(pattern) + 1 /\ l <= Len(pattern) /\ l < AfterStars(i)
  BY <1>1, <1>3
<1>5. Len(pattern) + 1 \in NotStars(i) /\ NotStars(i) \in SUBSET Nat
  BY <1>1, CharAssumption DEF NotStars, ByteAt
<1>6. \A k \in NotStars(i) : AfterStars(i) <= k
  BY <1>5, FirstExists DEF AfterStars
<1>7. l \notin NotStars(i)
  BY <1>1, <1>3, <1>4, <1>6
<1> QED BY <1>4, <1>7 DEF NotStars, ByteAt
-----------------------------------------------------------------------------
(***************************************************************************)
(* Why a match that is reported is one: what is left to match where the    *)
(* pointers are would make a match of all, and so would what is left from  *)
(* the last star on, if matched from where the matcher would go back to or *)
(* from any later byte.                                                    *)
(***************************************************************************)
BackIsInside == starPattern # NoStar => starStr >= 1

Promising ==
  result = "none" =>
    /\ starPattern = NoStar => (GlobFrom[<<p, s>>] => Glob)
    /\ starPattern # NoStar =>
         /\ GlobFrom[<<p, s>>] => GlobFrom[<<starPattern, starStr>>]
         /\ \A k \in starStr .. Len(str) + 1 : GlobFrom[<<starPattern, k>>] => Glob

(***************************************************************************)
(* Why no match is missed: behind the last star there is no star up to     *)
(* where the pointers are, so what matches from the star on at some later  *)
(* byte matches here as far on.  Going back to a star before the last one  *)
(* could find nothing that the last one cannot.                            *)
(***************************************************************************)
NothingMissed ==
  result = "none" /\ ~HasStar(str) =>
    /\ starPattern = NoStar => (Glob => GlobFrom[<<p, s>>])
    /\ starPattern # NoStar =>
         /\ p - starPattern = s - starStr
         /\ Glob => \E k \in starStr .. Len(str) + 1 : GlobFrom[<<starPattern, k>>]
         /\ \A k \in starStr .. Len(str) + 1 :
              GlobFrom[<<starPattern, k>>] =>
                /\ k + (p - starPattern) \in StringPlaces
                /\ GlobFrom[<<p, k + (p - starPattern)>>]

Searched == BackIsInside /\ Promising /\ NothingMissed /\ WildcardSound /\ WildcardComplete

LEMMA InitSearched == Init => Searched
BY DEF Init, Searched, BackIsInside, Promising, NothingMissed, WildcardSound, WildcardComplete, Glob

\* Where the matcher can be, and what does not change.
LEMMA Positions ==
  ASSUME Inv
  PROVE  /\ pattern \in Seq(Chars) /\ str \in Seq(Chars)
         /\ Len(pattern) \in Nat /\ Len(str) \in Nat
         /\ p \in PatternPlaces /\ s \in StringPlaces
         /\ p \in Nat /\ s \in Nat /\ p >= 1 /\ s >= 1
         /\ starPattern \in Nat /\ starStr \in Nat
         /\ starPattern <= Len(pattern) /\ starStr <= s /\ starPattern <= p
BY StringAssumption DEF Inv, TypeOK, Ahead, PatternPlaces, StringPlaces

LEMMA GlobUnchanged ==
  ASSUME UNCHANGED args
  PROVE  GlobFrom' = GlobFrom /\ (Glob' <=> Glob) /\ (HasStar(str)' <=> HasStar(str))
BY DEF args, GlobFrom, Glob, PatternPlaces, StringPlaces, HasStar

\* A byte that is no star and does not match the byte of the string matches nothing.
LEMMA Stuck ==
  ASSUME Inv, NEW g, g = GlobFrom, Searching, ~Matches, Byte # Star
  PROVE  ~g[<<p, s>>]
<1>1. pattern \in Seq(Chars) /\ str \in Seq(Chars) /\ Len(pattern) \in Nat /\ Len(str) \in Nat
      /\ p \in PatternPlaces /\ s \in StringPlaces
  BY Positions
<1>2. CASE p <= Len(pattern)
  <2>1. p \in 1 .. Len(pattern) /\ pattern[p] = Byte
    BY <1>1, <1>2 DEF PatternPlaces, Byte, ByteAt
  <2>2. pattern[p] # Star /\ pattern[p] \notin {str[s], AnyOne}
    BY <2>1 DEF Matches
  <2> QED BY <1>1, <2>1, <2>2, GlobElsewhere
<1>3. CASE p > Len(pattern)
  <2>1. p = Len(pattern) + 1
    BY <1>1, <1>3 DEF PatternPlaces
  <2>2. ~(s > Len(str))
    BY <1>1 DEF Searching, StringPlaces
  <2> QED BY <1>1, <2>1, <2>2, GlobAtEnd
<1> QED BY <1>1, <1>2, <1>3 DEF PatternPlaces

\* A byte that matches: what matches behind it matches with it.
LEMMA OneMatched ==
  ASSUME Inv, NEW g, g = GlobFrom, Searching, Matches
  PROVE  /\ p \in 1 .. Len(pattern) /\ p + 1 \in PatternPlaces /\ s + 1 \in StringPlaces
         /\ pattern[p] = Byte
         /\ g[<<p + 1, s + 1>>] => g[<<p, s>>]
<1>1. pattern \in Seq(Chars) /\ str \in Seq(Chars) /\ Len(pattern) \in Nat /\ Len(str) \in Nat
      /\ p \in PatternPlaces /\ s \in StringPlaces
  BY Positions
<1>2. s \in 1 .. Len(str) /\ s + 1 \in StringPlaces /\ s <= Len(str)
  BY <1>1 DEF Searching, StringPlaces
<1>3. Byte \in Chars
  <2>1. str[s] \in Chars
    BY <1>1, <1>2
  <2> QED BY <2>1, CharAssumption DEF Matches
<1>4. p <= Len(pattern)
  BY <1>1, <1>3, ByteInPattern DEF PatternPlaces
<1>5. p \in 1 .. Len(pattern) /\ p + 1 \in PatternPlaces /\ pattern[p] = Byte
  BY <1>1, <1>4 DEF PatternPlaces, Byte, ByteAt
<1>6. g[<<p + 1, s + 1>>] => g[<<p, s>>]
  <2>1. CASE pattern[p] = Star
    <3>1. g[<<p + 1, s + 1>>] => g[<<p, s + 1>>]
      BY <1>1, <1>2, <1>5, <2>1, GlobAtStar
    <3> QED BY <1>1, <1>2, <1>5, <2>1, <3>1, GlobAtStar
  <2>2. CASE pattern[p] # Star
    <3>1. pattern[p] \in {str[s], AnyOne}
      BY <1>5 DEF Matches
    <3> QED BY <1>1, <1>2, <1>5, <2>2, <3>1, GlobElsewhere
  <2> QED BY <2>1, <2>2
<1> QED BY <1>2, <1>5, <1>6

\* In a string without a star, a byte that matches is no star.
LEMMA MatchedIsNoStar ==
  ASSUME Inv, Searching, Matches, ~HasStar(str)
  PROVE  Byte # Star
<1>1. str \in Seq(Chars) /\ Len(str) \in Nat /\ s \in StringPlaces
  BY Positions
<1>2. s \in 1 .. Len(str)
  BY <1>1 DEF Searching, StringPlaces
<1>3. str[s] # Star
  BY <1>2 DEF HasStar
<1> QED BY <1>3, CharAssumption DEF Matches

LEMMA MatchOneSearched ==
  ASSUME Inv, Searched, MatchOne
  PROVE  Searched'
<1>1. PICK g : g = GlobFrom
  OBVIOUS
<1>2. g = GlobFrom' /\ (Glob' <=> Glob) /\ (HasStar(str)' <=> HasStar(str))
  BY <1>1, GlobUnchanged DEF MatchOne
<1>3. /\ Searching /\ Matches /\ result = "none" /\ result' = "none"
      /\ p' = p + 1 /\ s' = s + 1
      /\ str' = str /\ starPattern' = starPattern /\ starStr' = starStr
  BY DEF MatchOne, Searching, args, stars
<1>4. /\ p \in 1 .. Len(pattern) /\ p + 1 \in PatternPlaces /\ s + 1 \in StringPlaces
      /\ pattern[p] = Byte
      /\ g[<<p + 1, s + 1>>] => g[<<p, s>>]
  BY <1>1, <1>3, OneMatched
<1>5. BackIsInside'
  BY <1>3 DEF Searched, BackIsInside, NoStar
<1>6. Promising'
  <2>1. Promising
    BY DEF Searched
  <2> QED BY <1>1, <1>2, <1>3, <1>4, <2>1 DEF Promising, NoStar
<1>7. NothingMissed'
  <2>1. SUFFICES ASSUME ~HasStar(str) PROVE NothingMissed'
    BY <1>2 DEF NothingMissed
  <2>2. pattern[p] # Star
    BY <1>3, <1>4, <2>1, MatchedIsNoStar
  <2>3. /\ pattern \in Seq(Chars) /\ str \in Seq(Chars) /\ Len(pattern) \in Nat /\ Len(str) \in Nat
        /\ p \in Nat /\ s \in Nat /\ s \in StringPlaces
        /\ starPattern \in Nat /\ starStr \in Nat
    BY Positions
  <2>4. \A k \in StringPlaces : g[<<p, k>>] => k + 1 \in StringPlaces /\ g[<<p + 1, k + 1>>]
    <3>1. \A k \in StringPlaces : g[<<p, k>>] => k <= Len(str) /\ g[<<p + 1, k + 1>>]
      BY <1>1, <1>4, <2>2, <2>3, GlobElsewhere
    <3>2. \A k \in StringPlaces : k <= Len(str) => k + 1 \in StringPlaces
      BY <2>3 DEF StringPlaces
    <3> QED BY <3>1, <3>2
  <2>5. CASE starPattern = NoStar
    <3>1. Glob => g[<<p, s>>]
      BY <1>1, <1>3, <2>1, <2>5 DEF Searched, NothingMissed
    <3>2. Glob => g[<<p + 1, s + 1>>]
      BY <2>3, <2>4, <3>1
    <3> QED BY <1>2, <1>3, <2>5, <3>2 DEF NothingMissed
  <2>6. CASE starPattern # NoStar
    <3>1. /\ p - starPattern = s - starStr
          /\ Glob => \E k \in starStr .. Len(str) + 1 : g[<<starPattern, k>>]
          /\ \A k \in starStr .. Len(str) + 1 :
               g[<<starPattern, k>>] =>
                 /\ k + (p - starPattern) \in StringPlaces
                 /\ g[<<p, k + (p - starPattern)>>]
      BY <1>1, <1>3, <2>1, <2>6 DEF Searched, NothingMissed
    <3>2. p' - starPattern' = s' - starStr'
      BY <1>3, <2>3, <3>1
    <3>3. \A k \in starStr .. Len(str) + 1 :
            g[<<starPattern, k>>] =>
              /\ k + ((p + 1) - starPattern) \in StringPlaces
              /\ g[<<p + 1, k + ((p + 1) - starPattern)>>]
      <4>1. SUFFICES ASSUME NEW k \in starStr .. Len(str) + 1, g[<<starPattern, k>>]
                     PROVE  /\ k + ((p + 1) - starPattern) \in StringPlaces
                            /\ g[<<p + 1, k + ((p + 1) - starPattern)>>]
        OBVIOUS
      <4>2. k + (p - starPattern) \in StringPlaces /\ g[<<p, k + (p - starPattern)>>]
        BY <3>1, <4>1
      <4>3. (k + (p - starPattern)) + 1 = k + ((p + 1) - starPattern)
        BY <2>3
      <4> QED BY <2>4, <4>2, <4>3
    <3>4. StringPlaces' = StringPlaces
      BY <1>3 DEF StringPlaces
    <3>5. \A k \in starStr' .. Len(str') + 1 :
            g[<<starPattern', k>>] =>
              /\ k + (p' - starPattern') \in StringPlaces'
              /\ g[<<p', k + (p' - starPattern')>>]
      BY <1>3, <3>3, <3>4
    <3>6. Glob' => \E k \in starStr' .. Len(str') + 1 : g[<<starPattern', k>>]
      BY <1>2, <1>3, <3>1
    <3> QED BY <1>2, <1>3, <2>6, <3>2, <3>5, <3>6 DEF NothingMissed
  <2> QED BY <2>5, <2>6
<1>8. WildcardSound' /\ WildcardComplete'
  BY <1>3 DEF WildcardSound, WildcardComplete
<1> QED BY <1>5, <1>6, <1>7, <1>8 DEF Searched

\* What comes behind the stars, from some byte on, is what is left to match.
LEMMA StarsPassed ==
  ASSUME Inv, NEW g, g = GlobFrom, Byte = Star, NEW q, q = AfterStars(p)
  PROVE  /\ q \in PatternPlaces /\ p < q
         /\ \A k \in s .. Len(str) + 1 : g[<<q, k>>] => g[<<p, s>>]
         /\ \A j \in StringPlaces : g[<<p, j>>] => \E k \in j .. Len(str) + 1 : g[<<q, k>>]
<1>1. pattern \in Seq(Chars) /\ str \in Seq(Chars) /\ Len(pattern) \in Nat /\ Len(str) \in Nat
      /\ p \in PatternPlaces /\ s \in StringPlaces
  BY Positions
<1>2. q \in p .. Len(pattern) + 1 /\ ByteAt(pattern, q) # Star
  BY <1>1, AfterStarsInPattern DEF PatternPlaces
<1>3. q \in PatternPlaces /\ p < q /\ p <= q /\ p \in 1 .. Len(pattern)
  BY <1>1, <1>2 DEF PatternPlaces, Byte
<1>4. StarRun(p, q)
  BY <1>1, OnlyStarsPassed
<1>5. \A k \in s .. Len(str) + 1 : k \in StringPlaces /\ s <= k
  BY <1>1 DEF StringPlaces
<1>6. \A k \in s .. Len(str) + 1 : g[<<q, k>>] => g[<<p, s>>]
  BY <1>1, <1>3, <1>4, <1>5, StarsSkipped
<1>7. \A j \in StringPlaces : g[<<p, j>>] => \E k \in j .. Len(str) + 1 : g[<<q, k>>]
  BY <1>1, <1>3, <1>4, StarsTaken
<1> QED BY <1>3, <1>6, <1>7

\* A match of all is one of what is left, from here or from a later byte on.
LEMMA LeftToMatch ==
  ASSUME Inv, BackIsInside, NothingMissed, NEW g, g = GlobFrom,
         result = "none", ~HasStar(str), Glob
  PROVE  \E k \in s .. Len(str) + 1 : g[<<p, k>>]
<1>1. Len(str) \in Nat /\ s \in StringPlaces /\ s \in Nat /\ p \in Nat
      /\ starPattern \in Nat /\ starStr \in Nat
  BY Positions
<1>2. CASE starPattern = NoStar
  <2>1. g[<<p, s>>] /\ s \in s .. Len(str) + 1
    BY <1>1, <1>2 DEF NothingMissed, StringPlaces
  <2> QED BY <2>1
<1>3. CASE starPattern # NoStar
  <2>1. PICK k \in starStr .. Len(str) + 1 : g[<<starPattern, k>>]
    BY <1>3 DEF NothingMissed
  <2>2. /\ p - starPattern = s - starStr
        /\ k + (p - starPattern) \in StringPlaces
        /\ g[<<p, k + (p - starPattern)>>]
    BY <1>3, <2>1 DEF NothingMissed
  <2>3. k + (p - starPattern) \in s .. Len(str) + 1
    BY <1>1, <2>2 DEF StringPlaces
  <2> QED BY <2>2, <2>3
<1> QED BY <1>2, <1>3

LEMMA PassStarsSearched ==
  ASSUME Inv, Searched, PassStars
  PROVE  Searched'
<1>1. PICK g : g = GlobFrom
  OBVIOUS
<1>2. g = GlobFrom' /\ (Glob' <=> Glob) /\ (HasStar(str)' <=> HasStar(str))
  BY <1>1, GlobUnchanged DEF PassStars
<1>3. /\ Searching /\ result = "none" /\ Byte = Star /\ p' = AfterStars(p)
      /\ s' = s /\ str' = str /\ pattern' = pattern
  BY DEF PassStars, Searching, args
<1>4. PICK q : q = AfterStars(p)
  OBVIOUS
<1>5. /\ q \in PatternPlaces /\ p < q /\ p' = q
      /\ \A k \in s .. Len(str) + 1 : g[<<q, k>>] => g[<<p, s>>]
      /\ \A j \in StringPlaces : g[<<p, j>>] => \E k \in j .. Len(str) + 1 : g[<<q, k>>]
  BY <1>1, <1>3, <1>4, StarsPassed
<1>6. /\ pattern \in Seq(Chars) /\ str \in Seq(Chars) /\ Len(pattern) \in Nat /\ Len(str) \in Nat
      /\ p \in Nat /\ s \in Nat /\ s \in StringPlaces /\ p >= 1 /\ s >= 1
      /\ starPattern \in Nat /\ starStr \in Nat /\ starStr <= s
  BY Positions
<1>7. g[<<p, s>>] => Glob
  <2>1. CASE starPattern = NoStar
    BY <1>1, <1>3, <2>1 DEF Searched, Promising
  <2>2. CASE starPattern # NoStar
    <3>1. starStr \in starStr .. Len(str) + 1
      BY <1>6 DEF StringPlaces
    <3> QED BY <1>1, <1>3, <2>2, <3>1 DEF Searched, Promising
  <2> QED BY <2>1, <2>2
<1>8. CASE q > Len(pattern)
  <2>1. result' = "TRUE"
    BY <1>5, <1>8 DEF PassStars
  <2>2. q = Len(pattern) + 1
    BY <1>5, <1>6, <1>8 DEF PatternPlaces
  <2>3. Len(str) + 1 \in StringPlaces /\ Len(str) + 1 \in s .. Len(str) + 1 /\ Len(str) + 1 > Len(str)
    BY <1>6 DEF StringPlaces
  <2>4. g[<<q, Len(str) + 1>>]
    BY <1>1, <1>6, <2>2, <2>3, GlobAtEnd
  <2>5. Glob
    BY <1>5, <1>7, <2>3, <2>4
  <2>6. starPattern' = starPattern /\ starStr' = starStr
    BY <1>5, <1>8 DEF PassStars, stars
  <2> QED BY <1>2, <2>1, <2>5, <2>6
         DEF Searched, BackIsInside, Promising, NothingMissed, WildcardSound, WildcardComplete
<1>9. CASE ~(q > Len(pattern))
  <2>1. result' = "none" /\ starPattern' = q /\ starStr' = s
    BY <1>3, <1>5, <1>9 DEF PassStars
  <2>2. BackIsInside'
    BY <1>6, <2>1 DEF BackIsInside
  <2>3. Promising'
    <3>1. \A k \in s .. Len(str) + 1 : g[<<q, k>>] => Glob
      BY <1>5, <1>7
    <3>2. q # NoStar
      BY <1>5, <1>6 DEF NoStar
    <3> QED BY <1>2, <1>3, <1>5, <2>1, <3>1, <3>2 DEF Promising, NoStar
  <2>4. NothingMissed'
    <3>1. SUFFICES ASSUME ~HasStar(str) PROVE NothingMissed'
      BY <1>2 DEF NothingMissed
    <3>2. Glob => \E k \in s .. Len(str) + 1 : g[<<q, k>>]
      <4>1. SUFFICES ASSUME Glob PROVE \E k \in s .. Len(str) + 1 : g[<<q, k>>]
        OBVIOUS
      <4>2. PICK j \in s .. Len(str) + 1 : g[<<p, j>>]
        BY <1>1, <1>3, <3>1, <4>1, LeftToMatch DEF Searched
      <4>3. j \in StringPlaces
        BY <1>6 DEF StringPlaces
      <4>4. PICK k \in j .. Len(str) + 1 : g[<<q, k>>]
        BY <1>5, <4>2, <4>3
      <4>5. k \in s .. Len(str) + 1
        BY <1>6
      <4> QED BY <4>4, <4>5
    <3>3. \A k \in s .. Len(str) + 1 : k + (q - q) \in StringPlaces /\ k + (q - q) = k
      BY <1>5, <1>6 DEF StringPlaces, PatternPlaces
    <3>4. q - q = s - s /\ q # NoStar
      BY <1>5, <1>6 DEF PatternPlaces, NoStar
    <3> QED BY <1>2, <1>3, <1>5, <2>1, <3>2, <3>3, <3>4 DEF NothingMissed, NoStar, StringPlaces
  <2>5. WildcardSound' /\ WildcardComplete'
    BY <2>1 DEF WildcardSound, WildcardComplete
  <2> QED BY <2>2, <2>3, <2>4, <2>5 DEF Searched
<1> QED BY <1>8, <1>9
LEMMA GoBackSearched ==
  ASSUME Inv, Searched, GoBack
  PROVE  Searched'
<1>1. PICK g : g = GlobFrom
  OBVIOUS
<1>2. g = GlobFrom' /\ (Glob' <=> Glob) /\ (HasStar(str)' <=> HasStar(str))
  BY <1>1, GlobUnchanged DEF GoBack
<1>3. /\ Searching /\ ~Matches /\ Byte # Star /\ starPattern # NoStar
      /\ result = "none" /\ result' = "none" /\ p' = starPattern /\ starPattern' = starPattern
      /\ s' = starStr + 1 /\ starStr' = starStr + 1 /\ str' = str
  BY DEF GoBack, Searching, args, GoOnFrom
<1>4. /\ Len(str) \in Nat /\ p \in Nat /\ s \in Nat /\ s \in StringPlaces
      /\ starPattern \in Nat /\ starStr \in Nat /\ starStr <= s
  BY Positions
<1>5. ~g[<<p, s>>]
  BY <1>1, <1>3, Stuck
<1>6. BackIsInside /\ starStr >= 1
  BY <1>3 DEF Searched, BackIsInside
<1>7. BackIsInside'
  BY <1>3, <1>4 DEF BackIsInside
<1>8. \A k \in starStr + 1 .. Len(str) + 1 : k \in starStr .. Len(str) + 1
  BY <1>4
<1>9. Promising'
  <2>1. \A k \in starStr .. Len(str) + 1 : g[<<starPattern, k>>] => Glob
    BY <1>1, <1>3 DEF Searched, Promising
  <2>2. \A k \in starStr + 1 .. Len(str) + 1 : g[<<starPattern, k>>] => Glob
    BY <1>8, <2>1
  <2> QED BY <1>2, <1>3, <2>2 DEF Promising, NoStar
<1>10. NothingMissed'
  <2>1. SUFFICES ASSUME ~HasStar(str) PROVE NothingMissed'
    BY <1>2 DEF NothingMissed
  <2>2. /\ p - starPattern = s - starStr
        /\ Glob => \E k \in starStr .. Len(str) + 1 : g[<<starPattern, k>>]
        /\ \A k \in starStr .. Len(str) + 1 :
             g[<<starPattern, k>>] => g[<<p, k + (p - starPattern)>>]
    BY <1>1, <1>3, <2>1 DEF Searched, NothingMissed
  <2>3. starStr + (p - starPattern) = s /\ starStr \in starStr .. Len(str) + 1
    BY <1>4, <2>2 DEF StringPlaces
  <2>4. ~g[<<starPattern, starStr>>]
    BY <1>5, <2>2, <2>3
  <2>5. Glob => \E k \in starStr + 1 .. Len(str) + 1 : g[<<starPattern, k>>]
    <3>1. SUFFICES ASSUME Glob PROVE \E k \in starStr + 1 .. Len(str) + 1 : g[<<starPattern, k>>]
      OBVIOUS
    <3>2. PICK k \in starStr .. Len(str) + 1 : g[<<starPattern, k>>]
      BY <2>2, <3>1
    <3>3. k # starStr
      BY <2>4, <3>2
    <3>4. k \in starStr + 1 .. Len(str) + 1
      BY <1>4, <3>3
    <3> QED BY <3>2, <3>4
  <2>6. StringPlaces' = StringPlaces
    BY <1>3 DEF StringPlaces
  <2>7. \A k \in starStr + 1 .. Len(str) + 1 :
          k + (starPattern - starPattern) = k /\ k \in StringPlaces
    BY <1>4 DEF StringPlaces
  <2>8. starPattern - starPattern = (starStr + 1) - (starStr + 1)
    BY <1>4
  <2>9. p' - starPattern' = s' - starStr'
    BY <1>3, <2>8
  <2>10. Glob' => \E k \in starStr' .. Len(str') + 1 : g[<<starPattern', k>>]
    BY <1>2, <1>3, <2>5
  <2>11. \A k \in starStr' .. Len(str') + 1 :
           g[<<starPattern', k>>] =>
             /\ k + (p' - starPattern') \in StringPlaces'
             /\ g[<<p', k + (p' - starPattern')>>]
    BY <1>3, <2>6, <2>7
  <2> QED BY <1>2, <1>3, <2>9, <2>10, <2>11 DEF NothingMissed
<1>11. WildcardSound' /\ WildcardComplete'
  BY <1>3 DEF WildcardSound, WildcardComplete
<1> QED BY <1>7, <1>9, <1>10, <1>11 DEF Searched

LEMMA MismatchSearched ==
  ASSUME Inv, Searched, Mismatch
  PROVE  Searched'
<1>1. PICK g : g = GlobFrom
  OBVIOUS
<1>2. (Glob' <=> Glob) /\ (HasStar(str)' <=> HasStar(str))
  BY GlobUnchanged DEF Mismatch
<1>3. /\ Searching /\ ~Matches /\ Byte # Star /\ starPattern = NoStar
      /\ result = "none" /\ result' = "FALSE"
      /\ starPattern' = starPattern /\ starStr' = starStr
  BY DEF Mismatch, Searching, stars
<1>4. ~g[<<p, s>>]
  BY <1>1, <1>3, Stuck
<1>5. ~HasStar(str) => ~Glob
  BY <1>1, <1>3, <1>4 DEF Searched, NothingMissed
<1> QED BY <1>2, <1>3, <1>5
       DEF Searched, BackIsInside, Promising, NothingMissed, WildcardSound, WildcardComplete

LEMMA FinishSearched ==
  ASSUME Inv, Searched, Finish
  PROVE  Searched'
<1>1. PICK g : g = GlobFrom
  OBVIOUS
<1>2. (Glob' <=> Glob) /\ (HasStar(str)' <=> HasStar(str))
  BY GlobUnchanged DEF Finish
<1>3. PICK q : q = AfterStars(p)
  OBVIOUS
<1>4. /\ result = "none" /\ result' = IF AtEnd(q) THEN "TRUE" ELSE "FALSE"
      /\ starPattern' = starPattern /\ starStr' = starStr
  BY <1>3 DEF Finish, stars
<1>5. /\ pattern \in Seq(Chars) /\ str \in Seq(Chars) /\ Len(pattern) \in Nat /\ Len(str) \in Nat
      /\ p \in PatternPlaces /\ s \in StringPlaces /\ p \in Nat /\ s \in Nat /\ starStr <= s
  BY Positions
<1>6. s = Len(str) + 1
  BY <1>5 DEF Finish, StringPlaces
<1>7. q \in p .. Len(pattern) + 1 /\ ByteAt(pattern, q) # Star /\ StarRun(p, q)
      /\ q \in PatternPlaces /\ p <= q
  BY <1>3, <1>5, AfterStarsInPattern, OnlyStarsPassed DEF PatternPlaces
<1>8. \A k \in s .. Len(str) + 1 : k = s /\ k \in StringPlaces
  BY <1>5, <1>6
<1>9. CASE AtEnd(q)
  <2>1. q = Len(pattern) + 1
    BY <1>5, <1>7, <1>9 DEF AtEnd
  <2>2. g[<<q, s>>]
    <3>1. s > Len(str)
      BY <1>5, <1>6
    <3> QED BY <1>1, <1>5, <2>1, <3>1, GlobAtEnd
  <2>3. g[<<p, s>>]
    <3>1. CASE p = q
      BY <2>2, <3>1
    <3>2. CASE p # q
      <4>1. p \in 1 .. Len(pattern) /\ p < q /\ s <= s
        BY <1>5, <1>7, <3>2 DEF PatternPlaces
      <4> QED BY <1>1, <1>5, <1>7, <2>2, <4>1, StarsSkipped
    <3> QED BY <3>1, <3>2
  <2>4. Glob
    <3>1. CASE starPattern = NoStar
      BY <1>1, <1>4, <2>3, <3>1 DEF Searched, Promising
    <3>2. CASE starPattern # NoStar
      <4>1. starStr \in Nat
        BY Positions
      <4>2. starStr \in starStr .. Len(str) + 1
        BY <1>5, <1>6, <4>1
      <4> QED BY <1>1, <1>4, <2>3, <3>2, <4>2 DEF Searched, Promising
    <3> QED BY <3>1, <3>2
  <2> QED BY <1>2, <1>4, <1>9, <2>4
         DEF Searched, BackIsInside, Promising, NothingMissed, WildcardSound, WildcardComplete
<1>10. CASE ~AtEnd(q)
  <2>1. q \in 1 .. Len(pattern) /\ pattern[q] # Star
    BY <1>5, <1>7, <1>10 DEF AtEnd, ByteAt, PatternPlaces
  <2>2. ~g[<<q, s>>]
    <3>1. ~(s <= Len(str))
      BY <1>5, <1>6
    <3> QED BY <1>1, <1>5, <2>1, <3>1, GlobElsewhere
  <2>3. ~HasStar(str) => ~Glob
    <3>1. SUFFICES ASSUME ~HasStar(str), Glob PROVE FALSE
      OBVIOUS
    <3>2. PICK j \in s .. Len(str) + 1 : g[<<p, j>>]
      BY <1>1, <1>4, <3>1, LeftToMatch DEF Searched
    <3>3. j = s
      BY <1>8
    <3>4. PICK k \in s .. Len(str) + 1 : g[<<q, k>>]
      BY <1>1, <1>5, <1>7, <3>2, <3>3, StarsTaken
    <3> QED BY <1>8, <2>2, <3>4
  <2> QED BY <1>2, <1>4, <1>10, <2>3
         DEF Searched, BackIsInside, Promising, NothingMissed, WildcardSound, WildcardComplete
<1> QED BY <1>9, <1>10

LEMMA SearchedInvariance == Spec => []Searched
<1>1. Inv /\ Searched /\ [Next]_vars => Searched'
  <2>1. SUFFICES ASSUME Inv, Searched, [Next]_vars PROVE Searched'
    OBVIOUS
  <2>2. CASE UNCHANGED vars
    <3>1. GlobFrom' = GlobFrom /\ (Glob' <=> Glob) /\ (HasStar(str)' <=> HasStar(str))
      BY <2>2, GlobUnchanged DEF vars
    <3>2. /\ p' = p /\ s' = s /\ str' = str /\ result' = result
          /\ starPattern' = starPattern /\ starStr' = starStr
      BY <2>2 DEF vars, args, stars
    <3> QED BY <2>1, <3>1, <3>2
           DEF Searched, BackIsInside, Promising, NothingMissed, WildcardSound, WildcardComplete,
               StringPlaces
  <2> QED BY <2>1, <2>2, MatchOneSearched, PassStarsSearched, GoBackSearched, MismatchSearched,
             FinishSearched DEF Next
<1> QED BY <1>1, InitSearched, Invariance, PTL DEF Spec

\* A match that string_evaluator_wildcard reports is one, whatever the pattern and
\* the string, stars in the string included.
THEOREM WildcardSoundness == Spec => []WildcardSound
<1>1. Searched => WildcardSound
  BY DEF Searched
<1> QED BY <1>1, SearchedInvariance, PTL

\* Going back to the last star alone, and giving it one byte more each time, finds a
\* match if there is one, whatever the pattern, in every string without a star.
THEOREM WildcardCompleteness == Spec => []WildcardComplete
<1>1. Searched => WildcardComplete
  BY DEF Searched
<1> QED BY <1>1, SearchedInvariance, PTL
-----------------------------------------------------------------------------
(***************************************************************************)
(* A glob without metacharacters but for a star at either end is one of    *)
(* the other comparators: the bytes between the stars are given a place,   *)
(* and a star in front leaves that place open.                             *)
(***************************************************************************)
OccursAt(value, j) ==
  /\ j + Len(value) <= Len(str) + 1
  /\ \A x \in 1 .. Len(value) : value[x] = str[j + (x - 1)]

\* A part of the pattern, by its bytes.
IsPart(value, lo, hi) ==
  /\ value \in Seq(Chars)
  /\ Len(value) = (hi + 1) - lo
  /\ \A x \in 1 .. Len(value) :
       /\ lo + (x - 1) \in 1 .. Len(pattern)
       /\ value[x] = pattern[lo + (x - 1)]

LEMMA PartOfPattern ==
  ASSUME pattern \in Seq(Chars), NEW lo \in PatternPlaces, NEW hi \in Nat,
         lo <= hi + 1, hi <= Len(pattern), NEW value, value = SubSeq(pattern, lo, hi)
  PROVE  IsPart(value, lo, hi)
<1>1. Len(pattern) \in Nat /\ lo \in Nat /\ 1 <= lo
  BY DEF PatternPlaces
<1>2. Len(value) = (hi + 1) - lo /\ Len(value) \in Nat
  BY <1>1
<1>3. \A x \in 1 .. Len(value) : lo + (x - 1) \in 1 .. Len(pattern)
  BY <1>1, <1>2
<1>4. \A x \in 1 .. Len(value) : value[x] = pattern[lo + (x - 1)]
  BY <1>1, <1>2
<1>5. value \in Seq(Chars)
  BY <1>1
<1> QED BY <1>2, <1>3, <1>4, <1>5 DEF IsPart

\* Bytes without a metacharacter match where they occur, and what is behind them
\* matches behind.
LEMMA PlainPart ==
  ASSUME pattern \in Seq(Chars), str \in Seq(Chars), NEW g, g = GlobFrom,
         NEW lo \in PatternPlaces, NEW hi \in Nat, lo <= hi + 1, hi <= Len(pattern),
         NEW value, IsPart(value, lo, hi), Plain(value), NEW j \in StringPlaces
  PROVE  g[<<lo, j>>] <=> OccursAt(value, j) /\ g[<<hi + 1, j + Len(value)>>]
<1>1. /\ Len(pattern) \in Nat /\ Len(str) \in Nat /\ lo \in Nat /\ 1 <= lo
      /\ j \in Nat /\ 1 <= j /\ j <= Len(str) + 1
  BY DEF PatternPlaces, StringPlaces
<1>2. PICK c \in Nat : c = Len(value)
  BY DEF IsPart
<1>3. /\ c = (hi + 1) - lo /\ c \in Nat /\ lo + c = hi + 1
      /\ \A x \in 1 .. c : /\ lo + (x - 1) \in 1 .. Len(pattern)
                           /\ value[x] = pattern[lo + (x - 1)]
  <2>1. /\ c = (hi + 1) - lo
        /\ \A x \in 1 .. c : /\ lo + (x - 1) \in 1 .. Len(pattern)
                             /\ value[x] = pattern[lo + (x - 1)]
    BY <1>2 DEF IsPart
  <2>2. lo + c = hi + 1
    BY <1>1, <2>1
  <2> QED BY <2>1, <2>2
<1>4. \A d \in Nat : d < c =>
        /\ lo + d \in 1 .. Len(pattern) /\ pattern[lo + d] = value[d + 1]
        /\ pattern[lo + d] \notin {Star, AnyOne}
  <2>1. SUFFICES ASSUME NEW d \in Nat, d < c
                 PROVE  /\ lo + d \in 1 .. Len(pattern) /\ pattern[lo + d] = value[d + 1]
                        /\ pattern[lo + d] \notin {Star, AnyOne}
    OBVIOUS
  <2>2. d + 1 \in 1 .. c /\ (d + 1) - 1 = d
    BY <1>3, <2>1
  <2>3. lo + d \in 1 .. Len(pattern) /\ value[d + 1] = pattern[lo + d]
    BY <1>3, <2>2
  <2>4. value[d + 1] \notin {Star, AnyOne}
    BY <1>2, <2>2 DEF Plain
  <2> QED BY <2>3, <2>4
<1>5. ASSUME g[<<lo, j>>] PROVE OccursAt(value, j) /\ g[<<hi + 1, j + c>>]
  <2> DEFINE R(d) == d <= c => /\ j + d \in StringPlaces
                               /\ \A x \in 1 .. d : value[x] = str[j + (x - 1)]
                               /\ g[<<lo + d, j + d>>]
             S == {d \in Nat : R(d)}
  <2>1. 0 \in S
    <3>1. lo + 0 = lo /\ j + 0 = j
      BY <1>1
    <3>2. g[<<lo + 0, j + 0>>] /\ j + 0 \in StringPlaces
      BY <1>5, <3>1
    <3>3. \A x \in 1 .. 0 : FALSE
      OBVIOUS
    <3>4. R(0)
      BY <3>2, <3>3
    <3> HIDE DEF R
    <3> QED BY <3>4
  <2>2. \A d \in S : d + 1 \in S
    <3>1. SUFFICES ASSUME NEW d \in S PROVE d + 1 \in S
      OBVIOUS
    <3>2. ASSUME d + 1 <= c
          PROVE  /\ j + (d + 1) \in StringPlaces
                 /\ \A x \in 1 .. d + 1 : value[x] = str[j + (x - 1)]
                 /\ g[<<lo + (d + 1), j + (d + 1)>>]
      <4>1. d \in Nat /\ d < c /\ d <= c
        BY <1>3, <3>2
      <4>2. /\ j + d \in StringPlaces /\ g[<<lo + d, j + d>>]
            /\ \A x \in 1 .. d : value[x] = str[j + (x - 1)]
        BY <4>1
      <4>3. lo + d \in 1 .. Len(pattern) /\ pattern[lo + d] = value[d + 1]
            /\ pattern[lo + d] \notin {Star, AnyOne}
        BY <1>4, <4>1
      <4>4. j + d <= Len(str) /\ pattern[lo + d] \in {str[j + d], AnyOne}
            /\ g[<<(lo + d) + 1, (j + d) + 1>>]
        BY <4>2, <4>3, GlobElsewhere
      <4>5. value[d + 1] = str[j + d]
        BY <4>3, <4>4
      <4>6. (lo + d) + 1 = lo + (d + 1) /\ (j + d) + 1 = j + (d + 1) /\ j + (d + 1) \in StringPlaces
        BY <1>1, <4>1, <4>4 DEF StringPlaces
      <4>7. \A x \in 1 .. d + 1 : x \in 1 .. d \/ (x = d + 1 /\ x - 1 = d)
        BY <4>1
      <4> QED BY <4>2, <4>4, <4>5, <4>6, <4>7
    <3>3. R(d + 1)
      BY <3>2
    <3> HIDE DEF R
    <3> QED BY <3>3
  <2>3. R(c)
    <3>1. S \in SUBSET Nat
      OBVIOUS
    <3> HIDE DEF R
    <3>2. \A d \in Nat : d \in S
      <4> HIDE DEF S
      <4> QED BY <2>1, <2>2, <3>1, Counting
    <3> QED BY <1>3, <3>2
  <2>4. c <= c /\ j + c <= Len(str) + 1
    BY <1>1, <1>3, <2>3 DEF StringPlaces
  <2> QED BY <1>2, <1>3, <2>3, <2>4 DEF OccursAt
<1>6. ASSUME OccursAt(value, j), g[<<hi + 1, j + c>>] PROVE g[<<lo, j>>]
  <2> DEFINE R(d) == d <= c => g[<<lo + (c - d), j + (c - d)>>]
             S == {d \in Nat : R(d)}
  <2>1. 0 \in S
    <3>1. lo + (c - 0) = hi + 1 /\ c - 0 = c
      BY <1>1, <1>3
    <3> QED BY <1>6, <3>1
  <2>2. \A d \in S : d + 1 \in S
    <3>1. SUFFICES ASSUME NEW d \in S PROVE d + 1 \in S
      OBVIOUS
    <3> DEFINE b == c - (d + 1)
    <3>2. ASSUME d + 1 <= c PROVE g[<<lo + b, j + b>>]
      <4>1. d \in Nat /\ d <= c /\ b \in Nat /\ b < c /\ b + 1 \in 1 .. c /\ (b + 1) - 1 = b
        BY <1>3, <3>2
      <4>2. lo + (c - d) = (lo + b) + 1 /\ j + (c - d) = (j + b) + 1
        BY <1>1, <1>3, <4>1
      <4> HIDE DEF b
      <4>3. g[<<(lo + b) + 1, (j + b) + 1>>]
        BY <4>1, <4>2
      <4>4. lo + b \in 1 .. Len(pattern) /\ pattern[lo + b] = value[b + 1]
            /\ pattern[lo + b] \notin {Star, AnyOne}
        BY <1>4, <4>1
      <4>5. value[b + 1] = str[j + b]
        BY <1>2, <1>6, <4>1 DEF OccursAt
      <4>6. j + b \in StringPlaces /\ j + b <= Len(str)
        <5>1. j + c <= Len(str) + 1
          BY <1>2, <1>6 DEF OccursAt
        <5>2. b \in Nat /\ b < c
          BY <4>1
        <5> QED BY <1>1, <5>1, <5>2 DEF StringPlaces
      <4> QED BY <4>3, <4>4, <4>5, <4>6, GlobElsewhere
    <3>3. R(d + 1)
      BY <3>2
    <3> HIDE DEF R
    <3> QED BY <3>3
  <2>3. c \in S
    <3>1. S \in SUBSET Nat
      OBVIOUS
    <3> HIDE DEF S
    <3> QED BY <1>3, <2>1, <2>2, <3>1, Counting
  <2>4. lo + (c - c) = lo /\ j + (c - c) = j /\ c <= c
    BY <1>1, <1>3
  <2> QED BY <2>3, <2>4
<1> QED BY <1>2, <1>5, <1>6

\* A star at the end matches the rest.
LEMMA LastStarMatches ==
  ASSUME pattern \in Seq(Chars), str \in Seq(Chars), NEW g, g = GlobFrom,
         NEW n, n = Len(pattern), n > 0, pattern[n] = Star, NEW j \in StringPlaces
  PROVE  g[<<n, j>>]
<1>1. n \in 1 .. Len(pattern) /\ Len(str) \in Nat
      /\ Len(str) + 1 \in StringPlaces /\ Len(str) + 1 > Len(str) /\ j <= Len(str) + 1
  BY DEF StringPlaces
<1>2. g[<<n + 1, Len(str) + 1>>]
  BY <1>1, GlobAtEnd
<1>3. g[<<n, Len(str) + 1>>]
  BY <1>1, <1>2, GlobAtStar
<1> QED BY <1>1, <1>3, StarFromBefore

\* A star in front leaves open where the rest matches.
LEMMA FirstStarMatches ==
  ASSUME pattern \in Seq(Chars), str \in Seq(Chars), NEW g, g = GlobFrom,
         Len(pattern) > 0, pattern[1] = Star
  PROVE  Glob <=> \E k \in StringPlaces : g[<<2, k>>]
<1>1. 1 \in 1 .. Len(pattern) /\ 2 \in PatternPlaces /\ 1 < 2 /\ 1 \in StringPlaces /\ Len(str) \in Nat
  BY DEF PatternPlaces, StringPlaces
<1>2. StarRun(1, 2)
  BY DEF StarRun
<1>3. Glob <=> g[<<1, 1>>]
  BY DEF Glob
<1>4. ASSUME Glob PROVE \E k \in StringPlaces : g[<<2, k>>]
  <2>1. PICK k \in 1 .. Len(str) + 1 : g[<<1 + 1, k>>]
    BY <1>1, <1>3, <1>4, StarTakes
  <2>2. 1 + 1 = 2
    OBVIOUS
  <2>3. g[<<2, k>>]
    BY <2>1, <2>2
  <2> QED BY <2>3 DEF StringPlaces
<1>5. ASSUME NEW k \in StringPlaces, g[<<2, k>>] PROVE Glob
  <2>1. 1 <= k
    BY DEF StringPlaces
  <2> QED BY <1>1, <1>2, <1>3, <1>5, <2>1, StarsSkipped
<1> QED BY <1>4, <1>5

\* Where the value of a comparator has to occur.
LEMMA ComparatorsPlace ==
  ASSUME str \in Seq(Chars), NEW value \in Seq(Chars)
  PROVE  /\ Contains(value, str) <=> \E k \in StringPlaces : OccursAt(value, k)
         /\ Suffix(value, str)
              <=> \E k \in StringPlaces : OccursAt(value, k) /\ k + Len(value) > Len(str)
         /\ Prefix(value, str) <=> OccursAt(value, 1)
         /\ Exact(value, str) <=> OccursAt(value, 1) /\ 1 + Len(value) > Len(str)
<1>0. PICK m \in Nat : m = Len(str)
  OBVIOUS
<1>1. PICK c \in Nat : c = Len(value)
  OBVIOUS
<1>2. \A x \in 1 .. c : value[x] # NUL
  BY <1>0, <1>1, CharAssumption
<1>3. \A x \in 1 .. m : str[x] # NUL
  BY <1>0, <1>1, CharAssumption
<1>4. OccursAt(value, 1) <=> c <= m /\ \A x \in 1 .. c : value[x] = str[x]
  <2>1. \A x \in 1 .. c : 1 + (x - 1) = x
    BY <1>0, <1>1
  <2>2. 1 + c <= m + 1 <=> c <= m
    BY <1>0, <1>1
  <2> QED BY <1>0, <1>1, <2>1, <2>2 DEF OccursAt
<1>5. Contains(value, str) <=> \E k \in StringPlaces : OccursAt(value, k)
  <2>1. ASSUME Contains(value, str) PROVE \E k \in StringPlaces : OccursAt(value, k)
    <3>1. CASE value = << >>
      <4>1. c = 0 /\ c <= m /\ 1 \in StringPlaces
        BY <1>0, <1>1, <3>1 DEF StringPlaces
      <4>2. OccursAt(value, 1)
        BY <1>0, <1>1, <1>4, <4>1
      <4> QED BY <4>1, <4>2
    <3>2. CASE value # << >>
      <4>1. PICK k \in 0 .. m - c : \A i \in 1 .. c : str[k + i] = value[i]
        BY <1>0, <1>1, <2>1, <3>2 DEF Contains
      <4>2. c <= m
        BY <1>0, <1>1, <2>1 DEF Contains
      <4>3. k + 1 \in StringPlaces /\ (k + 1) + c <= m + 1
        BY <1>0, <1>1, <4>2 DEF StringPlaces
      <4>4. \A x \in 1 .. c : (k + 1) + (x - 1) = k + x
        BY <1>0, <1>1
      <4>5. OccursAt(value, k + 1)
        BY <1>0, <1>1, <4>1, <4>3, <4>4 DEF OccursAt
      <4> QED BY <4>3, <4>5
    <3> QED BY <3>1, <3>2
  <2>2. ASSUME NEW k \in StringPlaces, OccursAt(value, k) PROVE Contains(value, str)
    <3>1. k \in Nat /\ 1 <= k /\ k + c <= m + 1 /\ k - 1 \in 0 .. m - c /\ c <= m
      BY <1>0, <1>1, <2>2 DEF OccursAt, StringPlaces
    <3>2. \A x \in 1 .. c : (k - 1) + x = k + (x - 1)
      BY <1>0, <1>1, <3>1
    <3>3. \A x \in 1 .. c : str[(k - 1) + x] = value[x]
      BY <1>0, <1>1, <2>2, <3>2 DEF OccursAt
    <3> QED BY <1>0, <1>1, <3>1, <3>3 DEF Contains
  <2> QED BY <2>1, <2>2
<1>6. Suffix(value, str)
        <=> \E k \in StringPlaces : OccursAt(value, k) /\ k + Len(value) > Len(str)
  <2>1. ASSUME Suffix(value, str)
        PROVE  \E k \in StringPlaces : OccursAt(value, k) /\ k + Len(value) > Len(str)
    <3> DEFINE k == (m - c) + 1
    <3>1. c <= m /\ k \in StringPlaces /\ k + c = m + 1 /\ k + c > m
      BY <1>0, <1>1, <2>1 DEF Suffix, StringPlaces
    <3>2. \A x \in 1 .. c : (m - c) + x = k + (x - 1)
      BY <1>0, <1>1, <3>1
    <3>3. \A x \in 1 .. c : str[(m - c) + x] = value[x]
      BY <1>0, <1>1, <2>1 DEF Suffix
    <3>4. \A x \in 1 .. c : value[x] = str[k + (x - 1)]
      <4> HIDE DEF k
      <4> QED BY <3>2, <3>3
    <3>5. OccursAt(value, k)
      <4> HIDE DEF k
      <4> QED BY <1>0, <1>1, <3>1, <3>4 DEF OccursAt
    <3> QED BY <1>0, <1>1, <3>1, <3>5
  <2>2. ASSUME NEW k \in StringPlaces, OccursAt(value, k), k + Len(value) > Len(str)
        PROVE  Suffix(value, str)
    <3>1. c <= m /\ k = (m - c) + 1
      BY <1>0, <1>1, <2>2 DEF OccursAt, StringPlaces
    <3>2. \A x \in 1 .. c : (m - c) + x = k + (x - 1)
      BY <1>0, <1>1, <3>1
    <3> QED BY <1>0, <1>1, <2>2, <3>1, <3>2 DEF Suffix, OccursAt
  <2> QED BY <2>1, <2>2
<1>7. Prefix(value, str) <=> OccursAt(value, 1)
  <2>1. ASSUME Prefix(value, str) PROVE OccursAt(value, 1)
    <3>1. \A x \in 1 .. c : value[x] = ByteAt(str, x)
      BY <1>0, <1>1, <2>1 DEF Prefix
    <3>2. \A x \in 1 .. c : x <= m /\ value[x] = str[x]
      BY <1>0, <1>1, <1>2, <3>1 DEF ByteAt
    <3>3. c <= m
      <4>1. CASE c = 0
        BY <1>0, <1>1, <4>1
      <4>2. CASE c # 0
        <5>1. c \in 1 .. c
          BY <1>0, <1>1, <4>2
        <5> QED BY <3>2, <5>1
      <4> QED BY <4>1, <4>2
    <3> QED BY <1>4, <3>2, <3>3
  <2>2. ASSUME OccursAt(value, 1) PROVE Prefix(value, str)
    <3>1. \A x \in 1 .. c : x <= m
      BY <1>0, <1>1, <1>4, <2>2
    <3> QED BY <1>0, <1>1, <1>4, <2>2, <3>1 DEF Prefix, ByteAt
  <2> QED BY <2>1, <2>2
<1>8. Exact(value, str) <=> OccursAt(value, 1) /\ 1 + Len(value) > Len(str)
  <2>1. Exact(value, str) <=> Prefix(value, str) /\ NUL = ByteAt(str, c + 1)
    <3>1. \A x \in 1 .. c + 1 : x \in 1 .. c \/ x = c + 1
      BY <1>0, <1>1
    <3>2. \A x \in 1 .. c : x \in 1 .. c + 1 /\ x <= c
      BY <1>0, <1>1
    <3>3. c + 1 \in 1 .. c + 1 /\ ~(c + 1 <= c)
      BY <1>0, <1>1
    <3>4. ByteAt(value, c + 1) = NUL /\ \A x \in 1 .. c : ByteAt(value, x) = value[x]
      BY <1>0, <1>1, <3>2, <3>3 DEF ByteAt
    <3> QED BY <1>0, <1>1, <3>1, <3>2, <3>3, <3>4 DEF Exact, Prefix
  <2>2. NUL = ByteAt(str, c + 1) <=> c + 1 > m
    <3>1. CASE c + 1 <= m
      <4>1. c + 1 \in 1 .. m
        BY <1>0, <1>1, <3>1
      <4>2. ByteAt(str, c + 1) = str[c + 1]
        BY <1>0, <1>1, <3>1 DEF ByteAt
      <4> QED BY <1>0, <1>1, <1>3, <3>1, <4>1, <4>2
    <3>2. CASE ~(c + 1 <= m)
      BY <1>0, <1>1, <3>2 DEF ByteAt
    <3> QED BY <3>1, <3>2
  <2>3. c + 1 > m <=> 1 + c > m
    BY <1>0, <1>1
  <2> QED BY <1>0, <1>1, <1>7, <2>1, <2>2, <2>3
<1> QED BY <1>5, <1>6, <1>7, <1>8

\* A glob made from a value matches where the comparator says that the value is.
LEMMA GlobIsComparison ==
  ASSUME pattern \in Seq(Chars), str \in Seq(Chars),
         NEW n, n = Len(pattern),
         NEW first \in BOOLEAN, first <=> n > 0 /\ pattern[1] = Star,
         NEW last \in BOOLEAN, last <=> n > 1 /\ pattern[n] = Star,
         NEW lo, lo = IF first THEN 2 ELSE 1,
         NEW hi, hi = IF last THEN n - 1 ELSE n,
         NEW value, IsPart(value, lo, hi), Plain(value)
  PROVE  Glob <=>
           CASE first /\ last   -> Contains(value, str)
             [] first /\ ~last  -> Suffix(value, str)
             [] ~first /\ last  -> Prefix(value, str)
             [] ~first /\ ~last -> Exact(value, str)
<1>1. PICK g : g = GlobFrom
  OBVIOUS
<1>2. n \in Nat /\ Len(str) \in Nat
  OBVIOUS
<1>3. first => n > 0 /\ lo = 2
  OBVIOUS
<1>4. ~first => lo = 1
  OBVIOUS
<1>5. last => n > 1 /\ pattern[n] = Star /\ hi = n - 1
  OBVIOUS
<1>6. /\ lo \in PatternPlaces /\ hi \in Nat /\ lo <= hi + 1 /\ hi <= Len(pattern)
      /\ ~last => hi = n
  BY <1>2, <1>3, <1>4, <1>5 DEF PatternPlaces
<1>7. value \in Seq(Chars) /\ Len(value) \in Nat
  BY DEF IsPart
<1>8. \A k \in StringPlaces :
        g[<<lo, k>>] <=> OccursAt(value, k) /\ g[<<hi + 1, k + Len(value)>>]
  BY <1>1, <1>6, PlainPart
<1>9. \A k \in StringPlaces : OccursAt(value, k) => k + Len(value) \in StringPlaces
  <2>1. PICK c \in Nat : c = Len(value)
    BY <1>7
  <2>2. \A k \in StringPlaces : k + c <= Len(str) + 1 => k + c \in StringPlaces
    BY <1>2 DEF StringPlaces
  <2> QED BY <2>1, <2>2 DEF OccursAt
<1>10. ASSUME last, NEW k \in StringPlaces PROVE g[<<lo, k>>] <=> OccursAt(value, k)
  <2>1. hi + 1 = n /\ n > 0 /\ pattern[n] = Star
    BY <1>2, <1>5, <1>10
  <2>2. OccursAt(value, k) => g[<<hi + 1, k + Len(value)>>]
    BY <1>1, <1>9, <2>1, LastStarMatches
  <2> QED BY <1>8, <2>2
<1>11. ASSUME ~last, NEW k \in StringPlaces
       PROVE  g[<<lo, k>>] <=> OccursAt(value, k) /\ k + Len(value) > Len(str)
  <2>1. hi + 1 = Len(pattern) + 1
    BY <1>6, <1>11
  <2>2. OccursAt(value, k) => (g[<<hi + 1, k + Len(value)>>] <=> k + Len(value) > Len(str))
    BY <1>1, <1>9, <2>1, GlobAtEnd
  <2> QED BY <1>8, <2>2
<1>12. first => (Glob <=> \E k \in StringPlaces : g[<<lo, k>>])
  BY <1>1, <1>3, FirstStarMatches
<1>13. ~first => (Glob <=> g[<<lo, 1>>]) /\ 1 \in StringPlaces
  BY <1>1, <1>2, <1>4 DEF Glob, StringPlaces
<1>14. CASE first /\ last
  BY <1>7, <1>10, <1>12, <1>14, ComparatorsPlace
<1>15. CASE first /\ ~last
  BY <1>7, <1>11, <1>12, <1>15, ComparatorsPlace
<1>16. CASE ~first /\ last
  BY <1>7, <1>10, <1>13, <1>16, ComparatorsPlace
<1>17. CASE ~first /\ ~last
  BY <1>7, <1>11, <1>13, <1>17, ComparatorsPlace
<1> QED BY <1>14, <1>15, <1>16, <1>17

\* EXACT, PREFIX, SUFFIX and CONTAINS say of a value without metacharacters what
\* WILDCARD says of the glob made from it, for every value and every string without
\* a star.
THEOREM ComparatorsAgreement == Spec => []ComparatorsAgree
<1>1. Inv /\ Searched => ComparatorsAgree
  <2>1. SUFFICES ASSUME Inv, Searched, result # "none", ~HasStar(str)
                 PROVE  ComparatorsAgree
    BY DEF ComparatorsAgree
  <2>2. result = "TRUE" <=> Glob
    BY <2>1 DEF Inv, TypeOK, Searched, WildcardSound, WildcardComplete
  <2>3. pattern \in Seq(Chars) /\ str \in Seq(Chars)
    BY <2>1, Positions
  <2> DEFINE n == Len(pattern)
             first == n > 0 /\ pattern[1] = Star
             last == n > 1 /\ pattern[n] = Star
             value == SubSeq(pattern, IF first THEN 2 ELSE 1, IF last THEN n - 1 ELSE n)
             Agrees == CASE first /\ last   -> Contains(value, str)
                         [] first /\ ~last  -> Suffix(value, str)
                         [] ~first /\ last  -> Prefix(value, str)
                         [] ~first /\ ~last -> Exact(value, str)
  <2>4. Plain(value) => (Glob <=> Agrees)
    <3> DEFINE lo == IF first THEN 2 ELSE 1
               hi == IF last THEN n - 1 ELSE n
    <3>1. first \in BOOLEAN /\ last \in BOOLEAN
      OBVIOUS
    <3>2. n \in Nat /\ (first => n > 0) /\ (last => n > 1)
      BY <2>3
    <3>3. lo \in PatternPlaces /\ hi \in Nat /\ lo <= hi + 1 /\ hi <= Len(pattern)
      BY <3>2 DEF PatternPlaces
    <3>4. IsPart(value, lo, hi)
      <4> HIDE DEF first, last
      <4> QED BY <2>3, <3>3, PartOfPattern
    <3> HIDE DEF value
    <3> QED BY <2>3, <3>1, <3>4, GlobIsComparison
  <2>5. ComparatorsAgree <=> (Plain(value) => (result = "TRUE" <=> Agrees))
    BY <2>1 DEF ComparatorsAgree
  <2> HIDE DEF value, Agrees
  <2> QED BY <2>2, <2>4, <2>5
<1> QED BY <1>1, Invariance, SearchedInvariance, PTL

-----------------------------------------------------------------------------
(***************************************************************************)
(* The matcher of the Go engine gives the answer of the C engine's, for    *)
(* every pattern and every string: the machine takes the turns of the      *)
(* recursion.                                                              *)
(***************************************************************************)

(***************************************************************************)
(* A turn ends the function or goes on with another.  Whether some finite  *)
(* sequence of turns leads to one that returns true solves the recursion,  *)
(* which therefore defines a function.                                     *)
(***************************************************************************)
TakesByte(at) == at[1] <= Len(pattern) /\ pattern[at[1]] \in {str[at[2]], AnyOne}
MeetsStar(at) == at[1] <= Len(pattern) /\ pattern[at[1]] = Star

Ends(at) ==
  \/ at[2] > Len(str)
  \/ ~TakesByte(at) /\ MeetsStar(at) /\ AfterStars(at[1]) > Len(pattern)
  \/ ~TakesByte(at) /\ ~MeetsStar(at) /\ at[3] = 0

Accepts(at) ==
  IF at[2] > Len(str) THEN AfterStars(at[1]) > Len(pattern) ELSE MeetsStar(at)

Following(at) ==
  IF TakesByte(at) THEN <<at[1] + 1, at[2] + 1, at[3], at[4]>>
  ELSE IF MeetsStar(at) THEN <<AfterStars(at[1]), at[2], AfterStars(at[1]), at[2]>>
  ELSE <<at[3], at[4] + 1, at[3], at[4] + 1>>

GoStep(g, at) ==
  IF at[2] > Len(str) THEN AfterStars(at[1]) > Len(pattern)
  ELSE IF at[1] <= Len(pattern) /\ pattern[at[1]] \in {str[at[2]], AnyOne}
    THEN g[<<at[1] + 1, at[2] + 1, at[3], at[4]>>]
  ELSE IF at[1] <= Len(pattern) /\ pattern[at[1]] = Star
    THEN AfterStars(at[1]) > Len(pattern) \/ g[<<AfterStars(at[1]), at[2], AfterStars(at[1]), at[2]>>]
  ELSE at[3] # 0 /\ g[<<at[3], at[4] + 1, at[3], at[4] + 1>>]

RunOf(at, n, r) ==
  /\ r \in [0 .. n -> Turns]
  /\ r[0] = at
  /\ \A k \in 0 .. n - 1 : ~Ends(r[k]) /\ r[k + 1] = Following(r[k])
  /\ Ends(r[n]) /\ Accepts(r[n])

Accepted(at) == \E n \in Nat : \E r : RunOf(at, n, r)

\* What a turn is made of.
LEMMA TurnParts ==
  ASSUME pattern \in Seq(Chars), str \in Seq(Chars), NEW at \in Turns
  PROVE  /\ Len(pattern) \in Nat /\ Len(str) \in Nat
         /\ at[1] \in Nat /\ at[2] \in Nat /\ at[3] \in Nat /\ at[4] \in Nat
         /\ 1 <= at[1] /\ at[1] <= Len(pattern) + 1 /\ at[1] \in 1 .. Len(pattern) + 1
         /\ 1 <= at[2] /\ at[2] <= Len(str) + 1
         /\ at[3] <= Len(pattern)
         /\ at[4] <= at[2]
BY DEF Turns, PatternPlaces, StringPlaces

\* What makes a turn.
LEMMA TurnMade ==
  ASSUME pattern \in Seq(Chars), str \in Seq(Chars),
         NEW q \in Nat, NEW i \in Nat, NEW b \in Nat, NEW c \in Nat,
         1 <= q, q <= Len(pattern) + 1, 1 <= i, i <= Len(str) + 1, b <= Len(pattern), c <= i
  PROVE  <<q, i, b, c>> \in Turns
<1>1. q \in PatternPlaces /\ i \in StringPlaces /\ b \in 0 .. Len(pattern) /\ c \in 0 .. Len(str) + 1
  BY DEF PatternPlaces, StringPlaces
<1> QED BY <1>1 DEF Turns

\* The loop keeps its variables in range.
LEMMA FollowingIsTurn ==
  ASSUME pattern \in Seq(Chars), str \in Seq(Chars), NEW at \in Turns, ~Ends(at)
  PROVE  Following(at) \in Turns
<1>1. Len(pattern) \in Nat /\ Len(str) \in Nat
  OBVIOUS
<1>2. PICK q \in Nat : q = at[1]
  BY TurnParts
<1>3. PICK i \in Nat : i = at[2]
  BY TurnParts
<1>4. PICK b \in Nat : b = at[3]
  BY TurnParts
<1>5. PICK c \in Nat : c = at[4]
  BY TurnParts
<1>6. /\ 1 <= q /\ q <= Len(pattern) + 1 /\ q \in 1 .. Len(pattern) + 1
      /\ 1 <= i /\ i <= Len(str) + 1 /\ b <= Len(pattern) /\ c <= i
  BY <1>2, <1>3, <1>4, <1>5, TurnParts
<1>7. i <= Len(str)
  BY <1>1, <1>3 DEF Ends
<1>8. CASE TakesByte(at)
  <2>1. q <= Len(pattern)
    BY <1>2, <1>8 DEF TakesByte
  <2>2. PICK x \in Nat, y \in Nat : x = q + 1 /\ y = i + 1
    OBVIOUS
  <2>3. 1 <= x /\ x <= Len(pattern) + 1 /\ 1 <= y /\ y <= Len(str) + 1 /\ c <= y
    BY <1>1, <1>6, <1>7, <2>1, <2>2
  <2>4. <<x, y, b, c>> \in Turns
    BY <1>6, <2>3, TurnMade
  <2> QED BY <1>2, <1>3, <1>4, <1>5, <1>8, <2>2, <2>4 DEF Following
<1>9. CASE ~TakesByte(at) /\ MeetsStar(at)
  <2>1. PICK a : a = AfterStars(q)
    OBVIOUS
  <2>2. a \in q .. Len(pattern) + 1
    BY <1>6, <2>1, AfterStarsInPattern
  <2>3. ~(a > Len(pattern))
    BY <1>2, <1>9, <2>1 DEF Ends
  <2>4. a \in Nat /\ 1 <= a /\ a <= Len(pattern) /\ a <= Len(pattern) + 1
    BY <1>1, <1>6, <2>2, <2>3
  <2>5. <<a, i, a, i>> \in Turns
    BY <1>6, <2>4, TurnMade
  <2> QED BY <1>2, <1>3, <1>9, <2>1, <2>5 DEF Following
<1>10. CASE ~TakesByte(at) /\ ~MeetsStar(at)
  <2>1. b # 0
    BY <1>4, <1>10 DEF Ends
  <2>2. 1 <= b /\ b <= Len(pattern) + 1 /\ 1 <= c + 1 /\ c + 1 <= Len(str) + 1 /\ c + 1 <= c + 1
    BY <1>1, <1>6, <1>7, <2>1
  <2>3. <<b, c + 1, b, c + 1>> \in Turns
    BY <1>6, <2>2, TurnMade
  <2> QED BY <1>4, <1>5, <1>10, <2>3 DEF Following
<1> QED BY <1>8, <1>9, <1>10

\* A turn that ends the function decides it alone.
LEMMA RunHead ==
  ASSUME NEW at \in Turns, Ends(at)
  PROVE  Accepted(at) <=> Accepts(at)
<1>1. ASSUME Accepted(at) PROVE Accepts(at)
  <2>1. PICK n \in Nat : \E r : RunOf(at, n, r)
    BY <1>1 DEF Accepted
  <2>2. PICK r : RunOf(at, n, r)
    BY <2>1
  <2>3. n = 0
    <3>1. SUFFICES ASSUME n # 0 PROVE FALSE
      OBVIOUS
    <3>2. 0 \in 0 .. n - 1
      BY <3>1
    <3> QED BY <2>2, <3>2 DEF RunOf
  <2> QED BY <2>2, <2>3 DEF RunOf
<1>2. ASSUME Accepts(at) PROVE Accepted(at)
  <2>1. RunOf(at, 0, [k \in 0 .. 0 |-> at])
    BY <1>2 DEF RunOf
  <2> QED BY <2>1 DEF Accepted
<1> QED BY <1>1, <1>2

\* Any other leaves it to the turn that follows.
LEMMA RunTail ==
  ASSUME NEW at \in Turns, ~Ends(at), Following(at) \in Turns
  PROVE  Accepted(at) <=> Accepted(Following(at))
<1>1. ASSUME Accepted(at) PROVE Accepted(Following(at))
  <2>1. PICK n \in Nat : \E r : RunOf(at, n, r)
    BY <1>1 DEF Accepted
  <2>2. PICK r : RunOf(at, n, r)
    BY <2>1
  <2>3. n # 0
    BY <2>2 DEF RunOf
  <2>4. n - 1 \in Nat /\ 0 \in 0 .. n - 1 /\ 0 + 1 = 1
    BY <2>3
  <2> DEFINE t == [k \in 0 .. n - 1 |-> r[k + 1]]
  <2>5. \A k \in 0 .. n - 1 : k + 1 \in 0 .. n /\ t[k] = r[k + 1]
    OBVIOUS
  <2>6. t \in [0 .. n - 1 -> Turns]
    BY <2>2, <2>5 DEF RunOf
  <2>7. t[0] = Following(at)
    BY <2>2, <2>4, <2>5 DEF RunOf
  <2>8. \A k \in 0 .. (n - 1) - 1 : ~Ends(t[k]) /\ t[k + 1] = Following(t[k])
    <3>1. SUFFICES ASSUME NEW k \in 0 .. (n - 1) - 1
                   PROVE  ~Ends(t[k]) /\ t[k + 1] = Following(t[k])
      OBVIOUS
    <3>2. k \in 0 .. n - 1 /\ k + 1 \in 0 .. n - 1
      OBVIOUS
    <3>3. t[k] = r[k + 1] /\ t[k + 1] = r[(k + 1) + 1]
      BY <2>5, <3>2
    <3> HIDE DEF t
    <3> QED BY <2>2, <3>2, <3>3 DEF RunOf
  <2>9. Ends(t[n - 1]) /\ Accepts(t[n - 1])
    <3>1. n - 1 \in 0 .. n - 1 /\ (n - 1) + 1 = n
      BY <2>4
    <3>2. t[n - 1] = r[n]
      BY <2>5, <3>1
    <3> HIDE DEF t
    <3> QED BY <2>2, <3>2 DEF RunOf
  <2>10. RunOf(Following(at), n - 1, t)
    <3> HIDE DEF t
    <3> QED BY <2>6, <2>7, <2>8, <2>9 DEF RunOf
  <2> QED BY <2>4, <2>10 DEF Accepted
<1>2. ASSUME Accepted(Following(at)) PROVE Accepted(at)
  <2>1. PICK n \in Nat : \E r : RunOf(Following(at), n, r)
    BY <1>2 DEF Accepted
  <2>2. PICK r : RunOf(Following(at), n, r)
    BY <2>1
  <2> DEFINE t == [k \in 0 .. n + 1 |-> IF k = 0 THEN at ELSE r[k - 1]]
  <2>3. t[0] = at /\ n + 1 \in Nat
    OBVIOUS
  <2>4. \A k \in 1 .. n + 1 : k - 1 \in 0 .. n /\ t[k] = r[k - 1]
    OBVIOUS
  <2>5. t \in [0 .. n + 1 -> Turns]
    <3>1. \A k \in 0 .. n + 1 : k # 0 => r[k - 1] \in Turns
      <4>1. \A k \in 0 .. n + 1 : k # 0 => k - 1 \in 0 .. n
        OBVIOUS
      <4> QED BY <2>2, <4>1 DEF RunOf
    <3> QED BY <3>1
  <2>6. \A k \in 0 .. (n + 1) - 1 : ~Ends(t[k]) /\ t[k + 1] = Following(t[k])
    <3>1. SUFFICES ASSUME NEW k \in 0 .. (n + 1) - 1
                   PROVE  ~Ends(t[k]) /\ t[k + 1] = Following(t[k])
      OBVIOUS
    <3>2. k + 1 \in 1 .. n + 1 /\ (k + 1) - 1 = k
      OBVIOUS
    <3>3. t[k + 1] = r[k]
      BY <2>4, <3>2
    <3>4. CASE k = 0
      <4> HIDE DEF t
      <4> QED BY <2>2, <2>3, <3>3, <3>4 DEF RunOf
    <3>5. CASE k # 0
      <4>1. k \in 1 .. n + 1 /\ k - 1 \in 0 .. n - 1 /\ (k - 1) + 1 = k
        BY <3>5
      <4>2. t[k] = r[k - 1]
        BY <2>4, <4>1
      <4>3. ~Ends(r[k - 1]) /\ r[(k - 1) + 1] = Following(r[k - 1])
        BY <2>2, <4>1 DEF RunOf
      <4> HIDE DEF t
      <4> QED BY <3>3, <4>1, <4>2, <4>3
    <3> QED BY <3>4, <3>5
  <2>7. Ends(t[n + 1]) /\ Accepts(t[n + 1])
    <3>1. n + 1 \in 1 .. n + 1 /\ (n + 1) - 1 = n
      OBVIOUS
    <3>2. t[n + 1] = r[n]
      BY <2>4, <3>1
    <3> HIDE DEF t
    <3> QED BY <2>2, <3>2 DEF RunOf
  <2>8. RunOf(at, n + 1, t)
    <3> HIDE DEF t
    <3> QED BY <2>3, <2>5, <2>6, <2>7 DEF RunOf
  <2> QED BY <2>3, <2>8 DEF Accepted
<1> QED BY <1>1, <1>2

\* A turn of the recursion, by what ends it and what follows.
LEMMA GoStepIs ==
  ASSUME NEW g, NEW at \in Turns
  PROVE  /\ Ends(at) => (GoStep(g, at) <=> Accepts(at))
         /\ ~Ends(at) => (GoStep(g, at) <=> g[Following(at)])
<1>1. CASE at[2] > Len(str)
  BY <1>1 DEF Ends, Accepts, GoStep
<1>2. CASE ~(at[2] > Len(str)) /\ TakesByte(at)
  <2>1. ~Ends(at)
    BY <1>2 DEF Ends
  <2> QED BY <1>2, <2>1 DEF Following, GoStep, TakesByte
<1>3. CASE ~(at[2] > Len(str)) /\ ~TakesByte(at) /\ MeetsStar(at)
  <2>1. Ends(at) <=> AfterStars(at[1]) > Len(pattern)
    BY <1>3 DEF Ends
  <2>2. GoStep(g, at) <=> (AfterStars(at[1]) > Len(pattern)
                           \/ g[<<AfterStars(at[1]), at[2], AfterStars(at[1]), at[2]>>])
    BY <1>3 DEF GoStep, TakesByte, MeetsStar
  <2> QED BY <1>3, <2>1, <2>2 DEF Following, Accepts
<1>4. CASE ~(at[2] > Len(str)) /\ ~TakesByte(at) /\ ~MeetsStar(at)
  <2>1. Ends(at) <=> at[3] = 0
    BY <1>4 DEF Ends
  <2>2. GoStep(g, at) <=> (at[3] # 0 /\ g[<<at[3], at[4] + 1, at[3], at[4] + 1>>])
    BY <1>4 DEF GoStep, TakesByte, MeetsStar
  <2> QED BY <1>4, <2>1, <2>2 DEF Following, Accepts
<1> QED BY <1>1, <1>2, <1>3, <1>4

\* The recursion, turn by turn.
LEMMA GoEquation ==
  ASSUME pattern \in Seq(Chars), str \in Seq(Chars),
         NEW g, g = GoesOn, NEW at \in Turns
  PROVE  /\ Ends(at) => (g[at] <=> Accepts(at))
         /\ ~Ends(at) => (g[at] <=> g[Following(at)])
<1> DEFINE P(f) == f = [t \in Turns |-> GoStep(f, t)]
<1>1. PICK a : a = [t \in Turns |-> Accepted(t)]
  OBVIOUS
<1>2. ASSUME NEW t \in Turns PROVE Accepted(t) = GoStep(a, t)
  <2>1. Accepted(t) <=> GoStep(a, t)
    <3>1. CASE Ends(t)
      BY <3>1, RunHead, GoStepIs
    <3>2. CASE ~Ends(t)
      <4>1. Following(t) \in Turns
        BY <3>2, FollowingIsTurn
      <4>2. a[Following(t)] <=> Accepted(Following(t))
        BY <1>1, <4>1
      <4> QED BY <3>2, <4>1, <4>2, RunTail, GoStepIs
    <3> QED BY <3>1, <3>2
  <2>2. Accepted(t) \in BOOLEAN
    BY DEF Accepted
  <2>3. GoStep(a, t) \in BOOLEAN
    <3>1. PICK x : x = AfterStars(t[1])
      OBVIOUS
    <3>2. x \in Nat /\ Len(pattern) \in Nat
      <4>1. t[1] \in 1 .. Len(pattern) + 1 /\ Len(pattern) \in Nat /\ t[1] \in Nat
        BY TurnParts
      <4>2. x \in t[1] .. Len(pattern) + 1
        BY <3>1, <4>1, AfterStarsInPattern
      <4> QED BY <4>1, <4>2
    <3>3. (x > Len(pattern)) \in BOOLEAN
      BY <3>2
    <3>4. CASE t[2] > Len(str)
      BY <3>1, <3>3, <3>4, Zenon DEF GoStep
    <3>5. CASE ~(t[2] > Len(str)) /\ TakesByte(t)
      <4>1. GoStep(a, t) = a[Following(t)]
        BY <3>5 DEF GoStep, Following, TakesByte
      <4>2. ~Ends(t)
        BY <3>5 DEF Ends
      <4>3. a[Following(t)] = Accepted(Following(t))
        BY <1>1, <4>2, FollowingIsTurn
      <4> QED BY <4>1, <4>3 DEF Accepted
    <3>6. CASE ~(t[2] > Len(str)) /\ ~TakesByte(t) /\ MeetsStar(t)
      BY <3>6, Zenon DEF GoStep, TakesByte, MeetsStar
    <3>7. CASE ~(t[2] > Len(str)) /\ ~TakesByte(t) /\ ~MeetsStar(t)
      BY <3>7, Zenon DEF GoStep, TakesByte, MeetsStar
    <3> QED BY <3>4, <3>5, <3>6, <3>7
  <2> HIDE DEF GoStep, Accepted
  <2> QED BY <2>1, <2>2, <2>3, SameTruth
<1>3. P(a)
  BY <1>1, <1>2
<1>4. g = CHOOSE f : P(f)
  BY DEF GoesOn, GoStep
<1> HIDE DEF P
<1>5. P(g)
  BY <1>3, <1>4
<1>6. g[at] = GoStep(g, at)
  BY <1>5 DEF P
<1> QED BY <1>6, GoStepIs

-----------------------------------------------------------------------------
(***************************************************************************)
(* The machine is always at a turn from which the recursion goes on to its *)
(* answer.                                                                 *)
(***************************************************************************)
Turn == <<p, s, starPattern, starStr>>

SameTurn ==
  /\ result = "none" => (GoesOn[Turn] <=> wildcardMatch)
  /\ MatchersAgree

LEMMA InitSameTurn == Init => SameTurn
BY DEF Init, SameTurn, MatchersAgree, wildcardMatch, Turn, NoStar

\* Where the machine is, as a turn of the recursion.
LEMMA MachineTurn ==
  ASSUME Inv, NEW at, at = Turn
  PROVE  /\ at \in Turns
         /\ at[1] = p /\ at[2] = s /\ at[3] = starPattern /\ at[4] = starStr
         /\ s <= Len(str) => (TakesByte(at) <=> Matches)
         /\ MeetsStar(at) <=> Byte = Star
<1>1. /\ pattern \in Seq(Chars) /\ str \in Seq(Chars)
      /\ Len(pattern) \in Nat /\ Len(str) \in Nat
      /\ p \in PatternPlaces /\ s \in StringPlaces
      /\ p \in Nat /\ s \in Nat /\ p >= 1 /\ s >= 1
      /\ starPattern \in Nat /\ starStr \in Nat
      /\ starPattern <= Len(pattern) /\ starStr <= s
  BY Positions
<1>2. 1 <= p /\ p <= Len(pattern) + 1 /\ 1 <= s /\ s <= Len(str) + 1
  BY <1>1 DEF PatternPlaces, StringPlaces
<1>3. at \in Turns
  BY <1>1, <1>2, TurnMade DEF Turn
<1>4. at[1] = p /\ at[2] = s /\ at[3] = starPattern /\ at[4] = starStr
  BY DEF Turn
<1>5. p <= Len(pattern) => Byte = pattern[p]
  BY DEF Byte, ByteAt
<1>6. ~(p <= Len(pattern)) => Byte = NUL
  BY DEF Byte, ByteAt
<1>7. MeetsStar(at) <=> Byte = Star
  BY <1>4, <1>5, <1>6, CharAssumption DEF MeetsStar
<1>8. ASSUME s <= Len(str) PROVE TakesByte(at) <=> Matches
  <2>1. str[s] \in Chars
    BY <1>1, <1>8
  <2>2. str[s] # NUL /\ AnyOne # NUL
    BY <2>1, CharAssumption
  <2> QED BY <1>4, <1>5, <1>6, <2>2 DEF TakesByte, Matches
<1> QED BY <1>3, <1>4, <1>7, <1>8

\* A step of the machine that does not end it goes to the turn that follows; one
\* that does gives the answer of the recursion there.
LEMMA StepFollows ==
  ASSUME Inv, Next, NEW at, at = Turn
  PROVE  /\ result = "none"
         /\ result' = "none" => ~Ends(at) /\ Turn' = Following(at)
         /\ result' # "none" => Ends(at) /\ (result' = "TRUE" <=> Accepts(at))
<1>1. /\ at[1] = p /\ at[2] = s /\ at[3] = starPattern /\ at[4] = starStr
      /\ s <= Len(str) => (TakesByte(at) <=> Matches)
      /\ MeetsStar(at) <=> Byte = Star
  BY MachineTurn
<1>2. s \in Nat /\ Len(str) \in Nat
  BY Positions
<1>3. s <= Len(str) <=> ~(s > Len(str))
  BY <1>2
<1>4. CASE MatchOne
  <2>1. ~(s > Len(str)) /\ TakesByte(at) /\ result = "none" /\ result' = "none"
    BY <1>1, <1>3, <1>4 DEF MatchOne, Searching
  <2>2. Turn' = <<p + 1, s + 1, starPattern, starStr>>
    BY <1>4 DEF MatchOne, Turn, stars
  <2>3. ~Ends(at)
    BY <1>1, <2>1 DEF Ends
  <2>4. Following(at) = <<p + 1, s + 1, starPattern, starStr>>
    BY <1>1, <2>1 DEF Following
  <2> QED BY <2>1, <2>2, <2>3, <2>4
<1>5. CASE PassStars
  <2>1. ~(s > Len(str)) /\ ~TakesByte(at) /\ MeetsStar(at) /\ result = "none"
    BY <1>1, <1>3, <1>5 DEF PassStars, Searching
  <2>2. p' = AfterStars(p) /\ s' = s
    BY <1>5 DEF PassStars
  <2>3. CASE AfterStars(p) > Len(pattern)
    <3>1. result' = "TRUE"
      BY <1>5, <2>2, <2>3 DEF PassStars
    <3>2. Ends(at) /\ Accepts(at)
      BY <1>1, <2>1, <2>3 DEF Ends, Accepts
    <3> QED BY <2>1, <3>1, <3>2
  <2>4. CASE ~(AfterStars(p) > Len(pattern))
    <3>1. starPattern' = AfterStars(p) /\ starStr' = s /\ result' = "none"
      BY <1>5, <2>1, <2>2, <2>4 DEF PassStars
    <3>2. Turn' = <<AfterStars(p), s, AfterStars(p), s>>
      BY <2>2, <3>1 DEF Turn
    <3>3. ~Ends(at)
      BY <1>1, <2>1, <2>4 DEF Ends
    <3>4. Following(at) = <<AfterStars(p), s, AfterStars(p), s>>
      BY <1>1, <2>1 DEF Following
    <3> QED BY <2>1, <3>1, <3>2, <3>3, <3>4
  <2> QED BY <2>3, <2>4
<1>6. CASE GoBack
  <2>1. ~(s > Len(str)) /\ ~TakesByte(at) /\ ~MeetsStar(at) /\ result = "none" /\ result' = "none"
    BY <1>1, <1>3, <1>6 DEF GoBack, Searching
  <2>2. starPattern # 0
    BY <1>6 DEF GoBack, NoStar
  <2>3. Turn' = <<starPattern, starStr + 1, starPattern, starStr + 1>>
    BY <1>6 DEF GoBack, GoOnFrom, Turn
  <2>4. ~Ends(at)
    BY <1>1, <2>1, <2>2 DEF Ends
  <2>5. Following(at) = <<starPattern, starStr + 1, starPattern, starStr + 1>>
    BY <1>1, <2>1 DEF Following
  <2> QED BY <2>1, <2>3, <2>4, <2>5
<1>7. CASE Mismatch
  <2>1. ~(s > Len(str)) /\ ~TakesByte(at) /\ ~MeetsStar(at) /\ result = "none" /\ result' = "FALSE"
    BY <1>1, <1>3, <1>7 DEF Mismatch, Searching
  <2>2. starPattern = 0
    BY <1>7 DEF Mismatch, NoStar
  <2>3. Ends(at) /\ ~Accepts(at)
    BY <1>1, <2>1, <2>2 DEF Ends, Accepts
  <2> QED BY <2>1, <2>3
<1>8. CASE Finish
  <2>1. s > Len(str) /\ result = "none"
    BY <1>8 DEF Finish
  <2>2. result' = IF AfterStars(p) > Len(pattern) THEN "TRUE" ELSE "FALSE"
    BY <1>8 DEF Finish, AtEnd
  <2>3. Ends(at) /\ (Accepts(at) <=> AfterStars(p) > Len(pattern))
    BY <1>1, <2>1 DEF Ends, Accepts
  <2> QED BY <2>1, <2>2, <2>3
<1> QED BY <1>4, <1>5, <1>6, <1>7, <1>8 DEF Next

LEMMA NextSameTurn == Inv /\ SameTurn /\ [Next]_vars => SameTurn'
<1>1. SUFFICES ASSUME Inv, SameTurn, [Next]_vars PROVE SameTurn'
  OBVIOUS
<1>2. UNCHANGED args
  BY <1>1 DEF Next, MatchOne, PassStars, GoBack, Mismatch, Finish, vars
<1>3. GoesOn' = GoesOn
  BY <1>2 DEF args, GoesOn, Turns, PatternPlaces, StringPlaces, AfterStars, NotStars, ByteAt, FirstOf
<1>4. wildcardMatch' <=> wildcardMatch
  BY <1>3 DEF wildcardMatch
<1>5. CASE Next
  <2>1. PICK at : at = Turn
    OBVIOUS
  <2>2. PICK g : g = GoesOn
    OBVIOUS
  <2>3. at \in Turns /\ pattern \in Seq(Chars) /\ str \in Seq(Chars)
    BY <1>1, <2>1, MachineTurn, Positions
  <2>4. /\ Ends(at) => (g[at] <=> Accepts(at))
        /\ ~Ends(at) => (g[at] <=> g[Following(at)])
    BY <2>2, <2>3, GoEquation
  <2>5. /\ result = "none"
        /\ result' = "none" => ~Ends(at) /\ Turn' = Following(at)
        /\ result' # "none" => Ends(at) /\ (result' = "TRUE" <=> Accepts(at))
    BY <1>1, <1>5, <2>1, StepFollows
  <2>6. g[at] <=> wildcardMatch
    BY <1>1, <2>1, <2>2, <2>5 DEF SameTurn
  <2>7. result' = "none" => (GoesOn'[Turn'] <=> wildcardMatch')
    BY <1>3, <1>4, <2>2, <2>4, <2>5, <2>6
  <2>8. MatchersAgree'
    BY <1>4, <2>4, <2>5, <2>6 DEF MatchersAgree
  <2> QED BY <2>7, <2>8 DEF SameTurn
<1>6. CASE UNCHANGED vars
  <2>1. result' = result /\ Turn' = Turn
    BY <1>6 DEF vars, stars, Turn
  <2> QED BY <1>1, <1>3, <1>4, <2>1 DEF SameTurn, MatchersAgree
<1> QED BY <1>1, <1>5, <1>6

\* wildcardMatch of the Go package returns true exactly where
\* string_evaluator_wildcard does, whatever the pattern and the string.
THEOREM MatchersAgreement == Spec => []MatchersAgree
<1>1. SameTurn => MatchersAgree
  BY DEF SameTurn
<1> QED BY <1>1, InitSameTurn, NextSameTurn, Invariance, PTL DEF Spec
=============================================================================
