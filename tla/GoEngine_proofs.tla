--------------------------- MODULE GoEngine_proofs ---------------------------
(***************************************************************************)
(* What the recursive functions of the Go engine compute: the loops over   *)
(* children are the OR and AND of sets of results, and Evaluate gives each *)
(* node of a document, at each depth, the result that its children make.   *)
(***************************************************************************)
EXTENDS GoEngine, SequenceTheorems, WellFoundedInduction, TLAPS

Truths == {"TRUE", "FALSE", "ABSTAIN"}

OrSet(S) == IF "TRUE" \in S THEN "TRUE" ELSE IF "ABSTAIN" \in S THEN "ABSTAIN" ELSE "FALSE"
AndSet(S) == IF "FALSE" \in S THEN "FALSE" ELSE IF "ABSTAIN" \in S THEN "ABSTAIN" ELSE "TRUE"

-----------------------------------------------------------------------------
(* Numbers *)

\* Counting from 0 reaches every number.
LEMMA CountingUp ==
  ASSUME NEW S \in SUBSET Nat, 0 \in S, \A d \in S : d + 1 \in S
  PROVE  \A d \in Nat : d \in S
<1>1. SUFFICES ASSUME NEW d \in Nat \ S PROVE FALSE
  OBVIOUS
<1>2. PICK e \in Nat \ S : \A k \in Nat \ S : ~(<<k, e>> \in OpToRel(<, Nat))
  BY NatLessThanWellFounded, WFMin
<1>3. e # 0 /\ e - 1 \in Nat
  OBVIOUS
<1>4. e - 1 \in Nat \ S
  <2>1. e = (e - 1) + 1
    BY <1>3
  <2> QED BY <1>2, <1>3, <2>1
<1>5. <<e - 1, e>> \in OpToRel(<, Nat)
  BY <1>3 DEF OpToRel
<1> QED BY <1>2, <1>4, <1>5

-----------------------------------------------------------------------------
(* The loops over the children *)

Prefix(results, k) == {results[i] : i \in 1 .. k}

\* One turn of a loop.
OrStep(f, results, k) ==
  IF k = 0 THEN "FALSE"
  ELSE IF f[k - 1] = "TRUE" THEN "TRUE" ELSE doOr(f[k - 1], results[k])
AndStep(f, results, k) ==
  IF k = 0 THEN "TRUE"
  ELSE IF f[k - 1] = "FALSE" THEN "FALSE" ELSE doAnd(f[k - 1], results[k])

\* One result more.
LEMMA PrefixGrows ==
  ASSUME NEW results, NEW k \in Nat
  PROVE  Prefix(results, 0) = {} /\ Prefix(results, k + 1) = Prefix(results, k) \cup {results[k + 1]}
<1>1. 1 .. 0 = {} /\ 1 .. k + 1 = (1 .. k) \cup {k + 1}
  OBVIOUS
<1> QED BY <1>1 DEF Prefix

\* The loop of OR computes the OR of the set of all results.
LEMMA OrOfAll ==
  ASSUME NEW S, NEW results \in Seq(S)
  PROVE  orOf(results) = OrSet(Range(results)) /\ orOf(results) \in Truths
<1> DEFINE n == Len(results)
           P(f) == f = [k \in 0 .. n |-> OrStep(f, results, k)]
           g == [k \in 0 .. n |-> OrSet(Prefix(results, k))]
<1>1. n \in Nat /\ DOMAIN results = 1 .. n
  OBVIOUS
<1>2. \A k \in 0 .. n : OrSet(Prefix(results, k)) = OrStep(g, results, k)
  <2>1. OrSet(Prefix(results, 0)) = "FALSE"
    BY PrefixGrows, 0 \in Nat DEF OrSet
  <2>2. ASSUME NEW k \in 1 .. n
        PROVE  OrSet(Prefix(results, k)) = OrStep(g, results, k)
    <3>1. PICK j : j = k - 1
      OBVIOUS
    <3>2. j \in Nat /\ k = j + 1 /\ j \in 0 .. n /\ k # 0
      BY <3>1, <1>1
    <3>3. Prefix(results, k) = Prefix(results, j) \cup {results[k]}
      BY <3>2, PrefixGrows
    <3>4. g[j] = OrSet(Prefix(results, j))
      BY <3>2
    <3> HIDE DEF g
    <3> QED BY <1>1, <3>1, <3>2, <3>3, <3>4 DEF OrStep, OrSet, doOr, Truths
  <2> QED BY <2>1, <2>2, <1>1 DEF OrStep
<1>3. P(g)
  BY <1>2
<1>4. PICK res : res = CHOOSE f : P(f)
  OBVIOUS
<1>5. orOf(results) = res[n]
  BY <1>4 DEF orOf, OrStep
<1> HIDE DEF P
<1>6. P(res)
  BY <1>3, <1>4
<1>7. \A k \in 0 .. n : res[k] = OrStep(res, results, k)
  <2> DEFINE h == [k \in 0 .. n |-> OrStep(res, results, k)]
  <2>1. res = h
    BY <1>6 DEF P
  <2>2. \A k \in 0 .. n : h[k] = OrStep(res, results, k)
    OBVIOUS
  <2> HIDE DEF h
  <2> QED BY <2>1, <2>2
<1>8. \A k \in Nat : k <= n => res[k] = OrSet(Prefix(results, k))
  <2> DEFINE Agree == {k \in Nat : k <= n => res[k] = OrSet(Prefix(results, k))}
  <2>1. 0 \in Agree
    BY <1>1, <1>7, PrefixGrows, 0 \in Nat DEF OrStep, OrSet
  <2>2. ASSUME NEW k \in Agree PROVE k + 1 \in Agree
    <3> SUFFICES ASSUME k + 1 <= n PROVE res[k + 1] = OrSet(Prefix(results, k + 1))
      OBVIOUS
    <3>1. k \in Nat /\ k + 1 \in 1 .. n /\ (k + 1) - 1 = k /\ k + 1 # 0
      BY <1>1
    <3>2. res[k] = OrSet(Prefix(results, k))
      BY <1>1
    <3>3. Prefix(results, k + 1) = Prefix(results, k) \cup {results[k + 1]}
      BY PrefixGrows
    <3>5. res[k + 1] = OrStep(res, results, k + 1)
      BY <1>1, <1>7, <3>1
    <3> QED BY <3>1, <3>2, <3>3, <3>5 DEF OrStep, OrSet, doOr, Truths
  <2> HIDE DEF Agree
  <2>3. \A k \in Nat : k \in Agree
    BY <2>1, <2>2, CountingUp, Agree \in SUBSET Nat DEF Agree
  <2> QED BY <2>3 DEF Agree
<1>9. Range(results) = Prefix(results, n)
  BY <1>1 DEF Range, Prefix
<1> QED BY <1>1, <1>5, <1>8, <1>9 DEF OrSet, Truths

\* The loop of AND computes the AND of the set of all results.
LEMMA AndOfAll ==
  ASSUME NEW S, NEW results \in Seq(S)
  PROVE  andOf(results) = AndSet(Range(results)) /\ andOf(results) \in Truths
<1> DEFINE n == Len(results)
           P(f) == f = [k \in 0 .. n |-> AndStep(f, results, k)]
           g == [k \in 0 .. n |-> AndSet(Prefix(results, k))]
<1>1. n \in Nat /\ DOMAIN results = 1 .. n
  OBVIOUS
<1>2. \A k \in 0 .. n : AndSet(Prefix(results, k)) = AndStep(g, results, k)
  <2>1. AndSet(Prefix(results, 0)) = "TRUE"
    BY PrefixGrows, 0 \in Nat DEF AndSet
  <2>2. ASSUME NEW k \in 1 .. n
        PROVE  AndSet(Prefix(results, k)) = AndStep(g, results, k)
    <3>1. PICK j : j = k - 1
      OBVIOUS
    <3>2. j \in Nat /\ k = j + 1 /\ j \in 0 .. n /\ k # 0
      BY <3>1, <1>1
    <3>3. Prefix(results, k) = Prefix(results, j) \cup {results[k]}
      BY <3>2, PrefixGrows
    <3>4. g[j] = AndSet(Prefix(results, j))
      BY <3>2
    <3> HIDE DEF g
    <3> QED BY <1>1, <3>1, <3>2, <3>3, <3>4 DEF AndStep, AndSet, doAnd, Truths
  <2> QED BY <2>1, <2>2, <1>1 DEF AndStep
<1>3. P(g)
  BY <1>2
<1>4. PICK res : res = CHOOSE f : P(f)
  OBVIOUS
<1>5. andOf(results) = res[n]
  BY <1>4 DEF andOf, AndStep
<1> HIDE DEF P
<1>6. P(res)
  BY <1>3, <1>4
<1>7. \A k \in 0 .. n : res[k] = AndStep(res, results, k)
  <2> DEFINE h == [k \in 0 .. n |-> AndStep(res, results, k)]
  <2>1. res = h
    BY <1>6 DEF P
  <2>2. \A k \in 0 .. n : h[k] = AndStep(res, results, k)
    OBVIOUS
  <2> HIDE DEF h
  <2> QED BY <2>1, <2>2
<1>8. \A k \in Nat : k <= n => res[k] = AndSet(Prefix(results, k))
  <2> DEFINE Agree == {k \in Nat : k <= n => res[k] = AndSet(Prefix(results, k))}
  <2>1. 0 \in Agree
    BY <1>1, <1>7, PrefixGrows, 0 \in Nat DEF AndStep, AndSet
  <2>2. ASSUME NEW k \in Agree PROVE k + 1 \in Agree
    <3> SUFFICES ASSUME k + 1 <= n PROVE res[k + 1] = AndSet(Prefix(results, k + 1))
      OBVIOUS
    <3>1. k \in Nat /\ k + 1 \in 1 .. n /\ (k + 1) - 1 = k /\ k + 1 # 0
      BY <1>1
    <3>2. res[k] = AndSet(Prefix(results, k))
      BY <1>1
    <3>3. Prefix(results, k + 1) = Prefix(results, k) \cup {results[k + 1]}
      BY PrefixGrows
    <3>5. res[k + 1] = AndStep(res, results, k + 1)
      BY <1>1, <1>7, <3>1
    <3> QED BY <3>1, <3>2, <3>3, <3>5 DEF AndStep, AndSet, doAnd, Truths
  <2> HIDE DEF Agree
  <2>3. \A k \in Nat : k \in Agree
    BY <2>1, <2>2, CountingUp, Agree \in SUBSET Nat DEF Agree
  <2> QED BY <2>3 DEF Agree
<1>9. Range(results) = Prefix(results, n)
  BY <1>1 DEF Range, Prefix
<1> QED BY <1>1, <1>5, <1>8, <1>9 DEF AndSet, Truths

-----------------------------------------------------------------------------
(* The recursion over a document *)

\* Every child is a node of the document.
Closed(doc) ==
  \A n \in DOMAIN doc :
    doc[n].type = "comp" /\ doc[n].children # NULL =>
      \A i \in DOMAIN doc[n].children : doc[n].children[i] \in DOMAIN doc

Visits(doc) == (DOMAIN doc) \X (0 .. MaxEvalDepth + 1)

\* The node at a place, as decoded, and its result from those of its children.
Decoded(doc, at) == decodeNodeWrap(doc[at[1]], at[2])
ChildResults(doc, f, at) ==
  [i \in DOMAIN Decoded(doc, at).children |-> f[<<Decoded(doc, at).children[i], at[2] + 1>>]]
EvalStep(doc, context, f, at) == resultOf(Decoded(doc, at), ChildResults(doc, f, at), context)

\* The empty list has no places.
LEMMA NoPlaces == DOMAIN << >> = {}
<1>1. << >> \in Seq({}) /\ Len(<< >>) = 0
  BY EmptySeq
<1>2. DOMAIN << >> = 1 .. Len(<< >>)
  BY <1>1, LenProperties
<1> QED BY <1>1, <1>2

\* A leaf has no children.
LEMMA LeafChildren ==
  /\ AlwaysAbstain.op = "LEAF" /\ AlwaysAbstain.children = << >>
  /\ \A e : decodeEvaluatorNode(e).op = "LEAF" /\ decodeEvaluatorNode(e).children = << >>
<1>1. \A k, i, key, c, v : Leaf(k, i, key, c, v).op = "LEAF" /\ Leaf(k, i, key, c, v).children = << >>
  BY DEF Leaf
<1>2. \A i, c, v : StringLeaf(i, c, v).op = "LEAF" /\ StringLeaf(i, c, v).children = << >>
  BY <1>1 DEF StringLeaf
<1>3. AlwaysAbstain.op = "LEAF" /\ AlwaysAbstain.children = << >>
  BY <1>2 DEF AlwaysAbstain
<1>4. \A i, c, raw : decodeLabel(i, c, raw).op = "LEAF" /\ decodeLabel(i, c, raw).children = << >>
  BY <1>1, <1>3 DEF decodeLabel
<1>5. \A e : decodeStrEval(e).op = "LEAF" /\ decodeStrEval(e).children = << >>
  BY <1>2, <1>3, <1>4 DEF decodeStrEval
<1>6. \A e : decodeNumEval(e).op = "LEAF" /\ decodeNumEval(e).children = << >>
  BY <1>1, <1>3 DEF decodeNumEval
<1> QED BY <1>3, <1>5, <1>6 DEF decodeEvaluatorNode

\* The decoded children of a node are nodes, and are within the cap or just beyond it.
LEMMA ChildVisits ==
  ASSUME MaxEvalDepth \in Nat, NEW doc, Closed(doc), NEW at \in Visits(doc)
  PROVE  \A i \in DOMAIN Decoded(doc, at).children :
           <<Decoded(doc, at).children[i], at[2] + 1>> \in Visits(doc)
<1>1. at[1] \in DOMAIN doc /\ at[2] \in 0 .. MaxEvalDepth + 1
  BY DEF Visits
<1> SUFFICES ASSUME NEW i \in DOMAIN Decoded(doc, at).children
             PROVE  <<Decoded(doc, at).children[i], at[2] + 1>> \in Visits(doc)
  OBVIOUS
<1> DEFINE w == doc[at[1]]
<1>2. ~(at[2] > MaxEvalDepth)
  BY LeafChildren, NoPlaces DEF Decoded, decodeNodeWrap
<1>3. w.type = "comp"
  BY <1>2, LeafChildren, NoPlaces DEF Decoded, decodeNodeWrap
<1>4. Decoded(doc, at) = decodeComposite(w)
  BY <1>2, <1>3 DEF Decoded, decodeNodeWrap
<1>5. w.children # NULL /\ Decoded(doc, at).children = w.children
  BY <1>4, LeafChildren, NoPlaces DEF decodeComposite, Composite, AlwaysAbstain, StringLeaf, Leaf
<1>6. Decoded(doc, at).children[i] \in DOMAIN doc
  BY <1>1, <1>3, <1>5 DEF Closed
<1>7. at[2] + 1 \in 0 .. MaxEvalDepth + 1
  BY <1>1, <1>2
<1> QED BY <1>6, <1>7 DEF Visits

\* A result depends on nothing but the results one level down.
LEMMA StepLocal ==
  ASSUME MaxEvalDepth \in Nat, NEW doc, Closed(doc), NEW context, NEW at \in Visits(doc), NEW f, NEW g,
         \A to \in Visits(doc) : to[2] = at[2] + 1 => f[to] = g[to]
  PROVE  EvalStep(doc, context, f, at) = EvalStep(doc, context, g, at)
<1>1. \A i \in DOMAIN Decoded(doc, at).children :
        f[<<Decoded(doc, at).children[i], at[2] + 1>>] = g[<<Decoded(doc, at).children[i], at[2] + 1>>]
  BY ChildVisits
<1>2. ChildResults(doc, f, at) = ChildResults(doc, g, at)
  BY <1>1 DEF ChildResults
<1> QED BY <1>2 DEF EvalStep

\* The recursion has a solution, found from the deepest level up.
LEMMA EvaluateSolvable ==
  ASSUME MaxEvalDepth \in Nat, NEW doc, Closed(doc), NEW context
  PROVE  \E f : f = [at \in Visits(doc) |-> EvalStep(doc, context, f, at)]
<1> DEFINE Solves(f, e) == \A at \in Visits(doc) :
                             at[2] + e > MaxEvalDepth + 1 => f[at] = EvalStep(doc, context, f, at)
           S == {e \in Nat : \E f : Solves(f, e)}
<1>1. \A at \in Visits(doc) : at[2] \in Nat /\ at[2] <= MaxEvalDepth + 1
  BY DEF Visits
<1>2. 0 \in S
  <2>1. Solves(<< >>, 0)
    BY <1>1
  <2> QED BY <2>1
<1>3. ASSUME NEW e \in S PROVE e + 1 \in S
  <2>1. PICK f : Solves(f, e)
    OBVIOUS
  <2> DEFINE g == [at \in Visits(doc) |->
                     IF at[2] + e > MaxEvalDepth + 1 THEN f[at] ELSE EvalStep(doc, context, f, at)]
  <2>2. \A at \in Visits(doc) :
          g[at] = IF at[2] + e > MaxEvalDepth + 1 THEN f[at] ELSE EvalStep(doc, context, f, at)
    OBVIOUS
  <2> HIDE DEF g
  <2>3. ASSUME NEW at \in Visits(doc), at[2] + (e + 1) > MaxEvalDepth + 1
        PROVE  g[at] = EvalStep(doc, context, g, at)
    <3>1. \A to \in Visits(doc) : to[2] = at[2] + 1 => f[to] = g[to]
      BY <1>1, <2>2, <2>3
    <3>2. EvalStep(doc, context, f, at) = EvalStep(doc, context, g, at)
      BY <3>1, StepLocal
    <3>3. g[at] = EvalStep(doc, context, f, at)
      BY <2>1, <2>2
    <3> QED BY <3>2, <3>3
  <2>4. Solves(g, e + 1)
    BY <2>3
  <2> QED BY <2>4
<1> HIDE DEF S
<1>4. \A e \in Nat : e \in S
  BY <1>2, <1>3, CountingUp, S \in SUBSET Nat DEF S
<1>5. MaxEvalDepth + 2 \in S
  BY <1>4
<1>6. PICK f : Solves(f, MaxEvalDepth + 2)
  BY <1>5 DEF S
<1>7. \A at \in Visits(doc) : f[at] = EvalStep(doc, context, f, at)
  BY <1>1, <1>6
<1> DEFINE g == [at \in Visits(doc) |-> EvalStep(doc, context, f, at)]
<1>8. \A at \in Visits(doc) : f[at] = g[at]
  BY <1>7
<1>9. \A at \in Visits(doc) : EvalStep(doc, context, f, at) = EvalStep(doc, context, g, at)
  <2> HIDE DEF g
  <2> QED BY <1>8, StepLocal
<1>10. g = [at \in Visits(doc) |-> EvalStep(doc, context, g, at)]
  <2> DEFINE h == [at \in Visits(doc) |-> EvalStep(doc, context, g, at)]
  <2>1. g = h
    BY <1>9
  <2> QED BY <2>1
<1> QED BY <1>10

\* Evaluate is the result of the root, in a function from places to results that
\* gives every node the result its children make, and the nodes beyond the cap none
\* but ABSTAIN.
THEOREM EvaluateEquation ==
  ASSUME MaxEvalDepth \in Nat, NEW doc, Closed(doc), NEW context
  PROVE  \E r : /\ \A root : Evaluate(doc, root, context) = r[<<root, 0>>]
               /\ \A at \in Visits(doc) : r[at] = EvalStep(doc, context, r, at)
<1> DEFINE P(f) == f = [at \in Visits(doc) |-> EvalStep(doc, context, f, at)]
<1>1. PICK r : r = CHOOSE f : P(f)
  OBVIOUS
<1>2. \A root : Evaluate(doc, root, context) = r[<<root, 0>>]
  BY <1>1 DEF Evaluate, Visits, EvalStep, ChildResults, Decoded
<1>3. \E f : P(f)
  BY EvaluateSolvable
<1> HIDE DEF P
<1>4. P(r)
  BY <1>1, <1>3
<1>5. ASSUME NEW at \in Visits(doc) PROVE r[at] = EvalStep(doc, context, r, at)
  <2> DEFINE h == [to \in Visits(doc) |-> EvalStep(doc, context, r, to)]
  <2>1. r = h
    BY <1>4 DEF P
  <2>2. h[at] = EvalStep(doc, context, r, at)
    OBVIOUS
  <2> HIDE DEF h
  <2> QED BY <2>1, <2>2
<1> QED BY <1>2, <1>5
=============================================================================
