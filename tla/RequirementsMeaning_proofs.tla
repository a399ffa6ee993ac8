--------------------- MODULE RequirementsMeaning_proofs ---------------------
(***************************************************************************)
(* What the converter's policies mean: of every input, each deny rule      *)
(* denies the processes that it is about and the libc rules those with a   *)
(* version that is not supported, and a rule that has no policy makes the  *)
(* converter fail.                                                         *)
(*                                                                         *)
(* The Go engine's result of a tree follows from EvaluateEquation, from    *)
(* the leaves up, level by level.  A leaf's result is a comparison, which  *)
(* is what a rule says of the process when the comparator matches texts    *)
(* without a star as a glob.  The invariant Meant says of the policies so  *)
(* far what the theorems say of all of them.                               *)
(***************************************************************************)
EXTENDS RequirementsMeaning, GoEngine_proofs, FiniteSetTheorems, SequenceTheorems, TLAPS

-----------------------------------------------------------------------------
(* Trees *)

\* The trees that are TRUE for a process: leaves by themselves, the others by the
\* trees one level down.
TrueLeaves(p) == {t \in Leaves : eval(decodeEvaluatorNode(t), Context(p)) = "TRUE"}
TrueComposites(S, true) ==
  {t \in Composites(S) : IF t.op = "AND" THEN Range(t.children) \subseteq true
                         ELSE Range(t.children) \cap true # {}}
TrueFlat(p) == TrueLeaves(p) \cup TrueComposites(Leaves, TrueLeaves(p))
TrueLow(p) == TrueFlat(p) \cup TrueComposites(Flat, TrueFlat(p))
TrueTrees(p) == TrueLow(p) \cup TrueComposites(Low, TrueLow(p))

\* An evaluator has one of the three results.
LEMMA LeafResult ==
  ASSUME NEW e \in Leaves, NEW context
  PROVE  eval(decodeEvaluatorNode(e), context) \in Truths
<1>1. \A b : boolToResult(b) \in Truths
  BY DEF boolToResult, Truths
<1>2. \A x : evalString(x, context) \in Truths
  BY <1>1 DEF evalString, labelResult, constantResult, Truths
<1>3. \A x, facts : evalNumber(x, facts) \in Truths
  BY <1>1 DEF evalNumber, compareNumeric, Truths
<1>4. AlwaysAbstain.kind = "str"
  BY DEF AlwaysAbstain, StringLeaf, Leaf
<1>5. decodeEvaluatorNode(e).kind \in {"str", "num"}
  BY <1>4 DEF decodeEvaluatorNode, decodeStrEval, decodeNumEval, decodeLabel, StringLeaf, Leaf, Leaves
<1> QED BY <1>2, <1>3, <1>5 DEF eval

\* The sets of trees contain each other, and leaves are no composites.
LEMMA TreeSets ==
  /\ Leaves \subseteq Flat /\ Flat \subseteq Low /\ Low \subseteq Trees
  /\ \A t \in Leaves : t.type = "eval"
  /\ \A S : \A t \in Composites(S) : t.type = "comp" /\ t.op \in {"AND", "OR"} /\ t.children \in Seq(S)
  BY DEF Leaves, Flat, Low, Trees, Composites

\* A function on the first numbers is a list.
LEMMA IsList == \A S : \A n \in Nat : [1 .. n -> S] \subseteq Seq(S)
  OBVIOUS

\* And its length is the last of them.
LEMMA LengthOf ==
  ASSUME NEW S, NEW n \in Nat, NEW f \in [1 .. n -> S]
  PROVE  f \in Seq(S) /\ Len(f) = n
<1>1. f \in Seq(S) /\ DOMAIN f = 1 .. n
  BY IsList
<1>2. PICK m \in Nat : m = Len(f) /\ DOMAIN f = 1 .. m
  BY <1>1, LenProperties
<1>3. \A x : x \in 1 .. m <=> x \in 1 .. n
  BY <1>1, <1>2
<1>4. ~(m + 1 \in 1 .. n) /\ ~(n + 1 \in 1 .. m)
  <2>1. ~(m + 1 \in 1 .. m) /\ ~(n + 1 \in 1 .. n)
    OBVIOUS
  <2> QED BY <1>3, <2>1
<1> QED BY <1>1, <1>2, <1>4

\* The kids of a node are its children, on the paths of a node further down.
LEMMA KidsOf ==
  ASSUME NEW S, NEW node \in Seq(Nat) \X Composites(S)
  PROVE  /\ Kids(node) \in Seq(Seq(Nat) \X S)
         /\ DOMAIN Kids(node) = DOMAIN node[2].children
         /\ \A i \in DOMAIN Kids(node) : Kids(node)[i] = <<Append(node[1], i), node[2].children[i]>>
<1>1. node[1] \in Seq(Nat) /\ node[2] \in Composites(S)
  OBVIOUS
<1>2. node[2].type = "comp" /\ node[2].children \in Seq(S)
  BY <1>1, TreeSets
<1>3. Kids(node) = [i \in DOMAIN node[2].children |-> <<Append(node[1], i), node[2].children[i]>>]
  BY <1>2 DEF Kids
<1>4. PICK n \in Nat : n = Len(node[2].children) /\ DOMAIN node[2].children = 1 .. n
  BY <1>2
<1>5. \A i \in 1 .. n : <<Append(node[1], i), node[2].children[i]>> \in Seq(Nat) \X S
  <2> SUFFICES ASSUME NEW i \in 1 .. n
               PROVE  Append(node[1], i) \in Seq(Nat) /\ node[2].children[i] \in S
    OBVIOUS
  <2>1. Append(node[1], i) \in Seq(Nat)
    BY <1>1, AppendProperties
  <2>2. node[2].children[i] \in S
    BY <1>2, <1>4
  <2> QED BY <2>1, <2>2
<1>6. Kids(node) \in [1 .. n -> Seq(Nat) \X S]
  BY <1>3, <1>4, <1>5
<1>7. Kids(node) \in Seq(Seq(Nat) \X S)
  BY <1>6, IsList
<1> QED BY <1>3, <1>7

\* A leaf has no kids.
LEMMA LeafKids ==
  ASSUME NEW node, node[2] \in Leaves
  PROVE  Range(Kids(node)) = {}
<1>1. Kids(node) = << >>
  BY TreeSets DEF Kids
<1> QED BY <1>1, NoPlaces DEF Range

\* The nodes of a tree are trees on paths, and the kids of a node are nodes.
LEMMA NodesOfTree ==
  ASSUME NEW tree \in Trees
  PROVE  /\ NodesOf(tree) \subseteq Seq(Nat) \X Trees
         /\ \A node \in NodesOf(tree) : Range(Kids(node)) \subseteq NodesOf(tree)
         /\ RootOf(tree) \in NodesOf(tree)
<1> DEFINE P == Seq(Nat)
<1>1. PICK N0 : N0 = {RootOf(tree)}
  OBVIOUS
<1>2. PICK N1 : N1 = WithKids(N0)
  OBVIOUS
<1>3. PICK N2 : N2 = WithKids(N1)
  OBVIOUS
<1>4. PICK N3 : N3 = WithKids(N2)
  OBVIOUS
<1>5. NodesOf(tree) = N3
  BY <1>1, <1>2, <1>3, <1>4 DEF NodesOf
<1>6. \A N : /\ N \subseteq WithKids(N)
             /\ \A node \in N : Range(Kids(node)) \subseteq WithKids(N)
             /\ \A m \in WithKids(N) : m \in N \/ \E node \in N : m \in Range(Kids(node))
  BY DEF WithKids
<1>7. ASSUME NEW S, NEW node \in P \X (Leaves \cup Composites(S))
      PROVE  Range(Kids(node)) \subseteq P \X S
  <2>1. CASE node[2] \in Leaves
    BY <2>1, LeafKids
  <2>2. CASE node[2] \in Composites(S)
    <3>1. node \in Seq(Nat) \X Composites(S)
      BY <2>2
    <3>2. Kids(node) \in Seq(P \X S)
      BY <3>1, KidsOf
    <3> QED BY <3>2 DEF Range
  <2> QED BY <2>1, <2>2
<1>8. N0 \subseteq P \X Trees
  <2>1. PICK path \in Seq(Nat) : path = << >>
    BY EmptySeq
  <2>2. N0 = {<<path, tree>>}
    BY <1>1, <2>1 DEF RootOf
  <2> QED BY <2>2
<1>9. \A node \in P \X Trees : Range(Kids(node)) \subseteq P \X Low
  <2> SUFFICES ASSUME NEW node \in P \X Trees PROVE Range(Kids(node)) \subseteq P \X Low
    OBVIOUS
  <2>1. node[1] \in P /\ node[2] \in Trees
    OBVIOUS
  <2>2. \/ node[2] \in Leaves \cup Composites(Leaves) \/ node[2] \in Leaves \cup Composites(Flat)
        \/ node[2] \in Leaves \cup Composites(Low)
    BY <2>1 DEF Trees, Low, Flat
  <2>3. node = <<node[1], node[2]>>
    OBVIOUS
  <2>4. \A S : node[2] \in Leaves \cup Composites(S) => Range(Kids(node)) \subseteq P \X S
    BY <1>7, <2>1, <2>3
  <2> QED BY <2>2, <2>4, TreeSets
<1>10. \A node \in P \X Low : Range(Kids(node)) \subseteq P \X Flat
  <2> SUFFICES ASSUME NEW node \in P \X Low PROVE Range(Kids(node)) \subseteq P \X Flat
    OBVIOUS
  <2>1. node[1] \in P /\ node[2] \in Low
    OBVIOUS
  <2>2. node[2] \in Leaves \cup Composites(Leaves) \/ node[2] \in Leaves \cup Composites(Flat)
    BY <2>1 DEF Low, Flat
  <2>3. node = <<node[1], node[2]>>
    OBVIOUS
  <2>4. \A S : node[2] \in Leaves \cup Composites(S) => Range(Kids(node)) \subseteq P \X S
    BY <1>7, <2>1, <2>3
  <2> QED BY <2>2, <2>4, TreeSets
<1>11. \A node \in P \X Flat : Range(Kids(node)) \subseteq P \X Leaves
  <2> SUFFICES ASSUME NEW node \in P \X Flat PROVE Range(Kids(node)) \subseteq P \X Leaves
    OBVIOUS
  <2>1. node \in P \X (Leaves \cup Composites(Leaves))
    BY DEF Flat
  <2> QED BY <1>7, <2>1
<1> HIDE DEF P
<1>12. \A m \in N1 : m \in N0 \/ m \in P \X Low
  BY <1>2, <1>6, <1>8, <1>9
<1>13. \A m \in N2 : m \in N1 \/ m \in P \X Flat
  <2> SUFFICES ASSUME NEW m \in N2, m \notin N1 PROVE m \in P \X Flat
    OBVIOUS
  <2>1. PICK node \in N1 : m \in Range(Kids(node))
    BY <1>3, <1>6
  <2>2. node \notin N0
    BY <1>2, <1>6, <2>1
  <2> QED BY <1>10, <1>12, <2>1, <2>2
<1>14. \A m \in N3 : m \in N2 \/ m \in P \X Leaves
  <2> SUFFICES ASSUME NEW m \in N3, m \notin N2 PROVE m \in P \X Leaves
    OBVIOUS
  <2>1. PICK node \in N2 : m \in Range(Kids(node))
    BY <1>4, <1>6
  <2>2. node \notin N1
    BY <1>3, <1>6, <2>1
  <2> QED BY <1>11, <1>13, <2>1, <2>2
<1>15. P \X Leaves \subseteq P \X Trees /\ P \X Flat \subseteq P \X Trees /\ P \X Low \subseteq P \X Trees
  BY TreeSets
<1>16. N3 \subseteq P \X Trees
  BY <1>8, <1>12, <1>13, <1>14, <1>15
<1>17. ASSUME NEW node \in N3 PROVE Range(Kids(node)) \subseteq N3
  <2>1. CASE node \in N2
    BY <1>4, <1>6, <2>1
  <2>2. CASE node \in P \X Leaves
    BY <2>2, LeafKids
  <2> QED BY <1>14, <2>1, <2>2
<1>18. RootOf(tree) \in N3
  BY <1>1, <1>2, <1>3, <1>4, <1>6
<1> QED BY <1>5, <1>16, <1>17, <1>18 DEF P

\* A document is closed under children.
LEMMA DocumentClosed ==
  ASSUME NEW tree \in Trees
  PROVE  /\ Closed(Document(tree)) /\ DOMAIN Document(tree) = NodesOf(tree)
         /\ \A node \in NodesOf(tree) :
              Document(tree)[node] = IF node[2].type = "comp" THEN [node[2] EXCEPT !.children = Kids(node)]
                                     ELSE node[2]
<1>1. /\ DOMAIN Document(tree) = NodesOf(tree)
      /\ \A node \in NodesOf(tree) :
           Document(tree)[node] = IF node[2].type = "comp" THEN [node[2] EXCEPT !.children = Kids(node)]
                                  ELSE node[2]
  BY DEF Document
<1>2. ASSUME NEW n \in NodesOf(tree), Document(tree)[n].type = "comp",
             NEW i \in DOMAIN Document(tree)[n].children
      PROVE  Document(tree)[n].children[i] \in NodesOf(tree)
  <2>1. n \in Seq(Nat) \X Trees /\ Range(Kids(n)) \subseteq NodesOf(tree)
    BY NodesOfTree
  <2>2. PICK S : n[2] \in Leaves \cup Composites(S)
    BY <2>1 DEF Trees, Low, Flat
  <2>3. n[2] \in Composites(S)
    BY <1>1, <1>2, <2>2, TreeSets
  <2>4. Document(tree)[n].children = Kids(n)
    BY <1>1, <2>3 DEF Composites
  <2> QED BY <2>1, <2>4 DEF Range
<1> QED BY <1>1, <1>2 DEF Closed

\* The results of the evaluation of a tree's document, node by node.
Results(tree, context, r) ==
  \A at \in Visits(Document(tree)) : r[at] = EvalStep(Document(tree), context, r, at)

\* A leaf has the result of its evaluator.
LEMMA LeafNode ==
  ASSUME NEW tree \in Trees, NEW context, NEW r, Results(tree, context, r),
         NEW node \in NodesOf(tree), node[2] \in Leaves, NEW d \in 0 .. MaxEvalDepth
  PROVE  r[<<node, d>>] = eval(decodeEvaluatorNode(node[2]), context)
<1> DEFINE doc == Document(tree)
<1>1. doc[node] = node[2] /\ <<node, d>> \in Visits(doc) /\ node[2].type = "eval"
  <2>1. node[2].type = "eval"
    BY TreeSets
  <2>2. doc[node] = node[2]
    BY <2>1, DocumentClosed
  <2>3. d \in 0 .. MaxEvalDepth + 1
    BY DepthAssumption
  <2> QED BY <2>1, <2>2, <2>3, DocumentClosed DEF Visits
<1>2. Decoded(doc, <<node, d>>) = decodeEvaluatorNode(node[2])
  BY <1>1, DepthAssumption DEF Decoded, decodeNodeWrap
<1>3. r[<<node, d>>] = EvalStep(doc, context, r, <<node, d>>)
  BY <1>1 DEF Results
<1> QED BY <1>2, <1>3, LeafChildren DEF EvalStep, resultOf

\* A composite has the AND or the OR of the results of its kids one level down.
LEMMA CompositeNodeResult ==
  ASSUME NEW tree \in Trees, NEW context, NEW r, Results(tree, context, r),
         NEW S \in SUBSET Trees, NEW node \in NodesOf(tree), node[2] \in Composites(S),
         NEW d \in 0 .. MaxEvalDepth,
         \A i \in DOMAIN Kids(node) : r[<<Kids(node)[i], d + 1>>] \in Truths
  PROVE  /\ r[<<node, d>>] \in Truths
         /\ r[<<node, d>>] = "TRUE" <=>
              IF node[2].op = "AND" THEN \A i \in DOMAIN Kids(node) : r[<<Kids(node)[i], d + 1>>] = "TRUE"
              ELSE \E i \in DOMAIN Kids(node) : r[<<Kids(node)[i], d + 1>>] = "TRUE"
<1> DEFINE doc == Document(tree)
<1>1. node \in Seq(Nat) \X Trees
  BY NodesOfTree
<1>2. node \in Seq(Nat) \X Composites(S)
  BY <1>1
<1>3. PICK n \in Nat : Kids(node) \in Seq(Seq(Nat) \X S) /\ DOMAIN Kids(node) = 1 .. n
  <2>1. Kids(node) \in Seq(Seq(Nat) \X S)
    BY <1>2, KidsOf
  <2> QED BY <2>1, LenProperties
<1>4. Kids(node) # NULL
  <2>1. Kids(node) \in [1 .. n -> Seq(Nat) \X Trees]
    BY <1>3
  <2>2. Kids(node) \in Seq(Seq(Nat) \X Trees)
    BY <2>1, IsList
  <2> QED BY <2>2, AbsentAssumption
<1>5. PICK w : w = doc[node]
  OBVIOUS
<1>6. /\ <<node, d>> \in Visits(doc) /\ w.type = "comp" /\ w.op = node[2].op
      /\ w.children = Kids(node) /\ node[2].op \in {"AND", "OR"}
  <2>1. node[2].type = "comp" /\ node[2].op \in {"AND", "OR"}
    BY TreeSets
  <2>2. w = [node[2] EXCEPT !.children = Kids(node)]
    BY <1>5, <2>1, DocumentClosed
  <2>3. w.type = "comp" /\ w.op = node[2].op /\ w.children = Kids(node)
    BY <2>1, <2>2 DEF Composites
  <2>4. <<node, d>> \in Visits(doc)
    BY DocumentClosed, DepthAssumption DEF Visits
  <2> QED BY <2>1, <2>3, <2>4
<1>7. PICK c : c = Decoded(doc, <<node, d>>)
  OBVIOUS
<1>8. c.op = node[2].op /\ c.children = Kids(node)
  <2>1. c = decodeComposite(w)
    BY <1>5, <1>6, <1>7, DepthAssumption DEF Decoded, decodeNodeWrap
  <2>2. c = Composite(w.op, w.children)
    BY <1>4, <1>6, <2>1 DEF decodeComposite
  <2> QED BY <1>6, <2>2 DEF Composite, AlwaysAbstain, StringLeaf, Leaf
<1>9. PICK results : results = [i \in 1 .. n |-> r[<<Kids(node)[i], d + 1>>]]
  OBVIOUS
<1>10. results \in Seq(Truths) /\ DOMAIN results = 1 .. n
  <2>1. results \in [1 .. n -> Truths]
    BY <1>3, <1>9
  <2> QED BY <2>1, IsList
<1>11. r[<<node, d>>] = resultOf(c, results, context)
  <2>1. r[<<node, d>>] = EvalStep(doc, context, r, <<node, d>>)
    BY <1>6 DEF Results
  <2>2. ChildResults(doc, r, <<node, d>>) = results
    BY <1>3, <1>7, <1>8, <1>9 DEF ChildResults
  <2> QED BY <1>7, <2>1, <2>2 DEF EvalStep
<1>12. Range(results) = {r[<<Kids(node)[i], d + 1>>] : i \in 1 .. n}
  BY <1>9 DEF Range
<1>13. Range(results) \subseteq Truths
  BY <1>10 DEF Range
<1>14. CASE node[2].op = "AND"
  <2>1. r[<<node, d>>] = AndSet(Range(results))
    BY <1>8, <1>10, <1>11, <1>14, AndOfAll DEF resultOf
  <2>2. AndSet(Range(results)) \in Truths
    BY DEF AndSet, Truths
  <2>3. AndSet(Range(results)) = "TRUE" <=> \A x \in Range(results) : x = "TRUE"
    BY <1>13 DEF AndSet, Truths
  <2>4. (\A x \in Range(results) : x = "TRUE") <=> \A i \in 1 .. n : r[<<Kids(node)[i], d + 1>>] = "TRUE"
    BY <1>12
  <2> QED BY <1>3, <1>14, <2>1, <2>2, <2>3, <2>4
<1>15. CASE node[2].op = "OR"
  <2>1. r[<<node, d>>] = OrSet(Range(results))
    BY <1>8, <1>10, <1>11, <1>15, OrOfAll DEF resultOf
  <2>2. OrSet(Range(results)) \in Truths
    BY DEF OrSet, Truths
  <2>3. OrSet(Range(results)) = "TRUE" <=> \E x \in Range(results) : x = "TRUE"
    BY DEF OrSet
  <2>4. (\E x \in Range(results) : x = "TRUE") <=> \E i \in 1 .. n : r[<<Kids(node)[i], d + 1>>] = "TRUE"
    BY <1>12
  <2> QED BY <1>3, <1>15, <2>1, <2>2, <2>3, <2>4
<1> QED BY <1>6, <1>14, <1>15

\* The nodes with a tree in S have its result at a depth: TRUE if it is one of these.
Agree(tree, r, S, true, d) ==
  \A n \in NodesOf(tree) :
    n[2] \in S => r[<<n, d>>] \in Truths /\ (r[<<n, d>>] = "TRUE" <=> n[2] \in true)

\* The results at one level make those of the composites at the level above.
LEMMA LevelUp ==
  ASSUME NEW tree \in Trees, NEW context, NEW r, Results(tree, context, r), NEW d \in 0 .. MaxEvalDepth,
         NEW S \in SUBSET Trees, NEW true, Agree(tree, r, S, true, d + 1)
  PROVE  Agree(tree, r, Composites(S), TrueComposites(S, true), d)
<1> SUFFICES ASSUME NEW node \in NodesOf(tree), node[2] \in Composites(S)
             PROVE  /\ r[<<node, d>>] \in Truths
                    /\ r[<<node, d>>] = "TRUE" <=> node[2] \in TrueComposites(S, true)
  BY DEF Agree
<1>1. node \in Seq(Nat) \X Composites(S)
  <2>1. node \in Seq(Nat) \X Trees
    BY NodesOfTree
  <2> QED BY <2>1
<1>2. /\ Kids(node) \in Seq(Seq(Nat) \X S) /\ DOMAIN Kids(node) = DOMAIN node[2].children
      /\ \A i \in DOMAIN Kids(node) : Kids(node)[i] = <<Append(node[1], i), node[2].children[i]>>
  BY <1>1, KidsOf
<1>3. \A i \in DOMAIN Kids(node) : /\ Kids(node)[i] \in NodesOf(tree) /\ Kids(node)[i][2] \in S
                                   /\ Kids(node)[i][2] = node[2].children[i]
  <2> SUFFICES ASSUME NEW i \in DOMAIN Kids(node)
               PROVE  /\ Kids(node)[i] \in NodesOf(tree) /\ Kids(node)[i][2] \in S
                      /\ Kids(node)[i][2] = node[2].children[i]
    OBVIOUS
  <2>1. Kids(node)[i] \in NodesOf(tree)
    BY NodesOfTree DEF Range
  <2>2. Kids(node)[i] \in Seq(Nat) \X S
    BY <1>2
  <2> QED BY <1>2, <2>1, <2>2
<1>4. \A i \in DOMAIN Kids(node) :
        /\ r[<<Kids(node)[i], d + 1>>] \in Truths
        /\ r[<<Kids(node)[i], d + 1>>] = "TRUE" <=> node[2].children[i] \in true
  BY <1>3 DEF Agree
<1>5. node[2] \in TrueComposites(S, true) <=>
        IF node[2].op = "AND" THEN \A i \in DOMAIN node[2].children : node[2].children[i] \in true
        ELSE \E i \in DOMAIN node[2].children : node[2].children[i] \in true
  BY DEF TrueComposites, Range
<1>6. /\ r[<<node, d>>] \in Truths
      /\ r[<<node, d>>] = "TRUE" <=>
           IF node[2].op = "AND" THEN \A i \in DOMAIN Kids(node) : r[<<Kids(node)[i], d + 1>>] = "TRUE"
           ELSE \E i \in DOMAIN Kids(node) : r[<<Kids(node)[i], d + 1>>] = "TRUE"
  BY <1>4, CompositeNodeResult
<1> QED BY <1>2, <1>4, <1>5, <1>6

\* And those of all the trees of the level above, which are leaves or composites.
LEMMA NextLevel ==
  ASSUME NEW tree \in Trees, NEW context, NEW r, Results(tree, context, r), NEW k \in 0 .. 2,
         NEW S \in SUBSET Trees, NEW true \in SUBSET S, \A d \in 0 .. k + 1 : Agree(tree, r, S, true, d),
         NEW next, next = true \cup TrueComposites(S, true), \A t \in S : t \in next <=> t \in true
  PROVE  \A d \in 0 .. k : Agree(tree, r, S \cup Composites(S), next, d)
<1> SUFFICES ASSUME NEW d \in 0 .. k
             PROVE  Agree(tree, r, S \cup Composites(S), next, d)
  OBVIOUS
<1>1. d \in 0 .. MaxEvalDepth /\ d \in 0 .. k + 1 /\ d + 1 \in 0 .. k + 1
  BY DepthAssumption
<1>2. Agree(tree, r, Composites(S), TrueComposites(S, true), d)
  BY <1>1, LevelUp
<1>3. Agree(tree, r, S, true, d)
  BY <1>1
<1> QED BY <1>2, <1>3 DEF Agree

\* A tree is TRUE as a tree of a higher level if it is one at its own.
LEMMA TrueSets ==
  ASSUME NEW p
  PROVE  /\ \A t \in Leaves : t \in TrueFlat(p) <=> t \in TrueLeaves(p)
         /\ \A t \in Flat : t \in TrueLow(p) <=> t \in TrueFlat(p)
         /\ \A t \in Low : t \in TrueTrees(p) <=> t \in TrueLow(p)
         /\ \A t \in Composites(Low) : t \in TrueTrees(p) <=> t \in TrueComposites(Low, TrueLow(p))
<1>1. ASSUME NEW S0, NEW S \in SUBSET S0, NEW true0, NEW true,
             \A t \in S : t \in true0 <=> t \in true
      PROVE  \A t \in Composites(S) : t \in TrueComposites(S, true0) <=> t \in TrueComposites(S0, true)
  <2> SUFFICES ASSUME NEW t \in Composites(S)
               PROVE  t \in TrueComposites(S, true0) <=> t \in TrueComposites(S0, true)
    OBVIOUS
  <2>1. t.children \in Seq(S) /\ t.type = "comp" /\ t.op \in {"AND", "OR"}
    BY TreeSets
  <2>2. t \in Composites(S0)
    <3>1. t.children \in Seq(S0)
      BY <2>1
    <3> QED BY <2>1, <3>1 DEF Composites
  <2>3. Range(t.children) \subseteq S
    BY <2>1 DEF Range
  <2>4. /\ Range(t.children) \subseteq true0 <=> Range(t.children) \subseteq true
        /\ Range(t.children) \cap true0 # {} <=> Range(t.children) \cap true # {}
    BY <1>1, <2>3
  <2> QED BY <2>2, <2>4 DEF TrueComposites
<1>2. \A S, true : \A t \in Leaves : t \notin TrueComposites(S, true) /\ t \notin Composites(S)
  BY TreeSets DEF TrueComposites
<1>3. \A t \in Leaves : t \in TrueFlat(p) <=> t \in TrueLeaves(p)
  BY <1>2 DEF TrueFlat
<1>4. \A t \in Leaves : t \in TrueLow(p) <=> t \in TrueFlat(p)
  BY <1>2 DEF TrueLow
<1>5. \A S, true : TrueComposites(S, true) \subseteq Composites(S)
  BY DEF TrueComposites
<1>6. TrueLeaves(p) \subseteq Leaves
  BY DEF TrueLeaves
<1>7. \A t \in Composites(Leaves) : t \in TrueComposites(Leaves, TrueLeaves(p)) <=> t \in TrueComposites(Flat, TrueFlat(p))
  BY <1>1, <1>3, TreeSets
<1>8. \A t \in Flat : t \in TrueLow(p) <=> t \in TrueFlat(p)
  BY <1>2, <1>4, <1>7, TreeSets DEF TrueLow, TrueFlat, Flat
<1>9. \A t \in Composites(Flat) : t \in TrueComposites(Flat, TrueFlat(p)) <=> t \in TrueComposites(Low, TrueLow(p))
  BY <1>1, <1>8, TreeSets
<1>10. \A t \in Composites(Leaves) : t \in Composites(Flat)
  <2>1. Seq(Leaves) \subseteq Seq(Flat)
    BY TreeSets
  <2> QED BY <2>1 DEF Composites
<1>11. \A t \in Low : t \in TrueTrees(p) <=> t \in TrueLow(p)
  BY <1>2, <1>9, <1>10, TreeSets DEF TrueTrees, TrueLow, Low, Flat
<1>12. \A t \in Composites(Low) : t \in TrueTrees(p) <=> t \in TrueComposites(Low, TrueLow(p))
  <2> SUFFICES ASSUME NEW t \in Composites(Low), t \in TrueLow(p) PROVE t \in TrueComposites(Low, TrueLow(p))
    BY DEF TrueTrees
  <2>1. t \notin TrueLeaves(p)
    BY <1>2, <1>6
  <2>2. t \in TrueComposites(Leaves, TrueLeaves(p)) => t \in TrueComposites(Flat, TrueFlat(p))
    BY <1>5, <1>7
  <2>3. t \in TrueComposites(Flat, TrueFlat(p)) => t \in TrueComposites(Low, TrueLow(p))
    BY <1>5, <1>9
  <2> QED BY <2>1, <2>2, <2>3 DEF TrueLow, TrueFlat
<1> QED BY <1>3, <1>8, <1>11, <1>12

\* A process is denied exactly if the tree is TRUE for it.
LEMMA TreeResult ==
  ASSUME NEW p, NEW tree \in Trees
  PROVE  Denied(tree, p) <=> tree \in TrueTrees(p)
<1>1. PICK r : /\ \A root : Evaluate(Document(tree), root, Context(p)) = r[<<root, 0>>]
               /\ Results(tree, Context(p), r)
  BY EvaluateEquation, DocumentClosed, DepthAssumption DEF Results
<1>2. Leaves \in SUBSET Trees /\ Flat \in SUBSET Trees /\ Low \in SUBSET Trees
  BY TreeSets
<1>3. TrueLeaves(p) \in SUBSET Leaves /\ TrueFlat(p) \in SUBSET Flat /\ TrueLow(p) \in SUBSET Low
  <2>1. \A S, true : TrueComposites(S, true) \subseteq Composites(S)
    BY DEF TrueComposites
  <2> QED BY <2>1 DEF TrueLeaves, TrueFlat, TrueLow, Flat, Low
<1>4. \A d \in 0 .. 2 + 1 : Agree(tree, r, Leaves, TrueLeaves(p), d)
  <2> SUFFICES ASSUME NEW d \in 0 .. 2 + 1, NEW n \in NodesOf(tree), n[2] \in Leaves
               PROVE  r[<<n, d>>] \in Truths /\ (r[<<n, d>>] = "TRUE" <=> n[2] \in TrueLeaves(p))
    BY DEF Agree
  <2>1. d \in 0 .. MaxEvalDepth
    BY DepthAssumption
  <2>2. r[<<n, d>>] = eval(decodeEvaluatorNode(n[2]), Context(p))
    BY <1>1, <2>1, LeafNode
  <2> QED BY <2>2, LeafResult DEF TrueLeaves
<1>5. \A d \in 0 .. 1 + 1 : Agree(tree, r, Flat, TrueFlat(p), d)
  <2>1. 2 = 1 + 1 /\ 2 \in 0 .. 2
    OBVIOUS
  <2> QED BY <1>1, <1>2, <1>3, <1>4, <2>1, TrueSets, NextLevel DEF TrueFlat, Flat
<1>6. \A d \in 0 .. 0 + 1 : Agree(tree, r, Low, TrueLow(p), d)
  <2>1. 1 = 0 + 1 /\ 1 \in 0 .. 2
    OBVIOUS
  <2> QED BY <1>1, <1>2, <1>3, <1>5, <2>1, TrueSets, NextLevel DEF TrueLow, Low
<1>7. \A d \in 0 .. 0 : Agree(tree, r, Trees, TrueTrees(p), d)
  <2>1. 0 \in 0 .. 2
    OBVIOUS
  <2> QED BY <1>1, <1>2, <1>3, <1>6, <2>1, TrueSets, NextLevel DEF TrueTrees, Trees
<1>8. RootOf(tree) \in NodesOf(tree) /\ RootOf(tree)[2] = tree
  BY NodesOfTree DEF RootOf
<1>9. Agree(tree, r, Trees, TrueTrees(p), 0)
  BY <1>7, 0 \in 0 .. 0
<1> QED BY <1>1, <1>8, <1>9 DEF Agree, Denied

\* A policy that is a leaf denies if its evaluator is TRUE.
LEMMA LeafDenied ==
  ASSUME NEW p, NEW t \in Leaves
  PROVE  Denied(t, p) <=> eval(decodeEvaluatorNode(t), Context(p)) = "TRUE"
<1>1. t \in Flat /\ t \in Low /\ t \in Trees
  BY TreeSets
<1>2. t \in TrueTrees(p) <=> t \in TrueLeaves(p)
  BY <1>1, TrueSets
<1> QED BY <1>1, <1>2, TreeResult DEF TrueLeaves

\* A policy that is a composite denies if all its parts, or if some of them would deny.
LEMMA CompositeDenied ==
  ASSUME NEW p, NEW nodes \in Seq(Low), NEW o \in {"AND", "OR"}
  PROVE  Denied(CompositeNode(o, nodes), p) <=>
           IF o = "AND" THEN \A i \in DOMAIN nodes : Denied(nodes[i], p)
           ELSE \E i \in DOMAIN nodes : Denied(nodes[i], p)
<1>1. PICK t : t = CompositeNode(o, nodes)
  OBVIOUS
<1>2. t \in Composites(Low) /\ t.op = o /\ t.children = nodes
  BY <1>1 DEF CompositeNode, Composites
<1>3. t \in Trees
  BY <1>2 DEF Trees
<1>4. t \in TrueTrees(p) <=> t \in TrueComposites(Low, TrueLow(p))
  BY <1>2, TrueSets
<1>5. t \in TrueComposites(Low, TrueLow(p)) <=>
        IF o = "AND" THEN \A i \in DOMAIN nodes : nodes[i] \in TrueLow(p)
        ELSE \E i \in DOMAIN nodes : nodes[i] \in TrueLow(p)
  BY <1>2 DEF TrueComposites, Range
<1>6. \A i \in DOMAIN nodes : nodes[i] \in Low
  OBVIOUS
<1>7. \A i \in DOMAIN nodes : nodes[i] \in TrueLow(p) <=> Denied(nodes[i], p)
  BY <1>6, TrueSets, TreeSets, TreeResult
<1> QED BY <1>1, <1>3, <1>4, <1>5, <1>7, TreeResult

\* So does what is combined of one or more.
LEMMA CombinedDenied ==
  ASSUME NEW p, NEW nodes \in Seq(Low), nodes # << >>, NEW o \in {"AND", "OR"}
  PROVE  Denied(Combined(o, nodes), p) <=>
           IF o = "AND" THEN \A i \in DOMAIN nodes : Denied(nodes[i], p)
           ELSE \E i \in DOMAIN nodes : Denied(nodes[i], p)
<1>1. CASE Len(nodes) = 1
  <2>1. DOMAIN nodes = {1} /\ Combined(o, nodes) = nodes[1]
    BY <1>1 DEF Combined
  <2> QED BY <2>1
<1>2. CASE Len(nodes) # 1
  BY <1>2, CompositeDenied DEF Combined
<1> QED BY <1>1, <1>2

\* The trees that are made of one or more trees of a level.
LEMMA CombinedTypes ==
  ASSUME NEW S, NEW nodes \in Seq(S), NEW o \in {"AND", "OR"}
  PROVE  /\ CompositeNode(o, nodes) \in Composites(S)
         /\ nodes # << >> => Combined(o, nodes) \in S \cup Composites(S)
<1>1. CompositeNode(o, nodes) \in Composites(S)
  BY DEF CompositeNode, Composites
<1>2. ASSUME nodes # << >>, Len(nodes) = 1 PROVE nodes[1] \in S
  BY <1>2
<1> QED BY <1>1, <1>2 DEF Combined

-----------------------------------------------------------------------------
(* Leaves *)

\* Every position has an id of its own, which no other evaluator has.
LEMMA PositionIds ==
  \A k \in -6 .. 5 :
    /\ ArgvIds[k] \notin {"OS", "PROCESS_EXE_FULL_PATH", "LIBC_FLAVOR", "MACHINE_ARCHITECTURE"}
    /\ ArgvIds[k] \notin AlwaysIds
    /\ ArgvIds[k] # "PROCESS_ARGV"
    /\ \A m \in -6 .. 5 : ArgvIds[m] = ArgvIds[k] => m = k
<1>1. /\ ArgvIds[-6] = "PROCESS_ARGV_N_6" /\ ArgvIds[-5] = "PROCESS_ARGV_N_5"
      /\ ArgvIds[-4] = "PROCESS_ARGV_N_4" /\ ArgvIds[-3] = "PROCESS_ARGV_N_3"
      /\ ArgvIds[-2] = "PROCESS_ARGV_N_2" /\ ArgvIds[-1] = "PROCESS_ARGV_N"
      /\ ArgvIds[0] = "PROCESS_ARGV_0" /\ ArgvIds[1] = "PROCESS_ARGV_1"
      /\ ArgvIds[2] = "PROCESS_ARGV_2" /\ ArgvIds[3] = "PROCESS_ARGV_3"
      /\ ArgvIds[4] = "PROCESS_ARGV_4" /\ ArgvIds[5] = "PROCESS_ARGV_5"
  BY DEF ArgvIds
<1>2. \A k \in -6 .. 5 : k \in {-6, -5, -4, -3, -2, -1, 0, 1, 2, 3, 4, 5}
  OBVIOUS
<1> QED BY <1>1, <1>2 DEF AlwaysIds

\* The comparison of one fact of a process.
LEMMA StringLeafDenied ==
  ASSUME NEW p, NEW i \in StringIds, NEW v \in Values, NEW c \in {"EXACT", "WILDCARD"}
  PROVE  /\ StrEvaluator(i, v, c) \in Leaves
         /\ Denied(StrEvaluator(i, v, c), p) <=>
              i \in DOMAIN StringFacts(p) /\ StrCompare(c, v, StringFacts(p)[i])
<1> DEFINE e == StrEvaluator(i, v, c)
<1>1. i \notin AlwaysIds
  BY PositionIds DEF StringIds, AlwaysIds
<1>2. e \in Leaves
  BY DEF StrEvaluator, Leaves
<1>3. v # NULL /\ v # Omitted /\ c \in StrCmps /\ i \notin LabelIds /\ i \notin ListIds
  BY AbsentAssumption, IdsAssumption
<1>4. decodeEvaluatorNode(e) = StringLeaf(i, c, v)
  BY <1>1, <1>3 DEF decodeEvaluatorNode, decodeStrEval, StrEvaluator
<1>5. Context(p).strings = StringFacts(p)
  BY DEF Context
<1>6. eval(StringLeaf(i, c, v), Context(p)) =
        IF i \notin DOMAIN StringFacts(p) THEN "ABSTAIN" ELSE boolToResult(StrCompare(c, v, StringFacts(p)[i]))
  BY <1>1, <1>3, <1>5 DEF eval, evalString, StringLeaf, Leaf
<1> QED BY <1>2, <1>4, <1>6, LeafDenied DEF boolToResult

\* The comparison of a list of facts: some of them has to fit.
LEMMA ListLeafDenied ==
  ASSUME NEW p, NEW i \in ListNames, NEW v \in Values,
         NEW c \in {"EXACT", "WILDCARD"}, NEW facts, facts = Context(p).lists[i]
  PROVE  /\ StrEvaluator(i, v, c) \in Leaves
         /\ Denied(StrEvaluator(i, v, c), p) <=> \E j \in DOMAIN facts : StrCompare(c, v, facts[j])
<1> DEFINE e == StrEvaluator(i, v, c)
<1>1. i \notin AlwaysIds
  BY DEF AlwaysIds, ListNames
<1>2. e \in Leaves
  BY DEF StrEvaluator, Leaves
<1>3. v # NULL /\ v # Omitted /\ c \in StrCmps /\ i \notin LabelIds /\ i \in ListIds
  BY AbsentAssumption, IdsAssumption
<1>4. decodeEvaluatorNode(e) = StringLeaf(i, c, v)
  BY <1>1, <1>3 DEF decodeEvaluatorNode, decodeStrEval, StrEvaluator
<1>5. i \in DOMAIN Context(p).lists
  BY DEF Context, ListNames
<1>6. eval(StringLeaf(i, c, v), Context(p)) = boolToResult(\E j \in DOMAIN facts : StrCompare(c, v, facts[j]))
  BY <1>1, <1>3, <1>5 DEF eval, evalString, StringLeaf, Leaf
<1> QED BY <1>2, <1>4, <1>6, LeafDenied DEF boolToResult

\* The comparison of a number of the policy with the process's one.
LEMMA NumLeafDenied ==
  ASSUME NEW p \in Processes, NEW k \in 1 .. 3, NEW i, i = VersionIds[k],
         NEW n \in Int, Number("num", n) = n, NEW c \in {"EQ", "LT", "LTE", "GT"}
  PROVE  /\ NumEvaluator(i, n, c) \in Leaves
         /\ Denied(NumEvaluator(i, n, c), p) <=>
              CASE c = "EQ"  -> n = p.version[k]
                [] c = "LT"  -> n < p.version[k]
                [] c = "LTE" -> n <= p.version[k]
                [] c = "GT"  -> n > p.version[k]
<1> DEFINE e == NumEvaluator(i, n, c)
<1>1. i \in Range(VersionIds)
  BY DEF VersionIds, Range
<1>2. e \in Leaves
  BY <1>1 DEF NumEvaluator, Leaves, Values
<1>3. n # NULL /\ n # Omitted /\ c \in NumCmps
  BY AbsentAssumption, IdsAssumption DEF Values
<1>4. decodeEvaluatorNode(e) = Leaf("num", i, NULL, c, n)
  BY <1>3 DEF decodeEvaluatorNode, decodeNumEval, NumEvaluator
<1>5. i \in DOMAIN Context(p).numbers /\ Context(p).numbers[i] = p.version[k]
  <2>1. k = 1 \/ k = 2 \/ k = 3
    OBVIOUS
  <2> QED BY <2>1 DEF VersionIds, Context
<1>6. p.version[k] \in Int /\ p.version[k] # NumNotSet /\ Number("num", p.version[k]) = p.version[k]
  <2>1. p.version \in [1 .. 3 -> Int] /\ p.version[k] \in Range(p.version) /\ NumNotSet \notin Range(p.version)
    BY ProcessesAssumption DEF Range
  <2> QED BY <2>1, NumbersAssumption
<1>7. eval(Leaf("num", i, NULL, c, n), Context(p)) = compareNumeric(c, n, p.version[k])
  BY <1>5, <1>6 DEF eval, evalNumber, Leaf
<1>8. compareNumeric(c, n, p.version[k]) = "TRUE" <=>
        CASE c = "EQ"  -> n = p.version[k]
          [] c = "LT"  -> n < p.version[k]
          [] c = "LTE" -> n <= p.version[k]
          [] c = "GT"  -> n > p.version[k]
  BY <1>6 DEF compareNumeric, boolToResult
<1> QED BY <1>2, <1>4, <1>7, <1>8, LeafDenied

-----------------------------------------------------------------------------
(* The policies of the libc rules *)

\* The facts that are there for every process.
LEMMA NamedFacts ==
  ASSUME NEW p
  PROVE  /\ {"OS", "PROCESS_EXE_FULL_PATH", "LIBC_FLAVOR", "MACHINE_ARCHITECTURE"} \subseteq DOMAIN StringFacts(p)
         /\ StringFacts(p)["OS"] = p.os /\ StringFacts(p)["PROCESS_EXE_FULL_PATH"] = p.exe
         /\ StringFacts(p)["LIBC_FLAVOR"] = p.libc /\ StringFacts(p)["MACHINE_ARCHITECTURE"] = p.arch
<1>1. PICK named : named = [OS |-> p.os, PROCESS_EXE_FULL_PATH |-> p.exe, LIBC_FLAVOR |-> p.libc,
                            MACHINE_ARCHITECTURE |-> p.arch]
  OBVIOUS
<1>2. DOMAIN named = {"OS", "PROCESS_EXE_FULL_PATH", "LIBC_FLAVOR", "MACHINE_ARCHITECTURE"}
  BY <1>1
<1>3. StringFacts(p) = [i \in DOMAIN named \cup DOMAIN ArgvFacts(p.argv) |->
                          IF i \in DOMAIN named THEN named[i] ELSE ArgvFacts(p.argv)[i]]
  BY <1>1 DEF StringFacts
<1>4. \A i \in DOMAIN named : i \in DOMAIN StringFacts(p) /\ StringFacts(p)[i] = named[i]
  BY <1>3
<1> QED BY <1>1, <1>2, <1>4

\* What an evaluator is made of.
LEMMA LeafTypes ==
  /\ \A i \in StringIds \cup ListNames, v \in Values, c \in {"EXACT", "WILDCARD"} :
       StrEvaluator(i, v, c) \in Leaves
  /\ \A i \in Range(VersionIds), n \in Int, c \in {"EQ", "LT", "LTE", "GT"} : NumEvaluator(i, n, c) \in Leaves
  BY DEF StrEvaluator, NumEvaluator, Leaves, Values

\* A name that a policy asks for is compared with a process's one.
LEMMA NameDenied ==
  ASSUME NEW p \in Processes, NEW i \in {"OS", "LIBC_FLAVOR", "MACHINE_ARCHITECTURE"}, NEW name \in Names
  PROVE  /\ StrEvaluator(i, name, "EXACT") \in Leaves
         /\ Denied(StrEvaluator(i, name, "EXACT"), p) <=>
              name = CASE i = "OS" -> p.os [] i = "LIBC_FLAVOR" -> p.libc [] i = "MACHINE_ARCHITECTURE" -> p.arch
<1>1. i \in StringIds /\ name \in Values
  BY DEF StringIds, Values
<1>2. PICK fact \in {p.os, p.arch, p.libc} :
        /\ StringFacts(p)[i] = fact /\ i \in DOMAIN StringFacts(p)
        /\ fact = CASE i = "OS" -> p.os [] i = "LIBC_FLAVOR" -> p.libc [] i = "MACHINE_ARCHITECTURE" -> p.arch
  BY NamedFacts
<1>3. StrCompare("EXACT", name, fact) <=> name = fact
  BY NamesAssumption
<1> QED BY <1>1, <1>2, <1>3, StringLeafDenied

\* A version precedes another if it is smaller where they first differ.
LEMMA PrecedesCases ==
  ASSUME NEW v, NEW w
  PROVE  Precedes(v, w) <=>
           \/ Component(v, 1) < Component(w, 1)
           \/ Component(v, 1) = Component(w, 1) /\ Component(v, 2) < Component(w, 2)
           \/ /\ Component(v, 1) = Component(w, 1) /\ Component(v, 2) = Component(w, 2)
              /\ Component(v, 3) < Component(w, 3)
<1> DEFINE At(k) == /\ Component(v, k) < Component(w, k)
                    /\ \A j \in 1 .. k - 1 : Component(v, j) = Component(w, j)
<1>1. Precedes(v, w) <=> \E k \in 1 .. 3 : At(k)
  BY DEF Precedes
<1>2. (\E k \in 1 .. 3 : At(k)) <=> At(1) \/ At(2) \/ At(3)
  <2> HIDE DEF At
  <2>1. \A k \in 1 .. 3 : k \in {1, 2, 3}
    OBVIOUS
  <2>2. 1 \in 1 .. 3 /\ 2 \in 1 .. 3 /\ 3 \in 1 .. 3
    OBVIOUS
  <2> QED BY <2>1, <2>2
<1>3. 1 .. (1 - 1) = {} /\ 1 .. (2 - 1) = {1} /\ 1 .. (3 - 1) = {1, 2}
  OBVIOUS
<1> QED BY <1>1, <1>2, <1>3

\* The tree of a version has a level more than its leaves' composites.
LEMMA VersionTyped ==
  ASSUME NEW v \in Seq(Nat), Len(v) >= 2, NEW differs \in {"LT", "GT"}, NEW patch \in {"LT", "LTE", "GT"}
  PROVE  VersionTree(v, differs, patch) \in Low
<1> DEFINE Major(c) == NumEvaluator("LIBC_VERSION_MAJOR", v[1], c)
           Minor(c) == NumEvaluator("LIBC_VERSION_MINOR", v[2], c)
           Patch(c) == NumEvaluator("LIBC_VERSION_PATCH", IF Len(v) > 2 THEN v[3] ELSE 0, c)
<1>1. v[1] \in Int /\ v[2] \in Int /\ (IF Len(v) > 2 THEN v[3] ELSE 0) \in Int
  BY LenProperties
<1>2. Range(VersionIds) = {"LIBC_VERSION_MAJOR", "LIBC_VERSION_MINOR", "LIBC_VERSION_PATCH"}
  BY DEF Range, VersionIds
<1>3. \A c \in {"EQ", "LT", "LTE", "GT"} : Major(c) \in Leaves /\ Minor(c) \in Leaves /\ Patch(c) \in Leaves
  BY <1>1, <1>2, LeafTypes
<1> HIDE DEF Major, Minor, Patch
<1>4. Leaves \subseteq Flat /\ Composites(Leaves) \subseteq Flat /\ Composites(Flat) \subseteq Low
  BY TreeSets DEF Flat, Low
<1>5. PICK a1 : a1 = CompositeNode("AND", <<Major("EQ"), Minor(differs)>>)
  OBVIOUS
<1>6. PICK a2 : a2 = CompositeNode("AND", <<Major("EQ"), Minor("EQ"), Patch(patch)>>)
  OBVIOUS
<1>7. a1 \in Flat /\ a2 \in Flat
  <2>1. <<Major("EQ"), Minor(differs)>> \in Seq(Leaves) /\ <<Major("EQ"), Minor("EQ"), Patch(patch)>> \in Seq(Leaves)
    BY <1>3
  <2> QED BY <1>4, <1>5, <1>6, <2>1, CombinedTypes
<1>8. VersionTree(v, differs, patch) = CompositeNode("OR", <<Major(differs), a1, a2>>)
  BY <1>5, <1>6 DEF VersionTree, Major, Minor, Patch
<1>9. <<Major(differs), a1, a2>> \in Seq(Flat)
  BY <1>3, <1>4, <1>7
<1> QED BY <1>4, <1>8, <1>9, CombinedTypes

\* The tree of a version says where the process's version is.
LEMMA VersionDenied ==
  ASSUME NEW p \in Processes, NEW v \in Seq(Nat), Len(v) >= 2,
         \A k \in DOMAIN v : Number("num", v[k]) = v[k],
         NEW differs \in {"LT", "GT"}, NEW patch \in {"LT", "LTE", "GT"}
  PROVE  /\ differs = "GT" /\ patch = "GT" =>
              (Denied(VersionTree(v, differs, patch), p) <=> Precedes(p.version, v))
         /\ differs = "LT" /\ patch = "LTE" =>
              (Denied(VersionTree(v, differs, patch), p) <=> ~Precedes(p.version, v))
<1> DEFINE Major(c) == NumEvaluator("LIBC_VERSION_MAJOR", v[1], c)
           Minor(c) == NumEvaluator("LIBC_VERSION_MINOR", v[2], c)
           Patch(c) == NumEvaluator("LIBC_VERSION_PATCH", IF Len(v) > 2 THEN v[3] ELSE 0, c)
           w == p.version
<1>1. PICK z : z = IF Len(v) > 2 THEN v[3] ELSE 0
  OBVIOUS
<1>2. /\ v[1] \in Int /\ v[2] \in Int /\ z \in Int
      /\ Number("num", v[1]) = v[1] /\ Number("num", v[2]) = v[2] /\ Number("num", z) = z
  <2>1. Number("num", 0) = 0
    BY NumbersAssumption
  <2>2. DOMAIN v = 1 .. Len(v) /\ Len(v) \in Nat
    OBVIOUS
  <2> QED BY <1>1, <2>1, <2>2
<1>3. w[1] \in Int /\ w[2] \in Int /\ w[3] \in Int
  BY ProcessesAssumption
<1>4. /\ Component(v, 1) = v[1] /\ Component(v, 2) = v[2] /\ Component(v, 3) = z
      /\ Component(w, 1) = w[1] /\ Component(w, 2) = w[2] /\ Component(w, 3) = w[3]
  <2>1. w \in [1 .. 3 -> Int]
    BY ProcessesAssumption
  <2>2. w \in Seq(Int) /\ Len(w) = 3
    BY <2>1, LengthOf
  <2>3. Len(v) \in Nat
    OBVIOUS
  <2> QED BY <1>1, <2>2, <2>3 DEF Component
<1>5. /\ VersionIds[1] = "LIBC_VERSION_MAJOR" /\ VersionIds[2] = "LIBC_VERSION_MINOR"
      /\ VersionIds[3] = "LIBC_VERSION_PATCH"
  BY DEF VersionIds
<1>6. ASSUME NEW k \in 1 .. 3, NEW n \in Int, Number("num", n) = n
      PROVE  /\ \A c \in {"EQ", "LT", "LTE", "GT"} : NumEvaluator(VersionIds[k], n, c) \in Leaves
             /\ Denied(NumEvaluator(VersionIds[k], n, "EQ"), p) <=> n = w[k]
             /\ Denied(NumEvaluator(VersionIds[k], n, "LT"), p) <=> n < w[k]
             /\ Denied(NumEvaluator(VersionIds[k], n, "LTE"), p) <=> n <= w[k]
             /\ Denied(NumEvaluator(VersionIds[k], n, "GT"), p) <=> n > w[k]
  BY <1>6, NumLeafDenied
<1>7. /\ \A c \in {"EQ", "LT", "LTE", "GT"} : Major(c) \in Leaves
      /\ Denied(Major("EQ"), p) <=> v[1] = w[1]
      /\ Denied(Major("LT"), p) <=> v[1] < w[1]
      /\ Denied(Major("GT"), p) <=> v[1] > w[1]
  BY <1>2, <1>5, <1>6, 1 \in 1 .. 3
<1>8. /\ \A c \in {"EQ", "LT", "LTE", "GT"} : Minor(c) \in Leaves
      /\ Denied(Minor("EQ"), p) <=> v[2] = w[2]
      /\ Denied(Minor("LT"), p) <=> v[2] < w[2]
      /\ Denied(Minor("GT"), p) <=> v[2] > w[2]
  BY <1>2, <1>5, <1>6, 2 \in 1 .. 3
<1>9. /\ \A c \in {"EQ", "LT", "LTE", "GT"} : Patch(c) \in Leaves
      /\ Denied(Patch("LTE"), p) <=> z <= w[3]
      /\ Denied(Patch("GT"), p) <=> z > w[3]
  BY <1>1, <1>2, <1>5, <1>6, 3 \in 1 .. 3
<1> HIDE DEF Major, Minor, Patch, w
<1>10. PICK a1 : a1 = CompositeNode("AND", <<Major("EQ"), Minor(differs)>>)
  OBVIOUS
<1>11. PICK a2 : a2 = CompositeNode("AND", <<Major("EQ"), Minor("EQ"), Patch(patch)>>)
  OBVIOUS
<1>12. VersionTree(v, differs, patch) = CompositeNode("OR", <<Major(differs), a1, a2>>)
  BY <1>10, <1>11 DEF VersionTree, Major, Minor, Patch
<1>13. Leaves \subseteq Flat /\ Leaves \subseteq Low /\ Composites(Leaves) \subseteq Flat
       /\ Composites(Flat) \subseteq Low /\ Flat \subseteq Low
  BY TreeSets DEF Flat, Low
<1>14. \A x, y \in Leaves : <<x, y>> \in Seq(Leaves) /\ <<x, y>> \in Seq(Low)
  BY <1>13
<1>15. \A x, y, u \in Leaves : <<x, y, u>> \in Seq(Leaves) /\ <<x, y, u>> \in Seq(Low)
  BY <1>13
<1>16. \A x, y, u \in Flat : <<x, y, u>> \in Seq(Flat) /\ <<x, y, u>> \in Seq(Low)
  BY <1>13
<1>17. a1 \in Composites(Leaves) /\ (Denied(a1, p) <=> Denied(Major("EQ"), p) /\ Denied(Minor(differs), p))
  <2>1. PICK nodes : nodes = <<Major("EQ"), Minor(differs)>>
    OBVIOUS
  <2>2. nodes \in Seq(Leaves) /\ nodes \in Seq(Low) /\ DOMAIN nodes = {1, 2}
    BY <1>14, <1>7, <1>8, <2>1
  <2>3. nodes[1] = Major("EQ") /\ nodes[2] = Minor(differs)
    BY <2>1
  <2>4. a1 \in Composites(Leaves)
    BY <1>10, <2>1, <2>2, CombinedTypes
  <2>5. Denied(a1, p) <=> \A i \in DOMAIN nodes : Denied(nodes[i], p)
    BY <1>10, <2>1, <2>2, CompositeDenied
  <2> QED BY <2>2, <2>3, <2>4, <2>5
<1>18. /\ a2 \in Composites(Leaves)
       /\ Denied(a2, p) <=> Denied(Major("EQ"), p) /\ Denied(Minor("EQ"), p) /\ Denied(Patch(patch), p)
  <2>1. PICK nodes : nodes = <<Major("EQ"), Minor("EQ"), Patch(patch)>>
    OBVIOUS
  <2>2. nodes \in Seq(Leaves) /\ nodes \in Seq(Low) /\ DOMAIN nodes = {1, 2, 3}
    BY <1>15, <1>7, <1>8, <1>9, <2>1
  <2>3. nodes[1] = Major("EQ") /\ nodes[2] = Minor("EQ") /\ nodes[3] = Patch(patch)
    BY <2>1
  <2>4. a2 \in Composites(Leaves)
    BY <1>11, <2>1, <2>2, CombinedTypes
  <2>5. Denied(a2, p) <=> \A i \in DOMAIN nodes : Denied(nodes[i], p)
    BY <1>11, <2>1, <2>2, CompositeDenied
  <2> QED BY <2>2, <2>3, <2>4, <2>5
<1>19. /\ VersionTree(v, differs, patch) \in Low
       /\ Denied(VersionTree(v, differs, patch), p) <=> Denied(Major(differs), p) \/ Denied(a1, p) \/ Denied(a2, p)
  <2>1. PICK nodes : nodes = <<Major(differs), a1, a2>>
    OBVIOUS
  <2>2. Major(differs) \in Flat /\ a1 \in Flat /\ a2 \in Flat
    BY <1>13, <1>17, <1>18, <1>7
  <2>3. nodes \in Seq(Flat) /\ nodes \in Seq(Low) /\ DOMAIN nodes = {1, 2, 3}
    BY <1>16, <2>1, <2>2
  <2>4. nodes[1] = Major(differs) /\ nodes[2] = a1 /\ nodes[3] = a2
    BY <2>1
  <2>5. VersionTree(v, differs, patch) \in Composites(Flat)
    <3>1. CompositeNode("OR", nodes) \in Composites(Flat)
      BY <2>3, CombinedTypes
    <3> QED BY <1>12, <2>1, <3>1
  <2>6. Denied(VersionTree(v, differs, patch), p) <=> \E i \in DOMAIN nodes : Denied(nodes[i], p)
    BY <1>12, <2>1, <2>3, CompositeDenied
  <2> QED BY <1>13, <2>3, <2>4, <2>5, <2>6
<1>20. Precedes(w, v) <=> \/ w[1] < v[1]
                          \/ w[1] = v[1] /\ w[2] < v[2]
                          \/ w[1] = v[1] /\ w[2] = v[2] /\ w[3] < z
  BY <1>4, PrecedesCases
<1>21. ASSUME differs = "GT", patch = "GT"
       PROVE  Denied(VersionTree(v, differs, patch), p) <=> Precedes(w, v)
  BY <1>2, <1>3, <1>17, <1>18, <1>19, <1>20, <1>21, <1>7, <1>8, <1>9
<1>22. ASSUME differs = "LT", patch = "LTE"
       PROVE  Denied(VersionTree(v, differs, patch), p) <=> ~Precedes(w, v)
  BY <1>2, <1>3, <1>17, <1>18, <1>19, <1>20, <1>22, <1>7, <1>8, <1>9
<1> QED BY <1>19, <1>21, <1>22 DEF w

\* Two and one are three.
LEMMA PairAndOne ==
  ASSUME NEW S, NEW x \in S, NEW y \in S, NEW z \in S, NEW s, s = <<x, y>>, NEW t, t = <<z>>
  PROVE  s \o t = <<x, y, z>>
<1>1. s \in Seq(S) /\ Len(s) = 2 /\ s[1] = x /\ s[2] = y
  <2>1. s \in [1 .. 2 -> S]
    OBVIOUS
  <2> QED BY <2>1, LengthOf
<1>2. t \in Seq(S) /\ Len(t) = 1 /\ t[1] = z
  <2>1. t \in [1 .. 1 -> S]
    OBVIOUS
  <2> QED BY <2>1, LengthOf
<1>3. PICK u : u = <<x, y, z>>
  OBVIOUS
<1>4. u \in Seq(S) /\ Len(u) = 3 /\ u[1] = x /\ u[2] = y /\ u[3] = z
  <2>1. u \in [1 .. 3 -> S]
    BY <1>3
  <2> QED BY <1>3, <2>1, LengthOf
<1>5. PICK v \in Seq(S) : v = s \o t
  BY <1>1, <1>2, ConcatProperties
<1>6. Len(v) = 3 /\ v[1] = x /\ v[2] = y /\ v[3] = z
  <2>1. /\ Len(v) = Len(s) + Len(t)
        /\ \A i \in 1 .. Len(s) + Len(t) : v[i] = IF i <= Len(s) THEN s[i] ELSE t[i - Len(s)]
    BY <1>1, <1>2, <1>5, ConcatProperties
  <2>2. Len(s) + Len(t) = 3 /\ 1 \in 1 .. 3 /\ 2 \in 1 .. 3 /\ 3 \in 1 .. 3 /\ 3 - 2 = 1
    BY <1>1, <1>2
  <2> QED BY <1>1, <1>2, <2>1, <2>2
<1>7. \A i \in 1 .. 3 : i = 1 \/ i = 2 \/ i = 3
  OBVIOUS
<1>8. u = v
  BY <1>4, <1>5, <1>6, <1>7, SeqEqual
<1> QED BY <1>3, <1>5, <1>8

\* What is assumed of a libc rule of an input.
ProperLibc(l) ==
  /\ l \in JSONlibc
  /\ l.min # NULL => Len(l.min) >= 2 /\ \A k \in DOMAIN l.min : Number("num", l.min[k]) = l.min[k]

\* A libc rule's policies deny the processes that the rule is about.
LEMMA LibcDenied ==
  ASSUME NEW l, ProperLibc(l), NEW flavor \in {"glibc", "musl"},
         NEW trees, trees = ConvertLibc(l, flavor), trees # Error
  PROVE  /\ trees \in Seq(Trees)
         /\ \A p \in Processes : (\E k \in DOMAIN trees : Denied(trees[k], p)) <=> LibcHolds(l, flavor, p)
<1>1. l.supported \in BOOLEAN /\ (l.min # NULL => l.min \in Seq(Nat))
  BY DEF ProperLibc, JSONlibc
<1>2. CASE l.supported /\ l.min = NULL
  <2>1. trees = << >>
    BY <1>2 DEF ConvertLibc
  <2>2. trees \in Seq(Trees) /\ DOMAIN trees = {}
    BY <2>1, NoPlaces, EmptySeq
  <2> QED BY <1>2, <2>2 DEF LibcHolds
<1>3. CASE ~(l.supported /\ l.min = NULL)
  <2> DEFINE name == MachineArchitectures[l.arch]
             archNode == StrEvaluator("MACHINE_ARCHITECTURE", name, "EXACT")
             flavorNode == StrEvaluator("LIBC_FLAVOR", flavor, "EXACT")
  <2>1. l.arch \in DOMAIN MachineArchitectures
    BY <1>3 DEF ConvertLibc
  <2>2. name \in Names /\ flavor \in Names /\ \A arch : SameArchitecture(l.arch, arch) <=> name = arch
    BY <2>1 DEF MachineArchitectures, SameArchitecture, Names
  <2>3. /\ archNode \in Leaves /\ flavorNode \in Leaves
        /\ \A p \in Processes : Denied(archNode, p) <=> SameArchitecture(l.arch, p.arch)
        /\ \A p \in Processes : Denied(flavorNode, p) <=> p.libc = flavor
    <3> HIDE DEF name
    <3>1. archNode \in Leaves /\ flavorNode \in Leaves
      BY <2>2, LeafTypes DEF StringIds, Values
    <3> QED BY <2>2, <3>1, NameDenied
  <2>4. Leaves \subseteq Low
    BY TreeSets
  <2> HIDE DEF archNode, flavorNode, name
  <2>5. CASE l.min = NULL
    <3>1. PICK nodes : nodes = <<archNode, flavorNode>>
      OBVIOUS
    <3>2. nodes \in Seq(Low) /\ DOMAIN nodes = {1, 2} /\ nodes[1] = archNode /\ nodes[2] = flavorNode
      BY <2>3, <2>4, <3>1
    <3>3. VersionNodes(l) = << >>
      BY <2>5 DEF VersionNodes
    <3>4. nodes \o VersionNodes(l) = nodes
      BY <3>2, <3>3, ConcatEmptySeq
    <3>5. trees = <<CompositeNode("AND", nodes)>>
      BY <1>3, <2>1, <3>1, <3>4 DEF ConvertLibc, archNode, flavorNode, name
    <3>6. CompositeNode("AND", nodes) \in Trees
      BY <3>2, CombinedTypes DEF Trees
    <3>7. \A p \in Processes : Denied(CompositeNode("AND", nodes), p) <=> \A i \in DOMAIN nodes : Denied(nodes[i], p)
      BY <3>2, CompositeDenied
    <3>8. PICK tree \in Trees : trees = <<tree>> /\ tree = CompositeNode("AND", nodes)
      BY <3>5, <3>6
    <3>9. trees \in Seq(Trees) /\ DOMAIN trees = {1} /\ trees[1] = tree
      BY <3>8
    <3>10. ~l.supported
      BY <1>1, <1>3, <2>5
    <3> QED BY <2>3, <2>5, <3>2, <3>7, <3>8, <3>9, <3>10 DEF LibcHolds
  <2>6. CASE l.min # NULL
    <3>1. PICK version : version = IF l.supported THEN buildVersionGreaterThan(l.min)
                                   ELSE buildVersionLessThanOrEqual(l.min)
      OBVIOUS
    <3>2. VersionNodes(l) = <<version>>
      BY <1>1, <2>6, <3>1 DEF VersionNodes
    <3>3. /\ version \in Low
          /\ \A p \in Processes : Denied(version, p) <=> (l.supported <=> Precedes(p.version, l.min))
      <4>1. l.min \in Seq(Nat) /\ Len(l.min) >= 2 /\ \A k \in DOMAIN l.min : Number("num", l.min[k]) = l.min[k]
        BY <1>1, <2>6 DEF ProperLibc
      <4>2. CASE l.supported
        <5>1. version = VersionTree(l.min, "GT", "GT")
          BY <3>1, <4>2 DEF buildVersionGreaterThan
        <5>2. version \in Low /\ \A p \in Processes : Denied(version, p) <=> Precedes(p.version, l.min)
          BY <4>1, <5>1, VersionDenied, VersionTyped
        <5> QED BY <4>2, <5>2
      <4>3. CASE ~l.supported
        <5>1. version = VersionTree(l.min, "LT", "LTE")
          BY <3>1, <4>3 DEF buildVersionLessThanOrEqual
        <5>2. version \in Low /\ \A p \in Processes : Denied(version, p) <=> ~Precedes(p.version, l.min)
          BY <4>1, <5>1, VersionDenied, VersionTyped
        <5> QED BY <4>3, <5>2
      <4> QED BY <1>1, <4>2, <4>3
    <3>4. PICK same : same = <<archNode, flavorNode>>
      OBVIOUS
    <3>5. PICK nodes : nodes = <<archNode, flavorNode, version>>
      OBVIOUS
    <3>6. same \o <<version>> = nodes
      BY <2>3, <2>4, <3>3, <3>4, <3>5, PairAndOne
    <3>7. /\ nodes \in Seq(Low) /\ DOMAIN nodes = {1, 2, 3}
          /\ nodes[1] = archNode /\ nodes[2] = flavorNode /\ nodes[3] = version
      BY <2>3, <2>4, <3>3, <3>5
    <3>8. trees = <<CompositeNode("AND", nodes)>>
      BY <1>3, <2>1, <3>2, <3>4, <3>6 DEF ConvertLibc, archNode, flavorNode, name
    <3>9. CompositeNode("AND", nodes) \in Trees
      BY <3>7, CombinedTypes DEF Trees
    <3>10. \A p \in Processes : Denied(CompositeNode("AND", nodes), p) <=> \A i \in DOMAIN nodes : Denied(nodes[i], p)
      BY <3>7, CompositeDenied
    <3>11. PICK tree \in Trees : trees = <<tree>> /\ tree = CompositeNode("AND", nodes)
      BY <3>8, <3>9
    <3>12. trees \in Seq(Trees) /\ DOMAIN trees = {1} /\ trees[1] = tree
      BY <3>11
    <3> QED BY <2>3, <2>6, <3>3, <3>7, <3>10, <3>11, <3>12 DEF LibcHolds
  <2> QED BY <2>5, <2>6
<1> QED BY <1>2, <1>3

-----------------------------------------------------------------------------
(* Globs *)

\* The ends of the characters of a pattern in a text.
Ends(ends, pattern, text) ==
  /\ ends \in [0 .. Len(pattern) -> 0 .. Len(text)]
  /\ ends[0] = 0 /\ ends[Len(pattern)] = Len(text)
  /\ \A i \in 1 .. Len(pattern) :
       IF pattern[i] = "*" THEN ends[i - 1] <= ends[i]
       ELSE ends[i] = ends[i - 1] + 1 /\ pattern[i] \in {"?", text[ends[i]]}

\* A glob matches where there are such ends.
LEMMA GlobEnds == \A pattern, text : Glob(pattern, text) <=> \E ends : Ends(ends, pattern, text)
  BY DEF Glob, Ends

\* As long as a pattern has no star its characters are those of the text one by one.
LEMMA EndsPlain ==
  ASSUME NEW pattern \in Text, NEW text \in Text, NEW ends, Ends(ends, pattern, text),
         NEW n \in 0 .. Len(pattern), \A i \in 1 .. n : pattern[i] \notin {"*", "?"}
  PROVE  /\ \A i \in 0 .. n : ends[i] = i
         /\ n <= Len(text) /\ \A i \in 1 .. n : pattern[i] = text[i]
<1>1. Len(pattern) \in Nat /\ Len(text) \in Nat
  BY DEF Text
<1>2. ends \in [0 .. Len(pattern) -> 0 .. Len(text)] /\ ends[0] = 0
  BY DEF Ends
<1>3. \A i \in 1 .. n : ends[i] = ends[i - 1] + 1 /\ pattern[i] = text[ends[i]]
  BY <1>1 DEF Ends
<1>4. \A i \in Nat : i <= n => ends[i] = i
  <2> DEFINE S == {i \in Nat : i <= n => ends[i] = i}
  <2>1. 0 \in S
    BY <1>2
  <2>2. ASSUME NEW i \in S PROVE i + 1 \in S
    <3> SUFFICES ASSUME i + 1 <= n PROVE ends[i + 1] = i + 1
      OBVIOUS
    <3>1. i + 1 \in 1 .. n /\ (i + 1) - 1 = i /\ ends[i] = i
      BY <1>1
    <3> QED BY <1>3, <3>1
  <2> HIDE DEF S
  <2>3. \A i \in Nat : i \in S
    BY <2>1, <2>2, CountingUp, S \in SUBSET Nat DEF S
  <2> QED BY <2>3 DEF S
<1>5. \A i \in 0 .. n : ends[i] = i
  BY <1>1, <1>4
<1>6. n <= Len(text)
  BY <1>1, <1>2, <1>5
<1> QED BY <1>3, <1>5, <1>6

\* A pattern without wildcards matches only itself.
LEMMA PlainGlob ==
  ASSUME NEW pattern \in Text, NEW text \in Text, \A i \in DOMAIN pattern : pattern[i] \notin {"*", "?"}
  PROVE  Glob(pattern, text) <=> pattern = text
<1> DEFINE n == Len(pattern)
<1>1. n \in Nat /\ DOMAIN pattern = 1 .. n /\ Len(text) \in Nat
  BY DEF Text
<1>2. ASSUME Glob(pattern, text) PROVE pattern = text
  <2>1. PICK ends : Ends(ends, pattern, text)
    BY <1>2, GlobEnds
  <2>2. n \in 0 .. Len(pattern)
    BY <1>1
  <2>3. (\A i \in 0 .. n : ends[i] = i) /\ \A i \in 1 .. n : pattern[i] = text[i]
    BY <1>1, <2>1, <2>2, EndsPlain
  <2>4. Len(text) = n
    BY <1>1, <2>1, <2>3 DEF Ends
  <2> QED BY <2>3, <2>4, SeqEqual DEF Text
<1>3. ASSUME pattern = text PROVE Glob(pattern, text)
  <2>1. PICK ends : ends = [i \in 0 .. n |-> i]
    OBVIOUS
  <2>2. Ends(ends, pattern, text)
    BY <1>1, <1>3, <2>1 DEF Ends
  <2> QED BY <2>2, GlobEnds
<1> QED BY <1>2, <1>3

\* "*?" matches everything but nothing.
LEMMA SomethingGlob ==
  ASSUME NEW text \in Text
  PROVE  Glob(<<"*", "?">>, text) <=> text # << >>
<1>1. PICK pattern : pattern = <<"*", "?">>
  OBVIOUS
<1>2. Len(pattern) = 2 /\ pattern[1] = "*" /\ pattern[2] = "?"
  <2>1. pattern \in [1 .. 2 -> {"*", "?"}]
    BY <1>1
  <2> QED BY <1>1, <2>1, LengthOf
<1>3. PICK n \in Nat : n = Len(text) /\ (text # << >> <=> n > 0)
  BY EmptySeq DEF Text
<1>4. ASSUME Glob(pattern, text) PROVE n > 0
  <2>1. PICK ends : Ends(ends, pattern, text)
    BY <1>4, GlobEnds
  <2>2. ends \in [0 .. 2 -> 0 .. n] /\ ends[2] = n
    BY <1>2, <1>3, <2>1 DEF Ends
  <2>3. 2 \in 1 .. 2 /\ 2 - 1 = 1 /\ 1 \in 0 .. 2
    OBVIOUS
  <2>4. ends[2] = ends[1] + 1
    BY <1>2, <2>1, <2>3 DEF Ends
  <2> QED BY <2>2, <2>3, <2>4
<1>5. ASSUME n > 0 PROVE Glob(pattern, text)
  <2>1. PICK ends : ends = [i \in 0 .. 2 |-> IF i = 0 THEN 0 ELSE IF i = 1 THEN n - 1 ELSE n]
    OBVIOUS
  <2>2. ends[0] = 0 /\ ends[1] = n - 1 /\ ends[2] = n /\ ends \in [0 .. 2 -> 0 .. n]
    BY <1>5, <2>1
  <2>3. \A i \in 1 .. 2 : (i = 1 /\ i - 1 = 0) \/ (i = 2 /\ i - 1 = 1)
    OBVIOUS
  <2>4. Ends(ends, pattern, text)
    BY <1>2, <1>3, <1>5, <2>2, <2>3 DEF Ends
  <2> QED BY <2>4, GlobEnds
<1> QED BY <1>1, <1>3, <1>4, <1>5

\* What is where in a name, "=" and what comes after it.
LEMMA KeyedText ==
  ASSUME NEW key \in Text, NEW q \in Text
  PROVE  /\ key \o <<"=">> \o q \in Text
         /\ Len(key \o <<"=">> \o q) = Len(key) + 1 + Len(q)
         /\ \A i \in 1 .. Len(key) : (key \o <<"=">> \o q)[i] = key[i]
         /\ (key \o <<"=">> \o q)[Len(key) + 1] = "="
         /\ \A i \in 1 .. Len(q) : (key \o <<"=">> \o q)[Len(key) + 1 + i] = q[i]
<1>1. PICK equal : equal = <<"=">>
  OBVIOUS
<1>2. equal \in Text /\ Len(equal) = 1 /\ equal[1] = "="
  <2>1. equal \in [1 .. 1 -> Chars]
    BY <1>1 DEF Chars
  <2> QED BY <1>1, <2>1, LengthOf DEF Text
<1>3. PICK a : a = key \o equal
  OBVIOUS
<1>4. /\ a \in Text /\ Len(a) = Len(key) + 1
      /\ \A i \in 1 .. Len(key) + 1 : a[i] = IF i <= Len(key) THEN key[i] ELSE equal[i - Len(key)]
  <2>1. /\ a \in Text /\ Len(a) = Len(key) + Len(equal)
        /\ \A i \in 1 .. Len(key) + Len(equal) : a[i] = IF i <= Len(key) THEN key[i] ELSE equal[i - Len(key)]
    BY <1>2, <1>3, ConcatProperties DEF Text
  <2> QED BY <1>2, <2>1
<1>5. PICK c : c = a \o q
  OBVIOUS
<1>6. /\ c \in Text /\ Len(c) = Len(a) + Len(q)
      /\ \A i \in 1 .. Len(a) + Len(q) : c[i] = IF i <= Len(a) THEN a[i] ELSE q[i - Len(a)]
  BY <1>4, <1>5, ConcatProperties DEF Text
<1>7. Len(key) \in Nat /\ Len(q) \in Nat
  BY DEF Text
<1>8. \A i \in 1 .. Len(key) : c[i] = key[i]
  BY <1>4, <1>6, <1>7
<1>9. c[Len(key) + 1] = "="
  <2>1. (Len(key) + 1) - Len(key) = 1 /\ Len(key) + 1 \in 1 .. Len(key) + 1 /\ ~(Len(key) + 1 <= Len(key))
    BY <1>7
  <2>2. a[Len(key) + 1] = "="
    BY <1>2, <1>4, <2>1
  <2>3. Len(key) + 1 \in 1 .. Len(a) + Len(q) /\ Len(key) + 1 <= Len(a)
    BY <1>4, <1>7
  <2> QED BY <1>6, <2>2, <2>3
<1>10. ASSUME NEW i \in 1 .. Len(q) PROVE c[Len(key) + 1 + i] = q[i]
  <2>1. /\ Len(key) + 1 + i \in 1 .. Len(a) + Len(q) /\ ~(Len(key) + 1 + i <= Len(a))
        /\ (Len(key) + 1 + i) - Len(a) = i
    BY <1>4, <1>7
  <2> QED BY <1>6, <2>1
<1>11. c = key \o <<"=">> \o q
  BY <1>1, <1>3, <1>5
<1> QED BY <1>4, <1>6, <1>7, <1>8, <1>9, <1>10, <1>11

\* A name before "=" in a pattern is that in the text, if it is no pattern itself.
LEMMA KeyGlob ==
  ASSUME NEW key \in Text, PlainName(key), NEW q \in Text,
         NEW name \in Text, "=" \notin Range(name), NEW t \in Text
  PROVE  Glob(key \o <<"=">> \o q, name \o <<"=">> \o t) <=> key = name /\ Glob(q, t)
<1>1. PICK pattern : pattern = key \o <<"=">> \o q
  OBVIOUS
<1>2. PICK text : text = name \o <<"=">> \o t
  OBVIOUS
<1>3. PICK n \in Nat : n = Len(key) + 1
  BY DEF Text
<1>4. /\ pattern \in Text /\ Len(pattern) = n + Len(q) /\ Len(key) \in Nat /\ Len(q) \in Nat
      /\ \A i \in 1 .. Len(key) : pattern[i] = key[i]
      /\ pattern[n] = "="
      /\ \A i \in 1 .. Len(q) : pattern[n + i] = q[i]
  BY <1>1, <1>3, KeyedText DEF Text
<1>5. /\ text \in Text /\ Len(text) = Len(name) + 1 + Len(t) /\ Len(name) \in Nat /\ Len(t) \in Nat
      /\ \A i \in 1 .. Len(name) : text[i] = name[i]
      /\ text[Len(name) + 1] = "="
      /\ \A i \in 1 .. Len(t) : text[Len(name) + 1 + i] = t[i]
  BY <1>2, KeyedText DEF Text
<1>6. \A i \in 1 .. Len(key) : key[i] \notin {"*", "?", "="}
  <2>1. \A i \in 1 .. Len(key) : key[i] \in Range(key)
    BY DEF Range, Text
  <2> QED BY <2>1 DEF PlainName
<1>7. \A i \in 1 .. Len(name) : name[i] # "="
  BY DEF Range, Text
<1>8. \A i \in 1 .. n : pattern[i] \notin {"*", "?"}
  <2> SUFFICES ASSUME NEW i \in 1 .. n PROVE pattern[i] \notin {"*", "?"}
    OBVIOUS
  <2>1. i = n \/ i \in 1 .. Len(key)
    BY <1>3, <1>4
  <2> QED BY <1>4, <1>6, <2>1
<1>9. ASSUME Glob(pattern, text) PROVE key = name /\ Glob(q, t)
  <2>1. PICK ends : Ends(ends, pattern, text)
    BY <1>9, GlobEnds
  <2>2. n \in 0 .. Len(pattern) /\ pattern \in Text /\ text \in Text
    BY <1>4, <1>5
  <2>3. (\A i \in 0 .. n : ends[i] = i) /\ n <= Len(text) /\ \A i \in 1 .. n : pattern[i] = text[i]
    BY <1>8, <2>1, <2>2, EndsPlain
  <2>4. Len(key) = Len(name)
    <3>1. CASE Len(name) < Len(key)
      <4>1. Len(name) + 1 \in 1 .. Len(key) /\ Len(name) + 1 \in 1 .. n
        BY <1>3, <1>4, <1>5, <3>1
      <4> QED BY <1>4, <1>5, <1>6, <2>3, <4>1
    <3>2. CASE Len(key) < Len(name)
      <4>1. n \in 1 .. Len(name) /\ n \in 1 .. n
        BY <1>3, <1>4, <1>5, <3>2
      <4> QED BY <1>4, <1>5, <1>7, <2>3, <4>1
    <3> QED BY <1>4, <1>5, <3>1, <3>2
  <2>5. key = name
    <3>1. \A i \in 1 .. Len(key) : i \in 1 .. n /\ key[i] = pattern[i] /\ text[i] = name[i]
      BY <1>3, <1>4, <1>5, <2>4
    <3> QED BY <2>3, <2>4, <3>1, SeqEqual DEF Text
  <2>6. ends \in [0 .. n + Len(q) -> 0 .. n + Len(t)]
    BY <1>3, <1>4, <1>5, <2>1, <2>4 DEF Ends
  <2>7. \A i \in 1 .. Len(q) :
          IF q[i] = "*" THEN ends[n + i - 1] <= ends[n + i]
          ELSE ends[n + i] = ends[n + i - 1] + 1 /\ q[i] \in {"?", text[ends[n + i]]}
    <3> SUFFICES ASSUME NEW i \in 1 .. Len(q)
                 PROVE  IF q[i] = "*" THEN ends[n + i - 1] <= ends[n + i]
                        ELSE ends[n + i] = ends[n + i - 1] + 1 /\ q[i] \in {"?", text[ends[n + i]]}
      OBVIOUS
    <3>1. n + i \in 1 .. Len(pattern) /\ pattern[n + i] = q[i]
      BY <1>3, <1>4
    <3> QED BY <2>1, <3>1 DEF Ends
  <2>8. \A i \in Nat : i <= Len(q) => n <= ends[n + i]
    <3> DEFINE S == {i \in Nat : i <= Len(q) => n <= ends[n + i]}
    <3>1. 0 \in S
      <4>1. n \in 0 .. n /\ n + 0 = n
        OBVIOUS
      <4> QED BY <2>3, <4>1
    <3>2. ASSUME NEW i \in S PROVE i + 1 \in S
      <4> SUFFICES ASSUME i + 1 <= Len(q) PROVE n <= ends[n + (i + 1)]
        OBVIOUS
      <4>1. i + 1 \in 1 .. Len(q) /\ n + (i + 1) - 1 = n + i /\ n <= ends[n + i]
        BY <1>4
      <4>2. n + i \in 0 .. n + Len(q) /\ n + (i + 1) \in 0 .. n + Len(q)
        BY <1>4
      <4>3. PICK x \in 0 .. n + Len(t) : x = ends[n + i]
        BY <2>6, <4>2
      <4>4. PICK y \in 0 .. n + Len(t) : y = ends[n + (i + 1)]
        BY <2>6, <4>2
      <4>5. x <= y \/ y = x + 1
        <5>1. n + (i + 1) = n + i + 1
          BY <1>4
        <5> QED BY <2>7, <4>1, <4>3, <4>4, <5>1
      <4>6. n <= x
        BY <4>1, <4>3
      <4>7. n \in Int /\ x \in Int /\ y \in Int
        BY <1>5
      <4>8. n <= y
        BY ONLY <4>5, <4>6, <4>7
      <4> QED BY <4>4, <4>8
    <3> HIDE DEF S
    <3>3. \A i \in Nat : i \in S
      BY <3>1, <3>2, CountingUp, S \in SUBSET Nat DEF S
    <3> QED BY <3>3 DEF S
  <2>9. PICK g : g = [i \in 0 .. Len(q) |-> ends[n + i] - n]
    OBVIOUS
  <2>10. g \in [0 .. Len(q) -> 0 .. Len(t)]
    <3>1. \A i \in 0 .. Len(q) : ends[n + i] - n \in 0 .. Len(t)
      <4> SUFFICES ASSUME NEW i \in 0 .. Len(q) PROVE ends[n + i] - n \in 0 .. Len(t)
        OBVIOUS
      <4>1. n + i \in 0 .. n + Len(q) /\ n <= ends[n + i]
        BY <1>4, <2>8
      <4>2. PICK x \in 0 .. n + Len(t) : x = ends[n + i]
        BY <2>6, <4>1
      <4>3. PICK l \in Nat : l = Len(t)
        BY <1>5
      <4>4. n <= x
        BY <4>1, <4>2
      <4>5. x - n \in 0 .. l
        BY ONLY <4>3, <4>4, n \in Nat, x \in 0 .. n + Len(t)
      <4> QED BY <4>2, <4>3, <4>5
    <3> QED BY <2>9, <3>1
  <2>11. g[0] = 0 /\ g[Len(q)] = Len(t)
    <3>1. n \in 0 .. n /\ n + 0 = n /\ 0 \in 0 .. Len(q) /\ Len(q) \in 0 .. Len(q)
      BY <1>4
    <3>2. ends[n] = n /\ ends[n + Len(q)] = n + Len(t)
      BY <1>3, <1>4, <1>5, <2>1, <2>3, <2>4, <3>1 DEF Ends
    <3> QED BY <1>4, <1>5, <2>9, <3>1, <3>2
  <2>12. \A i \in 1 .. Len(q) : IF q[i] = "*" THEN g[i - 1] <= g[i]
                               ELSE g[i] = g[i - 1] + 1 /\ q[i] \in {"?", t[g[i]]}
    <3> SUFFICES ASSUME NEW i \in 1 .. Len(q)
                 PROVE  IF q[i] = "*" THEN g[i - 1] <= g[i]
                        ELSE g[i] = g[i - 1] + 1 /\ q[i] \in {"?", t[g[i]]}
      OBVIOUS
    <3>1. i \in 0 .. Len(q) /\ i - 1 \in 0 .. Len(q) /\ n + i - 1 = n + (i - 1)
      BY <1>4
    <3>2. g[i] = ends[n + i] - n /\ g[i - 1] = ends[n + i - 1] - n
      BY <2>9, <3>1
    <3>3. ends[n + i] \in Int /\ ends[n + i - 1] \in Int /\ g[i] \in 0 .. Len(t) /\ g[i - 1] \in 0 .. Len(t)
      <4>1. n + i \in 0 .. n + Len(q) /\ n + i - 1 \in 0 .. n + Len(q)
        BY <1>4
      <4>2. ends[n + i] \in Int /\ ends[n + i - 1] \in Int
        BY <2>6, <4>1
      <4> QED BY <2>10, <3>1, <4>2
    <3>4. CASE q[i] = "*"
      <4>1. ends[n + i - 1] <= ends[n + i]
        BY <2>7, <3>4
      <4>2. \A x, y \in Int : x <= y => x - n <= y - n
        OBVIOUS
      <4>3. g[i - 1] <= g[i]
        BY <3>2, <3>3, <4>1, <4>2
      <4> QED BY <3>4, <4>3
    <3>5. CASE q[i] # "*"
      <4>1. ends[n + i] = ends[n + i - 1] + 1 /\ q[i] \in {"?", text[ends[n + i]]}
        BY <2>7, <3>5
      <4>2. g[i] = g[i - 1] + 1
        BY <3>2, <3>3, <4>1
      <4>3. g[i] \in 1 .. Len(t) /\ Len(name) + 1 + g[i] = ends[n + i]
        <5>1. g[i] \in 1 .. Len(t)
          BY <1>5, <3>3, <4>2
        <5>2. Len(name) + 1 = n
          BY <1>3, <2>4
        <5>3. n + g[i] = ends[n + i]
          BY <3>2, <3>3
        <5> QED BY <5>1, <5>2, <5>3
      <4>4. text[ends[n + i]] = t[g[i]]
        BY <1>5, <4>3
      <4> QED BY <3>5, <4>1, <4>2, <4>4
    <3> QED BY <3>4, <3>5
  <2>13. Ends(g, q, t)
    BY <2>10, <2>11, <2>12 DEF Ends
  <2> QED BY <2>5, <2>13, GlobEnds
<1>10. ASSUME key = name, Glob(q, t) PROVE Glob(pattern, text)
  <2>1. PICK g : Ends(g, q, t)
    BY <1>10, GlobEnds
  <2>2. g \in [0 .. Len(q) -> 0 .. Len(t)] /\ g[0] = 0 /\ g[Len(q)] = Len(t)
    BY <2>1 DEF Ends
  <2>3. Len(text) = n + Len(t) /\ Len(name) + 1 = n
    BY <1>3, <1>5, <1>10
  <2>4. PICK ends : ends = [i \in 0 .. n + Len(q) |-> IF i <= n THEN i ELSE n + g[i - n]]
    OBVIOUS
  <2>5. \A i \in 0 .. n : ends[i] = i
    BY <1>4, <2>4
  <2>6. \A i \in 0 .. Len(q) : ends[n + i] = n + g[i]
    <3> SUFFICES ASSUME NEW i \in 0 .. Len(q) PROVE ends[n + i] = n + g[i]
      OBVIOUS
    <3>1. n + i \in 0 .. n + Len(q) /\ (n + i) - n = i /\ (n + i <= n <=> i = 0) /\ n + 0 = n
      BY <1>4
    <3> QED BY <2>2, <2>4, <3>1
  <2>7. \A i \in 0 .. n + Len(q) : i \in 0 .. n \/ (i - n \in 0 .. Len(q) /\ n + (i - n) = i)
    BY <1>4
  <2>8. \A i \in 0 .. Len(q) : g[i] \in 0 .. Len(t)
    BY <2>2
  <2>9. \A i \in 0 .. n + Len(q) : ends[i] \in 0 .. n + Len(t)
    <3> SUFFICES ASSUME NEW i \in 0 .. n + Len(q) PROVE ends[i] \in 0 .. n + Len(t)
      OBVIOUS
    <3>1. CASE i \in 0 .. n
      BY <1>5, <2>5, <3>1
    <3>2. CASE i - n \in 0 .. Len(q) /\ n + (i - n) = i
      <4>1. PICK x \in 0 .. Len(t) : x = g[i - n]
        BY <2>8, <3>2
      <4>2. ends[i] = n + x
        BY <2>6, <3>2, <4>1
      <4>3. PICK l \in Nat : l = Len(t)
        BY <1>5
      <4>4. n + x \in 0 .. n + l
        BY ONLY <4>3, n \in Nat, x \in 0 .. Len(t)
      <4> QED BY <4>2, <4>3, <4>4
    <3> QED BY <2>7, <3>1, <3>2
  <2>10. ends \in [0 .. Len(pattern) -> 0 .. Len(text)]
    BY <1>4, <2>3, <2>4, <2>9
  <2>11. ends[0] = 0 /\ ends[Len(pattern)] = Len(text)
    <3>1. 0 \in 0 .. n /\ Len(q) \in 0 .. Len(q)
      BY <1>4
    <3> QED BY <1>4, <2>2, <2>3, <2>5, <2>6, <3>1
  <2>12. ASSUME NEW i \in 1 .. Len(pattern)
         PROVE  IF pattern[i] = "*" THEN ends[i - 1] <= ends[i]
                ELSE ends[i] = ends[i - 1] + 1 /\ pattern[i] \in {"?", text[ends[i]]}
    <3>1. CASE i \in 1 .. n
      <4>1. i \in 0 .. n /\ i - 1 \in 0 .. n
        BY <3>1
      <4>2. ends[i] = i /\ ends[i - 1] = i - 1 /\ pattern[i] \notin {"*", "?"}
        BY <1>8, <2>5, <3>1, <4>1
      <4>3. pattern[i] = text[i]
        <5>1. CASE i = n
          BY <1>4, <1>5, <2>3, <5>1
        <5>2. CASE i # n
          <6>1. i \in 1 .. Len(key) /\ i \in 1 .. Len(name)
            BY <1>3, <1>4, <1>10, <3>1, <5>2
          <6> QED BY <1>4, <1>5, <1>10, <6>1
        <5> QED BY <5>1, <5>2
      <4> QED BY <3>1, <4>2, <4>3
    <3>2. CASE i \notin 1 .. n
      <4>1. PICK j \in 1 .. Len(q) : i = n + j
        <5>1. i - n \in 1 .. Len(q) /\ i = n + (i - n)
          BY <1>4, <3>2
        <5> QED BY <5>1
      <4>2. j \in 0 .. Len(q) /\ j - 1 \in 0 .. Len(q) /\ i - 1 = n + (j - 1)
        BY <1>4, <4>1
      <4>3. ends[i] = n + g[j] /\ ends[i - 1] = n + g[j - 1] /\ pattern[i] = q[j]
        BY <1>4, <2>6, <4>1, <4>2
      <4>4. g[j] \in 0 .. Len(t) /\ g[j - 1] \in 0 .. Len(t)
        BY <2>8, <4>2
      <4>5. IF q[j] = "*" THEN g[j - 1] <= g[j] ELSE g[j] = g[j - 1] + 1 /\ q[j] \in {"?", t[g[j]]}
        BY <2>1 DEF Ends
      <4>6. CASE q[j] = "*"
        <5>1. g[j - 1] <= g[j] /\ n \in Int /\ g[j] \in Int /\ g[j - 1] \in Int
          BY <1>5, <4>4, <4>5, <4>6
        <5>2. n + g[j - 1] <= n + g[j]
          BY ONLY <5>1
        <5> QED BY <4>3, <4>6, <5>2
      <4>7. CASE q[j] # "*"
        <5>1. g[j] = g[j - 1] + 1 /\ q[j] \in {"?", t[g[j]]}
          BY <4>5, <4>7
        <5>2. g[j] \in 1 .. Len(t)
          BY <1>5, <4>4, <5>1
        <5>3. text[n + g[j]] = t[g[j]]
          BY <1>5, <2>3, <5>2
        <5>4. n + g[j] = n + g[j - 1] + 1
          BY <4>4, <5>1
        <5> QED BY <4>3, <4>7, <5>1, <5>3, <5>4
      <4> QED BY <4>6, <4>7
    <3> QED BY <3>1, <3>2
  <2>13. Ends(ends, pattern, text)
    BY <2>10, <2>11, <2>12 DEF Ends
  <2> QED BY <2>13, GlobEnds
<1> QED BY <1>1, <1>2, <1>9, <1>10

-----------------------------------------------------------------------------
(* The policies of the deny rules *)

\* A pattern of a rule fits a text as a glob does, whichever comparator it is given.
LEMMA TextFits ==
  ASSUME NEW d \in DenyRules, NEW pattern \in PatternsOf(d), pattern \in Text,
         NEW p \in Processes, NEW text \in TextsOf(p), text \in Text
  PROVE  /\ Fits(pattern, text) <=> Glob(pattern, text)
         /\ StrCompare(Matcher(pattern), pattern, text) <=> Fits(pattern, text)
         /\ Matcher(pattern) \in {"EXACT", "WILDCARD"}
<1>1. /\ StrCompare("EXACT", pattern, text) <=> pattern = text
      /\ StrCompare("WILDCARD", pattern, text) <=> Glob(pattern, text)
  BY TextsAssumption
<1>2. CASE Matcher(pattern) = "WILDCARD"
  BY <1>1, <1>2 DEF Fits
<1>3. CASE Matcher(pattern) # "WILDCARD"
  <2>1. \A i \in DOMAIN pattern : pattern[i] \notin {"*", "?"}
    BY <1>3 DEF Matcher
  <2>2. Matcher(pattern) = "EXACT"
    BY <1>3 DEF Matcher
  <2> QED BY <1>1, <2>1, <2>2, PlainGlob DEF Fits
<1> QED BY <1>2, <1>3

\* What a process's facts are texts of.
LEMMA ProcessTexts ==
  ASSUME NEW p \in Processes
  PROVE  /\ p.exe \in TextsOf(p) /\ p.exe \in Text
         /\ p.argv \in Seq(Text) /\ \A i \in DOMAIN p.argv : p.argv[i] \in TextsOf(p) /\ p.argv[i] \in Text
         /\ \A i \in DOMAIN p.envs : /\ EnvText(p.envs[i]) \in TextsOf(p) /\ EnvText(p.envs[i]) \in Text
                                     /\ p.envs[i].value \in TextsOf(p) /\ p.envs[i].value \in Text
                                     /\ p.envs[i].key \in Text /\ "=" \notin Range(p.envs[i].key)
<1>1. /\ p.exe \in Text /\ p.argv \in Seq(Text) /\ p.envs \in Seq([key : Text, value : Text])
      /\ \A i \in DOMAIN p.envs : "=" \notin Range(p.envs[i].key)
  BY ProcessesAssumption
<1>2. p.exe \in TextsOf(p)
  BY DEF TextsOf
<1>3. ASSUME NEW i \in DOMAIN p.argv PROVE p.argv[i] \in TextsOf(p) /\ p.argv[i] \in Text
  BY <1>1 DEF TextsOf, Range
<1>4. ASSUME NEW i \in DOMAIN p.envs
      PROVE  /\ EnvText(p.envs[i]) \in TextsOf(p) /\ EnvText(p.envs[i]) \in Text
             /\ p.envs[i].value \in TextsOf(p) /\ p.envs[i].value \in Text /\ p.envs[i].key \in Text
  <2>1. p.envs[i] \in Range(p.envs)
    BY DEF Range
  <2>2. EnvText(p.envs[i]) \in TextsOf(p) /\ p.envs[i].value \in TextsOf(p)
    BY <2>1 DEF TextsOf
  <2>3. p.envs[i] \in [key : Text, value : Text]
    <3>1. PICK V : V = [key : Text, value : Text]
      OBVIOUS
    <3>2. p.envs \in Seq(V)
      BY <1>1, <3>1
    <3>3. p.envs[i] \in V
      BY <3>2
    <3> QED BY <3>1, <3>3
  <2>4. p.envs[i].key \in Text /\ p.envs[i].value \in Text
    BY <2>3
  <2>5. EnvText(p.envs[i]) \in Text
    BY <2>4, KeyedText DEF EnvText
  <2> QED BY <2>2, <2>4, <2>5
<1> QED BY <1>1, <1>2, <1>3, <1>4

\* A command's node denies the processes that run such an executable.
LEMMA CmdDenied ==
  ASSUME NEW d \in DenyRules, NEW pattern \in Range(d.cmds), pattern \in Text
  PROVE  /\ ConvertCmd(pattern) \in Leaves
         /\ \A p \in Processes : Denied(ConvertCmd(pattern), p) <=> Fits(pattern, p.exe)
<1>1. PICK c \in {"EXACT", "WILDCARD"} : c = Matcher(pattern)
  BY DEF Matcher
<1>2. ConvertCmd(pattern) = StrEvaluator("PROCESS_EXE_FULL_PATH", pattern, c)
  BY <1>1 DEF ConvertCmd, Matching
<1>3. "PROCESS_EXE_FULL_PATH" \in StringIds /\ pattern \in Values
  BY DEF StringIds, Values
<1>4. ConvertCmd(pattern) \in Leaves
  BY <1>1, <1>2, <1>3, LeafTypes
<1>5. ASSUME NEW p \in Processes PROVE Denied(ConvertCmd(pattern), p) <=> Fits(pattern, p.exe)
  <2>1. Denied(ConvertCmd(pattern), p) <=> StrCompare(c, pattern, p.exe)
    BY <1>2, <1>3, NamedFacts, StringLeafDenied
  <2>2. pattern \in PatternsOf(d)
    BY DEF PatternsOf
  <2> QED BY <1>1, <2>1, <2>2, ProcessTexts, TextFits
<1> QED BY <1>4, <1>5

\* Where in the arguments a position is.
PlaceOf(k, argv) == IF k < 0 THEN Len(argv) + k + 1 ELSE k + 1

\* The argument that the evaluator of a position finds.
LEMMA PositionFact ==
  ASSUME NEW p \in Processes, NEW k \in -6 .. 5
  PROVE  /\ ArgvIds[k] \in DOMAIN StringFacts(p) <=> PlaceOf(k, p.argv) \in DOMAIN p.argv
         /\ PlaceOf(k, p.argv) \in DOMAIN p.argv => StringFacts(p)[ArgvIds[k]] = p.argv[PlaceOf(k, p.argv)]
<1> DEFINE j == PlaceOf(k, p.argv)
<1>1. PICK argv : argv = p.argv
  OBVIOUS
<1>2. PICK n \in Nat : n = Len(argv) /\ DOMAIN argv = 1 .. n
  BY <1>1, ProcessTexts
<1>3. j \in DOMAIN argv <=> k \in -n .. n - 1
  <2>1. j = IF k < 0 THEN n + k + 1 ELSE k + 1
    BY ONLY <1>1, <1>2 DEF PlaceOf
  <2>2. PICK place : place = j
    OBVIOUS
  <2>3. place \in 1 .. n <=> k \in -n .. n - 1
    BY ONLY <2>1, <2>2, k \in -6 .. 5, n \in Nat
  <2> QED BY ONLY <1>2, <2>2, <2>3
<1>4. PICK here : here = {ArgvIds[m] : m \in (-6 .. 5) \cap (-Len(argv) .. Len(argv) - 1)}
  OBVIOUS
<1>5. ArgvIds[k] \in here <=> k \in -n .. n - 1
  <2>1. \A m \in -6 .. 5 : ArgvIds[m] = ArgvIds[k] => m = k
    BY PositionIds
  <2> QED BY <1>2, <1>4, <2>1
<1>6. PICK facts : facts = ArgvFacts(argv)
  OBVIOUS
<1>7. DOMAIN facts = here /\ (ArgvIds[k] \in here => facts[ArgvIds[k]] = argv[j])
  <2> DEFINE At(m) == argv[IF m < 0 THEN Len(argv) + m + 1 ELSE m + 1]
             PositionWith(i) == CHOOSE m \in -6 .. 5 : ArgvIds[m] = i
  <2>1. facts = [i \in here |-> At(PositionWith(i))]
    BY <1>4, <1>6 DEF ArgvFacts
  <2>2. PositionWith(ArgvIds[k]) = k
    BY PositionIds
  <2>3. At(k) = argv[j]
    BY <1>1 DEF PlaceOf
  <2> HIDE DEF At, PositionWith
  <2> QED BY <2>1, <2>2, <2>3
<1>8. PICK named : named = [OS |-> p.os, PROCESS_EXE_FULL_PATH |-> p.exe, LIBC_FLAVOR |-> p.libc,
                            MACHINE_ARCHITECTURE |-> p.arch]
  OBVIOUS
<1>9. ArgvIds[k] \notin DOMAIN named
  BY <1>8, PositionIds
<1>10. StringFacts(p) = [i \in DOMAIN named \cup DOMAIN facts |-> IF i \in DOMAIN named THEN named[i] ELSE facts[i]]
  BY <1>1, <1>6, <1>8 DEF StringFacts
<1>11. ArgvIds[k] \in DOMAIN StringFacts(p) <=> ArgvIds[k] \in here
  BY <1>7, <1>9, <1>10
<1>12. ArgvIds[k] \in here => StringFacts(p)[ArgvIds[k]] = argv[j]
  BY <1>7, <1>9, <1>10
<1> QED BY <1>1, <1>3, <1>5, <1>11, <1>12

\* The position of an argument of a list that is not odd.
LEMMA PositionOf ==
  ASSUME NEW list \in ArgumentList, ~Odd(list), NEW i \in DOMAIN list.args
  PROVE  /\ list.position = NULL => PositionAt(list, i) = NULL /\ PositionAt(list, i) \notin -6 .. 5
         /\ list.position # NULL =>
              /\ list.position \in Int /\ PositionAt(list, i) = list.position + i - 1
              /\ list.position < 0 <=> PositionAt(list, i) < 0
<1>1. list.args \in Seq(Text) /\ list.position \in {NULL} \cup Int
  BY DEF ArgumentList
<1>2. PICK n \in Nat : n = Len(list.args) /\ DOMAIN list.args = 1 .. n
  BY <1>1
<1>3. i \in Int /\ 1 <= i /\ i <= n
  BY <1>2
<1>4. NULL \notin -6 .. 5
  BY AbsentAssumption DEF Values
<1>5. ASSUME list.position # NULL
      PROVE  /\ list.position \in Int /\ PositionAt(list, i) = list.position + i - 1
             /\ list.position < 0 <=> PositionAt(list, i) < 0
  <2>1. << >> \notin Range(list.args) /\ ~(list.position < 0 /\ list.position + n > 0)
    BY <1>2, <1>5 DEF Odd
  <2>2. \A j \in 2 .. i : list.args[j] # << >>
    <3>1. \A j \in 2 .. i : j \in DOMAIN list.args
      BY <1>2, <1>3
    <3> QED BY <2>1, <3>1 DEF Range
  <2>3. {j \in 2 .. i : list.args[j] # << >>} = 2 .. i
    BY <2>2
  <2>4. Cardinality(2 .. i) = IF 2 > i THEN 0 ELSE i - 2 + 1
    <3>1. PICK a \in Int : a = 2
      OBVIOUS
    <3>2. Cardinality(a .. i) = IF a > i THEN 0 ELSE i - a + 1
      BY <1>3, FS_Interval
    <3> QED BY <3>1, <3>2
  <2>5. Cardinality(2 .. i) = i - 1
    BY <1>3, <2>4
  <2>6. PositionAt(list, i) = list.position + (i - 1)
    BY <1>5, <2>3, <2>5 DEF PositionAt
  <2> QED BY <1>1, <1>3, <1>5, <2>1, <2>6
<1>6. list.position = NULL => PositionAt(list, i) = NULL
  BY DEF PositionAt
<1> QED BY <1>4, <1>5, <1>6

\* The node of an argument.
LEMMA ArgumentTyped ==
  ASSUME NEW list \in ArgumentList, NEW i \in DOMAIN list.args
  PROVE  ArgumentNode(list, i) \in Leaves
<1>1. PICK id : id = getArgvEvaluatorForPosition(PositionAt(list, i))
  OBVIOUS
<1>2. id \in StringIds \cup ListNames
  BY <1>1 DEF getArgvEvaluatorForPosition, StringIds, ListNames, ArgvIds
<1>3. list.args[i] \in Values
  <2>1. list.args \in Seq(Text)
    BY DEF ArgumentList
  <2> QED BY <2>1 DEF Values
<1>4. Matcher(list.args[i]) \in {"EXACT", "WILDCARD"}
  BY DEF Matcher
<1> QED BY <1>1, <1>2, <1>3, <1>4, LeafTypes DEF ArgumentNode, Matching

\* The node of an argument finds it where it should be.
LEMMA ArgumentDenied ==
  ASSUME NEW d \in DenyRules, NEW list \in Range(d.args), list \in ArgumentList, ~Odd(list),
         NEW i \in DOMAIN list.args, Matchable(list.args[i]), NEW p \in Processes
  PROVE  Denied(ArgumentNode(list, i), p) <=> FitsIn(list.args[i], Places(list, i, p.argv), p.argv)
<1>1. PICK pattern : pattern = list.args[i]
  OBVIOUS
<1>2. pattern \in Text /\ pattern \in Values /\ pattern \in PatternsOf(d)
  <2>1. list.args \in Seq(Text)
    BY DEF ArgumentList
  <2>2. pattern \in Range(list.args)
    BY <1>1 DEF Range
  <2>3. pattern \in PatternsOf(d)
    BY <2>2 DEF PatternsOf
  <2> QED BY <1>1, <2>1, <2>3 DEF Values
<1>3. PICK c \in {"EXACT", "WILDCARD"} : c = Matcher(pattern)
  BY DEF Matcher
<1>4. \A j \in DOMAIN p.argv : StrCompare(c, pattern, p.argv[j]) <=> Fits(pattern, p.argv[j])
  BY <1>2, <1>3, ProcessTexts, TextFits
<1>5. PICK k : k = PositionAt(list, i)
  OBVIOUS
<1>6. PICK places : places = Places(list, i, p.argv)
  OBVIOUS
<1>7. FitsIn(list.args[i], places, p.argv) <=> \E j \in places \cap DOMAIN p.argv : Fits(pattern, p.argv[j])
  BY <1>1 DEF FitsIn
<1>8. CASE k \in -6 .. 5
  <2>1. PICK j : j = PlaceOf(k, p.argv)
    OBVIOUS
  <2>2. places = {j}
    BY <1>5, <1>6, <1>8, <2>1, PositionOf DEF Places, PlaceOf
  <2>3. ArgvIds[k] \in StringIds /\ getArgvEvaluatorForPosition(k) = ArgvIds[k]
    BY <1>8 DEF StringIds, getArgvEvaluatorForPosition, ArgvIds
  <2>4. ArgumentNode(list, i) = StrEvaluator(ArgvIds[k], pattern, c)
    BY <1>1, <1>3, <1>5, <2>3 DEF ArgumentNode, Matching
  <2>5. Denied(ArgumentNode(list, i), p) <=>
          ArgvIds[k] \in DOMAIN StringFacts(p) /\ StrCompare(c, pattern, StringFacts(p)[ArgvIds[k]])
    BY <1>2, <2>3, <2>4, StringLeafDenied
  <2>6. /\ ArgvIds[k] \in DOMAIN StringFacts(p) <=> j \in DOMAIN p.argv
        /\ j \in DOMAIN p.argv => StringFacts(p)[ArgvIds[k]] = p.argv[j]
    BY <1>8, <2>1, PositionFact
  <2> QED BY <1>4, <1>6, <1>7, <2>2, <2>5, <2>6
<1>9. CASE k \notin -6 .. 5
  <2>1. places = DOMAIN p.argv
    BY <1>5, <1>6, <1>9, PositionOf DEF Places
  <2>2. getArgvEvaluatorForPosition(k) = "PROCESS_ARGV" /\ "PROCESS_ARGV" \in ListNames
    BY <1>9 DEF getArgvEvaluatorForPosition, ArgvIds, ListNames
  <2>3. ArgumentNode(list, i) = StrEvaluator("PROCESS_ARGV", pattern, c)
    BY <1>1, <1>3, <1>5, <2>2 DEF ArgumentNode, Matching
  <2>4. p.argv = Context(p).lists["PROCESS_ARGV"]
    BY DEF Context
  <2>5. Denied(ArgumentNode(list, i), p) <=> \E j \in DOMAIN p.argv : StrCompare(c, pattern, p.argv[j])
    <3>1. PICK id \in ListNames : id = "PROCESS_ARGV"
      BY <2>2
    <3>2. PICK facts : facts = p.argv
      OBVIOUS
    <3>3. ArgumentNode(list, i) = StrEvaluator(id, pattern, c) /\ facts = Context(p).lists[id]
      BY <2>3, <2>4, <3>1, <3>2
    <3>4. Denied(StrEvaluator(id, pattern, c), p) <=> \E j \in DOMAIN facts : StrCompare(c, pattern, facts[j])
      BY <1>2, <3>3, ListLeafDenied
    <3> QED BY <3>2, <3>3, <3>4
  <2> QED BY <1>4, <1>6, <1>7, <2>1, <2>5
<1> QED BY <1>8, <1>9

\* A turn of the loop over the arguments of a list, and the nodes that there are then.
ListStep(list, f, i) ==
  IF i = 0 THEN << >>
  ELSE IF Matchable(list.args[i]) THEN Append(f[i - 1], ArgumentNode(list, i))
  ELSE f[i - 1]
MatchedUpTo(list, k) == {ArgumentNode(list, i) : i \in {i \in 1 .. k : Matchable(list.args[i])}}

\* The loop makes so many turns, whatever their number is.
LEMMA LoopExists ==
  ASSUME NEW list, NEW n \in Nat
  PROVE  \E f : f = [i \in 0 .. n |-> ListStep(list, f, i)]
<1> DEFINE S == {m \in Nat : \E f : DOMAIN f = 0 .. m /\ f = [i \in 0 .. m |-> ListStep(list, f, i)]}
<1>1. 0 \in S
  <2>1. PICK f : f = [i \in 0 .. 0 |-> << >>]
    OBVIOUS
  <2>2. f = [i \in 0 .. 0 |-> ListStep(list, f, i)]
    <3>1. \A i \in 0 .. 0 : ListStep(list, f, i) = << >>
      BY DEF ListStep
    <3> QED BY <2>1, <3>1
  <2> QED BY <2>1, <2>2
<1>2. ASSUME NEW m \in S PROVE m + 1 \in S
  <2>1. PICK f : DOMAIN f = 0 .. m /\ f = [i \in 0 .. m |-> ListStep(list, f, i)]
    OBVIOUS
  <2>2. PICK g : g = [i \in 0 .. m + 1 |-> ListStep(list, f, i)]
    OBVIOUS
  <2>3. \A i \in 0 .. m : g[i] = f[i] /\ g[i] = ListStep(list, f, i)
    <3> DEFINE h == [i \in 0 .. m |-> ListStep(list, f, i)]
    <3>1. \A i \in 0 .. m : h[i] = ListStep(list, f, i) /\ i \in 0 .. m + 1
      OBVIOUS
    <3>2. h = f
      BY <2>1
    <3> HIDE DEF h
    <3> QED BY <2>2, <3>1, <3>2
  <2>4. \A i \in 0 .. m + 1 : i = 0 \/ i - 1 \in 0 .. m
    OBVIOUS
  <2>5. \A i \in 0 .. m + 1 : ListStep(list, g, i) = ListStep(list, f, i)
    BY <2>3, <2>4 DEF ListStep
  <2>6. g = [i \in 0 .. m + 1 |-> ListStep(list, g, i)] /\ DOMAIN g = 0 .. m + 1
    BY <2>2, <2>5
  <2>7. m + 1 \in Nat
    OBVIOUS
  <2> QED BY <2>6, <2>7
<1>3. \A m \in Nat : m \in S
  <2> HIDE DEF S
  <2> QED BY <1>1, <1>2, CountingUp, S \in SUBSET Nat DEF S
<1>4. n \in S
  BY <1>3
<1> QED BY <1>4

\* The nodes of a list are those of its arguments that can be matched.
LEMMA NodesOfList ==
  ASSUME NEW list \in ArgumentList, NEW nodes, nodes = ArgumentNodes(list)
  PROVE  /\ nodes \in Seq(Leaves)
         /\ Range(nodes) = {ArgumentNode(list, i) : i \in {i \in DOMAIN list.args : Matchable(list.args[i])}}
<1>1. PICK n \in Nat : n = Len(list.args) /\ DOMAIN list.args = 1 .. n
  <2>1. list.args \in Seq(Text)
    BY DEF ArgumentList
  <2> QED BY <2>1
<1> DEFINE P(f) == f = [i \in 0 .. n |-> ListStep(list, f, i)]
<1>2. \E f : P(f)
  BY LoopExists
<1>3. PICK res : res = CHOOSE f : P(f)
  OBVIOUS
<1>4. nodes = res[n]
  BY <1>1, <1>3 DEF ArgumentNodes, ListStep
<1> HIDE DEF P
<1>5. P(res)
  BY <1>2, <1>3
<1>6. \A i \in 0 .. n : res[i] = ListStep(list, res, i)
  <2> DEFINE h == [i \in 0 .. n |-> ListStep(list, res, i)]
  <2>1. res = h
    BY <1>5 DEF P
  <2>2. \A i \in 0 .. n : h[i] = ListStep(list, res, i)
    OBVIOUS
  <2> HIDE DEF h
  <2> QED BY <2>1, <2>2
<1>7. \A k \in Nat : k <= n => res[k] \in Seq(Leaves) /\ Range(res[k]) = MatchedUpTo(list, k)
  <2> DEFINE S == {k \in Nat : k <= n => res[k] \in Seq(Leaves) /\ Range(res[k]) = MatchedUpTo(list, k)}
  <2>1. 0 \in S
    <3>1. res[0] = << >>
      BY <1>6 DEF ListStep
    <3>2. MatchedUpTo(list, 0) = {}
      BY DEF MatchedUpTo
    <3>3. << >> \in Seq(Leaves) /\ Range(<< >>) = {}
      BY NoPlaces, EmptySeq DEF Range
    <3> QED BY <3>1, <3>2, <3>3
  <2>2. ASSUME NEW k \in S PROVE k + 1 \in S
    <3> SUFFICES ASSUME k + 1 <= n
                 PROVE  res[k + 1] \in Seq(Leaves) /\ Range(res[k + 1]) = MatchedUpTo(list, k + 1)
      OBVIOUS
    <3>1. k \in Nat /\ k + 1 \in 0 .. n /\ k + 1 \in 1 .. n /\ (k + 1) - 1 = k /\ k + 1 # 0
      OBVIOUS
    <3>2. PICK before : before = res[k]
      OBVIOUS
    <3>3. before \in Seq(Leaves) /\ Range(before) = MatchedUpTo(list, k)
      BY <3>1, <3>2
    <3>4. res[k + 1] = IF Matchable(list.args[k + 1]) THEN Append(before, ArgumentNode(list, k + 1)) ELSE before
      BY <1>6, <3>1, <3>2 DEF ListStep
    <3>5. ArgumentNode(list, k + 1) \in Leaves
      BY <1>1, <3>1, ArgumentTyped
    <3>6. \A i : i \in 1 .. k + 1 <=> i \in 1 .. k \/ i = k + 1
      BY <3>1
    <3>7. CASE Matchable(list.args[k + 1])
      <4>1. PICK node \in Leaves : node = ArgumentNode(list, k + 1)
        BY <3>5
      <4>2. Append(before, node) \in Seq(Leaves) /\ Range(Append(before, node)) = Range(before) \cup {node}
        BY <3>3, AppendProperties DEF Range
      <4>3. MatchedUpTo(list, k + 1) = MatchedUpTo(list, k) \cup {node}
        BY <3>6, <3>7, <4>1 DEF MatchedUpTo
      <4> QED BY <3>3, <3>4, <3>7, <4>1, <4>2, <4>3
    <3>8. CASE ~Matchable(list.args[k + 1])
      <4>1. MatchedUpTo(list, k + 1) = MatchedUpTo(list, k)
        BY <3>6, <3>8 DEF MatchedUpTo
      <4> QED BY <3>3, <3>4, <3>8, <4>1
    <3> QED BY <3>7, <3>8
  <2> HIDE DEF S
  <2>3. \A k \in Nat : k \in S
    BY <2>1, <2>2, CountingUp, S \in SUBSET Nat DEF S
  <2> QED BY <2>3 DEF S
<1>8. res[n] \in Seq(Leaves) /\ Range(res[n]) = MatchedUpTo(list, n)
  BY <1>7
<1> QED BY <1>1, <1>4, <1>8 DEF MatchedUpTo

\* A list that was converted has an argument that can be matched.
LEMMA ArgumentsMatch ==
  ASSUME NEW list \in ArgumentList, ConvertArguments(list) # Error
  PROVE  /\ ArgumentNodes(list) # << >>
         /\ \E i \in DOMAIN list.args : Matchable(list.args[i])
<1>1. PICK nodes : nodes = ArgumentNodes(list)
  OBVIOUS
<1>2. nodes # << >> /\ nodes \in Seq(Leaves)
  BY <1>1, NodesOfList DEF ConvertArguments
<1>3. nodes[1] \in Range(nodes)
  BY <1>2, EmptySeq DEF Range
<1> QED BY <1>1, <1>2, <1>3, NodesOfList

\* A list's tree denies the processes that have all of its arguments.
LEMMA ArgumentsDenied ==
  ASSUME NEW list \in ArgumentList, NEW tree, tree = ConvertArguments(list), tree # Error
  PROVE  /\ tree \in Flat
         /\ ~Odd(list) => \A d \in DenyRules : list \in Range(d.args) =>
              \A p \in Processes : Denied(tree, p) <=> ListHolds(list, p.argv)
<1>1. PICK nodes : nodes = ArgumentNodes(list)
  OBVIOUS
<1>2. /\ nodes # << >> /\ nodes \in Seq(Leaves) /\ nodes \in Seq(Low)
      /\ Range(nodes) = {ArgumentNode(list, i) : i \in {i \in DOMAIN list.args : Matchable(list.args[i])}}
  <2>1. nodes \in Seq(Leaves) /\ Leaves \subseteq Low
    BY <1>1, NodesOfList, TreeSets
  <2> QED BY <1>1, <2>1, NodesOfList, ArgumentsMatch
<1>3. tree = Combined("AND", nodes)
  BY <1>1, <1>2 DEF ConvertArguments
<1>4. tree \in Flat
  BY <1>2, <1>3, CombinedTypes DEF Flat
<1>5. ASSUME ~Odd(list), NEW d \in DenyRules, list \in Range(d.args), NEW p \in Processes
      PROVE  Denied(tree, p) <=> ListHolds(list, p.argv)
  <2>1. Denied(tree, p) <=> \A j \in DOMAIN nodes : Denied(nodes[j], p)
    BY <1>2, <1>3, CombinedDenied
  <2>2. (\A j \in DOMAIN nodes : Denied(nodes[j], p)) <=> \A node \in Range(nodes) : Denied(node, p)
    BY DEF Range
  <2>3. (\A node \in Range(nodes) : Denied(node, p)) <=>
          \A i \in DOMAIN list.args : Matchable(list.args[i]) => Denied(ArgumentNode(list, i), p)
    BY <1>2
  <2>4. \A i \in DOMAIN list.args : Matchable(list.args[i]) =>
          (Denied(ArgumentNode(list, i), p) <=> FitsIn(list.args[i], Places(list, i, p.argv), p.argv))
    BY <1>5, ArgumentDenied
  <2>5. \A i \in DOMAIN list.args : ~Matchable(list.args[i]) => FitsIn(list.args[i], Places(list, i, p.argv), p.argv)
    BY DEF FitsIn
  <2> QED BY <2>1, <2>2, <2>3, <2>4, <2>5 DEF ListHolds
<1> QED BY <1>4, <1>5

\* The patterns of a rule are those of its variables too.
LEMMA EnvPatterns ==
  ASSUME NEW d, NEW key \in DOMAIN d.envs
  PROVE  /\ EnvPattern(key, d.envs[key]) \in PatternsOf(d)
         /\ d.envs[key] # NULL => d.envs[key] \in PatternsOf(d)
<1>1. EnvPatternsOf(d) \subseteq PatternsOf(d)
  BY DEF PatternsOf
<1>2. EnvPattern(key, d.envs[key]) \in EnvPatternsOf(d)
  BY DEF EnvPatternsOf
<1>3. d.envs[key] # NULL => d.envs[key] \in EnvPatternsOf(d)
  BY DEF EnvPatternsOf, Range
<1> QED BY <1>1, <1>2, <1>3

\* The node of a variable finds it in the environment.
LEMMA EnvDenied ==
  ASSUME NEW d \in DenyRules, IsDeny(d), NEW key \in DOMAIN d.envs,
         NEW node, node = Matching("PROCESS_ENVAR", EnvPattern(key, d.envs[key]))
  PROVE  /\ node \in Leaves
         /\ PlainName(key) => \A p \in Processes : Denied(node, p) <=> EnvHolds(key, d.envs[key], p.envs)
<1>1. PICK value : value = d.envs[key]
  OBVIOUS
<1>2. PICK q : q = IF value = NULL THEN <<"*", "?">> ELSE value
  OBVIOUS
<1>3. PICK pattern : pattern = EnvPattern(key, value)
  OBVIOUS
<1>4. key \in Text /\ q \in Text
  <2>1. key \in Text /\ value \in {NULL} \cup Text
    BY <1>1 DEF IsDeny
  <2>2. PICK some : some = <<"*", "?">>
    OBVIOUS
  <2>3. some \in [1 .. 2 -> Chars]
    BY <2>2 DEF Chars
  <2>4. some \in Text
    BY <2>3, LengthOf DEF Text
  <2> QED BY <1>2, <2>1, <2>2, <2>4
<1>5. pattern = key \o <<"=">> \o q
  BY <1>2, <1>3 DEF EnvPattern
<1>6. pattern \in Text /\ pattern \in Values /\ pattern \in PatternsOf(d)
  <2>1. pattern \in Text
    BY <1>4, <1>5, KeyedText
  <2>2. pattern \in PatternsOf(d)
    BY <1>1, <1>3, EnvPatterns
  <2> QED BY <2>1, <2>2 DEF Values
<1>7. PICK c \in {"EXACT", "WILDCARD"} : c = Matcher(pattern)
  BY DEF Matcher
<1>8. node = StrEvaluator("PROCESS_ENVAR", pattern, c) /\ "PROCESS_ENVAR" \in ListNames
  BY <1>1, <1>3, <1>7 DEF Matching, ListNames
<1>9. node \in Leaves
  BY <1>6, <1>8, LeafTypes
<1>10. ASSUME PlainName(key), NEW p \in Processes
       PROVE  Denied(node, p) <=> EnvHolds(key, value, p.envs)
  <2>1. PICK facts : facts = [i \in DOMAIN p.envs |-> EnvText(p.envs[i])]
    OBVIOUS
  <2>2. facts = Context(p).lists["PROCESS_ENVAR"]
    BY <2>1 DEF Context
  <2>3. Denied(node, p) <=> \E i \in DOMAIN facts : StrCompare(c, pattern, facts[i])
    BY <1>6, <1>8, <2>2, ListLeafDenied
  <2>4. ASSUME NEW i \in DOMAIN p.envs
        PROVE  StrCompare(c, pattern, EnvText(p.envs[i])) <=>
                 p.envs[i].key = key /\ IF value = NULL THEN p.envs[i].value # << >> ELSE Fits(value, p.envs[i].value)
    <3>1. PICK name : name = p.envs[i].key
      OBVIOUS
    <3>2. PICK t : t = p.envs[i].value
      OBVIOUS
    <3>3. name \in Text /\ "=" \notin Range(name) /\ t \in Text /\ t \in TextsOf(p)
      BY <3>1, <3>2, ProcessTexts
    <3>4. EnvText(p.envs[i]) = name \o <<"=">> \o t
      BY <3>1, <3>2 DEF EnvText
    <3>5. EnvText(p.envs[i]) \in Text /\ EnvText(p.envs[i]) \in TextsOf(p)
      BY ProcessTexts
    <3>6. StrCompare(c, pattern, EnvText(p.envs[i])) <=> Glob(pattern, EnvText(p.envs[i]))
      BY <1>6, <1>7, <3>5, TextFits
    <3>7. Glob(pattern, EnvText(p.envs[i])) <=> key = name /\ Glob(q, t)
      BY <1>4, <1>5, <1>10, <3>3, <3>4, KeyGlob
    <3>8. CASE value = NULL
      <4>1. Glob(q, t) <=> t # << >>
        BY <1>2, <3>3, <3>8, SomethingGlob
      <4> QED BY <3>1, <3>2, <3>6, <3>7, <3>8, <4>1
    <3>9. CASE value # NULL
      <4>1. q = value /\ value \in PatternsOf(d)
        BY <1>1, <1>2, <3>9, EnvPatterns
      <4>2. Glob(q, t) <=> Fits(value, t)
        BY <1>4, <3>3, <4>1, TextFits
      <4> QED BY <3>1, <3>2, <3>6, <3>7, <3>9, <4>2
    <3> QED BY <3>8, <3>9
  <2> QED BY <2>1, <2>3, <2>4 DEF EnvHolds
<1> QED BY <1>1, <1>9, <1>10

-----------------------------------------------------------------------------
(* The parts of a rule *)

\* All the trees of a list deny a process.
AllDenied(nodes, p) == \A i \in DOMAIN nodes : Denied(nodes[i], p)

\* Lists one behind the other deny what both of them do.
LEMMA ConcatDenied ==
  ASSUME NEW S, NEW s \in Seq(S), NEW t \in Seq(S)
  PROVE  /\ s \o t \in Seq(S)
         /\ \A p : AllDenied(s \o t, p) <=> AllDenied(s, p) /\ AllDenied(t, p)
<1>1. PICK u : u = s \o t
  OBVIOUS
<1>2. PICK m \in Nat : m = Len(s) /\ DOMAIN s = 1 .. m
  OBVIOUS
<1>3. PICK n \in Nat : n = Len(t) /\ DOMAIN t = 1 .. n
  OBVIOUS
<1>4. /\ u \in Seq(S) /\ DOMAIN u = 1 .. m + n
      /\ \A i \in 1 .. m + n : u[i] = IF i <= m THEN s[i] ELSE t[i - m]
  BY <1>1, <1>2, <1>3, ConcatProperties
<1>5. ASSUME NEW p
      PROVE  AllDenied(u, p) <=> AllDenied(s, p) /\ AllDenied(t, p)
  <2>1. ASSUME AllDenied(u, p) PROVE AllDenied(s, p) /\ AllDenied(t, p)
    <3>1. ASSUME NEW i \in DOMAIN s PROVE Denied(s[i], p)
      <4>1. i \in 1 .. m + n /\ i <= m
        BY <1>2
      <4> QED BY <1>4, <2>1, <4>1 DEF AllDenied
    <3>2. ASSUME NEW i \in DOMAIN t PROVE Denied(t[i], p)
      <4>1. m + i \in 1 .. m + n /\ ~(m + i <= m) /\ (m + i) - m = i
        BY <1>3
      <4> QED BY <1>4, <2>1, <4>1 DEF AllDenied
    <3> QED BY <3>1, <3>2 DEF AllDenied
  <2>2. ASSUME AllDenied(s, p), AllDenied(t, p) PROVE AllDenied(u, p)
    <3> SUFFICES ASSUME NEW i \in DOMAIN u PROVE Denied(u[i], p)
      BY DEF AllDenied
    <3>1. CASE i <= m
      <4>1. i \in DOMAIN s /\ u[i] = s[i]
        BY <1>2, <1>4, <3>1
      <4> QED BY <2>2, <4>1 DEF AllDenied
    <3>2. CASE ~(i <= m)
      <4>1. i - m \in DOMAIN t /\ u[i] = t[i - m]
        BY <1>3, <1>4, <3>2
      <4> QED BY <2>2, <4>1 DEF AllDenied
    <3> QED BY <3>1, <3>2
  <2> QED BY <2>1, <2>2
<1> QED BY <1>1, <1>4, <1>5

\* A group denies what all or some of its trees do, and no group denies everything.
LEMMA GroupDenied ==
  ASSUME NEW o \in {"AND", "OR"}, NEW nodes \in Seq(Flat), NEW group, group = Group(o, nodes)
  PROVE  /\ group \in Seq(Low)
         /\ \A p : AllDenied(group, p) <=>
              (nodes # << >> => IF o = "AND" THEN AllDenied(nodes, p) ELSE \E i \in DOMAIN nodes : Denied(nodes[i], p))
<1>1. CASE nodes = << >>
  <2>1. group = << >>
    BY <1>1 DEF Group
  <2>2. group \in Seq(Low) /\ DOMAIN group = {}
    BY <2>1, NoPlaces, EmptySeq
  <2> QED BY <1>1, <2>2 DEF AllDenied
<1>2. CASE nodes # << >>
  <2>1. PICK tree : tree = Combined(o, nodes)
    OBVIOUS
  <2>2. group = <<tree>>
    BY <1>2, <2>1 DEF Group
  <2>3. tree \in Low /\ nodes \in Seq(Low)
    BY <1>2, <2>1, CombinedTypes, TreeSets DEF Low
  <2>4. group \in Seq(Low) /\ DOMAIN group = {1} /\ group[1] = tree
    BY <2>2, <2>3
  <2>5. \A p : Denied(tree, p) <=> IF o = "AND" THEN \A i \in DOMAIN nodes : Denied(nodes[i], p)
                                   ELSE \E i \in DOMAIN nodes : Denied(nodes[i], p)
    BY <1>2, <2>1, <2>3, CombinedDenied
  <2> QED BY <1>2, <2>4, <2>5 DEF AllDenied
<1> QED BY <1>1, <1>2

\* A list that has a tree for each place of another.
LEMMA MappedList ==
  ASSUME NEW T, NEW s \in Seq(T), NEW S, NEW f, f = [i \in DOMAIN f |-> f[i]], DOMAIN f = DOMAIN s,
         \A i \in DOMAIN s : f[i] \in S
  PROVE  f \in Seq(S) /\ (f = << >> <=> s = << >>)
<1>1. PICK n \in Nat : n = Len(s) /\ DOMAIN s = 1 .. n
  OBVIOUS
<1>2. f \in [1 .. n -> S]
  BY <1>1
<1>3. f \in Seq(S) /\ Len(f) = n
  BY <1>2, LengthOf
<1> QED BY <1>1, <1>3, EmptySeq

\* The names of a rule's variables, in some order.
LEMMA KeysListed ==
  ASSUME NEW T, IsFiniteSet(T), NEW keys \in SetToSeqs(T)
  PROVE  keys \in Seq(T) /\ Range(keys) = T
<1>1. PICK n \in Nat : n = Cardinality(T)
  BY FS_CardinalityType
<1>2. keys \in [1 .. n -> T] /\ \A i, j \in 1 .. n : i # j => keys[i] # keys[j]
  BY <1>1 DEF SetToSeqs
<1>3. keys \in Seq(T)
  BY <1>2, LengthOf
<1>4. keys \in Injection(1 .. n, T)
  BY <1>2 DEF Injection, IsInjective
<1>5. Cardinality(1 .. n) = n
  <2>1. PICK a \in Int : a = 1
    OBVIOUS
  <2>2. Cardinality(a .. n) = IF a > n THEN 0 ELSE n - a + 1
    BY FS_Interval
  <2> QED BY <2>1, <2>2
<1>6. keys \in Surjection(1 .. n, T)
  BY <1>1, <1>4, <1>5, FS_Injection
<1>7. Range(keys) = T
  BY <1>2, <1>6 DEF Surjection, Range
<1> QED BY <1>3, <1>7

\* A list of one.
LEMMA ListOfOne ==
  ASSUME NEW S, NEW x \in S, NEW s, s = <<x>>
  PROVE  s \in Seq(S) /\ DOMAIN s = {1} /\ s[1] = x
  OBVIOUS

\* The nodes of a rule's operating system: one, or none.
OSPart(d) == IF d.os = "" THEN << >> ELSE <<StrEvaluator("OS", normalizeOS(d.os), "EXACT")>>

\* The operating system's part.
LEMMA OSDenied ==
  ASSUME NEW d, d.os # "" => normalizeOS(d.os) # NULL, NEW os, os = OSPart(d)
  PROVE  /\ os \in Seq(Low)
         /\ \A p \in Processes : AllDenied(os, p) <=>
              (d.os # "" => p.os = IF d.os = "darwin" THEN "macos" ELSE d.os)
<1>1. CASE d.os = ""
  <2>1. os = << >>
    BY <1>1 DEF OSPart
  <2> QED BY <1>1, <2>1, NoPlaces, EmptySeq DEF AllDenied
<1>2. CASE d.os # ""
  <2>1. PICK name : name = normalizeOS(d.os)
    OBVIOUS
  <2>2. name \in Names /\ name = IF d.os = "darwin" THEN "macos" ELSE d.os
    BY <1>2, <2>1 DEF normalizeOS, Names
  <2>3. PICK leaf : leaf = StrEvaluator("OS", name, "EXACT")
    OBVIOUS
  <2>4. leaf \in Leaves
    BY <2>2, <2>3, LeafTypes DEF StringIds, Values
  <2>5. \A p \in Processes : Denied(leaf, p) <=> name = p.os
    BY <2>2, <2>3, NameDenied
  <2>6. os = <<leaf>>
    BY <1>2, <2>1, <2>3 DEF OSPart
  <2>7. os \in Seq(Low) /\ DOMAIN os = {1} /\ os[1] = leaf
    <3>1. leaf \in Low
      BY <2>4, TreeSets
    <3> QED BY <2>6, <3>1, ListOfOne
  <2> QED BY <1>2, <2>2, <2>5, <2>7 DEF AllDenied
<1> QED BY <1>1, <1>2

\* The part of the commands.
LEMMA CmdsDenied ==
  ASSUME NEW d \in DenyRules, IsDeny(d), NEW cmds, cmds = [i \in DOMAIN d.cmds |-> ConvertCmd(d.cmds[i])],
         NEW group, group = Group("OR", cmds)
  PROVE  /\ group \in Seq(Low)
         /\ \A p \in Processes : AllDenied(group, p) <=>
              (d.cmds # << >> => \E i \in DOMAIN d.cmds : Fits(d.cmds[i], p.exe))
<1>1. d.cmds \in Seq(Text)
  BY DEF IsDeny
<1>2. ASSUME NEW i \in DOMAIN d.cmds
      PROVE  /\ cmds[i] \in Leaves
             /\ \A p \in Processes : Denied(cmds[i], p) <=> Fits(d.cmds[i], p.exe)
  <2>1. d.cmds[i] \in Text /\ d.cmds[i] \in Range(d.cmds)
    BY <1>1 DEF Range
  <2> QED BY <2>1, CmdDenied
<1>3. cmds = [i \in DOMAIN cmds |-> cmds[i]] /\ DOMAIN cmds = DOMAIN d.cmds
  OBVIOUS
<1>4. cmds \in Seq(Leaves) /\ (cmds = << >> <=> d.cmds = << >>)
  BY <1>1, <1>2, <1>3, MappedList
<1>5. cmds \in Seq(Flat)
  BY <1>4, TreeSets
<1> QED BY <1>2, <1>3, <1>4, <1>5, GroupDenied

\* The part of the arguments.
LEMMA ArgsDenied ==
  ASSUME NEW d \in DenyRules, IsDeny(d), NEW args, args = [i \in DOMAIN d.args |-> ConvertArguments(d.args[i])],
         Error \notin Range(args), NEW group, group = Group("AND", args)
  PROVE  /\ group \in Seq(Low)
         /\ (\A i \in DOMAIN d.args : ~Odd(d.args[i])) =>
              \A p \in Processes : AllDenied(group, p) <=> \A i \in DOMAIN d.args : ListHolds(d.args[i], p.argv)
<1>1. d.args \in Seq(ArgumentList)
  BY DEF IsDeny
<1>2. ASSUME NEW i \in DOMAIN d.args
      PROVE  /\ args[i] \in Flat
             /\ ~Odd(d.args[i]) => \A p \in Processes : Denied(args[i], p) <=> ListHolds(d.args[i], p.argv)
  <2>1. d.args[i] \in ArgumentList /\ d.args[i] \in Range(d.args)
    BY <1>1 DEF Range
  <2>2. args[i] = ConvertArguments(d.args[i]) /\ args[i] # Error
    BY DEF Range
  <2> QED BY <2>1, <2>2, ArgumentsDenied
<1>3. args = [i \in DOMAIN args |-> args[i]] /\ DOMAIN args = DOMAIN d.args
  OBVIOUS
<1>4. args \in Seq(Flat) /\ (args = << >> <=> d.args = << >>)
  <2>1. \A i \in DOMAIN d.args : args[i] \in Flat
    BY <1>2
  <2> QED BY ONLY <1>1, <1>3, <2>1, MappedList
<1>5. d.args = << >> => DOMAIN d.args = {}
  BY NoPlaces
<1>6. group \in Seq(Low) /\ \A p : AllDenied(group, p) <=> (args # << >> => AllDenied(args, p))
  BY <1>4, GroupDenied
<1>7. ASSUME \A i \in DOMAIN d.args : ~Odd(d.args[i]), NEW p \in Processes
      PROVE  AllDenied(args, p) <=> \A i \in DOMAIN d.args : ListHolds(d.args[i], p.argv)
  BY <1>2, <1>3, <1>7 DEF AllDenied
<1> QED BY <1>4, <1>5, <1>6, <1>7

\* The part of the variables, whatever their order.
LEMMA EnvsDenied ==
  ASSUME NEW d \in DenyRules, IsDeny(d), NEW keys \in SetToSeqs(DOMAIN d.envs),
         NEW envs, envs = [i \in DOMAIN keys |-> Matching("PROCESS_ENVAR", EnvPattern(keys[i], d.envs[keys[i]]))],
         NEW group, group = Group("AND", envs)
  PROVE  /\ group \in Seq(Low)
         /\ (\A key \in DOMAIN d.envs : PlainName(key)) =>
              \A p \in Processes : AllDenied(group, p) <=>
                \A key \in DOMAIN d.envs : EnvHolds(key, d.envs[key], p.envs)
<1>1. PICK T : T = DOMAIN d.envs
  OBVIOUS
<1>2. IsFiniteSet(T) /\ keys \in SetToSeqs(T)
  BY <1>1 DEF IsDeny
<1>3. keys \in Seq(T) /\ Range(keys) = T
  BY <1>2, KeysListed
<1>4. ASSUME NEW i \in DOMAIN keys
      PROVE  /\ envs[i] \in Leaves
             /\ PlainName(keys[i]) => \A p \in Processes : Denied(envs[i], p) <=> EnvHolds(keys[i], d.envs[keys[i]], p.envs)
  <2>1. keys[i] \in DOMAIN d.envs
    BY <1>1, <1>3 DEF Range
  <2>2. envs[i] = Matching("PROCESS_ENVAR", EnvPattern(keys[i], d.envs[keys[i]]))
    OBVIOUS
  <2> QED BY <2>1, <2>2, EnvDenied
<1>5. envs = [i \in DOMAIN envs |-> envs[i]] /\ DOMAIN envs = DOMAIN keys
  OBVIOUS
<1>6. envs \in Seq(Leaves) /\ (envs = << >> <=> keys = << >>)
  BY <1>3, <1>4, <1>5, MappedList
<1>7. envs \in Seq(Flat)
  BY <1>6, TreeSets
<1>8. keys = << >> => DOMAIN keys = {}
  BY NoPlaces
<1>9. ASSUME \A key \in DOMAIN d.envs : PlainName(key), NEW p \in Processes
      PROVE  AllDenied(group, p) <=> \A key \in DOMAIN d.envs : EnvHolds(key, d.envs[key], p.envs)
  <2>1. AllDenied(group, p) <=> \A i \in DOMAIN keys : Denied(envs[i], p)
    <3>1. AllDenied(group, p) <=> (envs # << >> => AllDenied(envs, p))
      BY <1>7, GroupDenied
    <3>2. AllDenied(envs, p) <=> \A i \in DOMAIN keys : Denied(envs[i], p)
      BY <1>5 DEF AllDenied
    <3>3. CASE envs = << >>
      BY <1>6, <1>8, <3>1, <3>3
    <3>4. CASE envs # << >>
      BY ONLY <3>1, <3>2, <3>4
    <3> QED BY <3>3, <3>4
  <2>2. \A i \in DOMAIN keys : keys[i] \in DOMAIN d.envs
    BY <1>1, <1>3 DEF Range
  <2>3. (\A i \in DOMAIN keys : Denied(envs[i], p)) <=>
          \A i \in DOMAIN keys : EnvHolds(keys[i], d.envs[keys[i]], p.envs)
    BY <1>4, <1>9, <2>2
  <2>4. \A key \in DOMAIN d.envs : \E i \in DOMAIN keys : keys[i] = key
    BY <1>1, <1>3 DEF Range
  <2> QED BY <2>1, <2>2, <2>3, <2>4
<1>10. group \in Seq(Low)
  BY <1>7, GroupDenied
<1> QED BY <1>9, <1>10

\* The premises of DeniesWhatRulesSay.
Ordinary(d) == (\A j \in DOMAIN d.args : ~Odd(d.args[j])) /\ (\A key \in DOMAIN d.envs : PlainName(key))

\* A deny rule's policy denies the processes that the rule is about.
LEMMA DenyDenied ==
  ASSUME NEW d \in DenyRules, IsDeny(d), NEW keys \in SetToSeqs(DOMAIN d.envs),
         NEW trees, trees = ConvertDeny(d, keys), trees # Error
  PROVE  \E tree \in Trees : /\ trees = <<tree>>
                             /\ Ordinary(d) => \A p \in Processes : Denied(tree, p) <=> DenyHolds(d, p)
<1>1. PICK os : os = OSPart(d)
  OBVIOUS
<1>2. PICK args : args = [i \in DOMAIN d.args |-> ConvertArguments(d.args[i])]
  OBVIOUS
<1>3. PICK group1 : group1 = Group("OR", [i \in DOMAIN d.cmds |-> ConvertCmd(d.cmds[i])])
  OBVIOUS
<1>4. PICK group2 : group2 = Group("AND", args)
  OBVIOUS
<1>5. PICK group3 : group3 = Group("AND", [i \in DOMAIN keys |->
                                            Matching("PROCESS_ENVAR", EnvPattern(keys[i], d.envs[keys[i]]))])
  OBVIOUS
<1>6. PICK nodes : nodes = os \o group1 \o group2 \o group3
  OBVIOUS
<1>7. /\ nodes # << >> /\ (d.os # "" => normalizeOS(d.os) # NULL) /\ Error \notin Range(args)
      /\ trees = <<Combined("AND", nodes)>>
  BY <1>1, <1>2, <1>3, <1>4, <1>5, <1>6 DEF ConvertDeny, OSPart
<1>8. /\ os \in Seq(Low)
      /\ \A p \in Processes : AllDenied(os, p) <=>
           (d.os # "" => p.os = IF d.os = "darwin" THEN "macos" ELSE d.os)
  BY <1>1, <1>7, OSDenied
<1>9. /\ group1 \in Seq(Low)
      /\ \A p \in Processes : AllDenied(group1, p) <=>
           (d.cmds # << >> => \E i \in DOMAIN d.cmds : Fits(d.cmds[i], p.exe))
  BY <1>3, CmdsDenied
<1>10. /\ group2 \in Seq(Low)
       /\ (\A i \in DOMAIN d.args : ~Odd(d.args[i])) =>
            \A p \in Processes : AllDenied(group2, p) <=> \A i \in DOMAIN d.args : ListHolds(d.args[i], p.argv)
  BY <1>2, <1>4, <1>7, ArgsDenied
<1>11. /\ group3 \in Seq(Low)
       /\ (\A key \in DOMAIN d.envs : PlainName(key)) =>
            \A p \in Processes : AllDenied(group3, p) <=>
              \A key \in DOMAIN d.envs : EnvHolds(key, d.envs[key], p.envs)
  BY <1>5, EnvsDenied
<1>12. /\ nodes \in Seq(Low)
       /\ \A p : AllDenied(nodes, p) <=>
            AllDenied(os, p) /\ AllDenied(group1, p) /\ AllDenied(group2, p) /\ AllDenied(group3, p)
  <2>1. PICK s : s = os \o group1
    OBVIOUS
  <2>2. PICK t : t = s \o group2
    OBVIOUS
  <2>3. nodes = t \o group3
    BY <1>6, <2>1, <2>2
  <2>4. s \in Seq(Low) /\ \A p : AllDenied(s, p) <=> AllDenied(os, p) /\ AllDenied(group1, p)
    BY <1>8, <1>9, <2>1, ConcatDenied
  <2>5. t \in Seq(Low) /\ \A p : AllDenied(t, p) <=> AllDenied(s, p) /\ AllDenied(group2, p)
    BY <1>10, <2>2, <2>4, ConcatDenied
  <2>6. nodes \in Seq(Low) /\ \A p : AllDenied(nodes, p) <=> AllDenied(t, p) /\ AllDenied(group3, p)
    BY <1>11, <2>3, <2>5, ConcatDenied
  <2> QED BY <2>4, <2>5, <2>6
<1>13. PICK tree : tree = Combined("AND", nodes)
  OBVIOUS
<1>14. tree \in Trees /\ \A p : Denied(tree, p) <=> AllDenied(nodes, p)
  BY <1>7, <1>12, <1>13, CombinedTypes, CombinedDenied DEF Trees, AllDenied
<1>15. ASSUME Ordinary(d), NEW p \in Processes PROVE Denied(tree, p) <=> DenyHolds(d, p)
  BY <1>8, <1>9, <1>10, <1>11, <1>12, <1>14, <1>15 DEF Ordinary, DenyHolds
<1> QED BY <1>7, <1>13, <1>14, <1>15

-----------------------------------------------------------------------------
(* What a conversion that did not fail says of its rule *)

\* The rules that the converter is done with could be converted; it comes to the
\* file behind the last of them, and writing is the last thing it does.
Converting ==
  /\ requirements \in Inputs
  /\ converted \in Nat
  /\ converted > 0 => Acceptable
  /\ Acceptable =>
       /\ \A i \in 1 .. Denies : i <= converted => DenyConvertible(requirements.deny[i])
       /\ \A i \in DOMAIN Libcs : Denies + i <= converted => LibcConvertible(Libcs[i][1])
  /\ exit = "none" => output = "nothing"
  /\ output # "nothing" => Acceptable /\ converted = Denies + Len(Libcs)
  /\ exit = "success" => output = "all"

\* A list without places is empty.
LEMMA NothingListed ==
  ASSUME NEW f, f = [i \in DOMAIN f |-> f[i]], DOMAIN f = {}
  PROVE  f = << >>
<1>1. f \in [1 .. 0 -> {}]
  OBVIOUS
<1>2. f \in Seq({})
  BY <1>1
<1>3. Len(f) = 0
  BY <1>2
<1> QED BY <1>2, <1>3, EmptySeq

\* The empty list adds nothing to itself.
LEMMA NothingAdded == << >> \o << >> = << >>
<1>1. << >> \in Seq({})
  BY EmptySeq
<1> QED BY <1>1, ConcatEmptySeq

\* Only something makes a group.
LEMMA GroupOfSome == \A o : Group(o, << >>) = << >>
  BY DEF Group

\* A rule that was converted has a condition, a known operating system, and
\* something to match in each of its lists.
LEMMA DenyConverted ==
  ASSUME NEW d, IsDeny(d), NEW keys \in SetToSeqs(DOMAIN d.envs), ConvertDeny(d, keys) # Error
  PROVE  DenyConvertible(d)
<1> DEFINE os == IF d.os = "" THEN << >> ELSE <<StrEvaluator("OS", normalizeOS(d.os), "EXACT")>>
           cmds == [i \in DOMAIN d.cmds |-> ConvertCmd(d.cmds[i])]
           args == [i \in DOMAIN d.args |-> ConvertArguments(d.args[i])]
           envs == [i \in DOMAIN keys |-> Matching("PROCESS_ENVAR", EnvPattern(keys[i], d.envs[keys[i]]))]
<1>1. /\ os \o Group("OR", cmds) \o Group("AND", args) \o Group("AND", envs) # << >>
      /\ ~(d.os # "" /\ normalizeOS(d.os) = NULL)
      /\ Error \notin Range(args)
  BY DEF ConvertDeny
<1>2. d.os # "" \/ d.cmds # << >> \/ d.args # << >> \/ DOMAIN d.envs # {}
  <2> SUFFICES ASSUME d.os = "", d.cmds = << >>, d.args = << >>, DOMAIN d.envs = {}
               PROVE  FALSE
    OBVIOUS
  <2>1. cmds = << >> /\ args = << >>
    <3>1. DOMAIN d.cmds = {} /\ DOMAIN d.args = {}
      BY NoPlaces
    <3>2. cmds = [i \in DOMAIN cmds |-> cmds[i]] /\ DOMAIN cmds = {}
      BY <3>1
    <3>3. args = [i \in DOMAIN args |-> args[i]] /\ DOMAIN args = {}
      BY <3>1
    <3> QED BY <3>2, <3>3, NothingListed
  <2>2. keys = << >>
    <3>1. keys \in [1 .. 0 -> {}]
      BY FS_EmptySet DEF SetToSeqs
    <3>2. keys = [i \in DOMAIN keys |-> keys[i]] /\ DOMAIN keys = {}
      BY <3>1
    <3> QED BY <3>2, NothingListed
  <2>3. envs = << >>
    <3>1. DOMAIN keys = {}
      BY <2>2, NoPlaces
    <3>2. envs = [i \in DOMAIN envs |-> envs[i]] /\ DOMAIN envs = {}
      BY <3>1
    <3> QED BY <3>2, NothingListed
  <2> HIDE DEF os, cmds, args, envs
  <2>4. os = << >>
    BY DEF os
  <2> QED BY <1>1, <2>1, <2>3, <2>4, GroupOfSome, NothingAdded
<1>3. d.os \in {"", "windows", "linux", "darwin", "macos"}
  BY <1>1 DEF normalizeOS
<1>4. ASSUME NEW i \in DOMAIN d.args
      PROVE  \E j \in DOMAIN d.args[i].args : Matchable(d.args[i].args[j])
  <2>1. args[i] # Error
    BY <1>1 DEF Range
  <2>2. d.args[i] \in ArgumentList
    BY DEF IsDeny
  <2> QED BY <2>1, <2>2, ArgumentsMatch
<1> QED BY <1>2, <1>3, <1>4 DEF DenyConvertible

\* A libc rule that was converted needs no policy, or has a known architecture.
LEMMA LibcConverted ==
  ASSUME NEW l, NEW flavor, ConvertLibc(l, flavor) # Error
  PROVE  LibcConvertible(l)
<1>1. CASE l.supported /\ l.min = NULL
  BY <1>1 DEF LibcConvertible
<1>2. CASE ~(l.supported /\ l.min = NULL)
  <2>1. l.arch \in DOMAIN MachineArchitectures
    BY <1>2 DEF ConvertLibc
  <2>2. l.arch \in {"aarch64", "arm64", "x86_64", "x64", "amd64", "arm", "x86"}
    BY <2>1 DEF MachineArchitectures
  <2> QED BY <2>2 DEF LibcConvertible, SameArchitecture
<1> QED BY <1>1, <1>2


-----------------------------------------------------------------------------
(* The rules of an input *)

\* The deny rules of an input.
LEMMA DenyRule ==
  ASSUME NEW r \in Inputs \ {NULL}
  PROVE  /\ Len(r.deny) \in Nat /\ DOMAIN r.deny = 1 .. Len(r.deny)
         /\ \A i \in DOMAIN r.deny : r.deny[i] \in DenyRules /\ IsDeny(r.deny[i])
<1>1. r.deny \in Seq(Range(r.deny)) /\ \A d \in Range(r.deny) : IsDeny(d)
  BY InputsAssumption
<1>2. \A i \in DOMAIN r.deny : r.deny[i] \in Range(r.deny)
  BY DEF Range
<1>3. Range(r.deny) \subseteq DenyRules
  BY DEF DenyRules
<1> QED BY <1>1, <1>2, <1>3

\* A libc rule with the flavor that it is for.
FlavoredRules == {l \in JSONlibc : ProperLibc(l)} \X {"glibc", "musl"}

\* The libc rules of an input.
LEMMA LibcRule ==
  ASSUME NEW r \in Inputs \ {NULL}, NEW l \in Range(r.glibc) \cup Range(r.musl)
  PROVE  ProperLibc(l)
<1>1. l \in LibcRules
  BY DEF LibcRules
<1>2. l \in JSONlibc
  <2>1. r.glibc \in Seq(JSONlibc) /\ r.musl \in Seq(JSONlibc)
    BY InputsAssumption
  <2> QED BY <2>1 DEF Range
<1>3. ASSUME l.min # NULL PROVE Len(l.min) >= 2 /\ \A k \in DOMAIN l.min : Number("num", l.min[k]) = l.min[k]
  <2>1. Len(l.min) >= 2
    BY <1>3, InputsAssumption
  <2>2. \A k \in DOMAIN l.min : l.min[k] \in Range(l.min)
    BY DEF Range
  <2>3. Range(l.min) \subseteq UNION {Range(m.min) : m \in {m \in LibcRules : m.min # NULL}}
    BY <1>1, <1>3
  <2> QED BY <2>1, <2>2, <2>3, NumbersAssumption
<1> QED BY <1>2, <1>3 DEF ProperLibc

\* The rules of an acceptable input are counted.
LEMMA RulesCounted ==
  ASSUME requirements \in Inputs, Acceptable
  PROVE  /\ Denies \in Nat /\ DOMAIN requirements.deny = 1 .. Denies
         /\ Libcs \in Seq(FlavoredRules)
         /\ DOMAIN Libcs = 1 .. Len(Libcs) /\ Len(Libcs) \in Nat
<1>1. requirements \in Inputs \ {NULL}
  BY DEF Acceptable
<1>2. requirements.glibc \in Seq(JSONlibc) /\ requirements.musl \in Seq(JSONlibc)
  BY <1>1, InputsAssumption
<1> DEFINE glibc == [i \in DOMAIN requirements.glibc |-> <<requirements.glibc[i], "glibc">>]
           musl == [i \in DOMAIN requirements.musl |-> <<requirements.musl[i], "musl">>]
<1>3. glibc \in Seq(FlavoredRules)
  <2>1. \A i \in DOMAIN requirements.glibc : requirements.glibc[i] \in Range(requirements.glibc)
    BY DEF Range
  <2>2. \A i \in DOMAIN requirements.glibc : requirements.glibc[i] \in {l \in JSONlibc : ProperLibc(l)}
    BY <1>1, <1>2, <2>1, LibcRule
  <2>3. \A i \in DOMAIN requirements.glibc : glibc[i] \in FlavoredRules
    BY <2>2 DEF FlavoredRules
  <2>4. glibc = [i \in DOMAIN glibc |-> glibc[i]] /\ DOMAIN glibc = DOMAIN requirements.glibc
    OBVIOUS
  <2> HIDE DEF glibc
  <2> QED BY <1>2, <2>3, <2>4, MappedList
<1>4. musl \in Seq(FlavoredRules)
  <2>1. \A i \in DOMAIN requirements.musl : requirements.musl[i] \in Range(requirements.musl)
    BY DEF Range
  <2>2. \A i \in DOMAIN requirements.musl : requirements.musl[i] \in {l \in JSONlibc : ProperLibc(l)}
    BY <1>1, <1>2, <2>1, LibcRule
  <2>3. \A i \in DOMAIN requirements.musl : musl[i] \in FlavoredRules
    BY <2>2 DEF FlavoredRules
  <2>4. musl = [i \in DOMAIN musl |-> musl[i]] /\ DOMAIN musl = DOMAIN requirements.musl
    OBVIOUS
  <2> HIDE DEF musl
  <2> QED BY <1>2, <2>3, <2>4, MappedList
<1>5. Libcs = glibc \o musl
  BY DEF Libcs
<1> HIDE DEF glibc, musl
<1>6. Libcs \in Seq(FlavoredRules)
  BY <1>3, <1>4, <1>5, ConcatProperties
<1> QED BY <1>1, <1>6, DenyRule, LenProperties DEF Denies

-----------------------------------------------------------------------------
(* Every rule has its policies *)

\* At the start nothing is converted.
LEMMA ConverterStarts == ConverterInit => Converting
<1> SUFFICES ASSUME ConverterInit PROVE Converting
  OBVIOUS
<1>1. /\ requirements \in Inputs /\ converted = 0
      /\ output = "nothing" /\ exit = "none"
  BY DEF ConverterInit
<1>2. ASSUME Acceptable
      PROVE  /\ \A i \in 1 .. Denies : ~(i <= converted)
             /\ \A i \in DOMAIN Libcs : ~(Denies + i <= converted)
  BY <1>1, <1>2, RulesCounted
<1> QED BY <1>1, <1>2 DEF Converting

\* What happens when the conversion of a rule ends, the rule being the next one.
LEMMA RuleConverted ==
  ASSUME Converting, Acceptable, exit = "none", NEW trees, Converts(trees),
         \A i \in 1 .. Denies :
            i = converted + 1 /\ trees # Error => DenyConvertible(requirements.deny[i]),
         \A i \in DOMAIN Libcs :
            Denies + i = converted + 1 /\ trees # Error => LibcConvertible(Libcs[i][1])
  PROVE  Converting'
<1> DEFINE Done(k) == /\ \A i \in 1 .. Denies : i <= k => DenyConvertible(requirements.deny[i])
                      /\ \A i \in DOMAIN Libcs : Denies + i <= k => LibcConvertible(Libcs[i][1])
<1>1. requirements' = requirements /\ output' = output /\ output = "nothing"
  BY DEF Converts, Converting
<1>2. /\ Acceptable' = Acceptable /\ Denies' = Denies /\ Libcs' = Libcs
      /\ requirements' \in Inputs
  BY <1>1 DEF Acceptable, Denies, Libcs, Converting
<1>3. Done(converted) /\ converted \in Nat
  BY DEF Converting
<1>4. Done(converted') /\ converted' \in Nat
  <2>1. CASE trees = Error
    BY <1>3, <2>1 DEF Converts
  <2>2. CASE trees # Error
    <3>1. converted' = converted + 1
      BY <2>2 DEF Converts
    <3>2. Denies \in Nat /\ DOMAIN Libcs \subseteq Nat
      BY RulesCounted DEF Converting
    <3> QED BY <1>3, <2>2, <3>1, <3>2
  <2> QED BY <2>1, <2>2
<1>5. exit' # "success"
  BY DEF Converts
<1> QED BY <1>1, <1>2, <1>4, <1>5 DEF Converting

\* Every step keeps the invariant: one rule more that could be converted, or the end.
LEMMA ConverterSteps == Converting /\ [ConverterNext]_converterVars => Converting'
<1> SUFFICES ASSUME Converting, [ConverterNext]_converterVars PROVE Converting'
  OBVIOUS
<1> USE DEF Converting
<1>1. CASE RejectInput
  BY <1>1 DEF RejectInput, Acceptable
<1>2. CASE ConvertDenyRule
  <2>1. exit = "none" /\ Acceptable /\ converted < Denies
    BY <1>2 DEF ConvertDenyRule
  <2>2. PICK keys \in SetToSeqs(DOMAIN requirements.deny[converted + 1].envs) :
          Converts(ConvertDeny(requirements.deny[converted + 1], keys))
    BY <1>2 DEF ConvertDenyRule
  <2> DEFINE trees == ConvertDeny(requirements.deny[converted + 1], keys)
  <2>3. trees # Error => DenyConvertible(requirements.deny[converted + 1])
    <3>1. IsDeny(requirements.deny[converted + 1])
      BY <2>1, RulesCounted, DenyRule DEF Acceptable
    <3> QED BY <3>1, DenyConverted
  <2>4. \A i \in DOMAIN Libcs : Denies + i # converted + 1
    BY <2>1, RulesCounted
  <2> HIDE DEF trees, Converting
  <2> QED BY <2>1, <2>2, <2>3, <2>4, RuleConverted DEF trees
<1>3. CASE ConvertLibcRule
  <2>1. exit = "none" /\ Acceptable /\ converted \in Denies .. Denies + Len(Libcs) - 1
    BY <1>3 DEF ConvertLibcRule
  <2> DEFINE l == Libcs[converted - Denies + 1]
             trees == ConvertLibc(l[1], l[2])
  <2>2. Converts(trees)
    BY <1>3 DEF ConvertLibcRule
  <2>3. trees # Error => LibcConvertible(l[1])
    BY LibcConverted
  <2>4. \A i \in 1 .. Denies : i # converted + 1
    BY <2>1, RulesCounted
  <2>5. \A i \in DOMAIN Libcs : Denies + i = converted + 1 => i = converted - Denies + 1
    BY <2>1, RulesCounted
  <2>6. \A i \in DOMAIN Libcs :
          Denies + i = converted + 1 /\ trees # Error => LibcConvertible(Libcs[i][1])
    BY <2>3, <2>5
  <2> HIDE DEF trees, Converting
  <2> QED BY <2>1, <2>2, <2>4, <2>6, RuleConverted
<1>4. CASE WriteOutput
  BY <1>4 DEF WriteOutput, Acceptable, Denies, Libcs
<1>5. CASE UNCHANGED converterVars
  BY <1>5 DEF converterVars, Acceptable, Denies, Libcs
<1> QED BY <1>1, <1>2, <1>3, <1>4, <1>5 DEF ConverterNext

\* A file is touched, and success reported, only when every rule of the input could
\* be converted.
THEOREM NoRuleDropped == ConverterSpec => []AllOrNothing
<1>1. Converting => AllOrNothing
  <2> SUFFICES ASSUME Converting, output # "nothing" \/ exit = "success"
               PROVE  /\ requirements.version = 1
                      /\ \A i \in 1 .. Denies : DenyConvertible(requirements.deny[i])
                      /\ \A i \in DOMAIN Libcs : LibcConvertible(Libcs[i][1])
    BY DEF AllOrNothing
  <2>1. output # "nothing"
    BY DEF Converting
  <2>2. Acceptable /\ converted = Denies + Len(Libcs) /\ requirements \in Inputs
    BY <2>1 DEF Converting
  <2>3. /\ \A i \in 1 .. Denies : i <= converted
        /\ \A i \in DOMAIN Libcs : Denies + i <= converted
    BY <2>2, RulesCounted
  <2> QED BY <2>2, <2>3 DEF Converting, Acceptable
<1> QED BY <1>1, ConverterStarts, ConverterSteps, PTL DEF ConverterSpec

-----------------------------------------------------------------------------
(* Every policy means its rule *)

\* The first policies say what the deny rules say that are converted.
DenyMeant(rules, n, trees) ==
  \A i \in 1 .. Len(rules) : i <= n /\ Ordinary(rules[i]) =>
    \A p \in Processes : Denied(trees[i], p) <=> DenyHolds(rules[i], p)

\* Those behind them say what the libc rules say together, as far as they are converted.
LibcMeant(m, rules, n, trees) ==
  \A p \in Processes :
    (\E k \in m + 1 .. Len(trees) : Denied(trees[k], p)) <=>
    (\E i \in DOMAIN rules : m + i <= n /\ LibcHolds(rules[i][1], rules[i][2], p))

\* What is proved of the policies of one rule.
PolicyMeans(tree, d) == Ordinary(d) => \A p \in Processes : Denied(tree, p) <=> DenyHolds(d, p)
PoliciesMean(trees, rule) ==
  \A p \in Processes : (\E k \in DOMAIN trees : Denied(trees[k], p)) <=> LibcHolds(rule[1], rule[2], p)

\* The policies so far: one for each deny rule that was counted, which denies what the
\* rule says, and behind them those of the libc rules that were counted.
Meant ==
  /\ policies \in Seq(Trees)
  /\ Acceptable =>
       /\ converted <= Denies => Len(policies) = converted
       /\ converted >= Denies => Len(policies) >= Denies
       /\ DenyMeant(requirements.deny, converted, policies)
       /\ LibcMeant(Denies, Libcs, converted, policies)

\* As long as deny rules are converted there are no policies of libc rules.
LEMMA NoLibcYet ==
  ASSUME NEW m \in Nat, NEW n \in Nat, n <= m, NEW libcs, \A i \in DOMAIN libcs : i \in Nat /\ i > 0,
         NEW ps, Len(ps) = n
  PROVE  LibcMeant(m, libcs, n, ps)
<1>1. \A k \in m + 1 .. Len(ps) : FALSE
  OBVIOUS
<1>2. \A i \in DOMAIN libcs : ~(m + i <= n)
  OBVIOUS
<1> QED BY <1>1, <1>2 DEF LibcMeant

\* One more deny rule has its policy.
LEMMA DenyMeantGrows ==
  ASSUME NEW rules, NEW ps \in Seq(Trees), DenyMeant(rules, Len(ps), ps),
         NEW one \in Seq(Trees), Len(one) = 1, PolicyMeans(one[1], rules[Len(ps) + 1])
  PROVE  /\ ps \o one \in Seq(Trees) /\ Len(ps \o one) = Len(ps) + 1
         /\ DenyMeant(rules, Len(ps) + 1, ps \o one)
<1>1. PICK n \in Nat : n = Len(ps)
  OBVIOUS
<1>2. PICK qs : qs = ps \o one
  OBVIOUS
<1>3. /\ qs \in Seq(Trees) /\ Len(qs) = n + 1
      /\ \A i \in 1 .. n + 1 : qs[i] = IF i <= n THEN ps[i] ELSE one[i - n]
  <2>1. /\ qs \in Seq(Trees) /\ Len(qs) = Len(ps) + Len(one)
        /\ \A i \in 1 .. Len(ps) + Len(one) : qs[i] = IF i <= Len(ps) THEN ps[i] ELSE one[i - Len(ps)]
    BY <1>2, ConcatProperties
  <2> QED BY <1>1, <2>1
<1>4. DenyMeant(rules, n + 1, qs)
  <2> SUFFICES ASSUME NEW i \in 1 .. Len(rules), i <= n + 1, Ordinary(rules[i]), NEW p \in Processes
               PROVE  Denied(qs[i], p) <=> DenyHolds(rules[i], p)
    BY DEF DenyMeant
  <2>1. CASE i <= n
    <3>1. i \in 1 .. n + 1 /\ qs[i] = ps[i]
      BY <1>3, <2>1
    <3> QED BY <1>1, <2>1, <3>1 DEF DenyMeant
  <2>2. CASE ~(i <= n)
    <3>1. i = n + 1 /\ i \in 1 .. n + 1 /\ i - n = 1
      BY <2>2
    <3>2. qs[i] = one[1]
      BY <1>3, <2>2, <3>1
    <3> QED BY <1>1, <3>1, <3>2 DEF PolicyMeans
  <2> QED BY <2>1, <2>2
<1> QED BY <1>1, <1>2, <1>3, <1>4

\* One more libc rule has its policies.
LEMMA LibcMeantGrows ==
  ASSUME NEW rules, NEW m \in Nat, m = Len(rules), NEW n \in Nat, m <= n,
         NEW libcs, NEW j \in DOMAIN libcs, DOMAIN libcs \subseteq Nat, m + j = n + 1,
         NEW ps \in Seq(Trees), Len(ps) >= m, DenyMeant(rules, n, ps), LibcMeant(m, libcs, n, ps),
         NEW trees \in Seq(Trees),
         PoliciesMean(trees, libcs[j]), NEW qs, qs = ps \o trees
  PROVE  /\ qs \in Seq(Trees) /\ Len(qs) >= m
         /\ DenyMeant(rules, n + 1, qs)
         /\ LibcMeant(m, libcs, n + 1, qs)
<1>1. PICK a \in Nat : a = Len(ps)
  OBVIOUS
<1>2. PICK b \in Nat : b = Len(trees) /\ DOMAIN trees = 1 .. b
  OBVIOUS
<1>3. /\ qs \in Seq(Trees) /\ Len(qs) = a + b
      /\ \A i \in 1 .. a + b : qs[i] = IF i <= a THEN ps[i] ELSE trees[i - a]
  BY <1>1, <1>2, ConcatProperties
<1>4. DenyMeant(rules, n + 1, qs)
  <2> SUFFICES ASSUME NEW i \in 1 .. Len(rules), Ordinary(rules[i]), NEW p \in Processes
               PROVE  Denied(qs[i], p) <=> DenyHolds(rules[i], p)
    BY DEF DenyMeant
  <2>1. i <= n /\ i <= a /\ i \in 1 .. a + b
    BY <1>1
  <2> QED BY <1>3, <2>1 DEF DenyMeant
<1>5. LibcMeant(m, libcs, n + 1, qs)
  <2> SUFFICES ASSUME NEW p \in Processes
               PROVE  (\E k \in m + 1 .. Len(qs) : Denied(qs[k], p)) <=>
                      (\E i \in DOMAIN libcs : m + i <= n + 1 /\ LibcHolds(libcs[i][1], libcs[i][2], p))
    BY DEF LibcMeant
  <2>1. (\E k \in m + 1 .. Len(qs) : Denied(qs[k], p)) <=>
          (\E k \in m + 1 .. a : Denied(ps[k], p)) \/ \E k \in DOMAIN trees : Denied(trees[k], p)
    <3>1. ASSUME NEW k \in m + 1 .. Len(qs), Denied(qs[k], p)
          PROVE  (\E l \in m + 1 .. a : Denied(ps[l], p)) \/ \E l \in DOMAIN trees : Denied(trees[l], p)
      <4>1. CASE k <= a
        <5>1. k \in m + 1 .. a /\ qs[k] = ps[k]
          BY <1>3, <4>1
        <5> QED BY <3>1, <5>1
      <4>2. CASE ~(k <= a)
        <5>1. k - a \in DOMAIN trees /\ qs[k] = trees[k - a]
          BY <1>1, <1>2, <1>3, <4>2
        <5> QED BY <3>1, <5>1
      <4> QED BY <4>1, <4>2
    <3>2. ASSUME NEW k \in m + 1 .. a, Denied(ps[k], p)
          PROVE  \E l \in m + 1 .. Len(qs) : Denied(qs[l], p)
      <4>1. k \in m + 1 .. Len(qs) /\ qs[k] = ps[k]
        BY <1>3
      <4> QED BY <3>2, <4>1
    <3>3. ASSUME NEW k \in DOMAIN trees, Denied(trees[k], p)
          PROVE  \E l \in m + 1 .. Len(qs) : Denied(qs[l], p)
      <4>1. k \in 1 .. b /\ m <= a /\ Len(qs) = a + b
        BY <1>1, <1>2, <1>3
      <4>2. a + k \in 1 .. a + b /\ ~(a + k <= a) /\ (a + k) - a = k /\ a + k \in m + 1 .. a + b
        BY ONLY <4>1, a \in Nat, b \in Nat, m \in Nat
      <4>3. qs[a + k] = trees[k]
        BY <1>3, <4>2
      <4> QED BY <3>3, <4>1, <4>2, <4>3
    <3> QED BY <3>1, <3>2, <3>3
  <2>2. (\E i \in DOMAIN libcs : m + i <= n + 1 /\ LibcHolds(libcs[i][1], libcs[i][2], p)) <=>
          \/ \E i \in DOMAIN libcs : m + i <= n /\ LibcHolds(libcs[i][1], libcs[i][2], p)
          \/ LibcHolds(libcs[j][1], libcs[j][2], p)
    <3>1. \A i \in DOMAIN libcs : m + i <= n + 1 <=> m + i <= n \/ i = j
      OBVIOUS
    <3> QED BY <3>1
  <2>3. (\E k \in m + 1 .. a : Denied(ps[k], p)) <=>
          (\E i \in DOMAIN libcs : m + i <= n /\ LibcHolds(libcs[i][1], libcs[i][2], p))
    BY <1>1 DEF LibcMeant
  <2>4. (\E k \in DOMAIN trees : Denied(trees[k], p)) <=> LibcHolds(libcs[j][1], libcs[j][2], p)
    BY DEF PoliciesMean
  <2> QED BY <2>1, <2>2, <2>3, <2>4
<1> QED BY <1>1, <1>3, <1>4, <1>5

\* At the start there are no policies.
LEMMA MeantStarts == ConverterInit => Meant
<1> SUFFICES ASSUME ConverterInit PROVE Meant
  OBVIOUS
<1>1. requirements \in Inputs /\ converted = 0 /\ policies = << >>
  BY DEF ConverterInit
<1>2. policies \in Seq(Trees) /\ Len(policies) = 0
  BY <1>1, EmptySeq
<1>3. ASSUME Acceptable
      PROVE  /\ converted <= Denies => Len(policies) = converted
             /\ converted >= Denies => Len(policies) >= Denies
             /\ DenyMeant(requirements.deny, converted, policies)
             /\ LibcMeant(Denies, Libcs, converted, policies)
  <2>1. Denies \in Nat /\ DOMAIN Libcs = 1 .. Len(Libcs) /\ Len(Libcs) \in Nat /\ Denies = Len(requirements.deny)
    BY <1>1, <1>3, RulesCounted DEF Denies
  <2>2. DenyMeant(requirements.deny, converted, policies)
    BY <1>1, <2>1 DEF DenyMeant
  <2>3. LibcMeant(Denies, Libcs, converted, policies)
    <3>1. \A i \in DOMAIN Libcs : i \in Nat /\ i > 0
      BY <2>1
    <3>2. converted \in Nat /\ converted <= Denies
      BY <1>1, <2>1
    <3> QED BY <1>1, <1>2, <2>1, <3>1, <3>2, NoLibcYet
  <2> QED BY <1>1, <1>2, <2>1, <2>2, <2>3
<1> QED BY <1>2, <1>3 DEF Meant

\* A conversion that fails leaves everything as it is but the exit status.
LEMMA MeantStays ==
  ASSUME Meant, requirements' = requirements, converted' = converted, policies' = policies
  PROVE  Meant'
<1>1. Acceptable' = Acceptable /\ Denies' = Denies /\ Libcs' = Libcs
  BY DEF Acceptable, Denies, Libcs
<1>2. /\ DenyMeant(requirements.deny, converted, policies)' <=> DenyMeant(requirements.deny, converted, policies)
      /\ LibcMeant(Denies, Libcs, converted, policies)' <=> LibcMeant(Denies, Libcs, converted, policies)
  BY <1>1 DEF DenyMeant, LibcMeant
<1> QED BY <1>1, <1>2 DEF Meant

\* Every step keeps the meaning.
LEMMA MeantSteps == Converting /\ Meant /\ [ConverterNext]_converterVars => Meant'
<1> SUFFICES ASSUME Converting, Meant, [ConverterNext]_converterVars PROVE Meant'
  OBVIOUS
<1>1. CASE RejectInput
  BY <1>1, MeantStays DEF RejectInput
<1>2. CASE ConvertDenyRule
  <2>1. Acceptable /\ converted < Denies /\ converted \in Nat /\ requirements \in Inputs \ {NULL}
    BY <1>2 DEF ConvertDenyRule, Converting, Acceptable
  <2>2. PICK d : d = requirements.deny[converted + 1]
    OBVIOUS
  <2>3. PICK keys \in SetToSeqs(DOMAIN d.envs) : Converts(ConvertDeny(d, keys))
    BY <1>2, <2>2 DEF ConvertDenyRule
  <2>4. PICK trees : trees = ConvertDeny(d, keys)
    OBVIOUS
  <2>5. Converts(trees) /\ requirements' = requirements
    BY <2>3, <2>4 DEF Converts
  <2>6. CASE trees = Error
    BY <2>5, <2>6, MeantStays DEF Converts
  <2>7. CASE trees # Error
    <3>1. converted' = converted + 1 /\ policies' = policies \o trees
      BY <2>5, <2>7 DEF Converts
    <3>2. /\ Denies \in Nat /\ Denies = Len(requirements.deny) /\ DOMAIN requirements.deny = 1 .. Denies
          /\ DOMAIN Libcs = 1 .. Len(Libcs) /\ Len(Libcs) \in Nat
      BY <2>1, RulesCounted DEF Denies
    <3>3. d \in DenyRules /\ IsDeny(d)
      BY <2>1, <2>2, <3>2, DenyRule
    <3>4. PICK tree \in Trees : trees = <<tree>> /\ PolicyMeans(tree, d)
      BY <2>4, <2>7, <3>3, DenyDenied DEF PolicyMeans
    <3>5. policies \in Seq(Trees) /\ Len(policies) = converted /\ DenyMeant(requirements.deny, converted, policies)
      BY <2>1, <3>2 DEF Meant
    <3>6. trees \in Seq(Trees) /\ Len(trees) = 1 /\ trees[1] = tree
      <4>1. trees \in [1 .. 1 -> Trees]
        BY <3>4
      <4> QED BY <3>4, <4>1, LengthOf
    <3>7. /\ policies' \in Seq(Trees) /\ Len(policies') = converted + 1
          /\ DenyMeant(requirements.deny, converted + 1, policies')
          /\ LibcMeant(Denies, Libcs, converted + 1, policies')
      <4>1. PICK rules : rules = requirements.deny
        OBVIOUS
      <4>2. PICK n \in Nat : n = converted
        BY <2>1
      <4>3. PICK ps \in Seq(Trees) : ps = policies
        BY <3>5
      <4>4. Len(ps) = n /\ DenyMeant(rules, Len(ps), ps) /\ PolicyMeans(trees[1], rules[Len(ps) + 1])
        BY <2>2, <3>4, <3>5, <3>6, <4>1, <4>2, <4>3
      <4>5. ps \o trees \in Seq(Trees) /\ Len(ps \o trees) = n + 1 /\ DenyMeant(rules, n + 1, ps \o trees)
        <5>1. /\ ps \o trees \in Seq(Trees) /\ Len(ps \o trees) = Len(ps) + 1
              /\ DenyMeant(rules, Len(ps) + 1, ps \o trees)
          BY ONLY ps \in Seq(Trees), <3>6, <4>4, DenyMeantGrows
        <5> QED BY <4>4, <5>1
      <4>6. LibcMeant(Denies, Libcs, n + 1, ps \o trees)
        <5>1. \A i \in DOMAIN Libcs : i \in Nat /\ i > 0
          BY <3>2
        <5>2. n + 1 \in Nat /\ n + 1 <= Denies
          BY <2>1, <3>2, <4>2
        <5> QED BY <3>2, <4>5, <5>1, <5>2, NoLibcYet
      <4> QED BY <3>1, <4>1, <4>2, <4>3, <4>5, <4>6
    <3>8. Denies' = Denies /\ Libcs' = Libcs
      BY <2>5 DEF Denies, Libcs
    <3>9. DenyMeant(requirements.deny, converted, policies)' /\ LibcMeant(Denies, Libcs, converted, policies)'
      BY <2>5, <3>1, <3>2, <3>7, <3>8 DEF DenyMeant, LibcMeant
    <3>10. (converted' <= Denies' => Len(policies') = converted') /\ (converted' >= Denies' => Len(policies') >= Denies')
      BY <2>1, <3>1, <3>2, <3>7, <3>8
    <3> QED BY <3>7, <3>9, <3>10 DEF Meant
  <2> QED BY <2>6, <2>7
<1>3. CASE ConvertLibcRule
  <2>1. /\ Acceptable /\ converted \in Denies .. Denies + Len(Libcs) - 1
        /\ converted \in Nat /\ requirements \in Inputs
    BY <1>3 DEF ConvertLibcRule, Converting
  <2>2. /\ Denies \in Nat /\ Denies = Len(requirements.deny) /\ Libcs \in Seq(FlavoredRules)
        /\ DOMAIN Libcs = 1 .. Len(Libcs) /\ Len(Libcs) \in Nat
    BY <2>1, RulesCounted DEF Denies
  <2>3. PICK j \in DOMAIN Libcs : j = converted - Denies + 1 /\ Denies + j = converted + 1
    <3>1. PICK m \in Nat : m = Denies
      BY <2>2
    <3>2. PICK n \in Nat : n = Len(Libcs)
      BY <2>2
    <3>3. converted \in m .. m + n - 1
      BY <2>1, <3>1, <3>2
    <3>4. converted - m + 1 \in 1 .. n /\ m + (converted - m + 1) = converted + 1
      BY <2>1, <3>3
    <3> QED BY <2>2, <3>1, <3>2, <3>4
  <2>4. PICK trees : trees = ConvertLibc(Libcs[j][1], Libcs[j][2])
    OBVIOUS
  <2>5. Converts(trees) /\ requirements' = requirements
    BY <1>3, <2>3, <2>4 DEF ConvertLibcRule, Converts
  <2>6. CASE trees = Error
    BY <2>5, <2>6, MeantStays DEF Converts
  <2>7. CASE trees # Error
    <3>1. converted' = converted + 1 /\ policies' = policies \o trees
      BY <2>5, <2>7 DEF Converts
    <3>2. ProperLibc(Libcs[j][1]) /\ Libcs[j][2] \in {"glibc", "musl"}
      <4>1. Libcs[j] \in FlavoredRules
        BY <2>2, <2>3
      <4> QED BY <4>1 DEF FlavoredRules
    <3>3. trees \in Seq(Trees) /\ PoliciesMean(trees, Libcs[j])
      BY <2>4, <2>7, <3>2, LibcDenied DEF PoliciesMean
    <3>4. /\ policies \in Seq(Trees) /\ Len(policies) >= Denies
          /\ DenyMeant(requirements.deny, converted, policies) /\ LibcMeant(Denies, Libcs, converted, policies)
      BY <2>1, <2>2 DEF Meant
    <3>5. DOMAIN Libcs \subseteq Nat /\ Denies <= converted
      BY <2>1, <2>2
    <3>6. /\ policies' \in Seq(Trees) /\ Len(policies') >= Denies
          /\ DenyMeant(requirements.deny, converted + 1, policies')
          /\ LibcMeant(Denies, Libcs, converted + 1, policies')
      <4>1. PICK rules : rules = requirements.deny
        OBVIOUS
      <4>2. PICK n \in Nat : n = converted
        BY <2>1
      <4>3. PICK libcs : libcs = Libcs
        OBVIOUS
      <4>4. PICK ps \in Seq(Trees) : ps = policies
        BY <3>4
      <4>5. PICK qs : qs = ps \o trees
        OBVIOUS
      <4>6. PICK m \in Nat : m = Denies
        BY <2>2
      <4>7. /\ m = Len(rules) /\ m <= n /\ j \in DOMAIN libcs /\ DOMAIN libcs \subseteq Nat
            /\ m + j = n + 1 /\ Len(ps) >= m
        BY <2>2, <2>3, <3>4, <3>5, <4>1, <4>2, <4>3, <4>4, <4>6
      <4>8. DenyMeant(rules, n, ps) /\ LibcMeant(m, libcs, n, ps) /\ PoliciesMean(trees, libcs[j])
        BY <3>3, <3>4, <4>1, <4>2, <4>3, <4>4, <4>6
      <4>9. /\ qs \in Seq(Trees) /\ Len(qs) >= m
            /\ DenyMeant(rules, n + 1, qs) /\ LibcMeant(m, libcs, n + 1, qs)
        BY ONLY <3>3, <4>2, <4>4, <4>5, <4>6, <4>7, <4>8, LibcMeantGrows
      <4> QED BY <3>1, <4>1, <4>2, <4>3, <4>4, <4>5, <4>6, <4>9
    <3>7. Denies' = Denies /\ Libcs' = Libcs
      BY <2>5 DEF Denies, Libcs
    <3>8. DenyMeant(requirements.deny, converted, policies)' /\ LibcMeant(Denies, Libcs, converted, policies)'
      BY <2>5, <3>1, <3>6, <3>7 DEF DenyMeant, LibcMeant
    <3>9. (converted' <= Denies' => Len(policies') = converted') /\ (converted' >= Denies' => Len(policies') >= Denies')
      BY <2>1, <2>2, <3>1, <3>5, <3>6, <3>7
    <3> QED BY <3>6, <3>8, <3>9 DEF Meant
  <2> QED BY <2>6, <2>7
<1>4. CASE WriteOutput
  BY <1>4, MeantStays DEF WriteOutput
<1>5. CASE UNCHANGED converterVars
  BY <1>5, MeantStays DEF converterVars
<1> QED BY <1>1, <1>2, <1>3, <1>4, <1>5 DEF ConverterNext

\* Where the whole file was written, every rule was converted.
LEMMA AllConverted ==
  ASSUME Converting, output = "all"
  PROVE  Acceptable /\ requirements \in Inputs /\ converted = Denies + Len(Libcs)
  BY DEF Converting

-----------------------------------------------------------------------------
\* Each deny rule denies exactly the processes that it is about, whatever the order
\* of its variables, the patterns and the processes.
THEOREM DenyRulesMean == ConverterSpec => []DeniesWhatRulesSay
<1>1. Converting /\ Meant => DeniesWhatRulesSay
  <2> SUFFICES ASSUME Converting, Meant, output = "all",
                      NEW i \in 1 .. Denies, Ordinary(requirements.deny[i]), NEW p \in Processes
               PROVE  Denied(policies[i], p) <=> DenyHolds(requirements.deny[i], p)
    BY DEF DeniesWhatRulesSay, Ordinary
  <2>1. Acceptable /\ converted = Denies + Len(Libcs) /\ requirements \in Inputs
    BY AllConverted
  <2>2. i <= converted /\ i \in 1 .. Len(requirements.deny)
    BY <2>1, RulesCounted DEF Denies
  <2> QED BY <2>1, <2>2 DEF Meant, DenyMeant
<1> QED BY <1>1, ConverterStarts, ConverterSteps, MeantStarts, MeantSteps, PTL DEF ConverterSpec

\* The libc rules together deny exactly the processes with a version that is not
\* supported, in the lexicographic order of versions of any number of parts.
THEOREM LibcRulesMean == ConverterSpec => []DeniesUnsupportedLibc
<1>1. Converting /\ Meant => DeniesUnsupportedLibc
  <2> SUFFICES ASSUME Converting, Meant, output = "all", NEW p \in Processes
               PROVE  (\E k \in Denies + 1 .. Len(policies) : Denied(policies[k], p)) <=>
                      (\E i \in DOMAIN Libcs : LibcHolds(Libcs[i][1], Libcs[i][2], p))
    BY DEF DeniesUnsupportedLibc
  <2>1. Acceptable /\ converted = Denies + Len(Libcs) /\ requirements \in Inputs
    BY AllConverted
  <2>2. \A i \in DOMAIN Libcs : Denies + i <= converted
    BY <2>1, RulesCounted
  <2> QED BY <2>1, <2>2 DEF Meant, LibcMeant
<1> QED BY <1>1, ConverterStarts, ConverterSteps, MeantStarts, MeantSteps, PTL DEF ConverterSpec
=============================================================================
