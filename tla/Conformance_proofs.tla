-------------------------- MODULE Conformance_proofs --------------------------
(***************************************************************************)
(* The theorems about the conformance run: the C engine and the Go engine  *)
(* give a document the same result, and neither decides by what it does    *)
(* not understand, for every corpus that conformance.Run may be handed.    *)
(*                                                                         *)
(* The C engine walks a document with a stack of frames and stops early;   *)
(* the Go engine is a recursion that looks at all children. The invariant  *)
(* ties them: Begun says what cgo.go has prepared, Linked that every frame *)
(* is the call for the child that the frame below it counted last, AtTop   *)
(* what each program counter says of the innermost frame, and Agreed that  *)
(* each frame's fold has met what Go makes of the children that have       *)
(* returned to it.                                                         *)
(*                                                                         *)
(* Agreed speaks of every function r that solves the recursion of the Go   *)
(* engine, and of every reading of the document, in which constants stand  *)
(* in for evaluators that neither engine understands. Met without readings *)
(* it gives EnginesAgree, met by every reading NewerDecidesNothing. That a *)
(* solution exists, and that it is what the Go engine returns, is          *)
(* EvaluateEquation of GoEngine_proofs.                                    *)
(***************************************************************************)
EXTENDS Conformance, SequenceTheorems, WellFoundedInduction, TLAPS

GP == INSTANCE GoEngine_proofs

Truths == {"TRUE", "FALSE", "ABSTAIN"}

-----------------------------------------------------------------------------
(* The nodes of a document *)

\* What is below a node: the node, and what is below its children.
BelowStep(f, n) == {n} \cup UNION {f[Children(Doc[n])[i]] : i \in DOMAIN Children(Doc[n])}

\* A set that has the children of its members, and the least one around a node.
Shut(S) == \A m \in S : \A i \in DOMAIN Children(Doc[m]) : Children(Doc[m])[i] \in S
Reach(n) == {m \in Nodes : \A S \in SUBSET Nodes : n \in S /\ Shut(S) => m \in S}

\* The children of a node are nodes.
LEMMA ChildTypes ==
  \A n \in Nodes :
    /\ Children(Doc[n]) \in Seq(Nodes)
    /\ \A i \in DOMAIN Children(Doc[n]) : Children(Doc[n])[i] \in Nodes
<1> SUFFICES ASSUME NEW n \in Nodes PROVE Children(Doc[n]) \in Seq(Nodes)
  OBVIOUS
<1>1. << >> \in Seq(Nodes)
  OBVIOUS
<1> QED BY <1>1, DocumentAssumption DEF Children

\* The least closed set around a node holds the node, is closed, and holds the
\* least closed sets around its children.
LEMMA ReachFacts ==
  ASSUME NEW n \in Nodes
  PROVE  /\ n \in Reach(n) /\ Reach(n) \subseteq Nodes
         /\ \A i \in DOMAIN Children(Doc[n]) : Reach(Children(Doc[n])[i]) \subseteq Reach(n)
         /\ \A m \in Reach(n) : \A i \in DOMAIN Children(Doc[m]) : Children(Doc[m])[i] \in Reach(n)
<1>1. n \in Reach(n) /\ Reach(n) \subseteq Nodes
  BY DEF Reach
<1>2. ASSUME NEW m \in Reach(n), NEW i \in DOMAIN Children(Doc[m])
      PROVE  Children(Doc[m])[i] \in Reach(n)
  <2>1. m \in Nodes /\ Children(Doc[m])[i] \in Nodes
    BY <1>1, ChildTypes
  <2>2. ASSUME NEW S \in SUBSET Nodes, n \in S, Shut(S) PROVE Children(Doc[m])[i] \in S
    <3>1. m \in S
      BY <2>2 DEF Reach
    <3> QED BY <2>2, <3>1 DEF Shut
  <2> QED BY <2>1, <2>2 DEF Reach
<1>3. ASSUME NEW i \in DOMAIN Children(Doc[n]), NEW m \in Reach(Children(Doc[n])[i])
      PROVE  m \in Reach(n)
  <2>1. m \in Nodes
    BY DEF Reach
  <2>2. ASSUME NEW S \in SUBSET Nodes, n \in S, Shut(S) PROVE m \in S
    <3>1. Children(Doc[n])[i] \in S
      BY <2>2 DEF Shut
    <3> QED BY <2>2, <3>1 DEF Reach
  <2> QED BY <2>1, <2>2 DEF Reach
<1> QED BY <1>1, <1>2, <1>3

\* The nodes below a node have a first and a next generation.
LEMMA BelowFacts ==
  \A n \in Nodes :
    /\ n \in Below[n]
    /\ \A i \in DOMAIN Children(Doc[n]) : Below[Children(Doc[n])[i]] \subseteq Below[n]
<1> DEFINE P(f) == f = [n \in Nodes |-> BelowStep(f, n)]
           g == [n \in Nodes |-> Reach(n)]
<1>1. ASSUME NEW n \in Nodes PROVE Reach(n) = BelowStep(g, n)
  <2>1. PICK T : T = {n} \cup UNION {Reach(Children(Doc[n])[i]) : i \in DOMAIN Children(Doc[n])}
    OBVIOUS
  <2>2. BelowStep(g, n) = T
    BY <2>1, ChildTypes DEF BelowStep
  <2>3. T \subseteq Reach(n)
    BY <2>1, ReachFacts
  <2>4. T \in SUBSET Nodes /\ n \in T
    BY <2>1, <2>3, ReachFacts
  <2>5. ASSUME NEW m \in T, NEW j \in DOMAIN Children(Doc[m]) PROVE Children(Doc[m])[j] \in T
    <3>1. CASE m = n
      <4>1. Children(Doc[n])[j] \in Reach(Children(Doc[n])[j])
        BY <3>1, ChildTypes, ReachFacts
      <4> QED BY <2>1, <3>1, <4>1
    <3>2. CASE m # n
      <4>1. PICK i \in DOMAIN Children(Doc[n]) : m \in Reach(Children(Doc[n])[i])
        BY <2>1, <3>2
      <4>2. Children(Doc[m])[j] \in Reach(Children(Doc[n])[i])
        BY <4>1, ChildTypes, ReachFacts
      <4> QED BY <2>1, <4>2
    <3> QED BY <3>1, <3>2
  <2>6. Shut(T)
    BY <2>5 DEF Shut
  <2>7. Reach(n) \subseteq T
    BY <2>4, <2>6 DEF Reach
  <2> QED BY <2>2, <2>3, <2>7
<1>2. P(g)
  BY <1>1
<1>3. Below = CHOOSE f : P(f)
  BY DEF Below, BelowStep
<1> HIDE DEF P, g
<1>4. P(Below)
  BY <1>2, <1>3
<1>5. ASSUME NEW n \in Nodes PROVE Below[n] = BelowStep(Below, n)
  <2> DEFINE h == [k \in Nodes |-> BelowStep(Below, k)]
  <2>1. Below = h
    BY <1>4 DEF P
  <2>2. h[n] = BelowStep(Below, n)
    OBVIOUS
  <2> HIDE DEF h
  <2> QED BY <2>1, <2>2
<1> QED BY <1>5 DEF BelowStep

-----------------------------------------------------------------------------
(* The Go engine, node by node *)

\* One place of Go's recursion: what it makes of an evaluator.
GoLeaf(w) == GP!eval(GP!decodeEvaluatorNode(w), vector.facts)

\* The results of a node's children, as a set, from a function that has all results.
KidResults(r, n, d, m) == {r[<<Children(Doc[n])[i], d>>] : i \in 1 .. m}

\* The engine that the conformance module composes and the one that the lemmas of
\* GoEngine_proofs are about are the same.
LEMMA SameEvaluate ==
  ASSUME NEW doc, NEW root, NEW facts
  PROVE  Go!Evaluate(doc, root, facts) = GP!Evaluate(doc, root, facts)
BY DEF Go!Evaluate, GP!Evaluate, Go!resultOf, GP!resultOf, Go!decodeNodeWrap, GP!decodeNodeWrap,
  Go!decodeComposite, GP!decodeComposite, Go!decodeEvaluatorNode, GP!decodeEvaluatorNode,
  Go!decodeStrEval, GP!decodeStrEval, Go!decodeNumEval, GP!decodeNumEval, Go!decodeLabel, GP!decodeLabel,
  Go!AlwaysAbstain, GP!AlwaysAbstain, Go!StringLeaf, GP!StringLeaf, Go!Leaf, GP!Leaf,
  Go!Composite, GP!Composite, Go!AlwaysIds, GP!AlwaysIds, Go!eval, GP!eval, Go!evalString, GP!evalString, Go!constantResult, GP!constantResult,
  Go!evalNumber, GP!evalNumber, Go!compareNumeric, GP!compareNumeric, Go!boolToResult, GP!boolToResult,
  Go!labelResult, GP!labelResult, Go!orOf, GP!orOf, Go!andOf, GP!andOf, Go!doOr, GP!doOr, Go!doAnd, GP!doAnd,
  Go!doNot, GP!doNot

\* A constant that abstains does.
LEMMA AbstainAbstains ==
  ASSUME NEW facts
  PROVE  GP!eval(GP!AlwaysAbstain, facts) = "ABSTAIN"
<1>1. GP!AlwaysAbstain.kind = "str" /\ GP!AlwaysAbstain.id = "ALWAYS_ABSTAIN"
  BY DEF GP!AlwaysAbstain, GP!StringLeaf, GP!Leaf
<1> QED BY <1>1 DEF GP!eval, GP!evalString, GP!constantResult, GP!AlwaysIds

\* An evaluator has one of the three results.
LEMMA LeafTruth ==
  ASSUME NEW w, NEW facts
  PROVE  GP!eval(GP!decodeEvaluatorNode(w), facts) \in Truths
<1>0. PICK e : e = GP!decodeEvaluatorNode(w)
  OBVIOUS
<1>1. \A k, i, key, c, v : GP!Leaf(k, i, key, c, v).kind = k
  BY DEF GP!Leaf
<1>2. \A i, c, v : GP!StringLeaf(i, c, v).kind = "str"
  BY <1>1 DEF GP!StringLeaf
<1>3. GP!AlwaysAbstain.kind = "str"
  BY <1>2 DEF GP!AlwaysAbstain
<1>4. \A i, c, raw : GP!decodeLabel(i, c, raw).kind = "str"
  BY <1>1, <1>3 DEF GP!decodeLabel
<1>5. GP!decodeStrEval(w).kind = "str"
  BY <1>2, <1>3, <1>4 DEF GP!decodeStrEval
<1>6. w.eval \in {"num", "unum"} => GP!decodeNumEval(w).kind \in {"str", "num", "unum"}
  BY <1>1, <1>3 DEF GP!decodeNumEval
<1>7. e.kind \in {"str", "num", "unum"}
  BY <1>0, <1>3, <1>5, <1>6 DEF GP!decodeEvaluatorNode
<1>8. \A b : GP!boolToResult(b) \in Truths
  BY DEF GP!boolToResult, Truths
<1>9. \A x : GP!evalString(x, facts) \in Truths
  BY <1>8 DEF GP!evalString, GP!labelResult, GP!constantResult, Truths
<1>10. \A c, p, v : GP!compareNumeric(c, p, v) \in Truths
  BY <1>8 DEF GP!compareNumeric, Truths
<1>11. \A x, f : GP!evalNumber(x, f) \in Truths
  BY <1>10 DEF GP!evalNumber, Truths
<1>12. GP!eval(e, facts) \in Truths
  BY <1>7, <1>9, <1>11 DEF GP!eval
<1> QED BY <1>0, <1>12

-----------------------------------------------------------------------------
(* What a document may mean *)

\* A reading of the documents puts a constant for every evaluator that neither
\* engine understands; an exact one leaves all as they are, and there is nothing
\* that is not understood.
Reads(exact, doc) ==
  /\ \A w \in VectorNodes : SameDocument(w)
  /\ DOMAIN doc = Nodes
  /\ \A n \in Nodes :
       \/ doc[n] = Doc[n]
       \/ ~exact /\ NotUnderstood(n) /\ \E b \in BOOLEAN : doc[n] = Constant(b)
  /\ exact => KnownIds

\* A function that gives every place the result that its children's make.
Solves(doc, r) == \A at \in GP!Visits(doc) : r[at] = GP!EvalStep(doc, vector.facts, r, at)

\* A reading has a document for every child that it names.
LEMMA ReadsClosed ==
  ASSUME NEW exact, NEW doc, Reads(exact, doc)
  PROVE  GP!Closed(doc)
<1> SUFFICES ASSUME NEW n \in DOMAIN doc, doc[n].type = "comp", doc[n].children # NULL,
                    NEW i \in DOMAIN doc[n].children
             PROVE  doc[n].children[i] \in DOMAIN doc
  BY DEF GP!Closed
<1>1. \A b : Constant(b).type = "eval"
  BY DEF Constant
<1>2. n \in Nodes /\ doc[n] = Doc[n]
  BY <1>1 DEF Reads
<1>3. doc[n].children \in Seq(Nodes)
  BY <1>2, DocumentAssumption
<1> QED BY <1>3 DEF Reads

\* The result of a place beyond the cap, of an evaluator and of a composite.
LEMMA PlaceResult ==
  ASSUME NEW exact, NEW doc, Reads(exact, doc), NEW r, Solves(doc, r),
         NEW n \in Nodes, NEW d \in 0 .. MaxEvalDepth + 1
  PROVE  /\ d > MaxEvalDepth => r[<<n, d>>] = "ABSTAIN"
         /\ d <= MaxEvalDepth /\ doc[n].type = "eval" => r[<<n, d>>] = GoLeaf(doc[n])
         /\ d <= MaxEvalDepth /\ doc[n].type = "comp" /\ doc[n].children # NULL =>
              r[<<n, d>>] =
                CASE doc[n].op = "AND" -> GP!AndSet(KidResults(r, n, d + 1, Len(Children(Doc[n]))))
                  [] doc[n].op = "OR"  -> GP!OrSet(KidResults(r, n, d + 1, Len(Children(Doc[n]))))
                  [] doc[n].op = "NOT" -> IF Len(Children(Doc[n])) = 1
                                          THEN GP!doNot(r[<<Children(Doc[n])[1], d + 1>>])
                                          ELSE "ABSTAIN"
                  [] OTHER -> "ABSTAIN"
<1> DEFINE at == <<n, d>>
<1>1. at \in GP!Visits(doc) /\ at[1] = n /\ at[2] = d
  BY DEF GP!Visits, Reads
<1>2. r[at] = GP!resultOf(GP!Decoded(doc, at), GP!ChildResults(doc, r, at), vector.facts)
  BY <1>1 DEF Solves, GP!EvalStep
<1>3. GP!Decoded(doc, at) = GP!decodeNodeWrap(doc[n], d)
  BY DEF GP!Decoded
<1>4. /\ GP!AlwaysAbstain.op = "LEAF"
      /\ \A e : GP!decodeEvaluatorNode(e).op = "LEAF"
  BY GP!LeafChildren
<1>5. \A x : GP!resultOf(GP!AlwaysAbstain, x, vector.facts) = "ABSTAIN"
  BY <1>4, AbstainAbstains DEF GP!resultOf
<1>6. CASE d > MaxEvalDepth
  <2>1. GP!Decoded(doc, at) = GP!AlwaysAbstain
    BY <1>3, <1>6 DEF GP!decodeNodeWrap
  <2>2. r[at] = "ABSTAIN"
    BY <1>2, <1>5, <2>1
  <2> QED BY <1>6, <2>2, DocumentAssumption
<1>7. CASE d <= MaxEvalDepth /\ doc[n].type = "eval"
  <2>1. GP!Decoded(doc, at) = GP!decodeEvaluatorNode(doc[n])
    BY <1>3, <1>7, DocumentAssumption DEF GP!decodeNodeWrap
  <2>2. r[at] = GoLeaf(doc[n])
    BY <1>2, <1>4, <2>1 DEF GP!resultOf, GoLeaf
  <2> QED BY <1>7, <2>2, DocumentAssumption
<1>8. CASE d <= MaxEvalDepth /\ doc[n].type = "comp" /\ doc[n].children # NULL
  <2>1. PICK node : node = GP!Decoded(doc, at)
    OBVIOUS
  <2>2. PICK results : results = GP!ChildResults(doc, r, at)
    OBVIOUS
  <2>3. PICK kids : kids = Children(Doc[n])
    OBVIOUS
  <2>4. node = GP!decodeComposite(doc[n]) /\ r[at] = GP!resultOf(node, results, vector.facts)
    BY <1>2, <1>3, <1>8, <2>1, <2>2, DocumentAssumption DEF GP!decodeNodeWrap
  <2>5. /\ doc[n] = Doc[n] /\ kids = doc[n].children /\ kids \in Seq(Nodes)
        /\ DOMAIN kids = 1 .. Len(kids) /\ Len(kids) \in Nat
    <3>1. \A b : Constant(b).type = "eval"
      BY DEF Constant
    <3>2. doc[n] = Doc[n]
      BY <1>8, <3>1 DEF Reads
    <3> QED BY <1>8, <2>3, <3>2, ChildTypes DEF Children
  <2>6. results = [i \in DOMAIN node.children |-> r[<<node.children[i], d + 1>>]]
    BY <1>1, <2>1, <2>2 DEF GP!ChildResults
  <2>7. /\ \A o : GP!Composite(o, kids).op = o
        /\ \A o : GP!Composite(o, kids).children = kids
    BY DEF GP!Composite, GP!AlwaysAbstain, GP!StringLeaf, GP!Leaf
  <2>8. PICK T : T = {r[<<kids[i], d + 1>>] : i \in DOMAIN kids}
    OBVIOUS
  <2>9. node.children = kids =>
          /\ results = [i \in 1 .. Len(kids) |-> r[<<kids[i], d + 1>>]]
          /\ results \in Seq(T)
          /\ GP!Range(results) = KidResults(r, n, d + 1, Len(kids))
    <3> SUFFICES ASSUME node.children = kids
                 PROVE  /\ results = [i \in 1 .. Len(kids) |-> r[<<kids[i], d + 1>>]]
                        /\ results \in Seq(T)
                        /\ GP!Range(results) = KidResults(r, n, d + 1, Len(kids))
      OBVIOUS
    <3>1. results = [i \in 1 .. Len(kids) |-> r[<<kids[i], d + 1>>]]
      BY <2>5, <2>6
    <3>2. \A i \in 1 .. Len(kids) : r[<<kids[i], d + 1>>] \in T
      BY <2>5, <2>8
    <3>3. results \in Seq(T)
      BY <2>5, <3>1, <3>2
    <3>4. DOMAIN results = 1 .. Len(kids) /\ \A i \in 1 .. Len(kids) : results[i] = r[<<kids[i], d + 1>>]
      BY <3>1
    <3>5. GP!Range(results) = {results[i] : i \in DOMAIN results}
      BY DEF GP!Range
    <3>6. PICK f : f = [i \in 1 .. Len(kids) |-> r[<<kids[i], d + 1>>]]
      OBVIOUS
    <3>7. {f[i] : i \in 1 .. Len(kids)} = KidResults(r, n, d + 1, Len(kids))
      BY <2>3, <3>6 DEF KidResults
    <3>8. {results[i] : i \in DOMAIN results} = {f[i] : i \in 1 .. Len(kids)}
      BY <3>1, <3>4, <3>6
    <3> QED BY <3>1, <3>3, <3>5, <3>7, <3>8
  <2>10. CASE doc[n].op = "AND"
    <3>1. node = GP!Composite("AND", kids)
      BY <1>8, <2>4, <2>5, <2>10 DEF GP!decodeComposite
    <3>2. r[at] = GP!andOf(results) /\ node.children = kids
      BY <2>4, <2>7, <3>1 DEF GP!resultOf
    <3>3. GP!andOf(results) = GP!AndSet(GP!Range(results))
      BY <2>9, <3>2, GP!AndOfAll
    <3>4. r[at] = GP!AndSet(KidResults(r, n, d + 1, Len(kids)))
      BY <2>9, <3>2, <3>3
    <3> QED BY <1>8, <2>3, <2>10, <3>4, DocumentAssumption
  <2>11. CASE doc[n].op = "OR"
    <3>1. node = GP!Composite("OR", kids)
      BY <1>8, <2>4, <2>5, <2>11 DEF GP!decodeComposite
    <3>2. r[at] = GP!orOf(results) /\ node.children = kids
      BY <2>4, <2>7, <3>1 DEF GP!resultOf
    <3>3. GP!orOf(results) = GP!OrSet(GP!Range(results))
      BY <2>9, <3>2, GP!OrOfAll
    <3>4. r[at] = GP!OrSet(KidResults(r, n, d + 1, Len(kids)))
      BY <2>9, <3>2, <3>3
    <3> QED BY <1>8, <2>3, <2>11, <3>4, DocumentAssumption
  <2>12. CASE doc[n].op = "NOT" /\ Len(kids) = 1
    <3>1. node = GP!Composite("NOT", kids)
      BY <1>8, <2>4, <2>5, <2>12 DEF GP!decodeComposite
    <3>2. r[at] = GP!doNot(results[1]) /\ node.children = kids
      BY <2>4, <2>7, <3>1 DEF GP!resultOf
    <3>3. results[1] = r[<<kids[1], d + 1>>]
      BY <2>9, <2>12, <3>2
    <3> QED BY <1>8, <2>3, <2>12, <3>2, <3>3, DocumentAssumption
  <2>13. CASE doc[n].op \notin {"AND", "OR"} /\ ~(doc[n].op = "NOT" /\ Len(kids) = 1)
    <3>1. node = GP!AlwaysAbstain
      BY <1>8, <2>4, <2>5, <2>13 DEF GP!decodeComposite
    <3>2. r[at] = "ABSTAIN"
      BY <1>5, <2>4, <3>1
    <3> QED BY <1>8, <2>3, <2>13, <3>2, DocumentAssumption
  <2> QED BY <2>10, <2>11, <2>12, <2>13
<1> QED BY <1>6, <1>7, <1>8, DocumentAssumption

-----------------------------------------------------------------------------
(* The C engine's context and its leaves *)

\* The parameter of an entry, once the facts of the vector are loaded.
ParamOf(e) ==
  IF e[2] \in DOMAIN FactsOf(vector.facts, e[1]) THEN FactsOf(vector.facts, e[1])[e[2]]
  ELSE C!NotSet(e[1])

\* The context holds the evaluators of the harness and the facts of the vector.
Ready ==
  ctx = [evaluator   |-> [e \in C!Entries |-> ConfFn(e)],
         param       |-> [e \in C!Entries |-> ParamOf(e)],
         evalError   |-> ctx.evalError,
         handler     |-> ctx.handler,
         actionError |-> ctx.actionError,
         observer    |-> ctx.observer,
         error       |-> ctx.error,
         initialized |-> ctx.initialized]

\* No evaluator takes them away again, and none with a known id raises an error.
LEMMA ReadyKept ==
  ASSUME Ready, vector' = vector, NEW e, NEW n, NEW v,
         ctx' \in {ctx, C!ReadEntry(ctx, e), C!DefaultError(ctx, n, v)}
  PROVE  /\ Ready'
         /\ e \in C!Entries \/ ctx' = ctx \/ ctx' = C!DefaultError(ctx, n, v) => ctx'.error = ctx.error
<1>1. \A x, y : /\ ParamOf(x)' = ParamOf(x)
                /\ [ctx EXCEPT !.error = y].error = y
  BY DEF ParamOf, Ready
<1>2. CASE ctx' = ctx
  BY <1>1, <1>2 DEF Ready
<1>3. CASE ctx' = C!DefaultError(ctx, n, v)
  <2>1. PICK x : x = [ctx.evalError EXCEPT ![C!Entry] = C!EUNKNOWN_CMP]
    OBVIOUS
  <2>2. ctx' = ctx \/ ctx' = [ctx EXCEPT !.evalError = x]
    BY <1>3, <2>1 DEF C!DefaultError, C!SetEvalError
  <2> QED BY <1>1, <1>2, <2>2 DEF Ready
<1>4. CASE ctx' = C!ReadEntry(ctx, e) /\ ctx' # ctx /\ ctx' # C!DefaultError(ctx, n, v)
  BY <1>1, <1>4 DEF Ready, C!ReadEntry
<1> QED BY <1>2, <1>3, <1>4

\* What is written to the buffer for an evaluator.
LEMMA BuiltLeaf ==
  ASSUME NEW w, w.type = "eval", Accepted(w)
  PROVE  /\ Built(w).kind = w.eval /\ w.eval \in {"str", "num", "unum"}
         /\ Built(w).cmp = (IF w.id \in AlwaysIds THEN "UNKNOWN" ELSE w.cmp)
         /\ Built(w).value = Scalar(w, IF w.eval = "str" THEN Empty ELSE Zero)
         /\ w.id # "COUNT" =>
              /\ Built(w).id = w.id
              /\ <<w.eval, w.id>> \in C!Entries
              /\ w.id \in (IF w.eval = "str" THEN StrIds ELSE NumIds)
         /\ w.id = "COUNT" => <<Built(w).kind, Built(w).id>> \notin C!Entries
         /\ w.id \notin AlwaysIds =>
              w.cmp \in {"UNKNOWN"} \cup (IF w.eval = "str" THEN StrCmps ELSE NumCmps)
<1>1. w.eval \in {"str", "num", "unum"} /\ w.id \in (IF w.eval = "str" THEN StrIds ELSE NumIds) \cup {"COUNT"}
  BY DEF Accepted
<1>2. \/ w.id \in AlwaysIds
      \/ w.cmp \in {"UNKNOWN"} \cup IF w.eval = "str" THEN StrCmps ELSE NumCmps
  BY DEF Accepted
<1>3. /\ Built(w).kind = w.eval
      /\ Built(w).id = IF w.id \in StrIds \cup NumIds THEN w.id ELSE NULL
      /\ Built(w).cmp = (IF w.id \in AlwaysIds THEN "UNKNOWN" ELSE w.cmp)
      /\ Built(w).value = Scalar(w, IF w.eval = "str" THEN Empty ELSE Zero)
  BY DEF Built
<1>4. w.id = "COUNT" => <<Built(w).kind, Built(w).id>> \notin C!Entries
  BY <1>3, NameAssumption DEF C!Entries
<1>5. w.id # "COUNT" => Built(w).id = w.id /\ <<w.eval, w.id>> \in C!Entries
  BY <1>1, <1>3 DEF C!Entries
<1> QED BY <1>1, <1>2, <1>3, <1>4, <1>5

\* The constants.
LEMMA ConstantLeaf ==
  ASSUME NEW w, w.eval = "str", w.id \in AlwaysIds
  PROVE  GoLeaf(w) = (CASE w.id = "ALWAYS_TRUE" -> "TRUE" [] w.id = "ALWAYS_FALSE" -> "FALSE"
                        [] OTHER -> "ABSTAIN")
<1>1. PICK e : e = GP!decodeEvaluatorNode(w)
  OBVIOUS
<1>2. e = GP!StringLeaf(w.id, "EXACT", Empty)
  BY <1>1 DEF GP!decodeEvaluatorNode, GP!decodeStrEval, AlwaysIds, GP!AlwaysIds
<1>3. e.kind = "str" /\ e.id = w.id
  BY <1>2 DEF GP!StringLeaf, GP!Leaf
<1>4. GP!eval(e, vector.facts) = GP!constantResult(w.id)
  BY <1>3 DEF GP!eval, GP!evalString, AlwaysIds, GP!AlwaysIds
<1> QED BY <1>1, <1>4 DEF GoLeaf, GP!constantResult

\* What a comparator that is not known makes of an evaluator.
LEMMA UnknownComparator ==
  ASSUME NEW w, w.id \notin AlwaysIds, w.cmp = "UNKNOWN", w.eval \in {"str", "num", "unum"}
  PROVE  GoLeaf(w) = "ABSTAIN"
<1>1. GP!decodeEvaluatorNode(w) = GP!AlwaysAbstain
  BY NameAssumption DEF GP!decodeEvaluatorNode, GP!decodeStrEval, GP!decodeNumEval, AlwaysIds, GP!AlwaysIds
<1> QED BY <1>1, AbstainAbstains DEF GoLeaf

\* A boolean and its result, in either engine.
LEMMA SameBool == \A b : boolToResult(b) = GP!boolToResult(b)
BY DEF boolToResult, GP!boolToResult

\* A string that is compared with a fact.
LEMMA StringLeafAgrees ==
  ASSUME NEW w, w.type = "eval", w.eval = "str", Accepted(w), SameDocument(w), w.id # "COUNT",
         w.id \notin AlwaysIds \cup LabelIds, vector \in Vectors, NoListFacts
  PROVE  GoLeaf(w) = C!DefaultResult(Built(w), ParamOf(<<"str", w.id>>))
<1>1. w.value \notin {NULL, Omitted}
  BY DEF SameDocument
<1>2. PICK b : b = Built(w)
  OBVIOUS
<1>3. PICK p : p = ParamOf(<<"str", w.id>>)
  OBVIOUS
<1>4. b.kind = "str" /\ b.cmp = w.cmp /\ b.value = w.value
  BY <1>1, <1>2, BuiltLeaf DEF Scalar
<1>5. /\ w.id \in DOMAIN vector.facts.strings => p = vector.facts.strings[w.id] /\ p # NULL
      /\ w.id \notin DOMAIN vector.facts.strings => p = NULL
  BY <1>3, VectorAssumption DEF ParamOf, FactsOf, C!NotSet
<1>6. CASE w.cmp = "UNKNOWN"
  <2>1. C!DefaultResult(b, p) = "ABSTAIN"
    BY <1>4, <1>6, NameAssumption DEF C!DefaultResult
  <2> QED BY <1>2, <1>3, <1>6, <2>1, UnknownComparator
<1>7. CASE w.cmp # "UNKNOWN"
  <2>1. w.cmp \in StrCmps
    BY <1>7, BuiltLeaf
  <2>2. PICK e : e = GP!StringLeaf(w.id, w.cmp, w.value)
    OBVIOUS
  <2>3. e.kind = "str" /\ e.id = w.id /\ e.cmp = w.cmp /\ e.value = w.value
    BY <2>2 DEF GP!StringLeaf, GP!Leaf
  <2>4. GP!decodeEvaluatorNode(w) = e
    BY <1>1, <2>1, <2>2 DEF GP!decodeEvaluatorNode, GP!decodeStrEval, AlwaysIds, GP!AlwaysIds
  <2>5. GoLeaf(w) = GP!evalString(e, vector.facts)
    BY <2>3, <2>4 DEF GoLeaf, GP!eval
  <2>6. vector.facts.lists = << >>
    BY VectorAssumption
  <2>7. w.id \notin DOMAIN vector.facts.lists
    BY <2>6, GP!NoPlaces
  <2>8. w.id \in ListIds => w.id \notin DOMAIN vector.facts.strings
    BY DEF NoListFacts
  <2>9. GoLeaf(w) = IF w.id \notin DOMAIN vector.facts.strings THEN "ABSTAIN"
                    ELSE GP!boolToResult(StrCompare(w.cmp, w.value, vector.facts.strings[w.id]))
    BY <2>3, <2>5, <2>7, <2>8 DEF GP!evalString, AlwaysIds, GP!AlwaysIds
  <2>10. C!DefaultResult(b, p) = IF p = NULL THEN "ABSTAIN"
                                 ELSE boolToResult(StrCompare(w.cmp, w.value, p))
    BY <1>1, <1>4, <2>1 DEF C!DefaultResult, Compare
  <2> QED BY <1>2, <1>3, <1>5, <2>9, <2>10, SameBool
<1> QED BY <1>6, <1>7

\* A number that is compared with a fact.
LEMMA NumberLeafAgrees ==
  ASSUME NEW w, w.type = "eval", w.eval \in {"num", "unum"}, Accepted(w), SameDocument(w),
         w.id # "COUNT"
  PROVE  GoLeaf(w) = IF ParamOf(<<w.eval, w.id>>) = NumNotSet THEN "ABSTAIN"
                     ELSE C!DefaultResult(Built(w), ParamOf(<<w.eval, w.id>>))
<1>1. w.value # NULL
  BY DEF SameDocument
<1>2. PICK b : b = Built(w)
  OBVIOUS
<1>3. PICK p : p = ParamOf(<<w.eval, w.id>>)
  OBVIOUS
<1>4. w.id \notin AlwaysIds
  BY BuiltLeaf, NameAssumption
<1>5. b.kind = w.eval /\ b.cmp = w.cmp /\ b.value = IF w.value = Omitted THEN Zero ELSE w.value
  BY <1>1, <1>2, <1>4, BuiltLeaf DEF Scalar
<1>6. PICK facts : facts = IF w.eval = "num" THEN vector.facts.numbers ELSE vector.facts.unumbers
  OBVIOUS
<1>7. /\ w.id \in DOMAIN facts => p = facts[w.id]
      /\ w.id \notin DOMAIN facts => p = NumNotSet
  BY <1>3, <1>6 DEF ParamOf, FactsOf, C!NotSet
<1>8. CASE w.cmp = "UNKNOWN"
  <2>1. C!DefaultResult(b, p) = "ABSTAIN"
    BY <1>5, <1>8, NameAssumption DEF C!DefaultResult
  <2> QED BY <1>2, <1>3, <1>4, <1>8, <2>1, UnknownComparator
<1>9. CASE w.cmp # "UNKNOWN"
  <2>1. w.cmp \in NumCmps
    BY <1>4, <1>9, BuiltLeaf
  <2>2. PICK e : e = GP!Leaf(w.eval, w.id, NULL, w.cmp, b.value)
    OBVIOUS
  <2>3. e.kind = w.eval /\ e.id = w.id /\ e.cmp = w.cmp /\ e.value = b.value
    BY <2>2 DEF GP!Leaf
  <2>4. GP!decodeEvaluatorNode(w) = e
    BY <1>1, <1>5, <2>1, <2>2 DEF GP!decodeEvaluatorNode, GP!decodeNumEval
  <2>5. GoLeaf(w) = GP!evalNumber(e, facts)
    BY <1>6, <2>3, <2>4 DEF GoLeaf, GP!eval
  <2>6. \A x, y : GP!compareNumeric(w.cmp, x, y) = plcs_default_numeric_evaluator(x, w.cmp, y)
    BY SameBool DEF GP!compareNumeric, plcs_default_numeric_evaluator
  <2>7. GoLeaf(w) = IF p = NumNotSet THEN "ABSTAIN"
                    ELSE plcs_default_numeric_evaluator(Number(w.eval, b.value), w.cmp, Number(w.eval, p))
    BY <1>7, <2>3, <2>5, <2>6 DEF GP!evalNumber
  <2>8. C!DefaultResult(b, p) =
          plcs_default_numeric_evaluator(Number(w.eval, b.value), w.cmp, Number(w.eval, p))
    BY <1>5, <2>1 DEF C!DefaultResult, Compare, plcs_default_unumeric_evaluator
  <2> QED BY <1>2, <1>3, <2>7, <2>8
<1> QED BY <1>8, <1>9

\* A label.
LEMMA LabelLeafAgrees ==
  ASSUME NEW n \in Nodes, NEW w, w = Doc[n], w.type = "eval", w.eval = "str", Accepted(w), SameDocument(w),
         w.id # "COUNT", w.id \in LabelIds, vector \in Vectors, labels = vector.facts.labels
  PROVE  GoLeaf(w) = ConfLabel(Built(w))
<1>0. w.id \notin AlwaysIds
  BY NameAssumption
<1>1. w.value \notin {NULL, Omitted} /\ w.cmp # "UNKNOWN"
  BY <1>0 DEF SameDocument
<1>2. PICK b : b = Built(w)
  OBVIOUS
<1>3. b.kind = "str" /\ b.cmp = w.cmp /\ b.value = w.value /\ b.id = w.id /\ w.cmp \in StrCmps
  BY <1>0, <1>1, <1>2, BuiltLeaf DEF Scalar
<1>4. PICK cut : cut = Cut[w.value]
  OBVIOUS
<1>5. cut.value # NULL
  BY <1>1, <1>4, DocumentAssumption, NameAssumption
<1>6. w.cmp # "EXISTS"
  BY <1>3, NameAssumption
<1>7. GP!decodeEvaluatorNode(w) = GP!decodeLabel(w.id, w.cmp, w.value)
  BY <1>0, <1>1, <1>3 DEF GP!decodeEvaluatorNode, GP!decodeStrEval, AlwaysIds, GP!AlwaysIds
<1>8. CASE ~cut.found
  <2>1. GP!decodeLabel(w.id, w.cmp, w.value) = GP!AlwaysAbstain
    BY <1>4, <1>8 DEF GP!decodeLabel
  <2>2. GoLeaf(w) = "ABSTAIN"
    BY <1>7, <2>1, AbstainAbstains DEF GoLeaf
  <2>3. ConfLabel(b) = "ABSTAIN"
    BY <1>3, <1>4, <1>8 DEF ConfLabel
  <2> QED BY <1>2, <2>2, <2>3
<1>9. CASE cut.found
  <2>1. PICK e : e = GP!Leaf("str", w.id, cut.key,
                        IF w.cmp = "PREFIX" /\ cut.value = Empty THEN "EXISTS" ELSE w.cmp, cut.value)
    OBVIOUS
  <2>2. /\ e.kind = "str" /\ e.id = w.id /\ e.key = cut.key /\ e.value = cut.value
        /\ e.cmp = IF w.cmp = "PREFIX" /\ cut.value = Empty THEN "EXISTS" ELSE w.cmp
    BY <2>1 DEF GP!Leaf
  <2>3. GP!decodeEvaluatorNode(w) = e
    BY <1>4, <1>7, <1>9, <2>1 DEF GP!decodeLabel
  <2>4. GoLeaf(w) = GP!evalString(e, vector.facts)
    BY <2>2, <2>3 DEF GoLeaf, GP!eval
  <2>5. GoLeaf(w) = IF w.id \notin DOMAIN labels THEN "ABSTAIN" ELSE GP!labelResult(e, labels[w.id])
    BY <1>0, <2>2, <2>4 DEF GP!evalString, AlwaysIds, GP!AlwaysIds
  <2>6. CASE w.id \notin DOMAIN labels
    <3>1. ConfLabel(b) = "ABSTAIN"
      BY <1>3, <2>6 DEF ConfLabel
    <3> QED BY <1>2, <2>5, <2>6, <3>1
  <2>7. CASE w.id \in DOMAIN labels
    <3>1. PICK label : label = labels[w.id]
      OBVIOUS
    <3>2. \A key \in DOMAIN label : label[key] # NULL
      BY <2>7, <3>1, VectorAssumption
    <3>3. PICK m : m = [b EXCEPT !.value = cut.value]
      OBVIOUS
    <3>4. m.kind = "str" /\ m.cmp = w.cmp /\ m.value = cut.value
      <4>1. b = [kind |-> b.kind, op |-> b.op, children |-> b.children, id |-> b.id, cmp |-> b.cmp,
                 value |-> b.value]
        BY <1>2 DEF Built
      <4> QED BY <1>3, <3>3, <4>1
    <3>5. ConfLabel(b) = IF cut.key \notin DOMAIN label THEN "FALSE"
                         ELSE IF w.cmp = "PREFIX" /\ cut.value = Empty THEN "TRUE"
                         ELSE C!DefaultResult(m, label[cut.key])
      BY <1>3, <1>4, <1>9, <2>7, <3>1, <3>3 DEF ConfLabel
    <3>6. cut.key \in DOMAIN label =>
            C!DefaultResult(m, label[cut.key]) = boolToResult(StrCompare(w.cmp, cut.value, label[cut.key]))
      BY <1>3, <1>5, <3>2, <3>4 DEF C!DefaultResult, Compare
    <3>7. GoLeaf(w) = GP!labelResult(e, label)
      BY <2>5, <2>7, <3>1
    <3>8. CASE cut.key \notin DOMAIN label
      <4>1. GP!labelResult(e, label) = "FALSE"
        BY <2>2, <3>8 DEF GP!labelResult, GP!boolToResult
      <4> QED BY <1>2, <3>5, <3>7, <3>8, <4>1
    <3>9. CASE cut.key \in DOMAIN label /\ w.cmp = "PREFIX" /\ cut.value = Empty
      <4>1. GP!labelResult(e, label) = "TRUE"
        BY <2>2, <3>9 DEF GP!labelResult, GP!boolToResult
      <4> QED BY <1>2, <3>5, <3>7, <3>9, <4>1
    <3>10. CASE cut.key \in DOMAIN label /\ ~(w.cmp = "PREFIX" /\ cut.value = Empty)
      <4>1. e.cmp = w.cmp
        BY <2>2, <3>10
      <4>2. GP!labelResult(e, label) = boolToResult(StrCompare(w.cmp, cut.value, label[cut.key]))
        BY <1>6, <2>2, <3>10, <4>1 DEF GP!labelResult, GP!boolToResult, boolToResult
      <4> QED BY <1>2, <3>5, <3>6, <3>7, <3>10, <4>2
    <3> QED BY <3>8, <3>9, <3>10
  <2> QED BY <2>6, <2>7
<1> QED BY <1>8, <1>9

-----------------------------------------------------------------------------
(* The invariant *)

NodeOf(k) == Doc[stack[k].node]
KidsOf(k) == Children(NodeOf(k))
TopPlace == <<C!Top.node, C!Top.depth>>
Running == pc # "idle"

\* How many children of a frame have returned to it, in the frames that count them.
Done(k) == IF k < Len(stack) THEN stack[k].ix - 1 ELSE stack[k].ix
Folding(k) == k < Len(stack) \/ pc = "loop"

\* The harness has loaded the vector, and the Go engine was asked about it.
Begun ==
  /\ todo \in Seq(Vectors) /\ watcher = NULL
  /\ Running => cRes = NULL /\ labels = vector.facts.labels /\ Ready
  /\ Running \/ cRes # NULL =>
       /\ vector \in Vectors
       /\ \A n \in Below[vector.root] : Accepted(Doc[n])
       /\ goRes = Go!Evaluate(Doc, vector.root, vector.facts)

\* Every frame is the call for the child that the frame below it counted last, one
\* level down.
Linked ==
  /\ stack \in Seq(C!Frames)
  /\ stack # << >> => stack[1].node = vector.root
  /\ \A k \in 1 .. Len(stack) :
       /\ stack[k].node \in Nodes /\ Below[stack[k].node] \subseteq Below[vector.root]
       /\ stack[k].depth = k - 1 /\ stack[k].ix <= Len(KidsOf(k))
  /\ \A k \in 1 .. Len(stack) - 1 :
       /\ stack[k].depth <= MaxEvalDepth /\ NodeOf(k).type = "comp" /\ stack[k].ix >= 1
       /\ stack[k + 1].node = KidsOf(k)[stack[k].ix]
       /\ NodeOf(k).op = "NOT" => Len(KidsOf(k)) = 1

\* What the place in evaluate_rules says of the innermost frame.
AtTop ==
  /\ pc \in {"idle", "rules", "node", "evaluator", "loop", "leave", "return", "verdict"}
  /\ pc \in {"idle", "verdict"} <=> stack = << >>
  /\ pc \in {"node", "evaluator", "loop", "leave"} => C!Top.depth <= MaxEvalDepth
  /\ pc \in {"rules", "node"} => C!Top.ix = 0
  /\ pc = "loop" => NodeOf(Len(stack)).type = "comp" /\ NodeOf(Len(stack)).op # "NOT"
  /\ pc = "evaluator" =>
       /\ NodeOf(Len(stack)).type = "eval" /\ C!Entry \in C!Entries
       /\ ~C!ParamMissing /\ C!GetEvaluator(ctx, C!Entry) # NULL

\* A result is that of the Go engine; unless the reading is exact it may also abstain.
Meets(exact, x, y) == x \in Truths /\ (x = y \/ (~exact /\ x = "ABSTAIN"))

\* The fold of a frame is that of the children which have returned to it.
FoldMeets(exact, r, k) ==
  /\ NodeOf(k).op = "AND" =>
       Meets(exact, stack[k].res, GP!AndSet(KidResults(r, stack[k].node, k, Done(k))))
  /\ NodeOf(k).op = "OR" =>
       Meets(exact, stack[k].res, GP!OrSet(KidResults(r, stack[k].node, k, Done(k))))
  /\ NodeOf(k).op \notin {"AND", "OR"} /\ (Done(k) > 0 \/ NodeOf(k).op = "UNKNOWN") =>
       stack[k].res = "ABSTAIN"

Meant(exact, doc, r) == Reads(exact, doc) /\ NoListFacts /\ Solves(doc, r)

Agreeing(exact, doc, r) ==
  Meant(exact, doc, r) =>
    /\ Running /\ exact => ctx.error = C!ESUCCESS
    /\ \A k \in 1 .. Len(stack) : Folding(k) => FoldMeets(exact, r, k)
    /\ pc \in {"leave", "return"} => Meets(exact, ret, r[TopPlace])
    /\ pc = "verdict" => Meets(exact, verdict, r[<<vector.root, 0>>])
    /\ pc = "idle" /\ cRes # NULL => Meets(exact, cRes, r[<<vector.root, 0>>])
Agreed == \A exact \in BOOLEAN : \A doc, r : Agreeing(exact, doc, r)

Inv == Begun /\ Linked /\ AtTop /\ Agreed

-----------------------------------------------------------------------------
(* Sequences and three-valued logic *)

\* Replacing the last element of a sequence, and adding one.
LEMMA SeqFacts ==
  ASSUME NEW S, NEW s \in Seq(S), s # << >>, NEW f \in S, NEW n, n = Len(s)
  PROVE  /\ n \in Nat \ {0} /\ s[n] \in S
         /\ [s EXCEPT ![n] = f] \in Seq(S) /\ Len([s EXCEPT ![n] = f]) = n
         /\ [s EXCEPT ![n] = f][n] = f
         /\ \A j \in 1 .. n : j # n => [s EXCEPT ![n] = f][j] = s[j]
         /\ Append(s, f) \in Seq(S) /\ Len(Append(s, f)) = n + 1 /\ Append(s, f)[n + 1] = f
         /\ \A j \in 1 .. n : Append(s, f)[j] = s[j]
<1>1. n \in Nat \ {0} /\ s[n] \in S
  OBVIOUS
<1>2. [s EXCEPT ![n] = f] \in Seq(S) /\ Len([s EXCEPT ![n] = f]) = n
  OBVIOUS
<1>3. [s EXCEPT ![n] = f][n] = f /\ \A j \in 1 .. n : j # n => [s EXCEPT ![n] = f][j] = s[j]
  OBVIOUS
<1>4. Append(s, f) \in Seq(S) /\ Len(Append(s, f)) = n + 1
  OBVIOUS
<1>5. Append(s, f)[n + 1] = f /\ \A j \in 1 .. n : Append(s, f)[j] = s[j]
  OBVIOUS
<1> QED BY <1>1, <1>2, <1>3, <1>4, <1>5

\* A sequence without its last element.
LEMMA FrontSeq ==
  ASSUME NEW S, NEW s \in Seq(S), s # << >>, NEW n, n = Len(s) - 1
  PROVE  /\ n \in Nat /\ SubSeq(s, 1, n) \in Seq(S) /\ Len(SubSeq(s, 1, n)) = n
         /\ \A i \in 1 .. n : SubSeq(s, 1, n)[i] = s[i]
<1>1. n \in Nat /\ n \in Int /\ 1 \in Int
  OBVIOUS
<1>2. \A i \in 1 .. n : s[i] \in S
  BY <1>1
<1>3. /\ SubSeq(s, 1, n) \in Seq(S)
      /\ Len(SubSeq(s, 1, n)) = IF 1 <= n THEN n - 1 + 1 ELSE 0
      /\ \A i \in 1 .. n - 1 + 1 : SubSeq(s, 1, n)[i] = s[1 + i - 1]
  BY <1>1, <1>2, SubSeqProperties
<1>4. Len(SubSeq(s, 1, n)) = n
  BY <1>1, <1>3
<1>5. \A i \in 1 .. n : SubSeq(s, 1, n)[i] = s[i]
  BY <1>1, <1>3
<1> QED BY <1>1, <1>3, <1>4, <1>5

\* The empty sequence has no elements.
LEMMA EmptyLen == Len(<< >>) = 0
OBVIOUS

\* One more child of an AND; a FALSE among some is a FALSE among all.
LEMMA AndMeets ==
  ASSUME NEW exact \in BOOLEAN, NEW a, NEW b, NEW S, NEW y,
         Meets(exact, a, GP!AndSet(S)), Meets(exact, b, y)
  PROVE  /\ Meets(exact, C!DoAnd(a, b), GP!AndSet(S \cup {y}))
         /\ C!DoAnd(a, b) = "FALSE" =>
              \A T : S \cup {y} \subseteq T => Meets(exact, "FALSE", GP!AndSet(T))
<1>1. Meets(exact, C!DoAnd(a, b), GP!AndSet(S \cup {y}))
  BY DEF Meets, GP!AndSet, C!DoAnd, Truths
<1>2. C!DoAnd(a, b) = "FALSE" => "FALSE" \in S \cup {y}
  BY DEF Meets, GP!AndSet, C!DoAnd, Truths
<1>3. \A T : "FALSE" \in T => Meets(exact, "FALSE", GP!AndSet(T))
  BY DEF Meets, GP!AndSet, Truths
<1> QED BY <1>1, <1>2, <1>3

\* The same for an OR and TRUE.
LEMMA OrMeets ==
  ASSUME NEW exact \in BOOLEAN, NEW a, NEW b, NEW S, NEW y,
         Meets(exact, a, GP!OrSet(S)), Meets(exact, b, y)
  PROVE  /\ Meets(exact, C!DoOr(a, b), GP!OrSet(S \cup {y}))
         /\ C!DoOr(a, b) = "TRUE" =>
              \A T : S \cup {y} \subseteq T => Meets(exact, "TRUE", GP!OrSet(T))
<1>1. Meets(exact, C!DoOr(a, b), GP!OrSet(S \cup {y}))
  BY DEF Meets, GP!OrSet, C!DoOr, Truths
<1>2. C!DoOr(a, b) = "TRUE" => "TRUE" \in S \cup {y}
  BY DEF Meets, GP!OrSet, C!DoOr, Truths
<1>3. \A T : "TRUE" \in T => Meets(exact, "TRUE", GP!OrSet(T))
  BY DEF Meets, GP!OrSet, Truths
<1> QED BY <1>1, <1>2, <1>3

\* The same for a NOT.
LEMMA NotMeets ==
  ASSUME NEW exact \in BOOLEAN, NEW b, NEW y, Meets(exact, b, y)
  PROVE  Meets(exact, C!DoNot(b), GP!doNot(y))
BY DEF Meets, C!DoNot, GP!doNot, Truths

-----------------------------------------------------------------------------
(* The innermost frame *)

\* What is known of every frame: its node is a node of the vector's document that the
\* harness accepts and has built, at the depth of the frame.
LEMMA FrameFacts ==
  ASSUME Begun, Linked, Running, NEW k \in 1 .. Len(stack)
  PROVE  /\ Len(stack) \in Nat /\ stack[k] \in C!Frames /\ stack[k].node \in Nodes
         /\ stack[k].depth = k - 1 /\ stack[k].ix \in Nat /\ stack[k].ix <= Len(KidsOf(k))
         /\ stack[k].depth \in 0 .. MaxEvalDepth + 1
         /\ Accepted(NodeOf(k)) /\ NodeOf(k) \in VectorNodes
         /\ NodeOf(k).type \in {"comp", "eval"}
         /\ KidsOf(k) \in Seq(Nodes) /\ Len(KidsOf(k)) \in Nat
         /\ \A c \in 1 .. Len(KidsOf(k)) :
              KidsOf(k)[c] \in Nodes /\ Below[KidsOf(k)[c]] \subseteq Below[vector.root]
         /\ BuiltTree[stack[k].node] = Built(NodeOf(k))
         /\ \A exact \in BOOLEAN : \A doc : Reads(exact, doc) =>
              /\ SameDocument(NodeOf(k))
              /\ NodeOf(k).type = "comp" => doc[stack[k].node] = NodeOf(k) /\ NodeOf(k).children # NULL
<1>1. stack \in Seq(C!Frames) /\ Len(stack) \in Nat /\ stack[k] \in C!Frames
  BY DEF Linked
<1>2. /\ stack[k].node \in Nodes /\ Below[stack[k].node] \subseteq Below[vector.root]
      /\ stack[k].depth = k - 1 /\ stack[k].ix <= Len(KidsOf(k)) /\ stack[k].ix \in Nat
  BY <1>1 DEF Linked, C!Frames
<1>3. stack[k].depth \in 0 .. MaxEvalDepth + 1
  <2>1. CASE k = 1
    BY <1>2, <2>1, DocumentAssumption
  <2>2. CASE k # 1
    <3>1. k - 1 \in 1 .. Len(stack) - 1 /\ k - 1 \in 1 .. Len(stack)
      BY <1>1, <2>2
    <3>2. stack[k - 1].depth <= MaxEvalDepth /\ stack[k - 1].depth = (k - 1) - 1
      BY <3>1 DEF Linked
    <3> QED BY <1>2, <3>1, <3>2, DocumentAssumption
  <2> QED BY <2>1, <2>2
<1>4. stack[k].node \in Below[vector.root]
  BY <1>2, BelowFacts
<1>5. Accepted(NodeOf(k)) /\ NodeOf(k) \in VectorNodes
  BY <1>4 DEF Begun, NodeOf, VectorNodes
<1>6. NodeOf(k).type \in {"comp", "eval"}
  BY <1>5 DEF Accepted
<1>7. KidsOf(k) \in Seq(Nodes) /\ Len(KidsOf(k)) \in Nat /\ DOMAIN KidsOf(k) = 1 .. Len(KidsOf(k))
  BY <1>2, ChildTypes DEF KidsOf, NodeOf
<1>8. \A c \in 1 .. Len(KidsOf(k)) :
        KidsOf(k)[c] \in Nodes /\ Below[KidsOf(k)[c]] \subseteq Below[vector.root]
  <2> SUFFICES ASSUME NEW c \in 1 .. Len(KidsOf(k))
               PROVE  KidsOf(k)[c] \in Nodes /\ Below[KidsOf(k)[c]] \subseteq Below[vector.root]
    OBVIOUS
  <2>1. PICK n : n = stack[k].node
    OBVIOUS
  <2>2. KidsOf(k) = Children(Doc[n]) /\ c \in DOMAIN KidsOf(k) /\ n \in Nodes
    BY <1>2, <1>7, <2>1 DEF KidsOf, NodeOf
  <2>3. KidsOf(k)[c] \in Nodes
    BY <2>2, ChildTypes
  <2>4. Below[KidsOf(k)[c]] \subseteq Below[n]
    BY <2>2, BelowFacts
  <2> QED BY <1>2, <2>1, <2>3, <2>4
<1>9. BuiltTree[stack[k].node] = Built(NodeOf(k))
  BY <1>2 DEF BuiltTree, NodeOf
<1>10. ASSUME NEW exact \in BOOLEAN, NEW doc, Reads(exact, doc)
       PROVE  /\ SameDocument(NodeOf(k))
              /\ NodeOf(k).type = "comp" =>
                   doc[stack[k].node] = NodeOf(k) /\ NodeOf(k).children # NULL
  <2>1. SameDocument(NodeOf(k))
    BY <1>5, <1>10 DEF Reads
  <2>2. NodeOf(k).type = "comp" => ~NotUnderstood(stack[k].node)
    BY DEF NotUnderstood, NodeOf
  <2> QED BY <1>2, <1>10, <2>1, <2>2 DEF Reads, SameDocument, NodeOf
<1> QED BY <1>1, <1>2, <1>3, <1>5, <1>6, <1>7, <1>8, <1>9, <1>10

\* What the innermost frame is to the actions of the C engine: its node and its entry.
LEMMA TopFacts ==
  ASSUME Begun, Linked, AtTop, Running, pc # "verdict", NEW n, n = Len(stack)
  PROVE  /\ n \in Nat \ {0} /\ n \in 1 .. Len(stack) /\ stack # << >>
         /\ C!Top = stack[n] /\ C!Node = Built(NodeOf(n)) /\ TopPlace = <<stack[n].node, n - 1>>
         /\ NodeOf(n).type = "comp" =>
              /\ C!Node.kind = "comp" /\ C!Node.op = NodeOf(n).op /\ C!Node.children = KidsOf(n)
              /\ NodeOf(n).op \in {"AND", "OR", "NOT", "UNKNOWN", "BEYOND"}
         /\ NodeOf(n).type = "eval" =>
              /\ C!Node.kind = NodeOf(n).eval /\ C!Node.kind \in C!Kinds
              /\ C!Entry = <<NodeOf(n).eval, Built(NodeOf(n)).id>>
<1>1. stack # << >> /\ stack \in Seq(C!Frames)
  BY DEF AtTop, Linked, Running
<1>2. n \in Nat \ {0} /\ n \in 1 .. Len(stack)
  BY <1>1
<1>3. C!Top = stack[n] /\ stack[n].depth = n - 1 /\ C!Node = Built(NodeOf(n))
  BY <1>2, FrameFacts DEF C!Top, C!Node
<1>4. Accepted(NodeOf(n))
  BY <1>2, FrameFacts
<1>5. CASE NodeOf(n).type = "comp"
  BY <1>1, <1>2, <1>3, <1>4, <1>5 DEF TopPlace, Built, KidsOf, Accepted
<1>6. CASE NodeOf(n).type = "eval"
  <2>1. Built(NodeOf(n)).kind = NodeOf(n).eval /\ NodeOf(n).eval \in {"str", "num", "unum"}
    BY <1>4, <1>6, BuiltLeaf
  <2> QED BY <1>1, <1>2, <1>3, <1>6, <2>1 DEF TopPlace, C!Entry, C!Kinds
<1> QED BY <1>2, <1>5, <1>6, FrameFacts

-----------------------------------------------------------------------------
(* A leaf *)

\* The Go engine's result of an evaluator with a known id is one of its meaning, or
\* it abstains for want of a comparator.
LEMMA MeantLeaf ==
  ASSUME Begun, Linked, AtTop, pc \in {"node", "evaluator"}, NEW n, n = Len(stack),
         NodeOf(n).type = "eval", NodeOf(n).id # "COUNT",
         NEW exact \in BOOLEAN, NEW doc, NEW r, Meant(exact, doc, r)
  PROVE  Meets(exact, GoLeaf(NodeOf(n)), r[TopPlace])
<1> DEFINE w == NodeOf(n)
<1>1. Running /\ pc # "verdict" /\ C!Top.depth <= MaxEvalDepth
  BY DEF Running, AtTop
<1>2. /\ n \in Nat \ {0} /\ n \in 1 .. Len(stack) /\ TopPlace = <<stack[n].node, n - 1>>
      /\ C!Top = stack[n]
  BY <1>1, TopFacts
<1>3. /\ stack[n].node \in Nodes /\ stack[n].depth = n - 1 /\ stack[n].depth \in 0 .. MaxEvalDepth + 1
      /\ Accepted(w)
  BY <1>1, <1>2, FrameFacts
<1>4. doc[stack[n].node].type = "eval" => r[TopPlace] = GoLeaf(doc[stack[n].node])
  <2>1. PICK m \in Nodes, d \in 0 .. MaxEvalDepth + 1 : m = stack[n].node /\ d = n - 1
    BY <1>3
  <2>2. d <= MaxEvalDepth /\ r[TopPlace] = r[<<m, d>>]
    BY <1>1, <1>2, <1>3, <2>1
  <2>3. doc[m].type = "eval" => r[<<m, d>>] = GoLeaf(doc[m])
    BY <2>2, PlaceResult DEF Meant
  <2> QED BY <2>1, <2>2, <2>3
<1>5. GoLeaf(w) \in Truths
  BY LeafTruth DEF GoLeaf
<1>6. CASE doc[stack[n].node] = Doc[stack[n].node]
  BY <1>4, <1>5, <1>6 DEF NodeOf, Meets
<1>7. CASE doc[stack[n].node] # Doc[stack[n].node]
  <2>1. ~exact /\ NotUnderstood(stack[n].node)
    BY <1>3, <1>7 DEF Meant, Reads
  <2>2. w.id \notin AlwaysIds /\ w.cmp = "UNKNOWN" /\ w.eval \in {"str", "num", "unum"}
    BY <1>3, <2>1, BuiltLeaf DEF NotUnderstood, NodeOf
  <2>3. GoLeaf(w) = "ABSTAIN"
    BY <2>2, UnknownComparator
  <2> QED BY <2>1, <2>3 DEF Meets, Truths
<1> QED BY <1>6, <1>7

\* What the context gives for an entry it has.
LEMMA EntryFacts ==
  ASSUME Ready, NEW e \in C!Entries
  PROVE  /\ C!GetEvaluator(ctx, e) = ConfFn(e) /\ C!GetParam(ctx, e) = ParamOf(e)
         /\ C!ReadEntry(ctx, e) = ctx
BY DEF Ready, C!GetEvaluator, C!GetParam, C!ReadEntry

\* An evaluator is called for a known id only, and returns what the Go engine makes
\* of the same evaluator.
LEMMA LeafAsGo ==
  ASSUME Begun, Linked, AtTop, NEW n, n = Len(stack), NodeOf(n).type = "eval",
         SameDocument(NodeOf(n)), NoListFacts,
         C!CallDefaultEvaluator \/ ConfEvaluatorReturns
  PROVE  NodeOf(n).id # "COUNT" /\ ret' = GoLeaf(NodeOf(n))
<1> DEFINE w == NodeOf(n)
<1>1. pc \in {"node", "evaluator"} /\ Running /\ pc # "verdict"
  BY DEF C!CallDefaultEvaluator, ConfEvaluatorReturns, C!EvaluatorReturns, Running
<1>2. /\ n \in 1 .. Len(stack) /\ C!Node = Built(w) /\ C!Node.kind = w.eval
      /\ C!Entry = <<w.eval, Built(w).id>>
  BY <1>1, TopFacts
<1>3. Accepted(w) /\ vector \in Vectors /\ Ready /\ labels = vector.facts.labels /\ stack[n].node \in Nodes
  BY <1>1, <1>2, FrameFacts DEF Begun
<1>4. C!Entry \in C!Entries
  <2>1. CASE C!CallDefaultEvaluator
    <3>1. C!ReadEntry(ctx, C!Entry).error = C!ESUCCESS
      BY <2>1 DEF C!CallDefaultEvaluator, C!Consults
    <3>2. [ctx EXCEPT !.error = C!EIX_OVERFLOW].error = C!EIX_OVERFLOW
      BY <1>3 DEF Ready
    <3> QED BY <3>1, <3>2 DEF C!ReadEntry, C!ESUCCESS, C!EIX_OVERFLOW
  <2>2. CASE ConfEvaluatorReturns
    BY <2>2 DEF ConfEvaluatorReturns, C!EvaluatorReturns, AtTop
  <2> QED BY <2>1, <2>2
<1>5. w.id # "COUNT"
  BY <1>2, <1>3, <1>4, BuiltLeaf
<1>6. /\ C!Entry = <<w.eval, w.id>> /\ w.eval \in {"str", "num", "unum"}
      /\ w.id \in (IF w.eval = "str" THEN StrIds ELSE NumIds)
  BY <1>2, <1>3, <1>5, BuiltLeaf
<1>7. C!GetEvaluator(ctx, C!Entry) = ConfFn(C!Entry) /\ C!GetParam(ctx, C!Entry) = ParamOf(C!Entry)
  BY <1>3, <1>4, EntryFacts
<1>8. /\ w.eval = "num" => ConfFn(C!Entry) = "conf_num"
      /\ w.eval = "unum" => ConfFn(C!Entry) = "conf_unum"
      /\ w.eval = "str" /\ w.id \in AlwaysIds => ConfFn(C!Entry) = w.id
      /\ w.eval = "str" /\ w.id \in LabelIds => ConfFn(C!Entry) = "conf_label"
      /\ w.eval = "str" /\ w.id \notin AlwaysIds \cup LabelIds => ConfFn(C!Entry) = NULL
  BY <1>6, NameAssumption DEF ConfFn
<1>9. CASE C!CallDefaultEvaluator
  <2>1. ret' = C!DefaultResult(Built(w), ParamOf(C!Entry)) /\ ConfFn(C!Entry) = NULL
    BY <1>2, <1>7, <1>9 DEF C!CallDefaultEvaluator
  <2>2. w.eval = "str" /\ w.id \notin AlwaysIds \cup LabelIds
    BY <1>6, <1>8, <2>1, NameAssumption DEF ConfFns
  <2> QED BY <1>3, <1>5, <1>6, <2>1, <2>2, StringLeafAgrees
<1>10. CASE ConfEvaluatorReturns
  <2>1. ret' = ConfResult(ConfFn(C!Entry)) /\ ConfFn(C!Entry) # NULL
    BY <1>7, <1>10 DEF ConfEvaluatorReturns, C!EvaluatorReturns, AtTop
  <2>2. CASE w.eval = "str" /\ w.id \in AlwaysIds
    BY <1>8, <2>1, <2>2, <1>5, ConstantLeaf DEF ConfResult, AlwaysIds
  <2>3. CASE w.eval = "str" /\ w.id \in LabelIds
    <3>1. ret' = ConfLabel(Built(w))
      BY <1>2, <1>8, <2>1, <2>3 DEF ConfResult
    <3> QED BY <1>3, <1>5, <2>3, <3>1, LabelLeafAgrees DEF NodeOf
  <2>4. CASE w.eval \in {"num", "unum"}
    <3>1. ret' = ConfNum(Built(w))
      BY <1>2, <1>8, <2>1, <2>4 DEF ConfResult
    <3>2. ret' = IF ParamOf(<<w.eval, w.id>>) = NumNotSet THEN "ABSTAIN"
                 ELSE C!DefaultResult(Built(w), ParamOf(<<w.eval, w.id>>))
      BY <1>6, <1>7, <3>1 DEF ConfNum, Param
    <3> QED BY <1>3, <1>5, <2>4, <3>2, NumberLeafAgrees
  <2> QED BY <1>6, <1>8, <2>1, <2>2, <2>3, <2>4
<1> QED BY <1>5, <1>9, <1>10

\* Without an error in the context, an evaluator with a known id is passed by only
\* where the Go engine abstains as well.
LEMMA PassedByAsGo ==
  ASSUME Begun, Linked, AtTop, NEW n, n = Len(stack), NodeOf(n).type = "eval",
         SameDocument(NodeOf(n)), NodeOf(n).id # "COUNT",
         ctx.error = C!ESUCCESS, C!LeafAbstains
  PROVE  GoLeaf(NodeOf(n)) = "ABSTAIN"
<1> DEFINE w == NodeOf(n)
<1>1. pc = "node" /\ Running /\ pc # "verdict"
  BY DEF C!LeafAbstains, Running
<1>2. /\ n \in 1 .. Len(stack) /\ C!Node = Built(w) /\ C!Node.kind = w.eval
      /\ C!Entry = <<w.eval, Built(w).id>>
  BY <1>1, TopFacts
<1>3. Accepted(w) /\ Ready
  BY <1>1, <1>2, FrameFacts DEF Begun
<1>4. C!Entry = <<w.eval, w.id>> /\ C!Entry \in C!Entries /\ w.eval \in {"str", "num", "unum"}
  BY <1>2, <1>3, BuiltLeaf
<1>5. C!GetParam(ctx, C!Entry) = ParamOf(C!Entry) /\ C!ReadEntry(ctx, C!Entry) = ctx
  BY <1>3, <1>4, EntryFacts
<1>6. C!ParamMissing
  BY <1>5 DEF C!LeafAbstains, C!Consults
<1>7. w.eval # "str" /\ ParamOf(<<w.eval, w.id>>) = NumNotSet
  BY <1>2, <1>4, <1>5, <1>6 DEF C!ParamMissing, C!NotSet
<1> QED BY <1>3, <1>4, <1>7, NumberLeafAgrees

-----------------------------------------------------------------------------
(* Steps that leave the frames as they are *)

\* The Go engine's result of a composite.
LEMMA MeantComposite ==
  ASSUME Begun, Linked, Running, NEW k \in 1 .. Len(stack), NEW n, n = stack[k].node,
         k - 1 <= MaxEvalDepth, NodeOf(k).type = "comp",
         NEW exact \in BOOLEAN, NEW doc, NEW r, Meant(exact, doc, r)
  PROVE  r[<<n, k - 1>>] =
           CASE NodeOf(k).op = "AND" -> GP!AndSet(KidResults(r, n, k, Len(KidsOf(k))))
             [] NodeOf(k).op = "OR"  -> GP!OrSet(KidResults(r, n, k, Len(KidsOf(k))))
             [] NodeOf(k).op = "NOT" -> IF Len(KidsOf(k)) = 1 THEN GP!doNot(r[<<KidsOf(k)[1], k>>])
                                        ELSE "ABSTAIN"
             [] OTHER -> "ABSTAIN"
<1>1. n \in Nodes /\ doc[n] = NodeOf(k) /\ doc[n].children # NULL /\ stack[k].depth = k - 1
  BY FrameFacts DEF Meant
<1>2. PICK d \in 0 .. MaxEvalDepth + 1 : d = k - 1
  BY FrameFacts
<1>3. d <= MaxEvalDepth /\ d + 1 = k
  BY <1>2
<1>4. KidsOf(k) = Children(Doc[n])
  BY DEF KidsOf, NodeOf
<1>5. r[<<n, d>>] =
        CASE doc[n].op = "AND" -> GP!AndSet(KidResults(r, n, d + 1, Len(Children(Doc[n]))))
          [] doc[n].op = "OR"  -> GP!OrSet(KidResults(r, n, d + 1, Len(Children(Doc[n]))))
          [] doc[n].op = "NOT" -> IF Len(Children(Doc[n])) = 1
                                  THEN GP!doNot(r[<<Children(Doc[n])[1], d + 1>>])
                                  ELSE "ABSTAIN"
          [] OTHER -> "ABSTAIN"
  BY <1>1, <1>3, PlaceResult DEF Meant
<1> QED BY <1>1, <1>2, <1>3, <1>4, <1>5

\* What a document means does not change during a walk.
LEMMA RigidMeant ==
  ASSUME vector' = vector, NEW exact, NEW doc, NEW r
  PROVE  Meant(exact, doc, r)' <=> Meant(exact, doc, r)
BY DEF Meant, Reads, VectorNodes, KnownIds, NoListFacts, Solves

\* Nor does what a frame has folded, if nothing has returned to it.
LEMMA FoldSame ==
  ASSUME NEW exact, NEW r, NEW k, NodeOf(k)' = NodeOf(k), stack[k].node' = stack[k].node,
         stack[k].res' = stack[k].res, Done(k)' = Done(k), FoldMeets(exact, r, k)
  PROVE  FoldMeets(exact, r, k)'
BY DEF FoldMeets

\* What the harness and its watcher do during a walk.
Kept == UNCHANGED harnessVars /\ watcher' = watcher

\* A step of the walk leaves what the harness has prepared as it is.
LEMMA BegunKept ==
  ASSUME Begun, Running, Kept, Ready'
  PROVE  Begun'
BY DEF Begun, Running, Kept, harnessVars

\* A step that leaves the frames alone keeps the invariant, if what it returns for the
\* innermost node meets what Go makes of that node.
LEMMA RestsKept ==
  ASSUME Inv, Running, Kept, stack' = stack, Ready', AtTop',
         pc' \in {"node", "evaluator", "leave", "return"},
         \A exact \in BOOLEAN : \A doc, r :
           Meant(exact, doc, r) /\ Agreeing(exact, doc, r) =>
             /\ exact => ctx'.error = C!ESUCCESS
             /\ pc' \in {"leave", "return"} => Meets(exact, ret', r[TopPlace])
  PROVE  Inv'
<1>1. Begun'
  BY BegunKept DEF Inv
<1>2. vector' = vector
  BY DEF Kept, harnessVars
<1>3. Linked'
  BY <1>2 DEF Inv, Linked, NodeOf, KidsOf
<1>4. Agreed'
  <2> SUFFICES ASSUME NEW exact \in BOOLEAN, NEW doc, NEW r, Meant(exact, doc, r)'
               PROVE  /\ exact => ctx'.error = C!ESUCCESS
                      /\ \A k \in 1 .. Len(stack)' : Folding(k)' => FoldMeets(exact, r, k)'
                      /\ pc' \in {"leave", "return"} => Meets(exact, ret', r[TopPlace]')
    BY DEF Agreed, Agreeing
  <2>1. Meant(exact, doc, r) /\ Agreeing(exact, doc, r)
    BY <1>2, RigidMeant DEF Inv, Agreed
  <2>2. TopPlace' = TopPlace
    BY DEF TopPlace, C!Top
  <2>3. ASSUME NEW k \in 1 .. Len(stack)', Folding(k)' PROVE FoldMeets(exact, r, k)'
    <3>1. k \in 1 .. Len(stack) /\ k < Len(stack)
      BY <2>3 DEF Folding
    <3>2. FoldMeets(exact, r, k)
      BY <2>1, <3>1 DEF Agreeing, Folding
    <3>3. NodeOf(k)' = NodeOf(k) /\ Done(k)' = Done(k)
      BY DEF NodeOf, Done
    <3> QED BY <3>2, <3>3, FoldSame
  <2> QED BY <2>1, <2>2, <2>3
<1> QED BY <1>1, <1>3, <1>4 DEF Inv

\* What is known of the innermost frame at the start of a step.
LEMMA Innermost ==
  ASSUME Inv, pc \notin {"idle", "verdict"}, NEW n, n = Len(stack)
  PROVE  /\ Begun /\ Linked /\ AtTop /\ Running /\ Ready /\ watcher = NULL
         /\ n \in Nat \ {0} /\ n \in 1 .. Len(stack) /\ stack # << >>
         /\ C!Top = stack[n] /\ TopPlace = <<stack[n].node, n - 1>> /\ stack[n].depth = n - 1
         /\ stack[n].node \in Nodes
<1>1. Begun /\ Linked /\ AtTop /\ Running /\ Ready /\ watcher = NULL
  BY DEF Inv, Running, Begun
<1> QED BY <1>1, TopFacts, FrameFacts

\* Beyond the cap on the depth both engines abstain.
LEMMA CutKept == Inv /\ Kept /\ C!CutNode => Inv'
<1> SUFFICES ASSUME Inv, Kept, C!CutNode PROVE Inv'
  OBVIOUS
<1> DEFINE n == Len(stack)
<1>1. /\ pc = "rules" /\ pc' = "return" /\ stack' = stack /\ ctx' = ctx /\ ret' = "ABSTAIN"
      /\ C!Top.depth > MaxEvalDepth
  BY DEF C!CutNode, C!TooDeep
<1>2. /\ Begun /\ Linked /\ AtTop /\ Running /\ Ready /\ watcher = NULL
      /\ n \in 1 .. Len(stack) /\ stack # << >>
      /\ C!Top = stack[n] /\ TopPlace = <<stack[n].node, n - 1>> /\ stack[n].depth = n - 1
      /\ stack[n].node \in Nodes
  BY <1>1, Innermost
<1>3. Ready'
  BY <1>1, <1>2, ReadyKept DEF Kept, harnessVars
<1>4. AtTop'
  BY <1>1, <1>2 DEF AtTop, C!Top
<1>5. ASSUME NEW exact \in BOOLEAN, NEW doc, NEW r, Meant(exact, doc, r), Agreeing(exact, doc, r)
      PROVE  /\ exact => ctx'.error = C!ESUCCESS
             /\ Meets(exact, ret', r[TopPlace])
  <2>1. exact => ctx'.error = C!ESUCCESS
    BY <1>1, <1>2, <1>5 DEF Agreeing
  <2>2. PICK d \in 0 .. MaxEvalDepth + 1 : d = n - 1
    BY <1>2, FrameFacts
  <2>3. PICK m \in Nodes : m = stack[n].node
    BY <1>2
  <2>4. d > MaxEvalDepth
    BY <1>1, <1>2, <2>2
  <2>5. r[<<m, d>>] = "ABSTAIN"
    BY <1>5, <2>4, PlaceResult DEF Meant
  <2> QED BY <1>1, <1>2, <2>1, <2>2, <2>3, <2>5 DEF Meets, Truths
<1> QED BY <1>1, <1>2, <1>3, <1>4, <1>5, RestsKept

\* Entering a node decides nothing.
LEMMA EnterKept == Inv /\ Kept /\ C!EnterNode => Inv'
<1> SUFFICES ASSUME Inv, Kept, C!EnterNode PROVE Inv'
  OBVIOUS
<1>1. pc = "rules" /\ stack' = stack /\ ctx' = ctx /\ ~(C!Top.depth > MaxEvalDepth)
  BY DEF C!EnterNode, C!TooDeep, C!walkVars
<1>2. PICK n \in Nat : n = Len(stack)
  BY <1>1, Innermost
<1>3. /\ Begun /\ Linked /\ AtTop /\ Running /\ Ready /\ watcher = NULL
      /\ n \in 1 .. Len(stack) /\ stack # << >>
      /\ C!Top = stack[n] /\ stack[n].depth = n - 1
  BY <1>1, <1>2, Innermost
<1>4. pc' = "node"
  BY <1>3 DEF C!EnterNode, C!Reports, C!Watching
<1>5. Ready'
  BY <1>1, <1>3, ReadyKept DEF Kept, harnessVars
<1>6. C!Top.depth <= MaxEvalDepth
  BY <1>1, <1>3, DocumentAssumption
<1>7. AtTop'
  BY <1>1, <1>3, <1>4, <1>6 DEF AtTop, C!Top
<1>8. \A exact \in BOOLEAN : \A doc, r :
        Meant(exact, doc, r) /\ Agreeing(exact, doc, r) => (exact => ctx'.error = C!ESUCCESS)
  BY <1>1, <1>3 DEF Agreeing
<1> QED BY <1>1, <1>3, <1>4, <1>5, <1>7, <1>8, RestsKept

\* Leaving a node keeps its result.
LEMMA LeaveKept == Inv /\ Kept /\ C!LeaveNode => Inv'
<1> SUFFICES ASSUME Inv, Kept, C!LeaveNode PROVE Inv'
  OBVIOUS
<1>1. pc = "leave" /\ stack' = stack /\ ret' = ret
  BY DEF C!LeaveNode, C!walkVars
<1>2. Begun /\ Linked /\ AtTop /\ Running /\ Ready /\ watcher = NULL /\ stack # << >>
  BY <1>1, Innermost
<1>3. pc' = "return" /\ ctx' = ctx
  BY <1>2 DEF C!LeaveNode, C!Reports, C!Watching
<1>4. Ready'
  BY <1>2, <1>3, ReadyKept DEF Kept, harnessVars
<1>5. AtTop'
  BY <1>1, <1>2, <1>3 DEF AtTop
<1>6. \A exact \in BOOLEAN : \A doc, r :
        Meant(exact, doc, r) /\ Agreeing(exact, doc, r) =>
          /\ exact => ctx'.error = C!ESUCCESS
          /\ Meets(exact, ret', r[TopPlace])
  BY <1>1, <1>2, <1>3 DEF Agreeing
<1> QED BY <1>1, <1>2, <1>3, <1>4, <1>5, <1>6, RestsKept

\* The places that only a leaf reaches, and what those of the walk have in common.
LEMMA LeafNode ==
  ASSUME Inv, NEW n, n = Len(stack),
         \/ pc = "node" /\ C!Node.kind \in C!Kinds
         \/ pc = "evaluator"
  PROVE  NodeOf(n).type = "eval"
<1>1. pc \notin {"idle", "verdict"}
  OBVIOUS
<1>2. Begun /\ Linked /\ AtTop /\ Running /\ n \in 1 .. Len(stack)
  BY <1>1, Innermost
<1>3. NodeOf(n).type = "comp" => C!Node.kind = "comp"
  BY <1>1, <1>2, TopFacts
<1>4. NodeOf(n).type \in {"comp", "eval"}
  BY <1>2, FrameFacts
<1> QED BY <1>2, <1>3, <1>4 DEF C!Kinds, AtTop

\* An evaluator without a parameter or with an unknown id abstains; the Go engine does
\* so too, where it knows the id.
LEMMA PassedByKept == Inv /\ Kept /\ C!LeafAbstains => Inv'
<1> SUFFICES ASSUME Inv, Kept, C!LeafAbstains PROVE Inv'
  OBVIOUS
<1> DEFINE n == Len(stack)
<1>1. /\ pc = "node" /\ pc' = "leave" /\ stack' = stack /\ ret' = "ABSTAIN"
      /\ C!Node.kind \in C!Kinds /\ ctx' = C!ReadEntry(ctx, C!Entry)
  BY DEF C!LeafAbstains
<1>2. /\ Begun /\ Linked /\ AtTop /\ Running /\ Ready /\ watcher = NULL
      /\ n \in 1 .. Len(stack) /\ stack # << >>
  BY <1>1, Innermost
<1>3. NodeOf(n).type = "eval"
  BY <1>1, LeafNode
<1>4. Ready' /\ (C!Entry \in C!Entries => ctx'.error = ctx.error)
  BY <1>1, <1>2, ReadyKept DEF Kept, harnessVars
<1>5. AtTop'
  BY <1>1, <1>2 DEF AtTop, C!Top
<1>6. ASSUME NEW exact \in BOOLEAN, NEW doc, NEW r, Meant(exact, doc, r), Agreeing(exact, doc, r)
      PROVE  /\ exact => ctx'.error = C!ESUCCESS
             /\ Meets(exact, ret', r[TopPlace])
  <2>1. CASE exact = TRUE
    <3>1. NodeOf(n).id # "COUNT" /\ SameDocument(NodeOf(n))
      BY <1>2, <1>3, <1>6, <2>1, FrameFacts DEF Meant, Reads, KnownIds
    <3>2. ctx.error = C!ESUCCESS
      BY <1>2, <1>6, <2>1 DEF Agreeing
    <3>3. C!Entry \in C!Entries
      <4>1. C!Entry = <<NodeOf(n).eval, Built(NodeOf(n)).id>> /\ Accepted(NodeOf(n))
        BY <1>1, <1>2, <1>3, TopFacts, FrameFacts
      <4> QED BY <1>3, <3>1, <4>1, BuiltLeaf
    <3>4. GoLeaf(NodeOf(n)) = "ABSTAIN"
      BY <1>2, <1>3, <3>1, <3>2, PassedByAsGo
    <3>5. Meets(exact, GoLeaf(NodeOf(n)), r[TopPlace])
      BY <1>1, <1>2, <1>3, <1>6, <3>1, MeantLeaf
    <3> QED BY <1>1, <1>4, <3>2, <3>3, <3>4, <3>5
  <2>2. CASE exact = FALSE
    BY <1>1, <2>2 DEF Meets, Truths
  <2> QED BY <2>1, <2>2
<1> QED BY <1>1, <1>2, <1>4, <1>5, <1>6, RestsKept

\* An evaluator that returns has the result that Go makes of the same node.
LEMMA CalledKept == Inv /\ Kept /\ (C!CallDefaultEvaluator \/ ConfEvaluatorReturns) => Inv'
<1> SUFFICES ASSUME Inv, Kept, C!CallDefaultEvaluator \/ ConfEvaluatorReturns PROVE Inv'
  OBVIOUS
<1> DEFINE n == Len(stack)
<1>1. /\ pc \in {"node", "evaluator"} /\ pc' = "leave" /\ stack' = stack
      /\ pc = "node" => C!Node.kind \in C!Kinds
      /\ \/ ctx' = ctx
         \/ ctx' = C!DefaultError(ctx, C!Node, C!GetParam(ctx, C!Entry))
  BY DEF C!CallDefaultEvaluator, ConfEvaluatorReturns, C!EvaluatorReturns
<1>2. /\ Begun /\ Linked /\ AtTop /\ Running /\ Ready /\ watcher = NULL
      /\ n \in 1 .. Len(stack) /\ stack # << >>
  BY <1>1, Innermost
<1>3. NodeOf(n).type = "eval"
  BY <1>1, LeafNode
<1>4. Ready' /\ ctx'.error = ctx.error
  <2>1. CASE ctx' = ctx
    BY <1>2, <2>1, ReadyKept DEF Kept, harnessVars
  <2>2. CASE ctx' = C!DefaultError(ctx, C!Node, C!GetParam(ctx, C!Entry))
    BY <1>2, <2>2, ReadyKept DEF Kept, harnessVars
  <2> QED BY <1>1, <2>1, <2>2
<1>5. AtTop'
  BY <1>1, <1>2 DEF AtTop, C!Top
<1>6. ASSUME NEW exact \in BOOLEAN, NEW doc, NEW r, Meant(exact, doc, r), Agreeing(exact, doc, r)
      PROVE  /\ exact => ctx'.error = C!ESUCCESS
             /\ Meets(exact, ret', r[TopPlace])
  <2>1. SameDocument(NodeOf(n)) /\ NoListFacts
    BY <1>2, <1>6, FrameFacts DEF Meant
  <2>2. NodeOf(n).id # "COUNT" /\ ret' = GoLeaf(NodeOf(n))
    BY <1>2, <1>3, <2>1, LeafAsGo
  <2>3. Meets(exact, ret', r[TopPlace])
    BY <1>1, <1>2, <1>3, <1>6, <2>2, MeantLeaf
  <2> QED BY <1>2, <1>4, <1>6, <2>3 DEF Agreeing
<1> QED BY <1>1, <1>2, <1>4, <1>5, <1>6, RestsKept

\* Calling an evaluator of the harness decides nothing yet.
LEMMA HostCalledKept == Inv /\ Kept /\ C!CallHostEvaluator => Inv'
<1> SUFFICES ASSUME Inv, Kept, C!CallHostEvaluator PROVE Inv'
  OBVIOUS
<1> DEFINE n == Len(stack)
<1>1. /\ pc = "node" /\ pc' = "evaluator" /\ stack' = stack /\ ctx' = ctx
      /\ C!Node.kind \in C!Kinds /\ ~C!ParamMissing /\ C!GetEvaluator(ctx, C!Entry) # NULL
  BY DEF C!CallHostEvaluator, C!Consults, C!walkVars
<1>2. /\ Begun /\ Linked /\ AtTop /\ Running /\ Ready /\ watcher = NULL
      /\ n \in 1 .. Len(stack) /\ stack # << >>
  BY <1>1, Innermost
<1>3. NodeOf(n).type = "eval" /\ C!Entry \in C!Entries
  BY <1>1, LeafNode DEF C!GetEvaluator
<1>4. Ready'
  BY <1>1, <1>2, ReadyKept DEF Kept, harnessVars
<1>5. /\ C!Top' = C!Top /\ C!Entry' = C!Entry /\ C!ParamMissing' = C!ParamMissing
      /\ NodeOf(Len(stack))' = NodeOf(n)
  BY <1>1 DEF C!Top, C!Entry, C!Node, C!ParamMissing, NodeOf
<1>6. AtTop'
  BY <1>1, <1>2, <1>3, <1>5 DEF AtTop
<1>7. \A exact \in BOOLEAN : \A doc, r :
        Meant(exact, doc, r) /\ Agreeing(exact, doc, r) => (exact => ctx'.error = C!ESUCCESS)
  BY <1>1, <1>2 DEF Agreeing
<1> QED BY <1>1, <1>2, <1>4, <1>6, <1>7, RestsKept

\* A composite that is done, or a NOT that has not one child, has the result that the
\* Go engine gives it.
LEMMA CompositeKept ==
  Inv /\ Kept /\ (C!ChildrenDone \/ (C!BeginNot /\ pc' = "leave")) => Inv'
<1> SUFFICES ASSUME Inv, Kept, C!ChildrenDone \/ (C!BeginNot /\ pc' = "leave") PROVE Inv'
  OBVIOUS
<1>1. pc \in {"node", "loop"} /\ pc' = "leave" /\ ctx' = ctx
  BY DEF C!ChildrenDone, C!BeginNot
<1>2. PICK n \in Nat : n = Len(stack)
  BY <1>1, Innermost
<1>3. /\ Begun /\ Linked /\ AtTop /\ Running /\ Ready /\ watcher = NULL
      /\ n \in 1 .. Len(stack) /\ stack # << >> /\ C!Top = stack[n] /\ stack[n].depth = n - 1
      /\ TopPlace = <<stack[n].node, n - 1>>
  BY <1>1, <1>2, Innermost
<1>4. stack' = stack
  BY <1>1 DEF C!ChildrenDone, C!BeginNot
<1>5. Ready'
  BY <1>1, <1>3, ReadyKept DEF Kept, harnessVars
<1>6. AtTop'
  BY <1>1, <1>3, <1>4 DEF AtTop, C!Top
<1>7. NodeOf(n).type = "comp"
  <2>1. CASE pc = "loop"
    BY <1>2, <1>3, <2>1 DEF AtTop
  <2>2. CASE pc = "node"
    <3>1. C!Node.kind = "comp"
      BY <2>2 DEF C!ChildrenDone, C!BeginNot
    <3>2. NodeOf(n).type = "eval" => C!Node.kind \in C!Kinds
      BY <1>2, <1>3, <2>2, TopFacts
    <3> QED BY <1>3, <3>1, <3>2, FrameFacts DEF C!Kinds
  <2> QED BY <1>1, <2>1, <2>2
<1>8. /\ C!Node.op = NodeOf(n).op /\ C!Node.children = KidsOf(n)
      /\ NodeOf(n).op \in {"AND", "OR", "NOT", "UNKNOWN", "BEYOND"}
  BY <1>1, <1>2, <1>3, <1>7, TopFacts
<1>9. ASSUME NEW exact \in BOOLEAN, NEW doc, NEW r, Meant(exact, doc, r), Agreeing(exact, doc, r)
      PROVE  /\ exact => ctx'.error = C!ESUCCESS
             /\ Meets(exact, ret', r[TopPlace])
  <2>1. PICK m : m = stack[n].node
    OBVIOUS
  <2>2. n - 1 <= MaxEvalDepth
    BY <1>1, <1>3 DEF AtTop
  <2>3. r[TopPlace] =
           CASE NodeOf(n).op = "AND" -> GP!AndSet(KidResults(r, m, n, Len(KidsOf(n))))
             [] NodeOf(n).op = "OR"  -> GP!OrSet(KidResults(r, m, n, Len(KidsOf(n))))
             [] NodeOf(n).op = "NOT" -> IF Len(KidsOf(n)) = 1 THEN GP!doNot(r[<<KidsOf(n)[1], n>>])
                                        ELSE "ABSTAIN"
             [] OTHER -> "ABSTAIN"
    BY <1>3, <1>7, <1>9, <2>1, <2>2, MeantComposite
  <2>4. CASE C!BeginNot
    <3>1. NodeOf(n).op = "NOT" /\ Len(KidsOf(n)) # 1 /\ ret' = "ABSTAIN"
      BY <1>1, <1>8, <2>4 DEF C!BeginNot
    <3> QED BY <1>1, <1>3, <1>9, <2>3, <3>1 DEF Agreeing, Meets, Truths
  <2>5. CASE C!ChildrenDone
    <3>1. ret' = stack[n].res /\ stack[n].ix = Len(KidsOf(n)) /\ pc = "loop" /\ NodeOf(n).op # "NOT"
      BY <1>2, <1>3, <1>8, <2>5 DEF C!ChildrenDone, AtTop
    <3>2. Done(n) = Len(KidsOf(n)) /\ FoldMeets(exact, r, n)
      BY <1>2, <1>3, <1>9, <3>1 DEF Done, Agreeing, Folding
    <3>3. CASE NodeOf(n).op \in {"AND", "OR"}
      BY <1>1, <1>3, <1>9, <2>1, <2>3, <3>1, <3>2, <3>3 DEF FoldMeets, Agreeing
    <3>4. CASE NodeOf(n).op \in {"UNKNOWN", "BEYOND"}
      <4>1. NodeOf(n).op = "BEYOND" => KidsOf(n) # << >>
        <5>1. SameDocument(NodeOf(n)) /\ NodeOf(n).children # NULL
          BY <1>3, <1>7, <1>9, FrameFacts DEF Meant
        <5> QED BY <1>7, <5>1 DEF SameDocument, KidsOf, Children
      <4>2. NodeOf(n).op = "BEYOND" => Len(KidsOf(n)) > 0
        BY <1>3, <4>1, FrameFacts
      <4>3. stack[n].res = "ABSTAIN"
        BY <3>2, <3>4, <4>2 DEF FoldMeets
      <4> QED BY <1>1, <1>3, <1>9, <2>3, <3>1, <3>4, <4>3 DEF Agreeing, Meets, Truths
    <3> QED BY <1>8, <3>1, <3>3, <3>4
  <2> QED BY <2>4, <2>5
<1> QED BY <1>1, <1>3, <1>4, <1>5, <1>6, <1>9, RestsKept

-----------------------------------------------------------------------------
(* A composite begins, and calls its children *)

\* Nothing of the chain of frames depends on their folds, nor on the frames above.
LEMMA LinkedKept ==
  ASSUME Linked, vector' = vector, NEW m \in 1 .. Len(stack),
         stack' \in Seq(C!Frames), Len(stack') = m,
         \A k \in 1 .. m : /\ stack'[k].node = stack[k].node /\ stack'[k].depth = stack[k].depth
                           /\ stack'[k].ix = stack[k].ix
  PROVE  Linked'
<1>1. \A k \in 1 .. m : NodeOf(k)' = NodeOf(k) /\ KidsOf(k)' = KidsOf(k)
  BY DEF NodeOf, KidsOf
<1>2. Len(stack) \in Nat /\ stack # << >> /\ m \in Nat /\ 1 \in 1 .. m
  <2>1. Len(stack) \in Nat
    BY DEF Linked
  <2> QED BY <2>1, EmptyLen
<1>3. stack'[1].node = vector'.root
  BY <1>2 DEF Linked
<1>4. \A k \in 1 .. m :
        /\ stack'[k].node \in Nodes /\ Below[stack'[k].node] \subseteq Below[vector'.root]
        /\ stack'[k].depth = k - 1 /\ stack'[k].ix <= Len(KidsOf(k)')
  <2> SUFFICES ASSUME NEW k \in 1 .. m
               PROVE  /\ stack'[k].node \in Nodes /\ Below[stack'[k].node] \subseteq Below[vector'.root]
                      /\ stack'[k].depth = k - 1 /\ stack'[k].ix <= Len(KidsOf(k)')
    OBVIOUS
  <2>1. k \in 1 .. Len(stack)
    BY <1>2
  <2> QED BY <1>1, <2>1 DEF Linked
<1>5. ASSUME NEW k \in 1 .. m - 1
      PROVE  /\ stack'[k].depth <= MaxEvalDepth /\ NodeOf(k)'.type = "comp" /\ stack'[k].ix >= 1
             /\ stack'[k + 1].node = KidsOf(k)'[stack'[k].ix]
             /\ NodeOf(k)'.op = "NOT" => Len(KidsOf(k)') = 1
  <2>1. k \in 1 .. m /\ k + 1 \in 1 .. m /\ k \in 1 .. Len(stack) - 1
    BY <1>2
  <2> QED BY <1>1, <2>1 DEF Linked
<1> QED BY <1>3, <1>4, <1>5 DEF Linked

\* An AND or an OR starts from its neutral result, an unknown operator from an
\* abstention: what Go makes of no children at all.
LEMMA BeginKept == Inv /\ Kept /\ C!BeginComposite => Inv'
<1> SUFFICES ASSUME Inv, Kept, C!BeginComposite PROVE Inv'
  OBVIOUS
<1>1. pc = "node" /\ pc' = "loop" /\ ctx' = ctx /\ C!Node.kind = "comp" /\ C!Node.op # "NOT"
  BY DEF C!BeginComposite
<1>2. PICK n \in Nat : n = Len(stack)
  BY <1>1, Innermost
<1>3. /\ Begun /\ Linked /\ AtTop /\ Running /\ Ready /\ watcher = NULL
      /\ n \in 1 .. Len(stack) /\ stack # << >> /\ C!Top = stack[n] /\ stack[n].depth = n - 1
  BY <1>1, <1>2, Innermost
<1>4. PICK q \in C!InitialResults(C!Node.op) : stack' = [stack EXCEPT ![n] = [stack[n] EXCEPT !.res = q]]
  BY <1>2, <1>3 DEF C!BeginComposite, C!SetTop
<1>5. stack[n] \in C!Frames /\ stack \in Seq(C!Frames) /\ q \in C!Outcomes
  <2>1. C!InitialResults(C!Node.op) \subseteq C!Outcomes
    BY DEF C!InitialResults, C!Outcomes, C!Results
  <2> QED BY <1>3, <2>1, FrameFacts DEF Linked
<1>6. PICK f \in C!Frames :
        /\ f = [stack[n] EXCEPT !.res = q] /\ f.res = q
        /\ f.node = stack[n].node /\ f.depth = stack[n].depth /\ f.ix = stack[n].ix
  <2>1. [stack[n] EXCEPT !.res = q] \in C!Frames
    BY <1>5 DEF C!Frames
  <2>2. /\ [stack[n] EXCEPT !.res = q].res = q
        /\ [stack[n] EXCEPT !.res = q].node = stack[n].node
        /\ [stack[n] EXCEPT !.res = q].depth = stack[n].depth
        /\ [stack[n] EXCEPT !.res = q].ix = stack[n].ix
    BY <1>5 DEF C!Frames
  <2> QED BY <2>1, <2>2
<1>7. /\ stack' \in Seq(C!Frames) /\ Len(stack') = n /\ stack'[n] = f /\ n \in Nat \ {0}
      /\ \A k \in 1 .. n : k # n => stack'[k] = stack[k]
  BY <1>2, <1>3, <1>4, <1>5, <1>6, SeqFacts
<1>8. \A k \in 1 .. n : /\ stack'[k].node = stack[k].node /\ stack'[k].depth = stack[k].depth
                        /\ stack'[k].ix = stack[k].ix
  BY <1>6, <1>7
<1>9. \A k \in 1 .. n : NodeOf(k)' = NodeOf(k) /\ KidsOf(k)' = KidsOf(k)
  BY <1>8 DEF NodeOf, KidsOf
<1>10. vector' = vector /\ Ready' /\ Begun'
  BY <1>1, <1>3, ReadyKept, BegunKept DEF Kept, harnessVars
<1>11. Linked'
  BY <1>2, <1>3, <1>7, <1>8, <1>10, LinkedKept
<1>12. NodeOf(n).type = "comp" /\ C!Node.op = NodeOf(n).op /\ stack[n].ix = 0
  <2>1. NodeOf(n).type = "eval" => C!Node.kind \in C!Kinds
    BY <1>1, <1>2, <1>3, TopFacts
  <2>2. NodeOf(n).type = "comp"
    BY <1>1, <1>3, <2>1, FrameFacts DEF C!Kinds
  <2> QED BY <1>1, <1>2, <1>3, <2>2, TopFacts DEF AtTop
<1>13. AtTop'
  <2>1. stack' # << >>
    BY <1>7, EmptyLen
  <2>2. C!Top' = f /\ f.depth <= MaxEvalDepth
    BY <1>1, <1>3, <1>6, <1>7 DEF AtTop, C!Top
  <2>3. NodeOf(Len(stack))' = NodeOf(n)
    BY <1>6, <1>7 DEF NodeOf
  <2> QED BY <1>1, <1>12, <2>1, <2>2, <2>3 DEF AtTop
<1>14. Agreed'
  <2> SUFFICES ASSUME NEW exact \in BOOLEAN, NEW doc, NEW r, Meant(exact, doc, r)'
               PROVE  /\ exact => ctx'.error = C!ESUCCESS
                      /\ \A k \in 1 .. n : FoldMeets(exact, r, k)'
    BY <1>1, <1>7 DEF Agreed, Agreeing
  <2>1. Meant(exact, doc, r) /\ Agreeing(exact, doc, r)
    BY <1>10, RigidMeant DEF Inv, Agreed
  <2>2. ASSUME NEW k \in 1 .. n, k # n PROVE FoldMeets(exact, r, k)'
    <3>1. k < n /\ k \in 1 .. Len(stack)
      BY <1>2, <1>7, <2>2
    <3>2. FoldMeets(exact, r, k)
      BY <1>2, <2>1, <3>1 DEF Agreeing, Folding
    <3>3. Done(k)' = Done(k) /\ stack'[k] = stack[k]
      BY <1>2, <1>7, <3>1 DEF Done
    <3> QED BY <1>9, <3>2, <3>3, FoldSame
  <2>3. FoldMeets(exact, r, n)'
    <3>1. stack'[n] = f /\ NodeOf(n)' = NodeOf(n) /\ Done(n)' = 0
      BY <1>6, <1>7, <1>9, <1>12 DEF Done
    <3>2. KidResults(r, f.node, n, 0) = {}
      BY DEF KidResults
    <3>3. GP!AndSet({}) = "TRUE" /\ GP!OrSet({}) = "FALSE"
      BY DEF GP!AndSet, GP!OrSet
    <3>4. /\ NodeOf(n).op = "AND" => q = "TRUE"
          /\ NodeOf(n).op = "OR" => q = "FALSE"
          /\ NodeOf(n).op = "UNKNOWN" => q = "ABSTAIN"
      BY <1>4, <1>12 DEF C!InitialResults
    <3>5. /\ NodeOf(n).op = "AND" => Meets(exact, f.res, GP!AndSet(KidResults(r, f.node, n, 0)))
          /\ NodeOf(n).op = "OR" => Meets(exact, f.res, GP!OrSet(KidResults(r, f.node, n, 0)))
          /\ NodeOf(n).op = "UNKNOWN" => f.res = "ABSTAIN"
      BY <1>6, <3>2, <3>3, <3>4 DEF Meets, Truths
    <3> QED BY <3>1, <3>5 DEF FoldMeets
  <2> QED BY <1>1, <1>3, <2>1, <2>2, <2>3 DEF Agreeing
<1> QED BY <1>10, <1>11, <1>13, <1>14 DEF Inv

\* NOT calls its one child, and the others their next one.
LEMMA CallsKept ==
  Inv /\ Kept /\ (C!NextChild \/ (C!BeginNot /\ pc' = "rules")) => Inv'
<1> SUFFICES ASSUME Inv, Kept, C!NextChild \/ (C!BeginNot /\ pc' = "rules") PROVE Inv'
  OBVIOUS
<1>1. pc \in {"node", "loop"} /\ pc' = "rules" /\ ctx' = ctx
  BY DEF C!NextChild, C!BeginNot
<1>2. PICK n \in Nat : n = Len(stack)
  BY <1>1, Innermost
<1>3. /\ Begun /\ Linked /\ AtTop /\ Running /\ Ready /\ watcher = NULL
      /\ n \in 1 .. Len(stack) /\ stack # << >> /\ C!Top = stack[n] /\ stack[n].depth = n - 1
  BY <1>1, <1>2, Innermost
<1>4. NodeOf(n).type = "comp"
  <2>1. CASE pc = "loop"
    BY <1>2, <1>3, <2>1 DEF AtTop
  <2>2. CASE pc = "node"
    <3>1. C!Node.kind = "comp"
      BY <2>2 DEF C!NextChild, C!BeginNot
    <3>2. NodeOf(n).type = "eval" => C!Node.kind \in C!Kinds
      BY <1>2, <1>3, <2>2, TopFacts
    <3> QED BY <1>3, <3>1, <3>2, FrameFacts DEF C!Kinds
  <2> QED BY <1>1, <2>1, <2>2
<1>5. C!Node.op = NodeOf(n).op /\ C!Node.children = KidsOf(n)
  BY <1>1, <1>2, <1>3, <1>4, TopFacts
<1>6. PICK ix \in Nat : ix = stack[n].ix
  BY <1>3, FrameFacts
<1>7. ix + 1 <= Len(KidsOf(n)) /\ (NodeOf(n).op = "NOT" => pc = "node" /\ ix = 0 /\ Len(KidsOf(n)) = 1)
  <2>1. CASE C!NextChild
    <3>1. pc = "loop" /\ ix < Len(KidsOf(n))
      BY <1>3, <1>5, <1>6, <2>1 DEF C!NextChild
    <3>2. Len(KidsOf(n)) \in Nat
      BY <1>3, FrameFacts
    <3> QED BY <1>2, <1>3, <3>1, <3>2 DEF AtTop
  <2>2. CASE C!BeginNot /\ pc' = "rules"
    <3>1. pc = "node" /\ Len(KidsOf(n)) = 1
      BY <1>5, <2>2 DEF C!BeginNot
    <3> QED BY <1>3, <1>6, <3>1 DEF AtTop
  <2> QED BY <2>1, <2>2
<1>8. PICK c : c = KidsOf(n)[ix + 1]
  OBVIOUS
<1>9. /\ c \in Nodes /\ Below[c] \subseteq Below[vector.root]
      /\ stack[n] \in C!Frames /\ stack \in Seq(C!Frames)
  <2>1. Len(KidsOf(n)) \in Nat /\ ix + 1 \in 1 .. Len(KidsOf(n))
    BY <1>3, <1>7, FrameFacts
  <2> QED BY <1>3, <1>8, <2>1, FrameFacts DEF Linked
<1>10. stack' = Append([stack EXCEPT ![n] = [stack[n] EXCEPT !.ix = @ + 1]], C!Frame(c, n))
  <2>1. stack' = Append(C!SetTop([C!Top EXCEPT !.ix = @ + 1]),
                        C!Frame(C!Node.children[C!Top.ix + 1], C!Top.depth + 1))
    BY <1>1 DEF C!NextChild, C!BeginNot, C!CallChild
  <2>2. C!Top.depth + 1 = n
    BY <1>2, <1>3
  <2> QED BY <1>2, <1>3, <1>5, <1>6, <1>8, <2>1, <2>2 DEF C!SetTop
<1>11. PICK f \in C!Frames :
         /\ f = [stack[n] EXCEPT !.ix = @ + 1] /\ f.res = stack[n].res
         /\ f.node = stack[n].node /\ f.depth = stack[n].depth /\ f.ix = ix + 1
  <2>1. PICK x \in Nat : x = ix + 1
    OBVIOUS
  <2>2. [stack[n] EXCEPT !.ix = @ + 1] = [stack[n] EXCEPT !.ix = x]
    BY <1>6, <2>1
  <2>3. [stack[n] EXCEPT !.ix = x] \in C!Frames
    BY <1>9 DEF C!Frames
  <2>4. /\ [stack[n] EXCEPT !.ix = x].res = stack[n].res
        /\ [stack[n] EXCEPT !.ix = x].node = stack[n].node
        /\ [stack[n] EXCEPT !.ix = x].depth = stack[n].depth
        /\ [stack[n] EXCEPT !.ix = x].ix = x
    BY <1>9 DEF C!Frames
  <2> QED BY <2>1, <2>2, <2>3, <2>4
<1>12. PICK g \in C!Frames : g = C!Frame(c, n) /\ g.node = c /\ g.depth = n /\ g.ix = 0
  <2>1. C!Frame(c, n) \in C!Frames
    BY <1>2, <1>9 DEF C!Frame, C!Frames, C!Outcomes, C!Results
  <2> QED BY <2>1 DEF C!Frame
<1>13. PICK s \in Seq(C!Frames) :
         /\ s = [stack EXCEPT ![n] = f] /\ Len(s) = n /\ s[n] = f /\ n \in Nat \ {0}
         /\ \A k \in 1 .. n : k # n => s[k] = stack[k]
  <2>1. PICK s : s = [stack EXCEPT ![n] = f]
    OBVIOUS
  <2>2. /\ s \in Seq(C!Frames) /\ Len(s) = n /\ s[n] = f /\ n \in Nat \ {0}
        /\ \A k \in 1 .. n : k # n => s[k] = stack[k]
    BY <1>2, <1>3, <1>9, <2>1, SeqFacts
  <2> QED BY <2>1, <2>2
<1>14. /\ stack' \in Seq(C!Frames) /\ Len(stack') = n + 1 /\ stack'[n + 1] = g
       /\ \A k \in 1 .. n : stack'[k] = s[k]
  <2>1. s # << >>
    BY <1>13, EmptyLen
  <2>2. stack' = Append(s, g)
    BY <1>10, <1>11, <1>12, <1>13
  <2> QED BY <1>13, <2>1, <2>2, SeqFacts
<1>15. \A k \in 1 .. n : /\ stack'[k].node = stack[k].node /\ stack'[k].depth = stack[k].depth
                         /\ stack'[k].res = stack[k].res
                         /\ k # n => stack'[k].ix = stack[k].ix
  BY <1>11, <1>13, <1>14, ZenonT(40)
<1>16. /\ \A k \in 1 .. n : NodeOf(k)' = NodeOf(k) /\ KidsOf(k)' = KidsOf(k)
       /\ stack'[n].ix = ix + 1 /\ NodeOf(n + 1)' = Doc[c]
       /\ KidsOf(n + 1)' = Children(Doc[c])
  <2>1. n \in 1 .. n /\ stack'[n] = f /\ stack'[n + 1].node = c
    BY <1>12, <1>13, <1>14
  <2>2. \A k \in 1 .. n : NodeOf(k)' = NodeOf(k)
    BY <1>15 DEF NodeOf
  <2>3. \A k \in 1 .. n : KidsOf(k)' = KidsOf(k)
    BY <1>15 DEF NodeOf, KidsOf
  <2>4. NodeOf(n + 1)' = Doc[c] /\ KidsOf(n + 1)' = Children(Doc[c])
    BY <2>1 DEF NodeOf, KidsOf
  <2> QED BY <1>11, <2>1, <2>2, <2>3, <2>4
<1>17. vector' = vector /\ Ready' /\ Begun'
  BY <1>1, <1>3, ReadyKept, BegunKept DEF Kept, harnessVars
<1>18. Linked'
  <2>1. stack' # << >>
    BY <1>13, <1>14, EmptyLen
  <2>2. 1 \in 1 .. n /\ n = Len(stack) /\ n \in 1 .. n
    BY <1>2, <1>13
  <2>3. stack'[1].node = vector'.root
    BY <1>3, <1>15, <1>17, <2>2 DEF Linked
  <2>4. \A k \in 1 .. n + 1 :
          /\ stack'[k].node \in Nodes /\ Below[stack'[k].node] \subseteq Below[vector'.root]
          /\ stack'[k].depth = k - 1 /\ stack'[k].ix <= Len(KidsOf(k)')
    <3> SUFFICES ASSUME NEW k \in 1 .. n + 1
                 PROVE  /\ stack'[k].node \in Nodes /\ Below[stack'[k].node] \subseteq Below[vector'.root]
                        /\ stack'[k].depth = k - 1 /\ stack'[k].ix <= Len(KidsOf(k)')
      OBVIOUS
    <3>1. CASE k = n + 1
      <4>1. Children(Doc[c]) \in Seq(Nodes)
        BY <1>9, ChildTypes
      <4>2. Len(Children(Doc[c])) \in Nat
        BY <4>1
      <4> QED BY <1>2, <1>9, <1>12, <1>14, <1>16, <1>17, <3>1, <4>2
    <3>2. CASE k = n
      <4>1. stack'[n].node \in Nodes /\ Below[stack'[n].node] \subseteq Below[vector.root]
            /\ stack'[n].depth = n - 1
        BY <1>3, <1>15, <2>2 DEF Linked
      <4> QED BY <1>7, <1>16, <1>17, <2>2, <3>2, <4>1
    <3>3. CASE k # n /\ k # n + 1
      <4>1. k \in 1 .. n
        BY <1>2, <3>3
      <4> QED BY <1>3, <1>15, <1>16, <1>17, <2>2, <3>3, <4>1 DEF Linked
    <3> QED BY <3>1, <3>2, <3>3
  <2>5. \A k \in 1 .. (n + 1) - 1 :
          /\ stack'[k].depth <= MaxEvalDepth /\ NodeOf(k)'.type = "comp" /\ stack'[k].ix >= 1
          /\ stack'[k + 1].node = KidsOf(k)'[stack'[k].ix]
          /\ NodeOf(k)'.op = "NOT" => Len(KidsOf(k)') = 1
    <3> SUFFICES ASSUME NEW k \in 1 .. n
                 PROVE  /\ stack'[k].depth <= MaxEvalDepth /\ NodeOf(k)'.type = "comp" /\ stack'[k].ix >= 1
                        /\ stack'[k + 1].node = KidsOf(k)'[stack'[k].ix]
                        /\ NodeOf(k)'.op = "NOT" => Len(KidsOf(k)') = 1
      BY <1>2
    <3>1. CASE k = n
      <4>1. stack'[n].depth <= MaxEvalDepth
        BY <1>1, <1>3, <1>15, <2>2 DEF AtTop
      <4> QED BY <1>4, <1>6, <1>7, <1>8, <1>12, <1>14, <1>16, <2>2, <3>1, <4>1
    <3>2. CASE k # n
      <4>1. k \in 1 .. n - 1 /\ k + 1 \in 1 .. n /\ k \in 1 .. Len(stack) - 1
        BY <1>2, <3>2
      <4> QED BY <1>3, <1>15, <1>16, <3>2, <4>1 DEF Linked
    <3> QED BY <3>1, <3>2
  <2> QED BY <1>14, <2>1, <2>3, <2>4, <2>5 DEF Linked
<1>19. AtTop'
  <2>1. stack' # << >>
    BY <1>13, <1>14, EmptyLen
  <2>2. C!Top' = g
    BY <1>14 DEF C!Top
  <2> QED BY <1>1, <1>12, <2>1, <2>2 DEF AtTop
<1>20. Agreed'
  <2> SUFFICES ASSUME NEW exact \in BOOLEAN, NEW doc, NEW r, Meant(exact, doc, r)'
               PROVE  /\ exact => ctx'.error = C!ESUCCESS
                      /\ \A k \in 1 .. n : FoldMeets(exact, r, k)'
    <3>1. \A k \in 1 .. n + 1 : Folding(k)' => k \in 1 .. n
      BY <1>1, <1>2, <1>14 DEF Folding
    <3> QED BY <1>1, <1>14, <3>1 DEF Agreed, Agreeing
  <2>1. Meant(exact, doc, r) /\ Agreeing(exact, doc, r)
    BY <1>17, RigidMeant DEF Inv, Agreed
  <2>2. ASSUME NEW k \in 1 .. n, k # n PROVE FoldMeets(exact, r, k)'
    <3>1. k < n /\ k \in 1 .. Len(stack) /\ k < n + 1
      BY <1>2, <1>13, <2>2
    <3>2. FoldMeets(exact, r, k)
      BY <1>2, <2>1, <3>1 DEF Agreeing, Folding
    <3>3. Done(k)' = Done(k)
      BY <1>2, <1>14, <1>15, <2>2, <3>1 DEF Done
    <3> QED BY <1>15, <1>16, <3>2, <3>3, FoldSame
  <2>3. FoldMeets(exact, r, n)'
    <3>1. n \in 1 .. n /\ n < n + 1 /\ ~(n < n)
      BY <1>13
    <3>2. Done(n)' = ix /\ Done(n) = ix
      BY <1>2, <1>6, <1>14, <1>16, <3>1 DEF Done
    <3>3. CASE pc = "loop"
      <4>1. FoldMeets(exact, r, n)
        BY <1>2, <1>3, <2>1, <3>3 DEF Agreeing, Folding
      <4> QED BY <1>15, <1>16, <3>1, <3>2, <4>1, FoldSame
    <3>4. CASE pc = "node"
      <4>1. NodeOf(n).op = "NOT" /\ ix = 0
        BY <1>3, <1>5, <1>6, <3>4 DEF C!NextChild, C!BeginNot, AtTop
      <4> QED BY <1>16, <3>1, <3>2, <4>1 DEF FoldMeets
    <3> QED BY <1>1, <3>3, <3>4
  <2> QED BY <1>1, <1>3, <2>1, <2>2, <2>3 DEF Agreeing
<1> QED BY <1>17, <1>18, <1>19, <1>20 DEF Inv

-----------------------------------------------------------------------------
(* A child returns *)

\* A frame below the innermost one, and the child that returns to it.
LEMMA ReturnFacts ==
  ASSUME Inv, pc = "return", NEW m, m = Len(stack) - 1, Len(stack) > 1,
         NEW c, c = KidsOf(m)[stack[m].ix]
  PROVE  /\ Begun /\ Linked /\ AtTop /\ Running /\ Ready
         /\ m \in Nat \ {0} /\ m + 1 = Len(stack) /\ m \in 1 .. Len(stack)
         /\ stack[m].node \in Nodes /\ stack[m].depth = m - 1 /\ m - 1 <= MaxEvalDepth
         /\ stack[m].ix \in 1 .. Len(KidsOf(m)) /\ Len(KidsOf(m)) \in Nat
         /\ NodeOf(m).type = "comp" /\ (NodeOf(m).op = "NOT" => Len(KidsOf(m)) = 1)
         /\ C!Top = stack[m + 1] /\ TopPlace = <<c, m>>
         /\ BuiltTree[stack[m].node].op = NodeOf(m).op
         /\ \A exact \in BOOLEAN : \A doc, r :
              Meant(exact, doc, r) /\ Agreeing(exact, doc, r) =>
                /\ exact => ctx.error = C!ESUCCESS
                /\ Meets(exact, ret, r[<<c, m>>])
                /\ \A k \in 1 .. m : FoldMeets(exact, r, k)
<1>1. PICK n \in Nat : n = Len(stack)
  BY Innermost
<1>2. /\ Begun /\ Linked /\ AtTop /\ Running /\ Ready
      /\ C!Top = stack[n] /\ TopPlace = <<stack[n].node, n - 1>>
  BY <1>1, Innermost
<1>3. m \in Nat \ {0} /\ m + 1 = n /\ m \in 1 .. n /\ m \in 1 .. n - 1 /\ n - 1 = m
  BY <1>1
<1>4. /\ stack[m].node \in Nodes /\ stack[m].depth = m - 1 /\ stack[m].ix \in Nat
      /\ stack[m].ix <= Len(KidsOf(m)) /\ Len(KidsOf(m)) \in Nat
      /\ BuiltTree[stack[m].node] = Built(NodeOf(m))
  BY <1>1, <1>2, <1>3, FrameFacts
<1>5. /\ stack[m].depth <= MaxEvalDepth /\ NodeOf(m).type = "comp" /\ stack[m].ix >= 1
      /\ stack[m + 1].node = c /\ (NodeOf(m).op = "NOT" => Len(KidsOf(m)) = 1)
  BY <1>1, <1>2, <1>3 DEF Linked
<1>6. Built(NodeOf(m)).op = NodeOf(m).op
  BY DEF Built
<1>7. ASSUME NEW exact \in BOOLEAN, NEW doc, NEW r, Meant(exact, doc, r), Agreeing(exact, doc, r)
      PROVE  /\ exact => ctx.error = C!ESUCCESS
             /\ Meets(exact, ret, r[TopPlace])
             /\ \A k \in 1 .. m : FoldMeets(exact, r, k)
  <2>1. \A k \in 1 .. m : k \in 1 .. Len(stack) /\ Folding(k)
    BY <1>1, <1>3 DEF Folding
  <2> QED BY <1>2, <1>7, <2>1 DEF Agreeing
<1> QED BY <1>1, <1>2, <1>3, <1>4, <1>5, <1>6, <1>7, SMTT(20)

\* The negated result of the only child.
LEMMA ToNotKept == Inv /\ Kept /\ C!ReturnToNot => Inv'
<1> SUFFICES ASSUME Inv, Kept, C!ReturnToNot PROVE Inv'
  OBVIOUS
<1>1. /\ pc = "return" /\ pc' = "leave" /\ ctx' = ctx /\ ret' = C!DoNot(ret) /\ Len(stack) > 1
      /\ stack' = SubSeq(stack, 1, Len(stack) - 1)
      /\ BuiltTree[stack[Len(stack) - 1].node].op = "NOT"
  BY DEF C!ReturnToNot, C!Pop
<1>2. PICK m : m = Len(stack) - 1
  OBVIOUS
<1>3. PICK c : c = KidsOf(m)[stack[m].ix]
  OBVIOUS
<1>4. /\ Begun /\ Linked /\ AtTop /\ Running /\ Ready
      /\ m \in Nat \ {0} /\ m + 1 = Len(stack) /\ m \in 1 .. Len(stack)
      /\ stack[m].node \in Nodes /\ stack[m].depth = m - 1 /\ m - 1 <= MaxEvalDepth
      /\ stack[m].ix \in 1 .. Len(KidsOf(m)) /\ Len(KidsOf(m)) = 1
      /\ NodeOf(m).type = "comp" /\ NodeOf(m).op = "NOT"
      /\ \A exact \in BOOLEAN : \A doc, r :
           Meant(exact, doc, r) /\ Agreeing(exact, doc, r) =>
             /\ exact => ctx.error = C!ESUCCESS
             /\ Meets(exact, ret, r[<<c, m>>])
             /\ \A k \in 1 .. m : FoldMeets(exact, r, k)
  BY <1>1, <1>2, <1>3, ReturnFacts
<1>5. stack' \in Seq(C!Frames) /\ Len(stack') = m /\ \A k \in 1 .. m : stack'[k] = stack[k]
  <2>1. stack \in Seq(C!Frames) /\ stack # << >>
    BY <1>1, <1>4, EmptyLen DEF Linked
  <2> QED BY <1>1, <1>2, <2>1, FrontSeq
<1>6. vector' = vector /\ Ready' /\ Begun'
  BY <1>1, <1>4, ReadyKept, BegunKept DEF Kept, harnessVars
<1>7. Linked'
  BY <1>4, <1>5, <1>6, LinkedKept
<1>8. stack' # << >> /\ C!Top' = stack[m] /\ TopPlace' = <<stack[m].node, m - 1>>
  BY <1>4, <1>5, EmptyLen DEF C!Top, TopPlace
<1>9. AtTop'
  BY <1>1, <1>4, <1>8 DEF AtTop
<1>10. Agreed'
  <2> SUFFICES ASSUME NEW exact \in BOOLEAN, NEW doc, NEW r, Meant(exact, doc, r)'
               PROVE  /\ exact => ctx'.error = C!ESUCCESS
                      /\ \A k \in 1 .. m : k < m => FoldMeets(exact, r, k)'
                      /\ Meets(exact, ret', r[<<stack[m].node, m - 1>>])
    BY <1>1, <1>5, <1>8 DEF Agreed, Agreeing, Folding
  <2>1. Meant(exact, doc, r) /\ Agreeing(exact, doc, r)
    BY <1>6, RigidMeant DEF Inv, Agreed
  <2>2. ASSUME NEW k \in 1 .. m, k < m PROVE FoldMeets(exact, r, k)'
    <3>1. NodeOf(k)' = NodeOf(k) /\ Done(k)' = Done(k) /\ stack'[k] = stack[k]
      BY <1>4, <1>5, <2>2 DEF NodeOf, Done
    <3> QED BY <1>4, <2>1, <3>1, FoldSame
  <2>3. r[<<stack[m].node, m - 1>>] = GP!doNot(r[<<KidsOf(m)[1], m>>])
    BY <1>4, <2>1, MeantComposite
  <2>4. stack[m].ix = 1
    BY <1>4
  <2>5. Meets(exact, ret', r[<<stack[m].node, m - 1>>])
    BY <1>1, <1>3, <1>4, <2>1, <2>3, <2>4, NotMeets
  <2> QED BY <1>1, <1>4, <2>1, <2>2, <2>5
<1> QED BY <1>6, <1>7, <1>9, <1>10 DEF Inv

\* One more child.
LEMMA OneMoreKid ==
  ASSUME NEW r, NEW n, NEW d, NEW ix \in Nat \ {0}
  PROVE  KidResults(r, n, d, ix) = KidResults(r, n, d, ix - 1) \cup {r[<<Children(Doc[n])[ix], d>>]}
<1>1. 1 .. ix = (1 .. ix - 1) \cup {ix}
  OBVIOUS
<1> QED BY <1>1 DEF KidResults

\* The result of a child goes into the frame of its parent, which has met what Go makes
\* of the children before it.
LEMMA ToCompositeKept == Inv /\ Kept /\ C!ReturnToComposite => Inv'
<1> SUFFICES ASSUME Inv, Kept, C!ReturnToComposite PROVE Inv'
  OBVIOUS
<1>1. PICK m : m = Len(stack) - 1
  OBVIOUS
<1>2. PICK op : op = BuiltTree[stack[m].node].op
  OBVIOUS
<1>3. PICK q : q = C!DoOper(op, stack[m].res, ret)
  OBVIOUS
<1>4. /\ pc = "return" /\ ctx' = ctx /\ Len(stack) > 1 /\ op # "NOT"
      /\ stack' = [SubSeq(stack, 1, m) EXCEPT ![m] = [stack[m] EXCEPT !.res = q]]
      /\ IF C!ShortCircuits(op, q) THEN ret' = q /\ pc' = "leave" ELSE pc' = "loop"
  BY <1>1, <1>2, <1>3 DEF C!ReturnToComposite, C!Pop
<1>5. PICK c : c = KidsOf(m)[stack[m].ix]
  OBVIOUS
<1>6. PICK ix \in Nat \ {0} : ix = stack[m].ix
  <2>1. stack[m].ix \in 1 .. Len(KidsOf(m)) /\ Len(KidsOf(m)) \in Nat
    BY <1>1, <1>4, <1>5, ReturnFacts
  <2> QED BY <2>1
<1>7. /\ Begun /\ Linked /\ AtTop /\ Running /\ Ready
      /\ m \in Nat \ {0} /\ m + 1 = Len(stack) /\ m \in 1 .. Len(stack)
      /\ stack[m].node \in Nodes /\ stack[m].depth = m - 1 /\ m - 1 <= MaxEvalDepth
      /\ ix \in 1 .. Len(KidsOf(m)) /\ Len(KidsOf(m)) \in Nat
      /\ NodeOf(m).type = "comp" /\ NodeOf(m).op = op
      /\ \A exact \in BOOLEAN : \A doc, r :
           Meant(exact, doc, r) /\ Agreeing(exact, doc, r) =>
             /\ exact => ctx.error = C!ESUCCESS
             /\ Meets(exact, ret, r[<<c, m>>])
             /\ \A k \in 1 .. m : FoldMeets(exact, r, k)
  BY <1>1, <1>2, <1>4, <1>5, <1>6, ReturnFacts
<1>8. stack[m] \in C!Frames /\ stack \in Seq(C!Frames) /\ stack # << >>
  BY <1>4, <1>7, FrameFacts, EmptyLen DEF Linked
<1>9. PICK f \in C!Frames :
        /\ f = [stack[m] EXCEPT !.res = q] /\ f.res = q
        /\ f.node = stack[m].node /\ f.depth = stack[m].depth /\ f.ix = stack[m].ix
  <2>1. q \in C!Outcomes
    BY <1>3, <1>4 DEF C!DoOper, C!DoAnd, C!DoOr, C!Outcomes, C!Results
  <2>2. [stack[m] EXCEPT !.res = q] \in C!Frames
    BY <1>8, <2>1 DEF C!Frames
  <2>3. /\ [stack[m] EXCEPT !.res = q].res = q
        /\ [stack[m] EXCEPT !.res = q].node = stack[m].node
        /\ [stack[m] EXCEPT !.res = q].depth = stack[m].depth
        /\ [stack[m] EXCEPT !.res = q].ix = stack[m].ix
    BY <1>8 DEF C!Frames
  <2> QED BY <2>2, <2>3
<1>10. PICK s \in Seq(C!Frames) :
         s = SubSeq(stack, 1, m) /\ Len(s) = m /\ \A k \in 1 .. m : s[k] = stack[k]
  <2>1. PICK s : s = SubSeq(stack, 1, m)
    OBVIOUS
  <2>2. s \in Seq(C!Frames) /\ Len(s) = m /\ \A k \in 1 .. m : s[k] = stack[k]
    BY <1>1, <1>8, <2>1, FrontSeq
  <2> QED BY <2>1, <2>2
<1>11. /\ stack' \in Seq(C!Frames) /\ Len(stack') = m /\ stack'[m] = f /\ m \in 1 .. m
       /\ \A k \in 1 .. m : k # m => stack'[k] = stack[k]
  <2>1. s # << >>
    BY <1>7, <1>10, EmptyLen
  <2>2. stack' = [s EXCEPT ![m] = f]
    BY <1>4, <1>9, <1>10
  <2>3. PICK n : n = Len(s)
    OBVIOUS
  <2>4. /\ [s EXCEPT ![n] = f] \in Seq(C!Frames) /\ Len([s EXCEPT ![n] = f]) = n
        /\ [s EXCEPT ![n] = f][n] = f
        /\ \A k \in 1 .. n : k # n => [s EXCEPT ![n] = f][k] = s[k]
    BY <2>1, <2>3, SeqFacts
  <2> QED BY <1>7, <1>10, <2>2, <2>3, <2>4
<1>12. \A k \in 1 .. m : /\ stack'[k].node = stack[k].node /\ stack'[k].depth = stack[k].depth
                         /\ stack'[k].ix = stack[k].ix /\ NodeOf(k)' = NodeOf(k)
  <2>1. \A k \in 1 .. m : /\ stack'[k].node = stack[k].node /\ stack'[k].depth = stack[k].depth
                          /\ stack'[k].ix = stack[k].ix
    BY <1>9, <1>11
  <2> QED BY <2>1 DEF NodeOf
<1>13. vector' = vector /\ Ready' /\ Begun'
  BY <1>4, <1>7, ReadyKept, BegunKept DEF Kept, harnessVars
<1>14. Linked'
  BY <1>7, <1>11, <1>12, <1>13, LinkedKept
<1>15. stack' # << >> /\ C!Top' = f /\ TopPlace' = <<stack[m].node, m - 1>> /\ NodeOf(Len(stack))' = NodeOf(m)
  <2>1. stack' # << >> /\ C!Top' = f
    BY <1>7, <1>11, EmptyLen DEF C!Top
  <2>2. NodeOf(Len(stack))' = NodeOf(m)
    BY <1>9, <1>11 DEF NodeOf
  <2> QED BY <1>7, <1>9, <2>1, <2>2 DEF TopPlace
<1>16. AtTop'
  BY <1>4, <1>7, <1>9, <1>15 DEF AtTop
<1>17. Agreed'
  <2> SUFFICES ASSUME NEW exact \in BOOLEAN, NEW doc, NEW r, Meant(exact, doc, r)'
               PROVE  /\ exact => ctx'.error = C!ESUCCESS
                      /\ \A k \in 1 .. m : FoldMeets(exact, r, k)'
                      /\ pc' = "leave" => Meets(exact, ret', r[<<stack[m].node, m - 1>>])
    BY <1>4, <1>11, <1>15 DEF Agreed, Agreeing
  <2>1. Meant(exact, doc, r) /\ Agreeing(exact, doc, r)
    BY <1>13, RigidMeant DEF Inv, Agreed
  <2>2. ASSUME NEW k \in 1 .. m, k # m PROVE FoldMeets(exact, r, k)'
    <3>1. Done(k)' = Done(k) /\ stack'[k] = stack[k]
      <4>1. k < m /\ k < m + 1
        BY <1>7, <2>2
      <4> QED BY <1>7, <1>11, <2>2, <4>1 DEF Done
    <3> QED BY <1>7, <1>12, <2>1, <3>1, FoldSame
  <2>3. PICK n : n = stack[m].node
    OBVIOUS
  <2>4. PICK y : y = r[<<c, m>>]
    OBVIOUS
  <2>5. PICK S : S = KidResults(r, n, m, ix - 1)
    OBVIOUS
  <2>6. KidResults(r, n, m, ix) = S \cup {y}
    BY <1>5, <1>6, <2>3, <2>4, <2>5, OneMoreKid DEF KidsOf, NodeOf
  <2>7. S \cup {y} \subseteq KidResults(r, n, m, Len(KidsOf(m)))
    <3>1. 1 .. ix \subseteq 1 .. Len(KidsOf(m))
      BY <1>7
    <3> QED BY <2>6, <3>1 DEF KidResults
  <2>8. Done(m) = ix - 1 /\ Done(m)' = ix /\ m \in 1 .. m
    BY <1>6, <1>7, <1>11, <1>12 DEF Done
  <2>9. Meets(exact, ret, y) /\ FoldMeets(exact, r, m)
    BY <1>7, <1>11, <2>1, <2>4
  <2>10. op \in {"AND", "OR"} => r[<<n, m - 1>>] =
           IF op = "AND" THEN GP!AndSet(KidResults(r, n, m, Len(KidsOf(m))))
                         ELSE GP!OrSet(KidResults(r, n, m, Len(KidsOf(m))))
    <3>1. r[<<n, m - 1>>] =
            CASE NodeOf(m).op = "AND" -> GP!AndSet(KidResults(r, n, m, Len(KidsOf(m))))
              [] NodeOf(m).op = "OR"  -> GP!OrSet(KidResults(r, n, m, Len(KidsOf(m))))
              [] NodeOf(m).op = "NOT" -> IF Len(KidsOf(m)) = 1 THEN GP!doNot(r[<<KidsOf(m)[1], m>>])
                                         ELSE "ABSTAIN"
              [] OTHER -> "ABSTAIN"
      BY <1>7, <2>1, <2>3, MeantComposite
    <3>2. NodeOf(m).op = op
      BY <1>7
    <3>3. CASE op = "AND"
      BY <3>1, <3>2, <3>3
    <3>4. CASE op = "OR"
      BY <3>1, <3>2, <3>4
    <3> QED BY <3>3, <3>4
  <2>11. CASE op = "AND"
    <3>1. q = C!DoAnd(stack[m].res, ret)
      BY <1>3, <2>11 DEF C!DoOper
    <3>2. Meets(exact, stack[m].res, GP!AndSet(S))
      BY <1>7, <2>3, <2>5, <2>8, <2>9, <2>11 DEF FoldMeets
    <3>3. /\ Meets(exact, q, GP!AndSet(S \cup {y}))
          /\ q = "FALSE" => Meets(exact, q, GP!AndSet(KidResults(r, n, m, Len(KidsOf(m)))))
      BY <2>7, <2>9, <3>1, <3>2, AndMeets
    <3>4. FoldMeets(exact, r, m)'
      BY <1>7, <1>9, <1>11, <1>12, <2>3, <2>6, <2>8, <2>11, <3>3, ZenonT(40) DEF FoldMeets
    <3>5. pc' = "leave" => Meets(exact, ret', r[<<stack[m].node, m - 1>>])
      BY <1>4, <2>3, <2>10, <2>11, <3>3 DEF C!ShortCircuits
    <3> QED BY <1>4, <1>7, <2>1, <2>2, <3>4, <3>5
  <2>12. CASE op = "OR"
    <3>1. q = C!DoOr(stack[m].res, ret)
      BY <1>3, <2>12 DEF C!DoOper
    <3>2. Meets(exact, stack[m].res, GP!OrSet(S))
      BY <1>7, <2>3, <2>5, <2>8, <2>9, <2>12 DEF FoldMeets
    <3>3. /\ Meets(exact, q, GP!OrSet(S \cup {y}))
          /\ q = "TRUE" => Meets(exact, q, GP!OrSet(KidResults(r, n, m, Len(KidsOf(m)))))
      BY <2>7, <2>9, <3>1, <3>2, OrMeets
    <3>4. FoldMeets(exact, r, m)'
      BY <1>7, <1>9, <1>11, <1>12, <2>3, <2>6, <2>8, <2>12, <3>3, ZenonT(40) DEF FoldMeets
    <3>5. pc' = "leave" => Meets(exact, ret', r[<<stack[m].node, m - 1>>])
      BY <1>4, <2>3, <2>10, <2>12, <3>3 DEF C!ShortCircuits
    <3> QED BY <1>4, <1>7, <2>1, <2>2, <3>4, <3>5
  <2>13. CASE op \notin {"AND", "OR"}
    <3>1. q = "ABSTAIN"
      BY <1>3, <1>4, <2>13 DEF C!DoOper
    <3>2. pc' # "leave"
      BY <1>4, <2>13 DEF C!ShortCircuits
    <3>3. FoldMeets(exact, r, m)'
      BY <1>7, <1>9, <1>11, <1>12, <2>8, <2>13, <3>1 DEF FoldMeets
    <3> QED BY <1>4, <1>7, <2>1, <2>2, <3>2, <3>3
  <2> QED BY <2>11, <2>12, <2>13
<1> QED BY <1>13, <1>14, <1>16, <1>17 DEF Inv

\* The root returns.
LEMMA ToPolicyKept == Inv /\ Kept /\ C!ReturnToPolicy => Inv'
<1> SUFFICES ASSUME Inv, Kept, C!ReturnToPolicy PROVE Inv'
  OBVIOUS
<1>1. /\ pc = "return" /\ pc' = "verdict" /\ ctx' = ctx /\ verdict' = ret /\ Len(stack) = 1
      /\ stack' = << >>
  BY DEF C!ReturnToPolicy
<1>2. PICK n \in Nat : n = Len(stack)
  BY <1>1, Innermost
<1>3. /\ Begun /\ Linked /\ AtTop /\ Running /\ Ready
      /\ stack # << >> /\ TopPlace = <<stack[n].node, n - 1>>
  BY <1>1, <1>2, Innermost
<1>4. TopPlace = <<vector.root, 0>>
  BY <1>1, <1>2, <1>3 DEF Linked
<1>5. vector' = vector /\ Ready' /\ Begun'
  BY <1>1, <1>3, ReadyKept, BegunKept DEF Kept, harnessVars
<1>6. 1 .. Len(stack') = {} /\ 1 .. Len(stack') - 1 = {} /\ stack' \in Seq(C!Frames)
  BY <1>1, EmptyLen
<1>7. Linked' /\ AtTop'
  BY <1>1, <1>6 DEF Linked, AtTop
<1>8. Agreed'
  <2> SUFFICES ASSUME NEW exact \in BOOLEAN, NEW doc, NEW r, Meant(exact, doc, r)'
               PROVE  /\ exact => ctx'.error = C!ESUCCESS
                      /\ Meets(exact, verdict', r[<<vector'.root, 0>>])
    BY <1>1, <1>6 DEF Agreed, Agreeing
  <2>1. Meant(exact, doc, r) /\ Agreeing(exact, doc, r)
    BY <1>5, RigidMeant DEF Inv, Agreed
  <2> QED BY <1>1, <1>3, <1>4, <1>5, <2>1 DEF Agreeing
<1> QED BY <1>5, <1>7, <1>8 DEF Inv

-----------------------------------------------------------------------------
(* The harness *)

\* Before the first vector nothing has been evaluated.
LEMMA InitInv == Init => Inv
<1> SUFFICES ASSUME Init PROVE Inv
  OBVIOUS
<1>1. /\ todo \in Seq(Vectors) /\ watcher = NULL /\ pc = "idle" /\ cRes = NULL /\ stack = << >>
  BY VectorAssumption DEF Init
<1>2. 1 .. Len(stack) = {} /\ 1 .. Len(stack) - 1 = {} /\ stack \in Seq(C!Frames)
  BY <1>1, EmptyLen
<1> QED BY <1>1, <1>2 DEF Inv, Begun, Linked, AtTop, Agreed, Agreeing, Running

\* A vector begins with the context that its facts make.
LEMMA RunKept == Inv /\ RunVector => Inv'
<1> SUFFICES ASSUME Inv, RunVector PROVE Inv'
  OBVIOUS
<1>1. PICK v : v = Head(todo)
  OBVIOUS
<1>2. /\ pc = "idle" /\ pc' = "rules" /\ todo # << >> /\ todo' = Tail(todo) /\ cRes' = NULL
      /\ \A n \in Below[v.root] : Accepted(Doc[n])
      /\ vector' = v /\ labels' = v.facts.labels /\ goRes' = Go!Evaluate(Doc, v.root, v.facts)
      /\ ctx' = Loaded(Registered(ConfReset(ctx)), v.facts) /\ stack' = <<C!Frame(v.root, 0)>>
      /\ watcher' = watcher
  BY <1>1 DEF RunVector, policyVars
<1>3. v \in Vectors /\ todo' \in Seq(Vectors) /\ watcher' = NULL
  BY <1>1, <1>2 DEF Inv, Begun
<1>4. v.root \in Nodes
  BY <1>3, VectorAssumption
<1>5. Ready' /\ ctx'.error = C!ESUCCESS
  <2>1. PICK params : params = [e \in C!Entries |->
                                 IF e[2] \in DOMAIN FactsOf(v.facts, e[1]) THEN FactsOf(v.facts, e[1])[e[2]]
                                 ELSE Registered(ConfReset(ctx)).param[e]]
    OBVIOUS
  <2>2. PICK fns : fns = [e \in C!Entries |-> ConfFn(e)]
    OBVIOUS
  <2>3. PICK c : c = C!Reset(ctx)
    OBVIOUS
  <2>4. ctx' = [[c EXCEPT !.evaluator = fns] EXCEPT !.param = params]
    BY <1>2, <2>1, <2>2, <2>3 DEF Loaded, Registered, ConfReset
  <2>5. c = [evaluator   |-> c.evaluator,
             param       |-> [e \in C!Entries |-> C!NotSet(e[1])],
             evalError   |-> c.evalError,
             handler     |-> c.handler,
             actionError |-> c.actionError,
             observer    |-> c.observer,
             error       |-> C!ESUCCESS,
             initialized |-> c.initialized]
    BY <2>3 DEF C!Reset
  <2>6. Registered(ConfReset(ctx)).param = [e \in C!Entries |-> C!NotSet(e[1])]
    BY <2>2, <2>3, <2>5 DEF Registered, ConfReset
  <2>7. params = [e \in C!Entries |-> ParamOf(e)']
    BY <1>2, <2>1, <2>6 DEF ParamOf
  <2>8. ctx' = [evaluator   |-> fns,
                param       |-> params,
                evalError   |-> c.evalError,
                handler     |-> c.handler,
                actionError |-> c.actionError,
                observer    |-> c.observer,
                error       |-> C!ESUCCESS,
                initialized |-> c.initialized]
    <3>1. PICK c1 : c1 = [c EXCEPT !.evaluator = fns]
      OBVIOUS
    <3>2. c1 = [evaluator   |-> fns,
                param       |-> [e \in C!Entries |-> C!NotSet(e[1])],
                evalError   |-> c.evalError,
                handler     |-> c.handler,
                actionError |-> c.actionError,
                observer    |-> c.observer,
                error       |-> C!ESUCCESS,
                initialized |-> c.initialized]
      BY <2>5, <3>1
    <3>3. ctx' = [c1 EXCEPT !.param = params]
      BY <2>4, <3>1
    <3> QED BY <3>2, <3>3
  <2> QED BY <2>2, <2>7, <2>8 DEF Ready
<1>6. Begun'
  BY <1>2, <1>3, <1>5 DEF Begun, Running
<1>7. PICK f \in C!Frames : f = C!Frame(v.root, 0) /\ f.node = v.root /\ f.depth = 0 /\ f.ix = 0
  <2>1. C!Frame(v.root, 0) \in C!Frames
    BY <1>4 DEF C!Frame, C!Frames, C!Outcomes, C!Results
  <2> QED BY <2>1 DEF C!Frame
<1>8. /\ stack' \in Seq(C!Frames) /\ stack' # << >> /\ Len(stack') = 1 /\ stack'[1] = f
      /\ 1 .. 1 = {1} /\ 1 .. 1 - 1 = {}
  BY <1>2, <1>7
<1>9. Linked'
  <2>1. Len(Children(Doc[v.root])) \in Nat
    BY <1>4, ChildTypes
  <2>2. KidsOf(1)' = Children(Doc[v.root])
    BY <1>7, <1>8 DEF KidsOf, NodeOf
  <2> QED BY <1>2, <1>4, <1>7, <1>8, <2>1, <2>2 DEF Linked
<1>10. AtTop'
  BY <1>2, <1>7, <1>8 DEF AtTop, C!Top
<1>11. Agreed'
  BY <1>2, <1>5, <1>8 DEF Agreed, Agreeing, Folding
<1> QED BY <1>6, <1>9, <1>10, <1>11 DEF Inv

\* The verdict is taken.
LEMMA EvalReturnsKept == Inv /\ ConfEvalReturns => Inv'
<1> SUFFICES ASSUME Inv, ConfEvalReturns PROVE Inv'
  OBVIOUS
<1>1. /\ pc = "verdict" /\ pc' = "idle" /\ stack' = stack /\ todo' = todo /\ vector' = vector
      /\ goRes' = goRes /\ watcher' = watcher
      /\ cRes' = IF verdict \in {"TRUE", "FALSE"} THEN verdict ELSE "ABSTAIN"
  BY DEF ConfEvalReturns, policyVars
<1>2. Begun'
  BY <1>1 DEF Inv, Begun, Running
<1>3. stack = << >>
  BY <1>1 DEF Inv, AtTop
<1>4. 1 .. Len(stack') = {} /\ 1 .. Len(stack') - 1 = {} /\ stack' \in Seq(C!Frames)
  BY <1>1, <1>3, EmptyLen
<1>5. Linked' /\ AtTop'
  BY <1>1, <1>3, <1>4 DEF Linked, AtTop
<1>6. Agreed'
  <2> SUFFICES ASSUME NEW exact \in BOOLEAN, NEW doc, NEW r, Meant(exact, doc, r)'
               PROVE  Meets(exact, cRes', r[<<vector'.root, 0>>])
    BY <1>1, <1>4 DEF Agreed, Agreeing, Running
  <2>1. Meant(exact, doc, r) /\ Agreeing(exact, doc, r)
    BY <1>1, RigidMeant DEF Inv, Agreed
  <2>2. Meets(exact, verdict, r[<<vector.root, 0>>])
    BY <1>1, <2>1 DEF Agreeing
  <2> QED BY <1>1, <2>2 DEF Meets, Truths
<1> QED BY <1>2, <1>5, <1>6 DEF Inv

\* Every step of the harness and of the walk keeps the invariant.
LEMMA StepInv == Inv /\ [Next]_vars => Inv'
<1> SUFFICES ASSUME Inv, [Next]_vars PROVE Inv'
  OBVIOUS
<1>1. CASE RunVector
  BY <1>1, RunKept
<1>2. CASE ConfEvalReturns
  BY <1>2, EvalReturnsKept
<1>3. CASE (Walk \/ ConfEvaluatorReturns) /\ UNCHANGED harnessVars
  <2>1. Kept
    <3>1. UNCHANGED harnessVars
      BY <1>3
    <3>2. CASE ConfEvaluatorReturns
      BY <3>1, <3>2 DEF Kept, ConfEvaluatorReturns, C!EvaluatorReturns
    <3>3. CASE Walk
      BY <3>1, <3>3 DEF Kept, Walk, C!CutNode, C!EnterNode, C!LeaveNode, C!LeafAbstains,
        C!CallDefaultEvaluator, C!CallHostEvaluator, C!BeginNot, C!BeginComposite, C!NextChild,
        C!ChildrenDone, C!ReturnToNot, C!ReturnToComposite, C!ReturnToPolicy, C!walkVars
    <3> QED BY <1>3, <3>2, <3>3
  <2>2. CASE C!CutNode
    BY <2>1, <2>2, CutKept
  <2>3. CASE C!EnterNode
    BY <2>1, <2>3, EnterKept
  <2>4. CASE C!LeaveNode
    BY <2>1, <2>4, LeaveKept
  <2>5. CASE C!LeafAbstains
    BY <2>1, <2>5, PassedByKept
  <2>6. CASE C!CallDefaultEvaluator \/ ConfEvaluatorReturns
    BY <2>1, <2>6, CalledKept
  <2>7. CASE C!CallHostEvaluator
    BY <2>1, <2>7, HostCalledKept
  <2>8. CASE C!BeginNot
    <3>1. pc' \in {"rules", "leave"}
      BY <2>8 DEF C!BeginNot
    <3> QED BY <2>1, <2>8, <3>1, CompositeKept, CallsKept
  <2>9. CASE C!BeginComposite
    BY <2>1, <2>9, BeginKept
  <2>10. CASE C!NextChild
    BY <2>1, <2>10, CallsKept
  <2>11. CASE C!ChildrenDone
    BY <2>1, <2>11, CompositeKept
  <2>12. CASE C!ReturnToNot
    BY <2>1, <2>12, ToNotKept
  <2>13. CASE C!ReturnToComposite
    BY <2>1, <2>13, ToCompositeKept
  <2>14. CASE C!ReturnToPolicy
    BY <2>1, <2>14, ToPolicyKept
  <2> QED BY <1>3, <2>2, <2>3, <2>4, <2>5, <2>6, <2>7, <2>8, <2>9, <2>10, <2>11, <2>12, <2>13, <2>14
          DEF Walk
<1>4. CASE UNCHANGED vars
  <2>1. /\ todo' = todo /\ vector' = vector /\ labels' = labels /\ goRes' = goRes /\ cRes' = cRes
        /\ ctx' = ctx /\ pc' = pc /\ stack' = stack /\ ret' = ret /\ verdict' = verdict
        /\ watcher' = watcher
    BY <1>4 DEF vars, harnessVars, walkVars, policyVars
  <2>2. Ready' <=> Ready
    BY <2>1 DEF Ready, ParamOf
  <2>3. Begun'
    BY <2>1, <2>2 DEF Inv, Begun, Running
  <2>4. Linked'
    BY <2>1 DEF Inv, Linked, NodeOf, KidsOf
  <2>5. AtTop'
    BY <2>1 DEF Inv, AtTop, NodeOf, C!Top, C!Entry, C!Node, C!ParamMissing
  <2>6. Agreed'
    <3> SUFFICES ASSUME NEW exact \in BOOLEAN, NEW doc, NEW r, Meant(exact, doc, r)'
                 PROVE  Agreeing(exact, doc, r)'
      BY DEF Agreed, Agreeing
    <3>1. Meant(exact, doc, r) /\ Agreeing(exact, doc, r)
      BY <2>1, RigidMeant DEF Inv, Agreed
    <3> QED BY <2>1, <3>1 DEF Agreeing, Running, Folding, FoldMeets, NodeOf, Done, TopPlace, C!Top
  <2> QED BY <2>3, <2>4, <2>5, <2>6 DEF Inv
<1> QED BY <1>1, <1>2, <1>3, <1>4 DEF Next

\* The invariant of the comparison holds for every corpus: cgo.go prepares the C engine,
\* and wherever the walk stands its frames have met what Go makes of the same children.
THEOREM Invariance == Spec => []Inv
<1>1. Init => Inv
  BY InitInv
<1>2. Inv /\ [Next]_vars => Inv'
  BY StepInv
<1> QED BY <1>1, <1>2, PTL DEF Spec

-----------------------------------------------------------------------------
(* What the two engines make of a document *)

\* The recursion of the Go engine has a solution for every reading.
LEMMA GoSolves ==
  ASSUME NEW exact, NEW doc, Reads(exact, doc)
  PROVE  \E r : /\ Solves(doc, r)
                /\ \A root : Go!Evaluate(doc, root, vector.facts) = r[<<root, 0>>]
<1>1. GP!Closed(doc) /\ MaxEvalDepth \in Nat
  BY ReadsClosed, DocumentAssumption
<1> QED BY <1>1, SameEvaluate, GP!EvaluateEquation DEF Solves

\* Both engines give a document the same result, whatever ran before it: on every
\* corpus, for every document whose ids they know and which cgo.go hands over as it is.
THEOREM EnginesAlwaysAgree == Spec => []EnginesAgree
<1>1. Inv => EnginesAgree
  <2> SUFFICES ASSUME Inv, Evaluated, KnownIds, NoListFacts, \A w \in VectorNodes : SameDocument(w)
               PROVE  goRes = cRes
    BY DEF EnginesAgree
  <2>1. pc = "idle" /\ goRes = Go!Evaluate(Doc, vector.root, vector.facts)
    BY DEF Inv, Begun, Evaluated, Running
  <2>2. Reads(TRUE, Doc)
    BY DocumentAssumption DEF Reads
  <2>3. PICK r : /\ Solves(Doc, r)
                 /\ \A root : Go!Evaluate(Doc, root, vector.facts) = r[<<root, 0>>]
    BY <2>2, GoSolves
  <2>4. Meets(TRUE, cRes, r[<<vector.root, 0>>])
    BY <2>1, <2>2, <2>3 DEF Inv, Agreed, Agreeing, Meant, Evaluated
  <2> QED BY <2>1, <2>3, <2>4 DEF Meets
<1> QED BY <1>1, Invariance, PTL

\* The Go engine abstains on an id that it does not know, if nothing is known of it.
LEMMA NewerAbstains ==
  ASSUME NEW w, w.id = "COUNT", w.eval \in {"str", "num", "unum"}, NoNewerFacts, vector \in Vectors
  PROVE  GoLeaf(w) = "ABSTAIN"
<1>1. PICK e : e = GP!decodeEvaluatorNode(w)
  OBVIOUS
<1>2. "COUNT" \notin AlwaysIds /\ "COUNT" \notin GP!AlwaysIds
  BY DEF AlwaysIds, GP!AlwaysIds
<1>3. /\ \A k, i, key, c, v : GP!Leaf(k, i, key, c, v).kind = k /\ GP!Leaf(k, i, key, c, v).id = i
      /\ \A i, c, v : GP!StringLeaf(i, c, v).kind = "str" /\ GP!StringLeaf(i, c, v).id = i
  BY DEF GP!Leaf, GP!StringLeaf
<1>4. /\ "COUNT" \notin DOMAIN vector.facts.strings /\ "COUNT" \notin DOMAIN vector.facts.labels
      /\ "COUNT" \notin DOMAIN vector.facts.numbers /\ "COUNT" \notin DOMAIN vector.facts.unumbers
      /\ "COUNT" \notin DOMAIN vector.facts.lists
  BY VectorAssumption, GP!NoPlaces DEF NoNewerFacts
<1>5. e = GP!AlwaysAbstain \/ (e.id = "COUNT" /\ e.kind = w.eval)
  <2>1. CASE w.eval = "str"
    BY <1>1, <1>2, <1>3, <2>1 DEF GP!decodeEvaluatorNode, GP!decodeStrEval, GP!decodeLabel
  <2>2. CASE w.eval \in {"num", "unum"}
    BY <1>1, <1>3, <2>2 DEF GP!decodeEvaluatorNode, GP!decodeNumEval
  <2> QED BY <2>1, <2>2
<1>6. CASE e = GP!AlwaysAbstain
  BY <1>1, <1>6, AbstainAbstains DEF GoLeaf
<1>7. CASE e.id = "COUNT" /\ e.kind = w.eval
  BY <1>1, <1>2, <1>4, <1>7 DEF GoLeaf, GP!eval, GP!evalString, GP!evalNumber
<1> QED BY <1>5, <1>6, <1>7

\* A set of results and a set of readings of them.
LEMMA SetsMeet ==
  ASSUME NEW X, NEW Y, \A v \in X : v \in Truths /\ (v \in Y \/ v = "ABSTAIN"),
         \A v \in Y : v \in X \/ "ABSTAIN" \in X
  PROVE  Meets(FALSE, GP!AndSet(X), GP!AndSet(Y)) /\ Meets(FALSE, GP!OrSet(X), GP!OrSet(Y))
BY DEF Meets, GP!AndSet, GP!OrSet, Truths

\* The nodes of the vector's document, however they are reached.
Reached == {n \in Nodes : Below[n] \subseteq Below[vector.root]}

\* In the Go engine, node by node: what a document means does not decide what the
\* document itself leaves undecided.
LEMMA GoMeets ==
  ASSUME vector \in Vectors, \A n \in Below[vector.root] : Accepted(Doc[n]), NoNewerFacts,
         NEW doc, NEW r1, NEW r2, Meant(FALSE, Doc, r1), Meant(FALSE, doc, r2)
  PROVE  Meets(FALSE, r1[<<vector.root, 0>>], r2[<<vector.root, 0>>])
<1> DEFINE Met(e) == \A n \in Reached : \A d \in 0 .. MaxEvalDepth + 1 :
                       d + e > MaxEvalDepth => Meets(FALSE, r1[<<n, d>>], r2[<<n, d>>])
           S == {e \in Nat : Met(e)}
<1>0. MaxEvalDepth \in Nat
  BY DocumentAssumption
<1>1. /\ Reads(FALSE, Doc) /\ Reads(FALSE, doc) /\ Solves(Doc, r1) /\ Solves(doc, r2)
  BY DEF Meant
<1>2. ASSUME NEW n \in Reached
      PROVE  /\ n \in Nodes /\ Accepted(Doc[n]) /\ SameDocument(Doc[n])
             /\ \A i \in 1 .. Len(Children(Doc[n])) : Children(Doc[n])[i] \in Reached
             /\ Len(Children(Doc[n])) \in Nat
  <2>1. n \in Nodes /\ n \in Below[vector.root]
    BY BelowFacts DEF Reached
  <2>2. Accepted(Doc[n]) /\ SameDocument(Doc[n])
    BY <1>1, <2>1 DEF Reads, VectorNodes
  <2>3. Children(Doc[n]) \in Seq(Nodes)
    BY <2>1, ChildTypes
  <2>4. DOMAIN Children(Doc[n]) = 1 .. Len(Children(Doc[n])) /\ Len(Children(Doc[n])) \in Nat
    BY <2>3
  <2>5. ASSUME NEW i \in 1 .. Len(Children(Doc[n])) PROVE Children(Doc[n])[i] \in Reached
    <3>1. Children(Doc[n])[i] \in Nodes /\ Below[Children(Doc[n])[i]] \subseteq Below[n]
      BY <2>1, <2>4, ChildTypes, BelowFacts
    <3> QED BY <3>1 DEF Reached
  <2> QED BY <2>1, <2>2, <2>4, <2>5
<1>3. ASSUME NEW n \in Reached, NEW d \in 0 .. MaxEvalDepth + 1, d > MaxEvalDepth
      PROVE  Meets(FALSE, r1[<<n, d>>], r2[<<n, d>>])
  <2>1. r1[<<n, d>>] = "ABSTAIN"
    BY <1>1, <1>2, <1>3, PlaceResult
  <2> QED BY <2>1 DEF Meets, Truths
<1>4. ASSUME NEW n \in Reached, NEW d \in 0 .. MaxEvalDepth + 1, d <= MaxEvalDepth,
             \A k \in Reached : Meets(FALSE, r1[<<k, d + 1>>], r2[<<k, d + 1>>])
      PROVE  Meets(FALSE, r1[<<n, d>>], r2[<<n, d>>])
  <2>1. n \in Nodes /\ Accepted(Doc[n]) /\ SameDocument(Doc[n]) /\ Doc[n].type \in {"comp", "eval"}
    BY <1>2 DEF Accepted
  <2>2. \A b : Constant(b).type = "eval"
    BY DEF Constant
  <2>3. CASE Doc[n].type = "eval"
    <3>1. doc[n].type = "eval"
      BY <1>1, <2>1, <2>2, <2>3 DEF Reads
    <3>2. r1[<<n, d>>] = GoLeaf(Doc[n]) /\ r2[<<n, d>>] = GoLeaf(doc[n])
      BY <1>1, <1>4, <2>1, <2>3, <3>1, PlaceResult
    <3>3. GoLeaf(Doc[n]) \in Truths
      BY LeafTruth DEF GoLeaf
    <3>4. CASE doc[n] # Doc[n]
      <4>1. NotUnderstood(n) /\ Doc[n].eval \in {"str", "num", "unum"}
        BY <1>1, <2>1, <2>3, <3>4, BuiltLeaf DEF Reads
      <4>2. GoLeaf(Doc[n]) = "ABSTAIN"
        BY <4>1, NewerAbstains, UnknownComparator DEF NotUnderstood
      <4> QED BY <3>2, <4>2 DEF Meets, Truths
    <3> QED BY <3>2, <3>3, <3>4 DEF Meets
  <2>4. CASE Doc[n].type = "comp"
    <3>1. doc[n] = Doc[n] /\ Doc[n].children # NULL
      BY <1>1, <2>1, <2>4 DEF Reads, NotUnderstood, SameDocument
    <3>2. PICK m \in Nat : m = Len(Children(Doc[n]))
      BY <1>2
    <3>3. \A i \in 1 .. m : Meets(FALSE, r1[<<Children(Doc[n])[i], d + 1>>], r2[<<Children(Doc[n])[i], d + 1>>])
      BY <1>2, <1>4, <3>2
    <3>4. PICK K1 : K1 = KidResults(r1, n, d + 1, m)
      OBVIOUS
    <3>5. PICK K2 : K2 = KidResults(r2, n, d + 1, m)
      OBVIOUS
    <3>6. Meets(FALSE, GP!AndSet(K1), GP!AndSet(K2)) /\ Meets(FALSE, GP!OrSet(K1), GP!OrSet(K2))
      <4>1. \A v \in K1 : v \in Truths /\ (v \in K2 \/ v = "ABSTAIN")
        BY <3>3, <3>4, <3>5 DEF KidResults, Meets
      <4>2. \A v \in K2 : v \in K1 \/ "ABSTAIN" \in K1
        BY <3>3, <3>4, <3>5 DEF KidResults, Meets
      <4> QED BY <4>1, <4>2, SetsMeet
    <3>7. PICK x : x = r1[<<Children(Doc[n])[1], d + 1>>]
      OBVIOUS
    <3>8. PICK y : y = r2[<<Children(Doc[n])[1], d + 1>>]
      OBVIOUS
    <3>9. /\ r1[<<n, d>>] = CASE Doc[n].op = "AND" -> GP!AndSet(K1)
                              [] Doc[n].op = "OR"  -> GP!OrSet(K1)
                              [] Doc[n].op = "NOT" -> IF m = 1 THEN GP!doNot(x) ELSE "ABSTAIN"
                              [] OTHER -> "ABSTAIN"
          /\ r2[<<n, d>>] = CASE Doc[n].op = "AND" -> GP!AndSet(K2)
                              [] Doc[n].op = "OR"  -> GP!OrSet(K2)
                              [] Doc[n].op = "NOT" -> IF m = 1 THEN GP!doNot(y) ELSE "ABSTAIN"
                              [] OTHER -> "ABSTAIN"
      <4>1. \A z, reading : Reads(FALSE, reading) /\ Solves(reading, z) /\ reading[n] = Doc[n] =>
              z[<<n, d>>] =
                CASE Doc[n].op = "AND" -> GP!AndSet(KidResults(z, n, d + 1, m))
                  [] Doc[n].op = "OR"  -> GP!OrSet(KidResults(z, n, d + 1, m))
                  [] Doc[n].op = "NOT" -> IF m = 1 THEN GP!doNot(z[<<Children(Doc[n])[1], d + 1>>])
                                          ELSE "ABSTAIN"
                  [] OTHER -> "ABSTAIN"
        <5> SUFFICES ASSUME NEW z, NEW reading, Reads(FALSE, reading), Solves(reading, z),
                            reading[n] = Doc[n]
                     PROVE  z[<<n, d>>] =
                              CASE Doc[n].op = "AND" -> GP!AndSet(KidResults(z, n, d + 1, m))
                                [] Doc[n].op = "OR"  -> GP!OrSet(KidResults(z, n, d + 1, m))
                                [] Doc[n].op = "NOT" -> IF m = 1 THEN GP!doNot(z[<<Children(Doc[n])[1], d + 1>>])
                                                        ELSE "ABSTAIN"
                                [] OTHER -> "ABSTAIN"
          OBVIOUS
        <5>1. z[<<n, d>>] =
                CASE reading[n].op = "AND" -> GP!AndSet(KidResults(z, n, d + 1, Len(Children(Doc[n]))))
                  [] reading[n].op = "OR"  -> GP!OrSet(KidResults(z, n, d + 1, Len(Children(Doc[n]))))
                  [] reading[n].op = "NOT" -> IF Len(Children(Doc[n])) = 1
                                              THEN GP!doNot(z[<<Children(Doc[n])[1], d + 1>>])
                                              ELSE "ABSTAIN"
                  [] OTHER -> "ABSTAIN"
          <6>1. reading[n].type = "comp" /\ reading[n].children # NULL
            BY <2>4, <3>1
          <6> QED BY <1>4, <2>1, <6>1, PlaceResult, ZenonT(40)
        <5> QED BY <3>2, <5>1
      <4>2. /\ Reads(FALSE, Doc) /\ Solves(Doc, r1) /\ Reads(FALSE, doc) /\ Solves(doc, r2)
            /\ doc[n] = Doc[n]
        BY <1>1, <3>1
      <4> QED BY <3>4, <3>5, <3>7, <3>8, <4>1, <4>2
    <3>10. m = 1 => Meets(FALSE, GP!doNot(x), GP!doNot(y))
      BY <3>3, <3>7, <3>8 DEF Meets, GP!doNot, Truths
    <3> QED BY <3>6, <3>9, <3>10 DEF Meets, Truths
  <2> QED BY <2>1, <2>3, <2>4
<1>5. Met(0)
  <2> SUFFICES ASSUME NEW n \in Reached, NEW d \in 0 .. MaxEvalDepth + 1, d + 0 > MaxEvalDepth
               PROVE  Meets(FALSE, r1[<<n, d>>], r2[<<n, d>>])
    OBVIOUS
  <2>1. d > MaxEvalDepth
    BY <1>0
  <2> QED BY <1>3, <2>1
<1>6. ASSUME NEW e \in Nat, Met(e) PROVE Met(e + 1)
  <2> SUFFICES ASSUME NEW n \in Reached, NEW d \in 0 .. MaxEvalDepth + 1, d + (e + 1) > MaxEvalDepth
               PROVE  Meets(FALSE, r1[<<n, d>>], r2[<<n, d>>])
    OBVIOUS
  <2>1. CASE d > MaxEvalDepth
    BY <1>3, <2>1
  <2>2. CASE d <= MaxEvalDepth
    <3>1. PICK c \in 0 .. MaxEvalDepth + 1 : c = d + 1 /\ c + e > MaxEvalDepth
      BY <1>0, <2>2
    <3>2. \A k \in Reached : Meets(FALSE, r1[<<k, c>>], r2[<<k, c>>])
      BY <1>6, <3>1
    <3> QED BY <1>4, <2>2, <3>1, <3>2
  <2>3. d > MaxEvalDepth \/ d <= MaxEvalDepth
    BY <1>0
  <2> QED BY <2>1, <2>2, <2>3
<1>7. vector.root \in Reached
  BY VectorAssumption DEF Reached
<1> HIDE DEF Met
<1>8. \A e \in Nat : Met(e)
  <2>1. 0 \in S /\ \A e \in S : e + 1 \in S
    BY <1>5, <1>6
  <2> HIDE DEF S
  <2>2. \A e \in Nat : e \in S
    BY <2>1, GP!CountingUp, S \in SUBSET Nat DEF S
  <2> QED BY <2>2 DEF S
<1>9. Met(MaxEvalDepth + 1) /\ 0 \in 0 .. MaxEvalDepth + 1 /\ 0 + (MaxEvalDepth + 1) > MaxEvalDepth
  BY <1>0, <1>8
<1> QED BY <1>7, <1>9 DEF Met

\* Neither engine's decision hangs on what the engine does not understand: on every
\* corpus, for every constant that could stand in for it.
THEOREM NewerNeverDecides == Spec => []NewerDecidesNothing
<1>1. Inv => NewerDecidesNothing
  <2> DEFINE newer == {n \in Below[vector.root] : NotUnderstood(n)}
  <2> SUFFICES ASSUME Inv, Evaluated, NoListFacts, NoNewerFacts, \A w \in VectorNodes : SameDocument(w),
                      NEW meant \in [newer -> BOOLEAN],
                      NEW doc, doc = [n \in Nodes |-> IF n \in newer THEN Constant(meant[n]) ELSE Doc[n]],
                      NEW res, res = Go!Evaluate(doc, vector.root, vector.facts)
               PROVE  /\ goRes # "ABSTAIN" => res = goRes
                      /\ cRes # "ABSTAIN" => res = cRes
    BY DEF NewerDecidesNothing
  <2>1. /\ pc = "idle" /\ goRes = Go!Evaluate(Doc, vector.root, vector.facts)
        /\ vector \in Vectors /\ \A n \in Below[vector.root] : Accepted(Doc[n])
    BY DEF Inv, Begun, Evaluated, Running
  <2>2. Reads(FALSE, Doc)
    BY DocumentAssumption DEF Reads
  <2>3. Reads(FALSE, doc)
    <3>1. DOMAIN doc = Nodes
      OBVIOUS
    <3>2. \A n \in Nodes : \/ doc[n] = Doc[n]
                           \/ NotUnderstood(n) /\ \E b \in BOOLEAN : doc[n] = Constant(b)
      OBVIOUS
    <3> QED BY <3>1, <3>2 DEF Reads
  <2>4. PICK r1 : /\ Solves(Doc, r1)
                  /\ \A root : Go!Evaluate(Doc, root, vector.facts) = r1[<<root, 0>>]
    BY <2>2, GoSolves
  <2>5. PICK r2 : /\ Solves(doc, r2)
                  /\ \A root : Go!Evaluate(doc, root, vector.facts) = r2[<<root, 0>>]
    BY <2>3, GoSolves, ZenonT(40)
  <2>6. Meets(FALSE, goRes, res)
    <3>1. Meant(FALSE, Doc, r1) /\ Meant(FALSE, doc, r2)
      BY <2>2, <2>3, <2>4, <2>5 DEF Meant
    <3>2. Meets(FALSE, r1[<<vector.root, 0>>], r2[<<vector.root, 0>>])
      BY <2>1, <3>1, GoMeets
    <3> QED BY <2>1, <2>4, <2>5, <3>2
  <2>7. Meets(FALSE, cRes, res)
    BY <2>1, <2>3, <2>5 DEF Inv, Agreed, Agreeing, Meant, Evaluated
  <2> QED BY <2>6, <2>7 DEF Meets
<1> QED BY <1>1, Invariance, PTL
=============================================================================
