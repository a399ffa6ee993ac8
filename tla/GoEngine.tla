------------------------------ MODULE GoEngine ------------------------------
(***************************************************************************)
(* The rule trees of the Go engine: what dd_wls.go decodes a dd-wls        *)
(* document to and what evaluator.go makes of it, given the facts of a     *)
(* Context.  Both are pure; a map of the Context is a function on the ids  *)
(* it has.                                                                 *)
(*                                                                         *)
(* A node of a document is a record: its node_type ("comp", "eval", or     *)
(* "unknown" for any other and for a body that does not parse), the        *)
(* operator and the children of a composite, the eval_type, id, comparator *)
(* and value of an evaluator.  `children' and `value' are NULL where the   *)
(* document says null, `value' is Omitted where it says nothing.           *)
(***************************************************************************)
EXTENDS Integers, Sequences

CONSTANTS
  MaxEvalDepth,  \* maxEvalDepth
  LabelIds,      \* labelIDs: string ids resolved in Context.Labels
  ListIds,       \* listIDs: string ids resolved in Context.Lists
  StrCmps,       \* the comparators decodeStrCmp knows
  NumCmps,       \* the comparators decodeNumCmp knows
  StrCompare(_, _, _),  \* compareString: comparator, policy's and process's value
  Number(_, _),  \* the integer that a value, signed ("num") or unsigned ("unum"), stands for
  Cut,           \* strings.Cut(value, "="): key, value and found, of each value
  Empty, Zero,   \* "" and 0
  NumNotSet,     \* math.MaxInt64 and math.MaxUint64
  Omitted, NULL

AlwaysIds == {"ALWAYS_TRUE", "ALWAYS_FALSE", "ALWAYS_ABSTAIN"}

-----------------------------------------------------------------------------
(* dd_wls.go *)

Leaf(k, i, key, c, v) ==
  [op |-> "LEAF", children |-> << >>, kind |-> k, id |-> i, key |-> key, cmp |-> c, value |-> v]

StringLeaf(i, c, v) == Leaf("str", i, NULL, c, v)
AlwaysAbstain == StringLeaf("ALWAYS_ABSTAIN", "EXACT", Empty)
Composite(o, kids) == [AlwaysAbstain EXCEPT !.op = o, !.children = kids]

\* "key=" with a prefix comparison asks whether the key is there.
decodeLabel(i, c, raw) ==
  LET cut == Cut[raw] IN
    IF ~cut.found THEN AlwaysAbstain
    ELSE Leaf("str", i, cut.key, IF c = "PREFIX" /\ cut.value = Empty THEN "EXISTS" ELSE c,
              cut.value)

\* A constant needs neither value nor comparator.
decodeStrEval(e) ==
  IF e.id \in AlwaysIds THEN StringLeaf(e.id, "EXACT", Empty)
  ELSE IF e.value \in {NULL, Omitted} \/ e.cmp \notin StrCmps THEN AlwaysAbstain
  ELSE IF e.id \in LabelIds THEN decodeLabel(e.id, e.cmp, e.value)
  ELSE StringLeaf(e.id, e.cmp, e.value)

\* An omitted number is the default of its FlatBuffers field, a null is malformed.
decodeNumEval(e) ==
  IF e.cmp \notin NumCmps \/ e.value = NULL THEN AlwaysAbstain
  ELSE Leaf(e.eval, e.id, NULL, e.cmp, IF e.value = Omitted THEN Zero ELSE e.value)

decodeEvaluatorNode(e) ==
  CASE e.eval = "str"             -> decodeStrEval(e)
    [] e.eval \in {"num", "unum"} -> decodeNumEval(e)
    [] OTHER                      -> AlwaysAbstain

decodeComposite(c) ==
  IF c.children = NULL THEN AlwaysAbstain
  ELSE IF c.op \in {"AND", "OR"} \/ (c.op = "NOT" /\ Len(c.children) = 1)
    THEN Composite(c.op, c.children)
  ELSE AlwaysAbstain

\* Decoding is total.  The decoded children are those of the document, decoded one
\* level further down.
decodeNodeWrap(w, depth) ==
  IF depth > MaxEvalDepth THEN AlwaysAbstain
  ELSE CASE w.type = "comp" -> decodeComposite(w)
         [] w.type = "eval" -> decodeEvaluatorNode(w)
         [] OTHER           -> AlwaysAbstain

-----------------------------------------------------------------------------
(* evaluator.go *)

boolToResult(b) == IF b THEN "TRUE" ELSE "FALSE"

doAnd(a, b) ==
  IF "FALSE" \in {a, b} THEN "FALSE"
  ELSE IF "ABSTAIN" \in {a, b} THEN "ABSTAIN" ELSE "TRUE"

\* Mutant: ABSTAIN counts as FALSE.
OrOfTrues(a, b) == boolToResult("TRUE" \in {a, b})

doOr(a, b) ==
  IF "TRUE" \in {a, b} THEN "TRUE"
  ELSE IF "ABSTAIN" \in {a, b} THEN "ABSTAIN" ELSE "FALSE"

doNot(a) == CASE a = "TRUE" -> "FALSE" [] a = "FALSE" -> "TRUE" [] OTHER -> "ABSTAIN"

\* A key that is absent is FALSE for every comparison, EXISTS among them.
labelResult(e, label) ==
  boolToResult(e.key \in DOMAIN label /\ (e.cmp = "EXISTS" \/ StrCompare(e.cmp, e.value, label[e.key])))

constantResult(i) ==
  CASE i = "ALWAYS_TRUE" -> "TRUE" [] i = "ALWAYS_FALSE" -> "FALSE" [] OTHER -> "ABSTAIN"

evalString(e, context) ==
  IF e.id \in AlwaysIds THEN constantResult(e.id)
  ELSE IF e.id \in LabelIds THEN
    IF e.id \notin DOMAIN context.labels THEN "ABSTAIN"
    ELSE labelResult(e, context.labels[e.id])
  ELSE IF e.id \in ListIds THEN
    IF e.id \notin DOMAIN context.lists THEN "ABSTAIN"
    ELSE boolToResult(\E i \in DOMAIN context.lists[e.id] :
                        StrCompare(e.cmp, e.value, context.lists[e.id][i]))
  ELSE IF e.id \notin DOMAIN context.strings THEN "ABSTAIN"
  ELSE boolToResult(StrCompare(e.cmp, e.value, context.strings[e.id]))

compareNumeric(cmp, policy, workload) ==
  CASE cmp = "EQ"  -> boolToResult(policy = workload)
    [] cmp = "GT"  -> boolToResult(policy > workload)
    [] cmp = "GTE" -> boolToResult(policy >= workload)
    [] cmp = "LT"  -> boolToResult(policy < workload)
    [] cmp = "LTE" -> boolToResult(policy <= workload)
    [] OTHER       -> "ABSTAIN"

\* The sentinel is no number: it means that there is none.
evalNumber(e, facts) ==
  IF e.id \notin DOMAIN facts THEN "ABSTAIN"
  ELSE IF facts[e.id] = NumNotSet THEN "ABSTAIN"
  ELSE compareNumeric(e.cmp, Number(e.kind, e.value), Number(e.kind, facts[e.id]))

eval(e, context) ==
  CASE e.kind = "str"  -> evalString(e, context)
    [] e.kind = "num"  -> evalNumber(e, context.numbers)
    [] e.kind = "unum" -> evalNumber(e, context.unumbers)

\* The loops over the children leave the result alone once it is decided.
orOf(results) ==
  LET res[k \in 0 .. Len(results)] ==
        IF k = 0 THEN "FALSE"
        ELSE IF res[k - 1] = "TRUE" THEN "TRUE" ELSE doOr(res[k - 1], results[k])
  IN  res[Len(results)]

andOf(results) ==
  LET res[k \in 0 .. Len(results)] ==
        IF k = 0 THEN "TRUE"
        ELSE IF res[k - 1] = "FALSE" THEN "FALSE" ELSE doAnd(res[k - 1], results[k])
  IN  res[Len(results)]

\* The result of a node, given the results of its children.
resultOf(node, results, context) ==
  CASE node.op = "LEAF" -> eval(node, context)
    [] node.op = "NOT"  -> doNot(results[1])
    [] node.op = "OR"   -> orOf(results)
    [] node.op = "AND"  -> andOf(results)

\* ParsePolicies and Evaluate of the tree below `root', node by node and depth by depth.
Evaluate(doc, root, context) ==
  LET result[at \in (DOMAIN doc) \X (0 .. MaxEvalDepth + 1)] ==
        LET node == decodeNodeWrap(doc[at[1]], at[2])
            results == [i \in DOMAIN node.children |-> result[<<node.children[i], at[2] + 1>>]]
        IN  resultOf(node, results, context)
  IN  result[<<root, 0>>]
=============================================================================
