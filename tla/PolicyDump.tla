----------------------------- MODULE PolicyDump -----------------------------
(***************************************************************************)
(* basic-debugger.c: the dump of a policy file.  A dump is the sequence of *)
(* what is printed for each policy: a line per node of its tree and a line *)
(* per action.  The first 1024 bytes of a prefix, which draw the tree, are *)
(* its depth here.                                                         *)
(***************************************************************************)
EXTENDS PolicyBuffer

CONSTANT Number(_, _)  \* the integer that a number's bits stand for, "num" or "unum"

DumpLine(depth) ==
  [depth |-> depth, what |-> "", cmp |-> "", id |-> "", description |-> NULL, value |-> NULL]

(***************************************************************************)
(* An evaluator without a variant, or one of a newer schema, is an empty   *)
(* line.  Both kinds of numbers are printed with PRId64, so an unsigned    *)
(* one is read as signed.  A string that is absent is handed to "%s" as a  *)
(* null pointer, for which the C library prints "(null)": NULL here.       *)
(***************************************************************************)
print_node_evaluator(node, depth) ==
  LET eval == EvaluatorNode_eval(node)
      described == [DumpLine(depth) EXCEPT !.description = Description(node)]
      Line(what, cmps, ids, value) ==
        [described EXCEPT !.what = what, !.cmp = WireName(cmps, Evaluator_cmp(eval)),
                          !.id = WireName(ids, Evaluator_id(eval)), !.value = value]
  IN  CASE EvaluatorNode_eval_type(node) = NumberOf(EvaluatorType, "StrEvaluator") ->
             Line("[str]", CmpTypeSTR, StringEvaluators, StrEvaluator_value(eval))
        [] EvaluatorNode_eval_type(node) = NumberOf(EvaluatorType, "NumEvaluator") ->
             Line("[num]", CmpTypeNUM, NumericEvaluators, Number("num", NumEvaluator_value(eval)))
        [] EvaluatorNode_eval_type(node) = NumberOf(EvaluatorType, "UNumEvaluator") ->
             Line("[unum]", CmpTypeNUM, NumericEvaluators, Number("num", NumEvaluator_value(eval)))
        [] OTHER -> DumpLine(depth)

\* Mutant: AND and OR in each other's place.
oper_char_swapped(oper) ==
  CASE oper = NumberOf(BoolOperation, "BOOL_OR") -> "&"
    [] oper = NumberOf(BoolOperation, "BOOL_AND") -> "|"
    [] oper = NumberOf(BoolOperation, "BOOL_NOT") -> "!"
    [] OTHER -> "?"
get_oper_char(oper) ==
  CASE oper = NumberOf(BoolOperation, "BOOL_OR") -> "|"
    [] oper = NumberOf(BoolOperation, "BOOL_AND") -> "&"
    [] oper = NumberOf(BoolOperation, "BOOL_NOT") -> "!"
    [] OTHER -> "?"

\* print_tree and print_node_composite.  The lines of a node's tree, at depth d.
print_tree(file, root) ==
  LET isEvaluator(node) == NodeTypeWrapper_node_type(node) = NumberOf(NodeType, "EvaluatorNode")
      isComposite(node) == NodeTypeWrapper_node_type(node) = NumberOf(NodeType, "CompositeNode")
      nodes == {t \in DOMAIN Bytes[file] : t[1] = "NodeTypeWrapper"}
      lines[t \in nodes, d \in 0 .. Cardinality(nodes)] ==
        LET node == NodeTypeWrapper_node(<<file, t>>) IN
          CASE isEvaluator(<<file, t>>) -> <<print_node_evaluator(node, d)>>
            [] isComposite(<<file, t>>) ->
                 <<[DumpLine(d) EXCEPT !.what = get_oper_char(CompositeNode_op(node))]>>
                 \o FlattenSeq([i \in DOMAIN CompositeNode_children(node) |->
                                  lines[CompositeNode_children(node)[i][2], d + 1]])
            [] OTHER -> <<DumpLine(d)>>
  IN  IF root = NULL THEN << >> ELSE lines[root[2], 0]

print_actions(policy) ==
  [i \in DOMAIN Policy_actions(policy) |->
     [id |-> WireName(ActionId, Action_action(Policy_actions(policy)[i])),
      values |-> Action_values(Policy_actions(policy)[i])]]

\* Nothing is printed of a file that plcs_get_policies refuses.
print_policies(file) ==
  LET policies == plcs_get_policies(file) IN
    IF policies = NULL THEN << >>
    ELSE [i \in DOMAIN policies |->
            [tree |-> print_tree(file, Policy_rules(policies[i])),
             actions |-> print_actions(policies[i])]]
=============================================================================
