----------------------------- MODULE BasicReader -----------------------------
(***************************************************************************)
(* The example programs that evaluate a policy file: basic-reader.c, whose *)
(* observer collects what each policy evaluated and prints it as a tree,   *)
(* and mmap-reader.c and hardcoded-header-reader.c, which have none.  The  *)
(* engine, PolicyEngine, walks the tables of the file.                     *)
(***************************************************************************)
EXTENDS PolicyDump, PolicyEngine

CONSTANTS
  MaxRecords,      \* DEMO_MAX_RECORDS
  MaxString,       \* DEMO_STRING_MAX
  MaxActionValues  \* PLCS_ACTION_VALUES_MAX

ASSUME RecordsAssumption == {MaxRecords, MaxString} \subseteq Nat \ {0}

VARIABLES
  reader,     \* the program that runs
  opened,     \* the file it was given, NULL when it cannot be read
  status,     \* "start", "ready", "running", then its exit status
  collected,  \* the observer's demo_trace
  printed     \* the lines of the tree that it printed last

readerVars == <<reader, opened, status, collected, printed>>
programVars == <<vars, readerVars>>

Readers == {"basic-reader", "mmap-reader", "hardcoded-header-reader"}

-----------------------------------------------------------------------------
(* The tables of the files, as the engine reads them *)

Operators == <<"UNKNOWN", "AND", "NOT", "OR">>
EvaluatorKinds == <<"unknown", "str", "num", "unum">>

At(names, i, otherwise) == IF i \in 0 .. Len(names) - 1 THEN names[i + 1] ELSE otherwise

\* The numbers of the public enumerations; their count is a case of its own in
\* the switches over comparators, and does nothing.
Comparator(names, i) ==
  IF i \in {0, Len(names)} THEN "UNKNOWN" ELSE At(names, i, "BEYOND")

Unknown ==
  [kind |-> "unknown", op |-> "UNKNOWN", children |-> << >>, id |-> NULL, cmp |-> "UNKNOWN",
   value |-> NULL]

Known(names, i) == IF i < Len(names) THEN i ELSE NULL

EvaluatorLeaf(kind, ids, cmps, eval, value) ==
  [Unknown EXCEPT !.kind = kind, !.id = Known(ids, Evaluator_id(eval)),
                  !.cmp = Comparator(cmps, Evaluator_cmp(eval)), !.value = value]

EvaluatorKind(node) == At(EvaluatorKinds, EvaluatorNode_eval_type(node), "unknown")

LeafOf(kind, eval) ==
  CASE kind = "unknown" -> Unknown
    [] kind = "str" ->
         EvaluatorLeaf(kind, PLCS_STR_EVAL, PLCS_STR_CMP, eval, StrEvaluator_value(eval))
    [] OTHER ->
         EvaluatorLeaf(kind, PLCS_NUM_EVAL, PLCS_NUM_CMP, eval, NumEvaluator_value(eval))

CompositeOf(node) ==
  [Unknown EXCEPT !.kind = "comp", !.op = At(Operators, CompositeNode_op(node), "BEYOND"),
                  !.children = CompositeNode_children(node)]

IsNode(type, number) == NumberOf(NodeType, type) = number

NodeOf(type, node) ==
  IF IsNode("EvaluatorNode", type) THEN LeafOf(EvaluatorKind(node), EvaluatorNode_eval(node))
  ELSE IF IsNode("CompositeNode", type) THEN CompositeOf(node)
  ELSE Unknown

TreeNode(node) == NodeOf(NodeTypeWrapper_node_type(node), NodeTypeWrapper_node(node))

\* A file that the engine can walk: no offset leads out of it, and no union has a
\* type without a value or a value without a type.
TableReadable(role, fields) ==
  /\ \A i \in DOMAIN fields : fields[i] # Dangling
  /\ role = "NodeTypeWrapper" => (fields[0] = NULL <=> fields[1] = NULL)
  /\ role = "EvaluatorNode" => (fields[1] = NULL <=> fields[2] = NULL)
Readable(tables) == \A t \in DOMAIN tables : TableReadable(t[1], tables[t])
ReadableFiles == {f \in Files : Readable(Bytes[f])}

InRole(role) ==
  UNION {{<<f, t>> : t \in {u \in Tables(File[f]) : u[1] = role}} : f \in ReadableFiles}

BufferTree == [t \in InRole("NodeTypeWrapper") |-> TreeNode(t)]

BufferAction(number, values) ==
  [id |-> Known(PLCS_ACTION, number),
   oversized |-> values # NULL /\ Len(values) >= MaxActionValues]

BufferActions(actions) ==
  [i \in DOMAIN actions |-> BufferAction(Action_action(actions[i]), Action_values(actions[i]))]

BufferPolicy ==
  [t \in InRole("Policy") |->
     [rules |-> Policy_rules(t), actions |-> BufferActions(Policy_actions(t))]]

ASSUME TablesAssumption ==
  /\ Tree = BufferTree /\ Nodes = DOMAIN BufferTree
  /\ Policy = BufferPolicy /\ Policies = DOMAIN BufferPolicy

\* What evaluator.c makes of the numbers in a buffer, and what the programs have.
ASSUME ProgramAssumption ==
  /\ StrIds = 0 .. Len(PLCS_STR_EVAL) - 1 /\ NumIds = 0 .. Len(PLCS_NUM_EVAL) - 1
  /\ ActionIds = 0 .. Len(PLCS_ACTION) - 1
  /\ Cmps = (Range(PLCS_STR_CMP) \cup Range(PLCS_NUM_CMP)) \ {"STR_UNKNOWN", "NUM_UNKNOWN"}
  /\ HostFns = {"EVALUATOR_RUNTIME_LANGUAGE"}
  /\ Handlers = {"ACTION_INJECT_DENY", "ACTION_INJECT_ALLOW"}
  /\ Observers = {"demo"}
  /\ Callbacks["demo"] = CallbackNames
  /\ Handles = 0 .. MaxRecords

-----------------------------------------------------------------------------
(* observer.c: the record of a node *)

ZeroedRecord ==
  [kind |-> "PLCS_NODE_UNKNOWN", result |-> "ABSTAIN", depth |-> 0, description |-> NULL,
   evaluator_id |-> 0, comparator |-> 0, policy_value |-> NULL, process_value |-> NULL]

\* The getters answer for an id that is out of range as well.
Described(record, kind, entry, eval, value) ==
  [record EXCEPT !.kind = kind, !.evaluator_id = entry[2], !.comparator = Evaluator_cmp(eval),
                 !.policy_value = value, !.process_value = GetParam(ctx, entry)]

DescribedAs(record, kind, eval) ==
  LET entry == <<kind, Evaluator_id(eval)>> IN
    CASE kind = "str" ->
           Described(record, "PLCS_NODE_STR_EVAL", entry, eval, StrEvaluator_value(eval))
      [] kind = "num" ->
           Described(record, "PLCS_NODE_NUM_EVAL", entry, eval, NumEvaluator_value(eval))
      [] kind = "unum" ->
           Described(record, "PLCS_NODE_UNUM_EVAL", entry, eval, NumEvaluator_value(eval))
      [] OTHER -> record

describe_evaluator_node(node) ==
  DescribedAs([ZeroedRecord EXCEPT !.description = Description(node)], EvaluatorKind(node),
              EvaluatorNode_eval(node))

RecordKinds == <<"PLCS_NODE_UNKNOWN", "PLCS_NODE_AND", "PLCS_NODE_NOT", "PLCS_NODE_OR">>
describe_composite_node(node) ==
  [ZeroedRecord EXCEPT
     !.description = Description(node),
     !.kind = At(RecordKinds, CompositeNode_op(node), "PLCS_NODE_UNKNOWN")]

\* evaluate_rules describes a node of an unknown type itself.
Describe(type, node) ==
  IF IsNode("EvaluatorNode", type) THEN describe_evaluator_node(node)
  ELSE IF IsNode("CompositeNode", type) THEN describe_composite_node(node)
  ELSE ZeroedRecord
plcs_describe_node(node, result, depth) ==
  [Describe(NodeTypeWrapper_node_type(node), NodeTypeWrapper_node(node))
     EXCEPT !.result = result, !.depth = depth]

-----------------------------------------------------------------------------
(* The observer of basic-reader.c *)

EmptyTrace ==
  [policy |-> NULL, records |-> [i \in 0 .. MaxRecords - 1 |-> ZeroedRecord], len |-> 0,
   truncated |-> FALSE]

\* Mutant: the records of the policy before stay.
policy_enter_keeps(description) == [collected EXCEPT !.policy = description]
demo_policy_enter(description) ==
  [collected EXCEPT !.policy = description, !.len = 0, !.truncated = FALSE]

\* The handle of a record, or MaxRecords when there is no place left.
demo_handle == IF collected.len >= MaxRecords THEN MaxRecords ELSE collected.len

demo_node_enter ==
  IF collected.len >= MaxRecords THEN [collected EXCEPT !.truncated = TRUE]
  ELSE [collected EXCEPT !.len = @ + 1]

\* A string is cut to leave room for its terminator; a null pointer is copied as "".
copy_bounded(src) ==
  IF src = NULL THEN ""
  ELSE IF Len(src) < MaxString THEN src ELSE SubSeq(src, 1, MaxString - 1)

\* Of the values, only strings are behind pointers.
Copied(record) ==
  LET stored == [record EXCEPT !.description = copy_bounded(@)] IN
    IF record.kind # "PLCS_NODE_STR_EVAL" THEN stored
    ELSE [stored EXCEPT !.policy_value = copy_bounded(@), !.process_value = copy_bounded(@)]

demo_node_exit(handle, record) ==
  IF handle >= MaxRecords THEN collected
  ELSE [collected EXCEPT !.records[handle] = Copied(record)]

Line(what, indent) ==
  [what |-> what, indent |-> indent, result |-> NULL, id |-> "", cmp |-> "", policy |-> NULL,
   process |-> NULL]

\* The lines of close_composites, from `open` composites down to `to`.
close_composites(open, to) == [i \in 1 .. open - to |-> Line(")", open - i)]

Composites == {"PLCS_NODE_AND", "PLCS_NODE_OR", "PLCS_NODE_NOT"}

\* The signed numbers are printed with %ld, the unsigned ones with %lu.
RecordLine(r) ==
  LET line == [Line(r.kind, r.depth) EXCEPT !.result = r.result]
      Leaf(id, cmp, policy, process) ==
        [line EXCEPT !.id = id, !.cmp = cmp, !.policy = policy, !.process = process]
      NumberLeaf(kind) ==
        Leaf(plcs_numeric_evaluators_to_string(r.evaluator_id),
             plcs_numeric_comparator_to_string(r.comparator),
             Number(kind, r.policy_value), Number(kind, r.process_value))
  IN  CASE r.kind = "PLCS_NODE_STR_EVAL" ->
             Leaf(plcs_string_evaluators_to_string(r.evaluator_id),
                  plcs_string_comparator_to_string(r.comparator), r.policy_value, r.process_value)
        [] r.kind = "PLCS_NODE_NUM_EVAL" -> NumberLeaf("num")
        [] r.kind = "PLCS_NODE_UNUM_EVAL" -> NumberLeaf("unum")
        [] OTHER -> line

\* Mutant: what is done is not closed before the next record is printed.
KeepsOpen(open, depth) == open
\* The composites left open when a record of this depth is printed.
OpenAt(open, depth) == IF open > depth THEN depth ELSE open

print_evaluation_trace(t) ==
  LET PrintRecord(printing, i) ==
        LET r == t.records[i - 1]
            left == OpenAt(printing.open, r.depth)
        IN  [open |-> left + IF r.kind \in Composites THEN 1 ELSE 0,
             lines |-> printing.lines \o close_composites(printing.open, left)
                                      \o <<RecordLine(r)>>]
      all == FoldLeft(PrintRecord, [open |-> 0, lines |-> << >>], [i \in 1 .. t.len |-> i])
  IN  all.lines \o close_composites(all.open, 0)

-----------------------------------------------------------------------------
(* The programs *)

RegisteredParams ==
  <<<<"RUNTIME_LANGUAGE", "jvm">>, <<"PROCESS_EXE_FULL_PATH", "/some/path/to/runtime">>>>

\* What main registers, by the numbers of the public headers.
Prepared(c, r) ==
  LET EntryOf(name) == <<"str", NumberOf(PLCS_STR_EVAL, name)>>
      init == InitCtx(c)
      evaluator ==
        RegisterEvaluator(init, EntryOf("RUNTIME_LANGUAGE"), "EVALUATOR_RUNTIME_LANGUAGE")
      WithParam(d, p) == SetParam(d, EntryOf(p[1]), p[2])
      params == WithParam(WithParam(evaluator, RegisteredParams[1]), RegisteredParams[2])
      deny == RegisterAction(params, NumberOf(PLCS_ACTION, "INJECT_DENY"),
                               "ACTION_INJECT_DENY")
      allow == RegisterAction(deny, NumberOf(PLCS_ACTION, "INJECT_ALLOW"),
                                "ACTION_INJECT_ALLOW")
  IN  IF r = "basic-reader" THEN SetObserver(allow, "demo") ELSE allow

ProgramInit ==
  /\ Init /\ ctx = ZeroedCtx
  /\ reader = NULL /\ opened = NULL /\ status = "start"
  /\ collected = EmptyTrace /\ printed = << >>

engineIdle == <<pc, evalVars, walkVars, actVars, trace, hostCalls>>

\* A file that cannot be opened, sized, allocated for or read in full.
CannotRead(r) ==
  /\ status = "start"
  /\ r # "hardcoded-header-reader"
  /\ reader' = r
  /\ status' = "failure"
  /\ UNCHANGED <<opened, collected, printed, vars>>

Prepare(r, f) ==
  /\ status = "start"
  /\ reader' = r
  /\ opened' = f
  /\ ctx' = Prepared(ctx, r)
  /\ status' = "ready"
  /\ UNCHANGED <<collected, printed, engineIdle>>

\* plcs_evaluate_buffer: there is no should_stop.
Evaluate ==
  /\ status = "ready"
  /\ EvaluateBuffer(plcs_get_policies(opened), FALSE)
  /\ status' = "running"
  /\ UNCHANGED <<reader, opened, collected, printed>>

PolicyEntered ==
  /\ PolicyEnterReturns
  /\ collected' = demo_policy_enter(Description(buffer[pix]))
  /\ UNCHANGED <<reader, opened, status, printed>>

NodeEntered ==
  /\ NodeEnterReturns(demo_handle)
  /\ collected' = demo_node_enter
  /\ UNCHANGED <<reader, opened, status, printed>>

NodeExited ==
  /\ NodeExitReturns
  /\ collected' = demo_node_exit(Top.handle, plcs_describe_node(Top.node, ret, Top.depth))
  /\ UNCHANGED <<reader, opened, status, printed>>

PolicyExited ==
  /\ PolicyExitReturns
  /\ printed' = print_evaluation_trace(collected)
  /\ UNCHANGED <<reader, opened, status, collected>>

\* The demo evaluator agrees with everything; the handlers only print.
AnswerReturns == EvaluatorReturns("TRUE") \/ ActionReturns(0)

Walk == (Engine \/ AnswerReturns) /\ UNCHANGED readerVars

\* A policy set that could not be read, or an action that failed, is a failure.
Exit ==
  /\ status = "running"
  /\ pc = "idle"
  /\ status' = IF total = 0 THEN "success" ELSE "failure"
  /\ UNCHANGED <<reader, opened, collected, printed, vars>>

ProgramNext ==
  \/ \E r \in Readers : CannotRead(r)
  \/ \E r \in Readers, f \in Files : Prepare(r, f)
  \/ Evaluate
  \/ PolicyEntered \/ NodeEntered \/ NodeExited \/ PolicyExited
  \/ Walk
  \/ Exit

ProgramSpec == ProgramInit /\ [][ProgramNext]_programVars
=============================================================================
