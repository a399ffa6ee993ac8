-------------------------- MODULE ReaderProperties --------------------------
(***************************************************************************)
(* What the trees that basic-reader prints, the dumps of basic-debugger    *)
(* and the exit status of the readers say of the document a file was       *)
(* compiled from.                                                          *)
(***************************************************************************)
EXTENDS CmdlineEvaluator

\* The tree of a policy has just been printed.
JustPrinted == pc = "actions" /\ watcher = "demo"

\* The nodes that the policy entered, and what was made of each.
Entered == SelectSeq(trace, LAMBDA e : e.ev = "node_enter")
Exited(node) == CHOOSE e \in Range(trace) : e.ev = "node_exit" /\ e.node = node
DocNode(node) == node[2][2]

Record(i) == collected.records[i - 1]
RecordIndexes == 1 .. collected.len
RecordLines == SelectSeq(printed, LAMBDA l : l.what # ")")

-----------------------------------------------------------------------------
\* What a program shows of a string for which it has MaxString bytes: all of a
\* shorter one, the beginning of another, nothing where there is none.
Beginning(shown, string) ==
  IF string = NULL THEN shown = ""
  ELSE /\ Len(shown) = Min({Len(string), MaxString - 1})
       /\ shown = SubSeq(string, 1, Len(shown))

\* The names that a leaf was written with are the names it is printed with, though
\* the compiler, the engine, the programs and the printing each go by numbers of
\* their own lists (evaluator_types.h, wire/evaluator_types.h), and the process
\* value printed is what main registered under that name, and under no other.  A
\* number is printed as the integer it is, with its own sign, and a string from its
\* beginning, as far as there is room (demo_node_exit, print_evaluation_trace).
WrittenNames(names) == Range(names) \ {names[1], names[Len(names)]}
NamesSurvive ==
  JustPrinted /\ File[opened].flaw = NULL => \A i \in RecordIndexes :
    LET line == RecordLines[i]
        doc == Doc[DocNode(Entered[i].node)]
        isStr == doc.eval = "StrEvaluator"
        ids == WrittenNames(IF isStr THEN StringEvaluators ELSE NumericEvaluators)
        cmps == WrittenNames(IF isStr THEN CmpTypeSTR ELSE CmpTypeNUM)
        kind == IF doc.eval = "NumEvaluator" THEN "num" ELSE "unum"
        registered == {p[2] : p \in {q \in Range(RegisteredParams) : q[1] = doc.id}}
    IN  line.what \notin Composites \cup {"PLCS_NODE_UNKNOWN"} =>
          /\ doc.id \in ids => line.id = doc.id
          /\ doc.cmp \in cmps => line.cmp = doc.cmp
          /\ IF isStr
               THEN /\ Beginning(line.policy, doc.value)
                    /\ \E param \in IF registered = {} THEN {NULL} ELSE registered :
                         Beginning(line.process, param)
               ELSE /\ line.policy = Number(kind, doc.value)
                    /\ line.process = Number(kind, NumNotSet)

\* When a policy ends, the observer holds the first nodes that were entered, each
\* with its own depth, result and description, a long one cut, for as many as it has room, and it
\* says so when there were more: handles beyond the room and the records of the
\* policy before (demo_node_exit, demo_policy_enter) leave no mark.
RecordsInTreeOrder ==
  JustPrinted =>
    /\ collected.policy = Description(buffer[pix])
    /\ collected.len = Min({Len(Entered), MaxRecords})
    /\ collected.truncated <=> Len(Entered) > MaxRecords
    /\ \A i \in RecordIndexes :
         LET e == Entered[i] IN
           /\ Record(i).depth = e.depth
           /\ Record(i).result = Exited(e.node).res
           /\ \/ Beginning(Record(i).description, DocNode(e.node))
              \/ /\ Record(i).description = ""
                 /\ Tree[e.node].kind = "unknown" \/ File[opened].flaw # NULL

-----------------------------------------------------------------------------
\* The composites open where a line is printed.
Open(k) ==
  LET Before(S) == Cardinality({j \in 1 .. k - 1 : printed[j].what \in S})
  IN  Before(Composites) - Before({")"})

\* The record of each line that is not a closing parenthesis.
RecordAt(k) == Cardinality({j \in 1 .. k : printed[j].what # ")"})
LinesOfRecords == {k \in DOMAIN printed : printed[k].what # ")"}

Encloses(i, j) == i < j /\ \A k \in i + 1 .. j : Open(k) > Open(i)

\* basic-reader.c: "only a composite has children, so every ancestor of a node is
\* one: the number of parentheses left open is just the depth the next record sits
\* at".  A composite whose operator is unknown opens none, and yet has children.
OpenIsDepth ==
  JustPrinted => \A k \in LinesOfRecords : Open(k) = printed[k].indent

\* The parentheses of a composite enclose its descendants and nothing else, and all
\* are closed (print_evaluation_trace), in a tree whose operators are all known.
KnownOperators ==
  \A i \in RecordIndexes :
    Tree[Entered[i].node].kind = "comp" => Record(i).kind \in Composites
ParenthesesEncloseDescendants ==
  JustPrinted /\ KnownOperators =>
    /\ Open(Len(printed) + 1) = 0
    /\ \A i, j \in LinesOfRecords :
         LET NodeAt(k) == DocNode(Entered[RecordAt(k)].node) IN
           printed[i].what \in Composites =>
             (Encloses(i, j) <=> i # j /\ NodeAt(j) \in Below[NodeAt(i)])

-----------------------------------------------------------------------------
OperatorChar ==
  [k \in Composites |-> CASE k = "PLCS_NODE_AND" -> "&" [] k = "PLCS_NODE_OR" -> "|"
                       [] k = "PLCS_NODE_NOT" -> "!"]

\* A line of the dump shows the node of a line of the trace.  The two differ in the
\* name of a number that is the count of its enumeration; in a string, which the
\* trace may have cut; and in an unsigned number, which the dump prints as the signed
\* one with the same bits, another from 2^63 on.
SameName(dumped, traced, names) == dumped = traced \/ (traced = "" /\ dumped = names[Len(names)])
SameBits(signed, unsigned) ==
  \E v \in Params : signed = Number("num", v) /\ unsigned = Number("unum", v)
Shows(d, l) ==
  /\ d.depth = l.indent
  /\ CASE l.what \in Composites -> d.what = OperatorChar[l.what]
       [] l.what = "PLCS_NODE_STR_EVAL" ->
            /\ d.what = "[str]" /\ Beginning(l.policy, d.value)
            /\ SameName(d.id, l.id, StringEvaluators) /\ SameName(d.cmp, l.cmp, CmpTypeSTR)
       [] l.what \in {"PLCS_NODE_NUM_EVAL", "PLCS_NODE_UNUM_EVAL"} ->
            /\ IF l.what = "PLCS_NODE_NUM_EVAL" THEN d.what = "[num]" /\ d.value = l.policy
               ELSE d.what = "[unum]" /\ SameBits(d.value, l.policy)
            /\ SameName(d.id, l.id, NumericEvaluators) /\ SameName(d.cmp, l.cmp, CmpTypeNUM)
       [] OTHER -> d.what \in {"?", ""}

\* What a reader saw evaluated is there, at the same depth and in the same order,
\* in the dump that basic-debugger makes of the file, which walks the tables on its
\* own and prints by the schema's names.
DumpCoversTrace ==
  JustPrinted =>
    LET dump == print_policies(opened)[pix].tree IN
      \E at \in [RecordIndexes -> DOMAIN dump] :
        /\ \A i, j \in RecordIndexes : i < j => at[i] < at[j]
        /\ \A i \in RecordIndexes : Shows(dump[at[i]], RecordLines[i])

\* The engine is started only on a file that it can read to the last table
\* (plcs_get_policies), and a reader succeeds on every such file with a vector of
\* policies, unless an action that it handles has too many values.
TooManyValues(policy) ==
  \E i \in DOMAIN Policy[policy].actions :
    LET action == Policy[policy].actions[i] IN
      action.oversized /\ GetAction(ctx, action.id) # NULL
OnlyReadableEvaluated ==
  /\ pc # "idle" => opened \in ReadableFiles
  /\ status = "success" /\ reader # Cmdline => opened \in ReadableFiles
  /\ status = "failure" /\ opened # NULL =>
       \/ opened \notin ReadableFiles
       \/ Policies_policies(<<opened, Root(File[opened])>>) = NULL
       \/ \E p \in Range(Policies_policies(<<opened, Root(File[opened])>>)) : TooManyValues(p)
=============================================================================
