---------------------------- MODULE PolicyBuffer ----------------------------
(***************************************************************************)
(* A policy file: what dd-compile-policy writes for a document, what the   *)
(* verifiers of schema/*_verifier.h make of the tables in it, and what the *)
(* accessors of schema/*_reader.h read from them.                          *)
(*                                                                         *)
(* A table is a function from the numbers of its fields to what they hold: *)
(* a number, a string, another table or a vector, or NULL for a field that *)
(* is absent.                                                              *)
(***************************************************************************)
EXTENDS WireSchema, Absent, FiniteSets, SequencesExt

CONSTANTS
  DocNodes,     \* the nodes of all documents
  Doc,          \* what each of them says, by names
  DocPolicies,  \* the policies of all documents
  DocPolicy,    \* each one's rules and actions
  Files,        \* the files
  File,         \* each one's document, the schema it was compiled against, its flaw
  Bytes,        \* what is in each one: its tables
  Dangling      \* an offset that leads out of the buffer

-----------------------------------------------------------------------------
(* Compiling a document *)

(***************************************************************************)
(* The parser maps names to numbers.  It gives an enumerator that its      *)
(* schema does not list the default, 0, and rejects a variant of a union   *)
(* that it does not list.  A newer schema, built in or the --schema-file,  *)
(* has a member more where this one has its count.                         *)
(***************************************************************************)
EnumNumber(schema, names, name) ==
  IF name \in Range(names) THEN NumberOf(names, name)
  ELSE IF schema = "newer" THEN Len(names) - 1 ELSE 0

UnionNumber(names, name) ==
  IF name \in Range(names) THEN NumberOf(names, name) ELSE Len(names)

ChildrenOf(doc) ==
  IF doc.type = "CompositeNode" /\ doc.children # NULL THEN Range(doc.children) ELSE {}

\* The nodes of the document below each node, itself included.
Below ==
  LET below[n \in DocNodes] == {n} \cup UNION {below[c] : c \in ChildrenOf(Doc[n])}
  IN  below

NodesOf(file) ==
  UNION {Below[DocPolicy[p].rules] : p \in {q \in Range(file.doc) : DocPolicy[q].rules # NULL}}

Compiles(doc, schema) ==
  schema = "newer" \/ \A n \in NodesOf([doc |-> doc]) :
    Doc[n].type \in Range(NodeType) /\ Doc[n].eval \in Range(EvaluatorType)

\* The builder leaves out what is absent, and a scalar that has its default.
Scalar(v) == IF v = 0 THEN NULL ELSE v
Fields(contents) == [i \in 0 .. Len(contents) - 1 |-> contents[i + 1]]
Ref(role, at) == IF at = NULL \/ role = "NONE" THEN NULL ELSE <<role, at>>
Refs(role, ats) == IF ats = NULL THEN NULL ELSE [i \in DOMAIN ats |-> <<role, ats[i]>>]

PolicyTable(p, policy) ==
  Fields(<<p, Ref("NodeTypeWrapper", policy.rules),
           Refs("Action", [i \in DOMAIN policy.actions |-> <<p, i>>]), p, p>>)

ActionTable(schema, at, action) ==
  Fields(<<Scalar(EnumNumber(schema, ActionId, action.action)), at, action.values>>)

EvaluatorTable(schema, ids, cmps, doc) ==
  Fields(<<Scalar(EnumNumber(schema, ids, doc.id)), Scalar(EnumNumber(schema, cmps, doc.cmp)),
           IF doc.value = Zero THEN NULL ELSE doc.value>>)

NodeTable(schema, role, n, doc) ==
  CASE role = "NodeTypeWrapper" ->
         Fields(<<Scalar(UnionNumber(NodeType, doc.type)), Ref(doc.type, n)>>)
    [] role = "CompositeNode" ->
         Fields(<<n, Scalar(EnumNumber(schema, BoolOperation, doc.op)),
                  Refs("NodeTypeWrapper", doc.children)>>)
    [] role = "EvaluatorNode" ->
         Fields(<<n, Scalar(UnionNumber(EvaluatorType, doc.eval)), Ref(doc.eval, n)>>)
    [] role = "StrEvaluator" -> EvaluatorTable(schema, StringEvaluators, CmpTypeSTR, doc)
    [] role \in {"NumEvaluator", "UNumEvaluator"} ->
         EvaluatorTable(schema, NumericEvaluators, CmpTypeNUM, doc)
    [] OTHER -> << >>  \* a table of a newer schema

Compiled(schema, role, at) ==
  CASE role = "Policies" -> Fields(<<Refs("Policy", at)>>)
    [] role = "Policy"   -> PolicyTable(at, DocPolicy[at])
    [] role = "Action"   -> ActionTable(schema, at, DocPolicy[at[1]].actions[at[2]])
    [] OTHER             -> NodeTable(schema, role, at, Doc[at])

Root(file) == <<"Policies", file.doc>>

Tables(file) ==
  {Root(file)} \cup ({"Policy"} \X Range(file.doc)) \cup
  (UNION {{<<"Action", <<p, i>>>> : i \in DOMAIN DocPolicy[p].actions} : p \in Range(file.doc)}) \cup
  UNION {{<<"NodeTypeWrapper", n>>, <<Doc[n].type, n>>, <<Doc[n].eval, n>>} : n \in NodesOf(file)}

-----------------------------------------------------------------------------
(* A file may be damaged: a field of a table is lost, or leads nowhere *)

Damaged(flaw, t, fields) ==
  IF flaw = NULL \/ flaw.table # t THEN fields
  ELSE [fields EXCEPT ![flaw.field] = IF flaw.lost THEN NULL ELSE Dangling]

Contents(file) ==
  [t \in Tables(file) |-> Damaged(file.flaw, t, Compiled(file.schema, t[1], t[2]))]

Present(fields) == {i \in DOMAIN fields : fields[i] # NULL}
Flaws(file) ==
  UNION {[table : {t}, field : Present(Compiled(file.schema, t[1], t[2])), lost : BOOLEAN] :
         t \in Tables(file)}

FileBytes == [f \in Files |-> Contents(File[f])]

ASSUME FilesAssumption ==
  \A f \in Files : /\ File[f].doc \in Seq(DocPolicies)
                   /\ Compiles(File[f].doc, File[f].schema)
                   /\ File[f].flaw \in {NULL} \cup Flaws(File[f])
ASSUME BytesAssumption == Bytes = FileBytes

\* The tables that this schema has.
Roles ==
  {"Policies", "Policy", "Action", "NodeTypeWrapper", "CompositeNode", "EvaluatorNode",
   "StrEvaluator", "NumEvaluator", "UNumEvaluator"}

\* No node of a document is below itself, and each has children only in a list.  What
\* a newer schema adds has a name of its own.
ASSUME DocumentsAssumption ==
  /\ IsFiniteSet(DocNodes)
  /\ \A n \in DocNodes :
       /\ Doc[n].type \notin Roles \ Range(NodeType)
       /\ Doc[n].eval \notin Roles \ Range(EvaluatorType)
       /\ Doc[n].type # "EvaluatorNode" => Doc[n].eval = "NONE"
       /\ Doc[n].children \in {NULL} \cup Seq(DocNodes)
       /\ \A c \in ChildrenOf(Doc[n]) : n \notin Below[c]
  /\ \A p \in DocPolicies : /\ DocPolicy[p].rules \in {NULL} \cup DocNodes
                            /\ DocPolicy[p].actions \in Seq(Range(DocPolicy[p].actions))

\* NULL is no number, no node, no table and no vector, and the compiler writes no
\* offset that leads out of its buffer.
ASSUME OffsetsAssumption ==
  /\ NULL \notin Nat \cup DocNodes \cup Seq(DocPolicies) \cup Seq(DocPolicies \X Nat)
  /\ \A f \in Files :
       /\ NULL \notin Tables(File[f]) \cup Seq(Tables(File[f]))
       /\ \A t \in Tables(File[f]) : Dangling \notin Range(Compiled(File[f].schema, t[1], t[2]))

-----------------------------------------------------------------------------
(* Verifying a file *)

(***************************************************************************)
(* What the generated verifier of each table calls, field by field.  The   *)
(* number of a union's value is that of its type and one.                  *)
(***************************************************************************)
StringField(i) == [field |-> i, how |-> "string", variants |-> 0]
InlineField(i) == [field |-> i, how |-> "inline", variants |-> 0]
TableField(i) == [field |-> i, how |-> "table", variants |-> 0]
VectorField(i) == [field |-> i, how |-> "vector", variants |-> 0]
StringsField(i) == [field |-> i, how |-> "strings", variants |-> 0]
UnionField(i, names) == [field |-> i, how |-> "union", variants |-> Len(names) - 1]

EvaluatorFields == {InlineField(0), InlineField(1), StringField(2)}
NumericFields == {InlineField(0), InlineField(1), InlineField(2)}

\* Mutant: the rules of a policy are not verified.
PolicyFieldsWithoutRules == {StringField(0), VectorField(2), InlineField(3), InlineField(4)}
PolicyFields == {StringField(0), TableField(1), VectorField(2), InlineField(3), InlineField(4)}

Verifies(role) ==
  CASE role = "Policies" -> {VectorField(0)}
    [] role = "Policy" -> PolicyFields
    [] role = "Action" -> {InlineField(0), StringField(1), StringsField(2)}
    [] role = "NodeTypeWrapper" -> {UnionField(1, NodeType)}
    [] role = "CompositeNode" -> {StringField(0), InlineField(1), VectorField(2)}
    [] role = "EvaluatorNode" -> {StringField(0), UnionField(2, EvaluatorType)}
    [] role = "StrEvaluator" -> EvaluatorFields
    [] role \in {"NumEvaluator", "UNumEvaluator"} -> NumericFields
    [] OTHER -> {}

\* flatcc_verify_*: a field that is absent is well, a union has both its fields or
\* none, and the table that an offset leads to is verified in turn.  The verifier
\* of a union passes a variant that it does not know.
FieldVerified(fields, v, verified) ==
  LET value == fields[v.field]
      type == fields[v.field - 1]
  IN  /\ value # Dangling
      /\ CASE v.how \in {"inline", "string", "strings"} -> TRUE
           [] v.how = "table"  -> value # NULL => verified[value]
           [] v.how = "vector" -> value # NULL => \A t \in Range(value) : verified[t]
           [] v.how = "union"  ->
                /\ value = NULL <=> type = NULL
                /\ value # NULL => type # Dangling /\ (type <= v.variants => verified[value])

\* The runtime's verifier also refuses a table nested deeper than a limit of its own.
VerifyAsRoot(file) ==
  LET tables == Bytes[file]
      verified[t \in DOMAIN tables] ==
        \A v \in Verifies(t[1]) : FieldVerified(tables[t], v, verified)
  IN  verified[Root(File[file])]

-----------------------------------------------------------------------------
(* Reading a file.  A table is named by its file and its place in it. *)

Table(t) == Bytes[t[1]][t[2]]

\* __flatbuffers_read_vt and what is defined with it: a field that is absent, or
\* beyond the fields that the table has, reads as its default.
Or(v, default) == IF v = NULL THEN default ELSE v
In(file, ref) == IF ref = NULL THEN NULL ELSE <<file, ref>>
AllIn(file, refs) == IF refs = NULL THEN << >> ELSE [i \in DOMAIN refs |-> <<file, refs[i]>>]

ScalarField(t, i) == Or(Table(t)[i], 0)
OffsetField(t, i) == In(t[1], Table(t)[i])
StringValue(t, i) == Table(t)[i]
VectorOf(t, i) == AllIn(t[1], Table(t)[i])

NodeTypeWrapper_node_type(t) == ScalarField(t, 0)
NodeTypeWrapper_node(t) == OffsetField(t, 1)
CompositeNode_op(t) == ScalarField(t, 1)
CompositeNode_children(t) == VectorOf(t, 2)
EvaluatorNode_eval_type(t) == ScalarField(t, 1)
\* The _union accessor reads the value only of a union that has a type.
EvaluatorNode_eval(t) == IF EvaluatorNode_eval_type(t) = 0 THEN NULL ELSE OffsetField(t, 2)
Evaluator_id(t) == ScalarField(t, 0)
Evaluator_cmp(t) == ScalarField(t, 1)
StrEvaluator_value(t) == StringValue(t, 2)
NumEvaluator_value(t) == Or(Table(t)[2], Zero)
Description(t) == StringValue(t, 0)
Policy_rules(t) == OffsetField(t, 1)
Policy_actions(t) == VectorOf(t, 2)
Action_action(t) == ScalarField(t, 0)
Action_values(t) == StringValue(t, 2)
Policies_policies(t) == IF Table(t)[0] = NULL THEN NULL ELSE VectorOf(t, 0)

\* The policies of a file, NULL for one that does not verify or has no vector.
plcs_get_policies(file) ==
  IF ~VerifyAsRoot(file) THEN NULL ELSE Policies_policies(<<file, Root(File[file])>>)
=============================================================================
