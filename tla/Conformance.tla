----------------------------- MODULE Conformance -----------------------------
(***************************************************************************)
(* The cross-engine test of go/policies/conformance: each vector, a rule   *)
(* tree and facts, is evaluated by the Go engine and, once cgo.go has      *)
(* written the tree to a buffer and the facts to the context, by the C     *)
(* engine.  The C engine is the machine of PolicyEngine, started at        *)
(* evaluate_rules without an observer; the Go engine is GoEngine.          *)
(***************************************************************************)
EXTENDS NumericComparators, Integers, Sequences

CONSTANTS
  Nodes, Doc,             \* the nodes of all documents, and what each one says
  Corpora,                \* sequences of vectors the test may run
  MaxEvalDepth,
  StrIds, NumIds, LabelIds, ListIds,
  StrCmps, NumCmps, StrCompare(_, _, _), Number(_, _),
  Values, Cut, Empty, Zero, NumNotSet, Omitted, NULL

\* The vectors of all corpora.
Vectors == UNION {{corpus[i] : i \in DOMAIN corpus} : corpus \in Corpora}

AlwaysIds == {"ALWAYS_TRUE", "ALWAYS_FALSE", "ALWAYS_ABSTAIN"}

\* conf_always_true and the others; two for the labels and the numbers.
ConfFns == AlwaysIds \cup {"conf_label", "conf_num", "conf_unum"}

ASSUME DocumentAssumption ==
  /\ DOMAIN Doc = Nodes
  /\ \A n \in Nodes :
       /\ Doc[n].type = "comp" /\ Doc[n].children # NULL => Doc[n].children \in Seq(Nodes)
       /\ Doc[n].type = "eval" /\ Doc[n].eval = "str" =>
            Doc[n].value \in (DOMAIN Cut) \cup {NULL, Omitted}
  /\ MaxEvalDepth \in Nat
\* A conformanceFacts has no lists.
ASSUME VectorAssumption ==
  /\ Corpora \subseteq Seq(Vectors)
  /\ \A v \in Vectors :
       /\ v.root \in Nodes
       /\ v.facts.lists = << >>
       /\ \A i \in DOMAIN v.facts.strings : v.facts.strings[i] # NULL
       /\ \A i \in DOMAIN v.facts.labels :
            \A key \in DOMAIN v.facts.labels[i] : v.facts.labels[i][key] # NULL
\* What the enumerations name is told apart.
ASSUME NameAssumption ==
  /\ NULL \notin StrIds \cup NumIds \cup ConfFns
  /\ "COUNT" \notin StrIds \cup NumIds
  /\ (NumIds \cup LabelIds) \cap AlwaysIds = {}
  /\ {"UNKNOWN", "EXISTS"} \cap (StrCmps \cup NumCmps) = {}
  /\ \A v \in DOMAIN Cut : Cut[v].value # NULL

VARIABLES
  todo,     \* vectors still to run
  vector,   \* the vector that runs, or ran last
  labels,   \* conf_labels: for each id that is present, its keys and values
  goRes,    \* what the Go engine made of the vector
  cRes,     \* what the C engine made of it, NULL before it has returned
  ctx, pc, stack, ret, verdict, trace,  \* the C engine's walk
  \* what the harness passes by: evaluate_policy, its callers and its observer
  buffer, pix, stopFn, total, watcher, aix, actRes, hostCalls

harnessVars == <<todo, vector, labels, goRes, cRes>>
walkVars == <<ctx, pc, stack, ret, verdict, trace>>
policyVars == <<buffer, pix, stopFn, total, watcher, aix, actRes, hostCalls>>
vars == <<harnessVars, walkVars, policyVars>>

-----------------------------------------------------------------------------
(* The buffer *)

\* The names lookupEnum finds.  Every enumeration names its unknown member and its
\* count as well: an id "COUNT", which no table has, a comparator "UNKNOWN", which
\* compares nothing, an operator "BEYOND" those that evaluator.c knows.
Accepted(w) ==
  CASE w.type = "comp" -> w.op \in {"AND", "OR", "NOT", "UNKNOWN", "BEYOND"}
    [] w.type = "eval" ->
         /\ w.eval \in {"str", "num", "unum"}
         /\ w.id \in (IF w.eval = "str" THEN StrIds ELSE NumIds) \cup {"COUNT"}
         /\ \/ w.id \in AlwaysIds
            \/ w.cmp \in {"UNKNOWN"} \cup IF w.eval = "str" THEN StrCmps ELSE NumCmps
    [] OTHER -> FALSE

Children(w) == IF w.type = "comp" /\ w.children # NULL THEN w.children ELSE << >>

\* The nodes of the document below each node.
Below ==
  LET below[n \in Nodes] ==
        {n} \cup UNION {below[Children(Doc[n])[i]] : i \in DOMAIN Children(Doc[n])}
  IN  below

\* Decoding JSON into Go's scalars makes 0 and "" of null and of what is omitted.
Scalar(w, default) == IF w.value \in {NULL, Omitted} THEN default ELSE w.value

\* buildNodeWrap.
Built(w) ==
  LET isStr == w.eval = "str" IN
    [kind     |-> IF w.type = "comp" THEN "comp" ELSE IF Accepted(w) THEN w.eval ELSE "unknown",
     op       |-> w.op,
     children |-> Children(w),
     id       |-> IF w.id \in StrIds \cup NumIds THEN w.id ELSE NULL,
     cmp      |-> IF w.id \in AlwaysIds THEN "UNKNOWN" ELSE w.cmp,
     value    |-> Scalar(w, IF isStr THEN Empty ELSE Zero)]

BuiltTree == [n \in Nodes |-> Built(Doc[n])]

-----------------------------------------------------------------------------
(* The two engines *)

Compare(k, cmp, p, v) ==
  CASE k = "str"  -> boolToResult(StrCompare(cmp, p, v))
    [] k = "num"  -> plcs_default_numeric_evaluator(Number(k, p), cmp, Number(k, v))
    [] k = "unum" -> plcs_default_unumeric_evaluator(Number(k, p), cmp, Number(k, v))

\* No policy is evaluated and no action run: what they need is empty here.
C == INSTANCE PolicyEngine WITH
       Tree <- BuiltTree,
       Cmps <- StrCmps \cup NumCmps, Params <- Values, HostFns <- ConfFns,
       ActionIds <- {}, Handlers <- {}, Observers <- {}, Callbacks <- << >>, Handles <- {},
       Policies <- {}, Policy <- << >>, Buffers <- {}, HostErrors <- {}, Setups <- {},
       MaxHostCalls <- 0

Go == INSTANCE GoEngine

-----------------------------------------------------------------------------
(* The context of a vector *)

\* Mutant: the parameters of the previous vector stay.
ConfResetKeepsParams(c) == [C!Reset(c) EXCEPT !.param = c.param]
\* plcs_eval_ctx_reset, which the registrations of conf_reset follow.
ConfReset(c) == C!Reset(c)

ConfFn(e) ==
  CASE e[1] = "num"                       -> "conf_num"
    [] e[1] = "unum"                      -> "conf_unum"
    [] e[1] = "str" /\ e[2] \in AlwaysIds -> e[2]
    [] e[1] = "str" /\ e[2] \in LabelIds  -> "conf_label"
    [] OTHER                              -> NULL

Registered(c) == [c EXCEPT !.evaluator = [e \in C!Entries |-> ConfFn(e)]]

FactsOf(facts, kind) ==
  CASE kind = "str"  -> facts.strings
    [] kind = "num"  -> facts.numbers
    [] kind = "unum" -> facts.unumbers

\* conf_set_string, conf_set_number and conf_set_unumber for every fact.
Loaded(c, facts) ==
  [c EXCEPT !.param =
     [e \in C!Entries |->
        IF e[2] \in DOMAIN FactsOf(facts, e[1]) THEN FactsOf(facts, e[1])[e[2]] ELSE c.param[e]]]

\* cEvaluateBuffer, up to the call of evaluate_rules; the Go engine went before.
\* A tree with a name no enumeration has is rejected, and its test fails.  No
\* vector is near the 32 labels, or the 256 bytes of a value, that conf_labels has
\* room for.
RunVector ==
  /\ pc = "idle"
  /\ todo # << >>
  /\ LET v == Head(todo) IN
       /\ \A n \in Below[v.root] : Accepted(Doc[n])
       /\ vector' = v
       /\ labels' = v.facts.labels
       /\ goRes' = Go!Evaluate(Doc, v.root, v.facts)
       /\ ctx' = Loaded(Registered(ConfReset(ctx)), v.facts)
       /\ stack' = <<C!Frame(v.root, 0)>>
  /\ todo' = Tail(todo)
  /\ cRes' = NULL
  /\ pc' = "rules"
  /\ trace' = << >>
  /\ UNCHANGED <<ret, verdict, policyVars>>

-----------------------------------------------------------------------------
(* The walk, and the evaluators the harness registered *)

Walk ==
  \/ C!CutNode \/ C!EnterNode \/ C!LeaveNode
  \/ C!LeafAbstains \/ C!CallDefaultEvaluator \/ C!CallHostEvaluator
  \/ C!BeginNot \/ C!BeginComposite \/ C!NextChild \/ C!ChildrenDone
  \/ C!ReturnToNot \/ C!ReturnToComposite \/ C!ReturnToPolicy

Param == C!GetParam(ctx, C!Entry)

\* conf_label looks the key up and hands the value to the default evaluator.
ConfLabel(n) ==
  LET cut == Cut[n.value] IN
    IF n.id \notin DOMAIN labels \/ ~cut.found THEN "ABSTAIN"
    ELSE LET label == labels[n.id] IN
      IF cut.key \notin DOMAIN label THEN "FALSE"
      ELSE IF n.cmp = "PREFIX" /\ cut.value = Empty THEN "TRUE"
      ELSE C!DefaultResult([n EXCEPT !.value = cut.value], label[cut.key])

\* conf_num and conf_unum test for the sentinel once more.
ConfNum(n) == IF Param = NumNotSet THEN "ABSTAIN" ELSE C!DefaultResult(n, Param)

ConfResult(fn) ==
  CASE fn = "ALWAYS_TRUE"            -> "TRUE"
    [] fn = "ALWAYS_FALSE"           -> "FALSE"
    [] fn = "ALWAYS_ABSTAIN"         -> "ABSTAIN"
    [] fn = "conf_label"             -> ConfLabel(C!Node)
    [] fn \in {"conf_num", "conf_unum"} -> ConfNum(C!Node)

ConfEvaluatorReturns == C!EvaluatorReturns(ConfResult(C!GetEvaluator(ctx, C!Entry)))

\* conf_eval returns, and cResultName names the result.
ConfEvalReturns ==
  /\ pc = "verdict"
  /\ pc' = "idle"
  /\ cRes' = IF verdict \in {"TRUE", "FALSE"} THEN verdict ELSE "ABSTAIN"
  /\ trace' = << >>
  /\ UNCHANGED <<todo, vector, labels, goRes, ctx, stack, ret, verdict, policyVars>>

Init ==
  /\ todo \in Corpora
  /\ vector = NULL /\ labels = << >> /\ goRes = NULL /\ cRes = NULL
  /\ ctx = C!ZeroedCtx /\ pc = "idle"
  /\ stack = << >> /\ ret = "ABSTAIN" /\ verdict = "ABSTAIN" /\ trace = << >>
  /\ buffer = << >> /\ pix = 1 /\ stopFn = FALSE /\ total = 0 /\ watcher = NULL
  /\ aix = 1 /\ actRes = 0 /\ hostCalls = 0

Next ==
  \/ RunVector
  \/ (Walk \/ ConfEvaluatorReturns) /\ UNCHANGED harnessVars
  \/ ConfEvalReturns

Spec == Init /\ [][Next]_vars

-----------------------------------------------------------------------------
Evaluated == vector # NULL /\ cRes # NULL
VectorNodes == {Doc[n] : n \in Below[vector.root]}

(***************************************************************************)
(* What sets the two engines apart.  The harness writes 0, "" or no        *)
(* children for a null; a string evaluator without a value abstains in Go  *)
(* only; PROCESS_ARGV is a list in Go; a label whose comparator compares   *)
(* nothing is still looked up in C; a composite beyond the enumeration     *)
(* leaves its result uninitialised in C.                                   *)
(***************************************************************************)
SameDocument(w) ==
  IF w.type = "comp" THEN w.children # NULL /\ (w.op = "BEYOND" => w.children # << >>)
  ELSE /\ w.value # NULL
       /\ w.eval = "str" /\ w.id \notin AlwaysIds =>
            w.value # Omitted /\ (w.id \in LabelIds => w.cmp # "UNKNOWN")
NoListFacts == ListIds \cap DOMAIN vector.facts.strings = {}
KnownIds == \A w \in VectorNodes : w.type = "comp" \/ w.id # "COUNT"

\* Both engines give a document the same result, whatever was run before it, if
\* both know its ids and both are given the same document: a comparator or an
\* operator that is not known, a fact that is missing or the sentinel, and a tree
\* deeper than the cap included.
EnginesAgree ==
  Evaluated /\ KnownIds /\ NoListFacts /\ (\A w \in VectorNodes : SameDocument(w)) => goRes = cRes

\* "An id with no matching fact in the Context abstains, exactly as the C engine
\* returns ABSTAIN on a NULL context": the same for an id that a newer schema added.
NewerIdsAgree ==
  Evaluated /\ NoListFacts /\ (\A w \in VectorNodes : SameDocument(w)) => goRes = cRes

(***************************************************************************)
(* A decision does not hang on what the engine does not understand: were   *)
(* every evaluator with an unknown id, and every one whose comparator is   *)
(* not known, the constant TRUE or the constant FALSE, the result of       *)
(* either engine would be the same, unless it is ABSTAIN.                  *)
(***************************************************************************)
NotUnderstood(n) ==
  /\ Doc[n].type = "eval"
  /\ Doc[n].id = "COUNT" \/ (Doc[n].id \notin AlwaysIds /\ Doc[n].cmp = "UNKNOWN")
Constant(b) ==
  [type |-> "eval", op |-> "UNKNOWN", children |-> << >>, eval |-> "str",
   id |-> IF b THEN "ALWAYS_TRUE" ELSE "ALWAYS_FALSE", cmp |-> "UNKNOWN", value |-> Omitted]

\* Nor does the vector have a fact under an unknown id.
NoNewerFacts ==
  \A ids \in {DOMAIN vector.facts.strings, DOMAIN vector.facts.labels,
              DOMAIN vector.facts.numbers, DOMAIN vector.facts.unumbers} : "COUNT" \notin ids

NewerDecidesNothing ==
  Evaluated /\ NoListFacts /\ NoNewerFacts /\ (\A w \in VectorNodes : SameDocument(w)) =>
    LET newer == {n \in Below[vector.root] : NotUnderstood(n)} IN
      \A meant \in [newer -> BOOLEAN] :
        LET doc == [n \in Nodes |-> IF n \in newer THEN Constant(meant[n]) ELSE Doc[n]]
            res == Go!Evaluate(doc, vector.root, vector.facts)
        IN  /\ goRes # "ABSTAIN" => res = goRes
            /\ cRes # "ABSTAIN" => res = cRes
=============================================================================
