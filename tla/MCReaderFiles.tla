---------------------------- MODULE MCReaderFiles ----------------------------
(***************************************************************************)
(* Files for the example programs.  The documents name every evaluator and *)
(* comparator, those that a newer schema may add, operators and trees of   *)
(* every shape that the printing distinguishes; one of them, which has     *)
(* every kind of table, is damaged in each of its fields.                  *)
(***************************************************************************)
EXTENDS WireSchema, Functions, TLC

CONSTANTS None, Nil

Leaf(eval, id, cmp) ==
  [type |-> "EvaluatorNode", op |-> "BOOL_UNKNOWN", children |-> None, eval |-> eval,
   id |-> id, cmp |-> cmp, value |-> IF eval = "StrEvaluator" THEN "jvm" ELSE "n"]
Str(id, cmp) == Leaf("StrEvaluator", id, cmp)
Comp(op, kids) ==
  [Leaf("NONE", "", "") EXCEPT !.type = "CompositeNode", !.op = op, !.children = kids]
Typed(type) == [Leaf("NONE", "", "") EXCEPT !.type = type]

\* A leaf for each evaluator, with each comparator, and numbers of either sign.
StrNames == Range(StringEvaluators)
NumNames == Range(NumericEvaluators)
CmpOf(names, cmps, id) == cmps[1 + (NumberOf(names, id) % Len(cmps))]
Leaves ==
  [n \in StrNames |-> Str(n, CmpOf(StringEvaluators, CmpTypeSTR, n))] @@
  [n \in NumNames |->
     LET i == NumberOf(NumericEvaluators, n) IN
       [Leaf(IF i % 2 = 0 THEN "NumEvaluator" ELSE "UNumEvaluator", n,
             CmpOf(NumericEvaluators, CmpTypeNUM, n))
          EXCEPT !.value = IF i % 4 < 2 THEN "2^63" ELSE @]]

\* Rules that decide for some processes of the command line evaluator: for one
\* language, for one class and not for the rest, for all but one, for none.
Is(id, value) == [Str(id, "CMP_EXACT") EXCEPT !.value = value]
Rules ==
  "is_jvm" :> Is("RUNTIME_LANGUAGE", "jvm") @@ "is_ruby" :> Is("RUNTIME_LANGUAGE", "ruby") @@
  "is_ls" :> Is("RUNTIME_ENTRY_POINT_CLASS", "/bin/ls") @@
  "is_hadoop" :> Is("RUNTIME_ENTRY_POINT_CLASS", "org.apache.hadoop") @@
  "abstains" :> Is("OS", "linux") @@
  "not_hadoop" :> Comp("BOOL_NOT", <<"is_hadoop">>) @@
  "jvm_not_hadoop" :> Comp("BOOL_AND", <<"is_jvm", "not_hadoop">>) @@
  "ls_or_abstains" :> Comp("BOOL_OR", <<"abstains", "is_ls">>)

\* a: a tree with a node of each kind; b: an operator this schema does not know
\* over a composite with a sibling; c: deeper than the cap; d: nodes of no type, or
\* of a newer one; e: an operator without operands, and an action with values that
\* nobody handles.
Trees ==
  "a" :> Comp("BOOL_AND", <<"a1", "a2">>) @@
  "a1" :> Comp("BOOL_NOT", <<"a11">>) @@ "a11" :> Str("RUNTIME_LANGUAGE", "CMP_EXACT") @@
  "a2" :> [Leaf("NumEvaluator", "JAVA_HEAP", "CMP_GTE") EXCEPT !.value = Nil] @@
  "b" :> Comp("FUTURE", <<"b1", "b2">>) @@
  "b1" :> Comp("BOOL_OR", <<"b11">>) @@ "b11" :> Str("FUTURE", "FUTURE") @@
  "b2" :> [Str("PROCESS_EXE_FULL_PATH", "CMP_PREFIX") EXCEPT !.value = None] @@
  "c" :> Comp("BOOL_NOT", <<"c1">>) @@ "c1" :> Comp("BOOL_OR", <<"c2">>) @@
  "c2" :> Comp("BOOL_AND", <<"c3">>) @@ "c3" :> Comp("BOOL_NOT", <<"c4">>) @@
  "c4" :> Str("OS", "CMP_SUFFIX") @@
  "d" :> Comp("BOOL_OR", <<"d1", "d2">>) @@ "d1" :> Typed("NONE") @@ "d2" :> Typed("FutureNode") @@
  "d3" :> Leaf("NONE", "", "") @@
  "e" :> Comp("BOOL_AND", <<"e1", "e2">>) @@ "e1" :> Comp("BOOL_OR", << >>) @@
  "e2" :> Comp("BOOL_OR", <<"e21">>) @@ "e21" :> Str("RUNTIME_LANGUAGE", "CMP_CONTAINS") @@
  "f" :> Leaf("FutureEvaluator", "", "") @@ "g" :> Comp("BOOL_NOT", <<"d1">>) @@ Rules
AllNodes == Leaves @@ Trees

Does(action, values) == [action |-> action, values |-> values]
Deciding ==
  {"jvm_not_hadoop", "ls_or_abstains", "is_ruby", "is_jvm", "is_ls", "abstains", "not_hadoop"}
NamedPolicies == {"a", "b", "c", "d", "d3", "e", "f", "g"} \cup Deciding
AllPolicies == StrNames \cup NumNames \cup NamedPolicies \cup {"empty"}
PolicyOf ==
  [p \in AllPolicies |->
     [rules |-> IF p = "empty" THEN None ELSE p,
      actions |-> CASE p = "a" -> <<Does("INJECT_DENY", <<"x">>), Does("FUTURE", None)>>
                    [] p = "c" -> <<Does("INJECT_ALLOW", <<"x", "y">>), Does("INJECT_DENY", None)>>
                    [] p = "e" -> <<Does("SET_ENVAR", <<"x", "y">>)>>
                    [] p \in {"jvm_not_hadoop", "is_ruby", "is_ls"} -> <<Does("INJECT_DENY", None)>>
                    [] p \in {"ls_or_abstains", "is_jvm"} -> <<Does("INJECT_ALLOW", None)>>
                    [] p = "abstains" -> <<Does("INJECT_DENY", <<"x">>), Does("INJECT_ALLOW", None)>>
                    [] p = "not_hadoop" -> <<Does("INJECT_ALLOW", None), Does("INJECT_DENY", None)>>
                    [] OTHER -> << >>]]

Documents ==
  <<StringEvaluators, NumericEvaluators, <<"a", "empty", "b">>, <<"c", "a", "e">>, <<"d3", "g">>,
    << >>, <<"d", "e">>, <<"f", "b">>,
    <<"is_ruby", "jvm_not_hadoop", "is_ls">>, <<"not_hadoop", "is_jvm", "ls_or_abstains">>,
    <<"is_ruby", "abstains", "is_ls">>>>

\* Those that the schema built into the compiler can express: the others have a
\* variant of a union that it does not list.
Builtin == (1 .. 6) \cup (9 .. 11)

Whole == [doc |-> <<"a">>, schema |-> "builtin", flaw |-> None]

\* The tables of that file to damage, and their fields.
DamagedTables ==
  <<<<"Policies", <<"a">>>>, <<"Policy", "a">>, <<"Action", <<"a", 1>>>>,
    <<"NodeTypeWrapper", "a">>, <<"CompositeNode", "a">>, <<"NodeTypeWrapper", "a1">>,
    <<"CompositeNode", "a1">>, <<"NodeTypeWrapper", "a11">>, <<"EvaluatorNode", "a11">>,
    <<"StrEvaluator", "a11">>, <<"EvaluatorNode", "a2">>, <<"NumEvaluator", "a2">>>>
DamagedFields ==
  <<{0}, 0 .. 4, 0 .. 2, {0, 1}, 0 .. 2, {0, 1}, 0 .. 2, {0, 1}, 0 .. 2, 0 .. 2, 0 .. 2, {0, 1}>>

\* The files, by number: documents compiled with the built-in schema, with a newer
\* one, and the damaged ones.
AllFiles ==
  Builtin \cup {10 + i : i \in DOMAIN Documents} \cup
  UNION {{100 * t + 10 * i + lost : i \in DamagedFields[t], lost \in {0, 1}} :
         t \in DOMAIN DamagedTables}
FileOf ==
  [k \in AllFiles |->
     IF k \in Builtin THEN [doc |-> Documents[k], schema |-> "builtin", flaw |-> None]
     ELSE IF k < 100 THEN [doc |-> Documents[k - 10], schema |-> "newer", flaw |-> None]
     ELSE [Whole EXCEPT !.flaw = [table |-> DamagedTables[k \div 100],
                                  field |-> (k % 100) \div 10, lost |-> k % 10 = 1]]]

-----------------------------------------------------------------------------
\* Each is behind a LET: TLC's coverage would otherwise follow the value of a constant
\* into all that it is computed from, wherever the constant is used.
MCDocNodes == LET v == DOMAIN AllNodes IN v
MCDoc == LET v == AllNodes IN v
MCDocPolicies == LET v == AllPolicies IN v
MCDocPolicy == LET v == PolicyOf IN v
MCFiles == LET v == AllFiles IN v
MCFile == LET v == FileOf IN v
=============================================================================
