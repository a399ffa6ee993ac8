-------------------------- MODULE CmdlineEvaluator --------------------------
(***************************************************************************)
(* hardcoded_cmdline_evaluator.c: one policy file, evaluated for a list of *)
(* processes one after the other.  All of them use the one static context  *)
(* and the one global allow_injection, which init has to put back.         *)
(***************************************************************************)
EXTENDS BasicReader

VARIABLES
  test,             \* the test that runs, or the first that has not
  allow_injection   \* what the actions made of the default so far

cmdlineVars == <<test, allow_injection>>
exampleVars == <<programVars, cmdlineVars>>

Cmdline == "hardcoded_cmdline_evaluator"
DEFAULT_ALLOW_INJECTION == "TRUE"

Process(runtime, entry) == [runtime |-> runtime, entry |-> entry]

\* tests_any_bin, tests_java_classes and tests_python_entry, in the order of main.
Tests ==
  <<Process("cpp", "/bin/ls"), Process("jvm", "/sbin/some_java_entry_file"),
    Process("python", "/usr/bin/some_unlisted_python_entry_file"),
    Process("ruby", "/usr/bin/should_be_denied_ruby_entry"),
    Process("jvm", "org.apache.hadoop.hbase"),
    Process("jvm", "org.apache.hadoop.hbase.something.someClass"),
    Process("jvm", "org.apache.hadoop"),
    Process("python", "/bin/ls"), Process("python", "/usr/bin/python3"),
    Process("python", "/usr/bin/gunicorn"), Process("python", "/usr/bin/java")>>

StrEntry(name) == <<"str", NumberOf(PLCS_STR_EVAL, name)>>

REGISTER_STR_EVAL_PARAM(c, name, param) ==
  SetParam(RegisterEvaluator(c, StrEntry(name), "EVALUATOR_RUNTIME_LANGUAGE"), StrEntry(name), param)

\* What init makes of the context: the second call of plcs_eval_ctx_init fails.
Initialized(c) ==
  LET fresh == IF c.initialized THEN Reset(c) ELSE InitCtx(c)
      deny == RegisterAction(fresh, NumberOf(PLCS_ACTION, "INJECT_DENY"), "ACTION_INJECT_DENY")
  IN  RegisterAction(deny, NumberOf(PLCS_ACTION, "INJECT_ALLOW"), "ACTION_INJECT_ALLOW")

\* Mutant: init leaves what the test before decided.
AllowedBefore == allow_injection
AllowedAtFirst == DEFAULT_ALLOW_INJECTION

\* The two handlers: a policy that is FALSE decides nothing, and one that abstains
\* decides nothing either, except that ALLOW then goes back to the default.
AllowedAfter(handler, res) ==
  CASE handler = "ACTION_INJECT_DENY" /\ res = "TRUE" -> "FALSE"
    [] handler = "ACTION_INJECT_ALLOW" /\ res = "TRUE" -> "TRUE"
    [] handler = "ACTION_INJECT_ALLOW" /\ res = "ABSTAIN" -> DEFAULT_ALLOW_INJECTION
    [] OTHER -> allow_injection

-----------------------------------------------------------------------------
ExamplesInit ==
  /\ ProgramInit
  /\ test = 1
  /\ allow_injection = DEFAULT_ALLOW_INJECTION

CmdlineCannotRead ==
  /\ CannotRead(Cmdline)
  /\ UNCHANGED cmdlineVars

ReadPolicies(f) ==
  /\ status = "start"
  /\ reader' = Cmdline
  /\ opened' = f
  /\ status' = "ready"
  /\ UNCHANGED <<collected, printed, vars, cmdlineVars>>

\* test_any_bin, test_java_classes or test_python_entry, up to plcs_evaluate_buffer.
BeginTest ==
  /\ status = "ready"
  /\ test <= Len(Tests)
  /\ ctx' = REGISTER_STR_EVAL_PARAM(
               REGISTER_STR_EVAL_PARAM(Initialized(ctx), "RUNTIME_LANGUAGE", Tests[test].runtime),
               "RUNTIME_ENTRY_POINT_CLASS", Tests[test].entry)
  /\ allow_injection' = AllowedAtFirst
  /\ status' = "prepared"
  /\ UNCHANGED <<reader, opened, collected, printed, engineIdle, test>>

EvaluateTest ==
  /\ status = "prepared"
  /\ EvaluateBuffer(plcs_get_policies(opened), FALSE)
  /\ status' = "running"
  /\ UNCHANGED <<reader, opened, collected, printed, cmdlineVars>>

\* EVALUATOR_RUNTIME_LANGUAGE: the default evaluator, and a line of output.
EvaluatorAnswers ==
  /\ pc = "evaluator"
  /\ ret' = DefaultResult(Node, GetParam(ctx, Entry))
  /\ ctx' = DefaultError(ctx, Node, GetParam(ctx, Entry))
  /\ pc' = "leave"
  /\ UNCHANGED <<evalVars, watcher, stack, verdict, actVars, trace, hostCalls, readerVars,
                 cmdlineVars>>

HandlerReturns ==
  /\ ActionReturns(ESUCCESS)
  /\ allow_injection' = AllowedAfter(GetAction(ctx, Actions[aix].id), HandedResult)
  /\ UNCHANGED <<readerVars, test>>

EngineStep == Engine /\ UNCHANGED <<readerVars, cmdlineVars>>

\* Whether the evaluation failed is printed, like the decision, and not kept.
EndTest ==
  /\ status = "running"
  /\ pc = "idle"
  /\ test' = test + 1
  /\ status' = "ready"
  /\ UNCHANGED <<reader, opened, collected, printed, vars, allow_injection>>

TestsDone ==
  /\ status = "ready"
  /\ test > Len(Tests)
  /\ status' = "success"
  /\ UNCHANGED <<reader, opened, collected, printed, vars, cmdlineVars>>

CmdlineStep ==
  \/ BeginTest \/ EvaluateTest \/ EndTest \/ TestsDone
  \/ EngineStep \/ EvaluatorAnswers \/ HandlerReturns

ExamplesNext ==
  \/ reader # Cmdline /\ ProgramNext /\ UNCHANGED cmdlineVars
  \/ CmdlineCannotRead
  \/ \E f \in Files : ReadPolicies(f)
  \/ reader = Cmdline /\ CmdlineStep

ExamplesSpec == ExamplesInit /\ [][ExamplesNext]_exampleVars

-----------------------------------------------------------------------------
(* What a policy says of a process, in Kleene's logic over its whole tree *)

Facts(p) ==
  StrEntry("RUNTIME_LANGUAGE") :> p.runtime @@ StrEntry("RUNTIME_ENTRY_POINT_CLASS") :> p.entry

LeafHolds(n, facts) ==
  LET entry == <<Tree[n].kind, Tree[n].id>> IN
    IF entry \in DOMAIN facts /\ Tree[n].value # NULL /\ Tree[n].cmp \in Cmps
      THEN Compare("str", Tree[n].cmp, Tree[n].value, facts[entry])
      ELSE "ABSTAIN"

Negation == [r \in Results |-> CASE r = "TRUE" -> "FALSE" [] r = "FALSE" -> "TRUE" [] OTHER -> r]

Says(root, facts) ==
  LET value[n \in Nodes] ==
        LET kids == {value[k] : k \in Range(Tree[n].children)} IN
          CASE Tree[n].op = "AND" -> IF "FALSE" \in kids THEN "FALSE"
                                     ELSE IF "ABSTAIN" \in kids THEN "ABSTAIN" ELSE "TRUE"
            [] Tree[n].op = "OR"  -> IF "TRUE" \in kids THEN "TRUE"
                                     ELSE IF "ABSTAIN" \in kids THEN "ABSTAIN" ELSE "FALSE"
            [] Tree[n].op = "NOT" /\ Len(Tree[n].children) = 1 ->
                 Negation[CHOOSE r \in kids : TRUE]
            [] Tree[n].kind = "str" -> LeafHolds(n, facts)
            [] OTHER -> "ABSTAIN"
  IN  IF root = NULL THEN "ABSTAIN" ELSE value[root]

\* The actions that reach a handler, by the numbers of their policy and their own.
Heard(policies) ==
  {at \in UNION {{i} \X DOMAIN Policy[policies[i]].actions : i \in DOMAIN policies} :
     LET actions == Policy[policies[at[1]]].actions
         Handled(j) == GetAction(ctx, actions[j].id) # NULL
     IN  Handled(at[2]) /\ \A j \in 1 .. at[2] : Handled(j) => ~actions[j].oversized}

Earlier(a, b) == a[1] < b[1] \/ (a[1] = b[1] /\ a[2] < b[2])

\* The decision on each process is the one the file makes for that process alone,
\* whatever was decided for those before it (init): injection is denied exactly
\* when a policy that holds denies it and none after that allows it.  A policy that
\* abstains denies nothing, and yet its ALLOW takes back a DENY before it, because
\* the default is to allow (ACTION_INJECT_ALLOW).  (A leaf with an id that this
\* version does not know abstains here, as in the engine, whose error also silences
\* the leaves after it: no policy of these files has one that would decide.)
DecidedByItsOwnFacts ==
  reader = Cmdline /\ status = "running" /\ pc = "idle" =>
    LET read == plcs_get_policies(opened)
        policies == IF read = NULL THEN << >> ELSE read
        says == [i \in DOMAIN policies |-> Says(Policy[policies[i]].rules, Facts(Tests[test]))]
        Does(at, name) == Policy[policies[at[1]]].actions[at[2]].id = NumberOf(PLCS_ACTION, name)
        denials == {at \in Heard(policies) : Does(at, "INJECT_DENY") /\ says[at[1]] = "TRUE"}
        allowances == {at \in Heard(policies) : Does(at, "INJECT_ALLOW") /\ says[at[1]] # "FALSE"}
        denied == \E d \in denials : \A a \in allowances : Earlier(a, d)
    IN  allow_injection = IF denied THEN "FALSE" ELSE "TRUE"
=============================================================================
