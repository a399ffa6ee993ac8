# A formal model of dd-policy-engine

dd-policy-engine decides whether a process, or a Kubernetes workload, is to be
instrumented.  A *policy* is a tree of AND, OR and NOT over leaves that compare a
value of the policy with a fact of the process, and a list of actions.  Policies
travel as a FlatBuffer.  A C engine evaluates them inside a host (the injector);
a Go package does the same without CGO; Go and C++ programs produce them.

The results are three-valued: TRUE, FALSE and ABSTAIN, for whatever this version
of the engine, or this environment, knows nothing about.  An old engine that
receives a new policy must abstain where it does not understand, and nowhere
else.

This directory models the program in TLA+, checks the model with TLC and proves
theorems about it with TLAPS.

## 1. Inventory

### Components

| Component | State | Operations | Modelled in |
|---|---|---|---|
| C engine, `c/src/evaluator.c` | the locals of the calls in progress | `plcs_evaluate_buffer[_early_exit]`, `evaluate_policy`, `evaluate_rules`, `composite_evaluator`, `node_evaluator`, `perform_actions` | `TriState`, `PolicyEngine` |
| Evaluation context, `c/src/eval_ctx.c` | one static record: evaluators, parameters and errors by id, action handlers, the observer, the last error | register, set, get, peek, reset, init | `EvalCtx` |
| Default evaluators, `c/src/evaluator_default.c` | none but the matcher's pointers | five string comparators, signed and unsigned numbers | `StringComparators`, `NumericComparators`, `Wildcard` |
| Observer, `c/src/observer.c`, `observer.h` | the host's | four callbacks, `plcs_describe_node` | `PolicyEngine`, the record in `BasicReader` |
| Buffer access, `c/src/policy.c` | none | verify, find the policies | `PolicyBuffer` |
| Go engine, `go/policies` | none | `ParsePolicies`, `Evaluate` | `GoEngine`, `GoPolicies`, `GoWildcard` |
| Conformance harness, `go/policies/conformance` | the labels of a vector, and the C context it shares | both engines on a corpus | `Conformance` |
| Requirements converter, `go/cmd/dd-requirements-converter` | the policies so far, the output file | deny rules and libc requirements to rule trees, one policy for each | `RequirementsConverter` |
| Policy compiler, `dd-compile-policy` | none | JSON to FlatBuffer, skipping unknown fields | `PolicyBuffer` |
| Example readers, `c/examples/basic-reader.c`, `mmap-reader.c`, `hardcoded-header-reader.c` | a trace of up to 64 records | read, evaluate, collect, print | `BasicReader` |
| Example evaluator, `c/examples/hardcoded_cmdline_evaluator.c` | one decision | eleven processes, one after another, in one context | `CmdlineEvaluator` |
| Debugger, `c/src/debugger/basic-debugger.c` | none | dump a policy file | `PolicyDump` |
| Wire enumerations, `*_to_string`, `c/src/wire` | none | tables | `WireSchema` |
| Generated code: schema, readers, verifiers | none | accessors, verification | `WireSchema`, `PolicyBuffer` |
| Value sets, fuzz target, path value example, ANTLR parser, builders | | | no, see section 6 |

### How they interact

Everything meets in the evaluation context.  The host fills it (facts as
parameters, its own evaluators, action handlers, an observer) and hands the
engine a buffer.  The engine reads the context at each leaf and at each action,
and calls the host back: custom evaluators, `policy_enter`, `node_enter`,
`node_exit`, `policy_exit`, action handlers, `should_stop`.  There is one thread
and no lock; what interleaves is *host code in the middle of the engine's
recursion*, which may call every function of the context API, `reset` among
them, before it returns.

A policy is read from a buffer that others produced: the converter and the
compiler write what both engines read, and neither engine may trust it to be of
its own version.

### What is hard

- **Order.**  Short circuits, the depth cap and abstention interact: the answer
  must not depend on what was skipped.
- **Errors as state.**  One error code for the whole context, raised by reading an
  id this version does not have, decides whether later leaves are evaluated at
  all.
- **Callbacks that change what is being used.**  The observer may be replaced while
  it is told of a policy; a handler may remove the next handler.
- **Partial failure.**  Handlers fail, actions carry too many values, policies are
  missing; the rest must still run.
- **Two implementations.**  C and Go are to give the same answers to documents that
  neither fully understands.
- **A backtracking matcher** with four pointers and no length checks.

### What makes each component correct

- Engine: the result is the Kleene value of the tree; it stops when that is
  decided and not before; every node entered is left, innermost first, with its
  own handle; recursion is bounded; every handled action runs once, in order,
  with the policy's result; the loop over policies ends.
- Context: an error stays in its policy; whoever observes a policy observes all of
  it; every table keeps its type under every call of the host.
- Comparators: a glob means what globs mean; EXACT, PREFIX, SUFFIX and CONTAINS
  agree with the globs that say the same; no byte beyond a terminator is read.
- Go engine: the same result as C wherever the documentation promises it; a
  document never fails to decode because of one policy.
- Converter: the policies it emits deny exactly the processes the requirements
  describe, and it emits all of them or none.
- Policy files: what cannot be read safely is rejected, and what can is read as it
  was written, though five lists of numbers are involved.
- Example observer and debugger: what they print is what was evaluated, and where.

The hazards, each at its line, are in `PROJECT.json`.

## 2. Modules

Each line is a module, with the modules that it extends in parentheses; `==` is an
instance.

```
PolicyEngine (TriState, EvalCtx (Absent))       the C engine
  PolicyProperties (PolicyEngine)               its properties
  PolicyRefinement (PolicyEngine)               == PolicyJudge, what it promises
  PolicyEngine_proofs (PolicyRefinement)        proofs: types, the history, the refinement
    PolicyWalk_proofs                           ... the walk
  MCPolicyWalk (PolicyProperties, PolicyRefinement), MCPolicyHost (PolicyProperties)
Wildcard (StringComparators)                    the C matcher
  GoWildcard                                    the Go matcher
    Wildcard_proofs                             proofs about both
    MCWildcard
GoEngine                                        rule trees of the Go package
  GoEngine_proofs                               what its recursions compute
  Conformance (NumericComparators)              == PolicyEngine, == GoEngine
    Conformance_proofs                          proofs, == GoEngine_proofs
    MCConformance
  RequirementsConverter (GoEngine)              the converter
    RequirementsMeaning                         what its input says
      RequirementsMeaning_proofs                proofs (with GoEngine_proofs)
      MCRequirements
GoPolicies                                      policies of the Go package
  GoPolicies_proofs                             proofs
  MCGoPolicies
WireSchema                                      names and numbers of a policy file
  PolicyBuffer (WireSchema, Absent)             compiler, verifiers, accessors
    PolicyDump                                  the debugger
      BasicReader (PolicyDump, PolicyEngine)    the readers and their observer
        CmdlineEvaluator                        the fourth example
          ReaderProperties                      their properties
            ReaderProperties_proofs             proofs: the verifier and who relies on it
  MCReaderFiles (WireSchema)                    the files of
    MCBasicReader (MCReaderFiles, ReaderProperties)
```

**TriState** has the results and the fold of `composite_evaluator`: `DoAnd`, `DoOr`,
`DoNot`, `DoOper`, the value each operator starts from and the short circuit.
`"OTHER"` is what an uninitialised variable of the enumeration may hold.

**EvalCtx** is the static `ctx` as a record, with an operator from context to context
for each API function.  The three tables of evaluators are one function over
`Entries`, pairs of a kind and an id; signed and unsigned evaluators share ids
and have entries of their own.  `ZeroedCtx` is the static storage before
`plcs_eval_ctx_init`.  An id the caller may pass but the enumeration does not
have is any value that is not in `StrIds`, `NumIds` or `ActionIds`; the model
uses `NULL`.

**PolicyEngine** is the engine as a machine.  Recursion is an explicit `stack`, a
frame for each active `evaluate_rules`; `pc` is a place inside the engine or the
callback the host is executing:

| `pc` | in the code | actions that leave it |
|---|---|---|
| `idle` | no call in progress | `EvaluateBuffer` |
| `policies` | head of the loop over policies | `SkipPolicy`, `BeginPolicy`, `BufferDone` |
| `policy_enter`, `policy_exit`, `node_enter`, `node_exit` | inside that callback | `...Returns` |
| `root` | `rules ? evaluate_rules(...)` | `EvaluateRoot` |
| `rules` | start of `evaluate_rules` | `CutNode`, `EnterNode` |
| `node` | the node is evaluated | `EvaluateUnknown`, `LeafAbstains`, `CallDefaultEvaluator`, `CallHostEvaluator`, `BeginNot`, `BeginComposite` |
| `evaluator` | inside a custom evaluator | `EvaluatorReturns` |
| `loop` | loop over the children | `NextChild`, `ChildrenDone` |
| `leave` | `node_exit`, if there is one | `LeaveNode` |
| `return` | `evaluate_rules` returns | `ReturnToNot`, `ReturnToComposite`, `ReturnToPolicy` |
| `verdict` | before `policy_exit` | `ReportVerdict` |
| `actions`, `handler` | loop of `perform_actions`, inside a handler | `SkipAction`, `AbortActions`, `CallAction`, `ActionsDone`, `ActionReturns` |
| `policy_done`, `stop` | adding the errors up, inside `should_stop` | `EndPolicy`, `ShouldStopReturns` |

Wherever `pc` is a callback, or the engine is idle, the host may also call the
context API (`Host`).  `trace` and `hostCalls` are history: the one for the
properties, emptied when a policy ends, the other to bound the host.

What is abstract: a value is a model value and what the default evaluators compare
is a parameter, `Compare`; a custom evaluator returns any result; an action's values
are `oversized` or not (255 or more); descriptions, uuids and versions are left
out.  The host does not call `plcs_evaluate_buffer` from a callback.

**PolicyProperties** states what the engine promises in terms that share nothing with
its fold: Kleene logic over the whole tree, brackets, lists of actions.  A table
may be the child of several others and is then evaluated once for each path to it, so
a value belongs to a *place*, a node at a depth; `Record` is what the places that were
reached answered, and a place that was not reached has any value, a *guess*.

**PolicyJudge** is what a host may rely on without knowing of trees, observers or
contexts: policies are judged one after another, each once, and the actions of
each run in order with its result.  **PolicyRefinement** maps the state of
`PolicyEngine` to it: what is left of the buffer, the phase (from `pc`), the result
once there is one, and what the last action was told (from `trace`).

**StringComparators** are four comparators over sequences of bytes.  **Wildcard** is the
fifth as a machine, one step for each turn of its loop, with 0 for its NULL
pointers.  **GoWildcard** adds Go's `wildcardMatch` as a recursive function of the
four variables of its loop, a *turn*.

**NumericComparators** are the two numeric evaluators.  A number is a name, and `Number`
says which integer its bits stand for as `long` and as `unsigned long`.

**GoEngine** is the rule trees of the Go package: `decodeNodeWrap` from a node of the
JSON document to an expression, and `Evaluate` from an expression and the facts
of a `Context` to a result.  Both are pure, so they are operators and a recursive
function and not a machine.  A map of the `Context` is a function on the ids that
are present; comparing two strings is a parameter.

**GoPolicies** is the rest of `ParsePolicies`: the loops over the policies of a document,
the actions of each and the values of an action, one value at a time, with what each
adds to the policy's `Outcome`, and the two ways to fail: a policy that is skipped, and
one whose remaining actions are dropped.  What the actions of a policy set is a set of
*settings*, pairs of an action and one of its values.

**Conformance** is the test that compares the engines.  A *vector* is a document and
facts.  `RunVector` evaluates it in Go (`GoEngine`), writes the tree that
`buildNodeWrap` writes (`BuiltTree`), resets the C context and fills it with the facts,
and starts the machine of `PolicyEngine` at `evaluate_rules`, as `conf_eval` does: no
policy, no action and no observer.  What the host answers is no longer any
result, as in `PolicyEngine` alone, but what the evaluators of the harness compute
(`ConfLabel`, `ConfNum`).  Vectors run one after another in one context, which is
static.  A vector whose names `lookupEnum` does not find fails in the harness and
is not run.

**WireSchema** has every enumeration of a policy file twice, in the order of the
schema and in that of the public headers, and the maps and names that code uses to
go from one to the other.

**PolicyBuffer** follows a file: a *document* by names; `Compiled`, the tables that
`dd-compile-policy` writes for it (defaults absent, unknown fields skipped, unknown
names as 0); one *flaw*, a field that is missing or an offset that leads out of the
file; `Verifies`, the generated verifiers, field by field; and the
accessors of the generated readers.  `TableReadable` in `BasicReader` says
independently of the verifiers what those accessors can follow.

**PolicyDump** is the debugger: from a file to lines.  A number of a file is bits, and
`Number` says which integer a conversion prints for them: the debugger prints both kinds
with `PRId64`, as signed (`basic-debugger.c:39`, `:49`).

**BasicReader** composes `PolicyEngine` with the three readers.  `BufferTree` is the tree
that `evaluator.c` sees through the accessors, so the engine's abstract records are
here no longer chosen but read from tables.  The observer is the one of
`basic-reader.c`: `demo_node_enter` and the others run with the callbacks of the engine
and fill `collected`; `print_evaluation_trace` makes `printed` of it.  `demo_node_exit`
copies the strings of a record into room for `MaxString` bytes, terminator included
(`DEMO_STRING_MAX`, 128): `copy_bounded` keeps the beginning and makes an absent string
empty.  Signed numbers are printed with `%ld`, unsigned ones with `%lu`.

**CmdlineEvaluator** adds the fourth program, which initialises the one static context
before each of its tests, registers the process as parameters and lets two handlers
change one global.  Its actions wrap those of the engine.

**ReaderProperties** relates what is printed, dumped, decided and returned to the
*document*, whose names and tree the numbers were made from.

**RequirementsConverter** is the converter as a machine that converts a rule at a time
and writes its output or fails.  A tree is the value that the builder would have
written; `Document` turns it into one that `GoEngine` evaluates, whose nodes are the
subtrees, each with the path to it.
**RequirementsMeaning** says which processes a requirements file denies, from the rules
alone: globs over arguments at places of `argv`, variables, versions in
lexicographic order.

## 3. Runs

| Run | Module | Shows | Bounds |
|---|---|---|---|
| `policy_walk` | `MCPolicyWalk` | `VerdictSound`, `StopsWhenDecided`, `WellFramed`, `StackBound`, `Termination`, `ImplementsJudge` | seven policies, a buffer of three and a missing one, cap 3, host only answers |
| `policy_host` | `MCPolicyHost` | `ErrorIsolated`, `OneObserverPerPolicy`, `ActionsSeeVerdict`, `NoActionLost`, `TypeOK` | two policies and a missing one, cap 2, two host calls |
| `wildcard` | `MCWildcard` | `WildcardSound`, `WildcardComplete`, `ComparatorsAgree`, `MatchersAgree`, `Progress`, `Termination`, `TypeOK` | all patterns and strings up to 4 bytes |
| `conformance` | `MCConformance` | `EnginesAgree`, `NewerDecidesNothing` | 979 documents, four sets of facts, every comparison of four numbers of three bits, cap 2 |
| `go_policies` | `MCGoPolicies` | `OutcomeOfActionsRun`, `ConfigsInOrder`, `PoliciesIsolated` | up to 3 actions in a policy, or 3 policies |
| `basic_reader` | `MCBasicReader` | `NamesSurvive`, `RecordsInTreeOrder`, `ParenthesesEncloseDescendants`, `DumpCoversTrace`, `OnlyReadableEvaluated`, `DecidedByItsOwnFacts` | 123 files, four programs, cap 3, room for 3 records and 7 bytes of a string |
| `requirements` | `MCRequirements` | `DeniesWhatRulesSay`, `DeniesUnsupportedLibc`, `AllOrNothing` | lists of up to 3 patterns at 9 positions, versions of 3 digits up to 3 |
| `unknown_operator` | `MCPolicyWalk` | refutes `UnknownOperatorAbstains` | as `policy_walk` |
| `masked_failure` | `MCPolicyHost` | refutes `FailuresReported` | as `policy_host` |
| `wildcard_star` | `MCWildcard` | refutes `WildcardMatchesAnything` | up to 2 bytes |
| `newer_ids` | `MCConformance` | refutes `NewerIdsAgree` | as `conformance` |
| `open_parentheses` | `MCBasicReader` | refutes `OpenIsDepth` | as `basic_reader` |

**policy_walk.**  The trees cover what the composite code tells apart: OR over AND, NOT
over an empty OR, empty AND, NOT with two children, `BOOL_UNKNOWN`, operators
outside the enumeration with and without children, nodes of an unknown type, a
tree that goes four levels past the cap (so that a composite, and not only a
leaf, is cut), and a policy without rules.  The leaves are evaluated by a
function of the host that may return anything, so every assignment of results to
leaves is visited: values of leaves need no other variety.  Handles are 1 or 2,
which is enough for siblings and ancestors to differ.  `VerdictSound` says that the
result is the Kleene value of the tree whatever the places that a short circuit skipped
might have answered.  `ImplementsJudge` is the refinement: one buffer has several
policies, so that a result, a stop or an action of one could reach another.

**policy_host.**  Two policies in a row, with a missing one between them, because
errors, observers and handlers can only leak from one to the next; the first has
a leaf and an action with ids out of range and an oversized action, the second a
leaf of each other kind and two actions with one handler.  The host starts from a context that nobody initialised
or from one it prepared, and makes up to two calls of the context API at any
place where host code runs; two are enough for a change and its reversal within
a policy.  The two observers differ in which callbacks they provide.  `NoActionLost` has a
part for every host, that the actions run in the order of the list, each at most once
and none oversized, whatever a handler registers or removes while the loop
looks handlers up; *which* actions run is said only for a host that does not intervene,
as nothing says whether such a change is to take effect at once.

**wildcard.**  Two letters and both metacharacters; strings may contain `*`.  Four
bytes allow two stars with letters between and around them, which is what
distinguishes going back to the last star from going back to an earlier one.
`MatchersAgree` has no exception: the Go matcher shares the C matcher's.

**conformance.**  The numbers are zero, one, the one with only the sign bit, and the
sentinel, which is the largest: the two readings of the sign bit are what sets
`long` apart from `unsigned long`.  There is a leaf for each case that either engine tells apart: the
constants, ids and comparators of a newer schema, a string that is compared, a
string without a value, a label that is compared, asked for, or malformed, a
list, numbers with a value, without one and null, and a fact that is absent, the
sentinel or zero.  The documents are every leaf, its NOT, every pair under AND
and under OR, the same with a NOT, and the composites that are not of this shape:
without children, with an operator nobody knows, deeper than the cap.  What a
pair can do is what the folds can do, because a fold keeps nothing but a result;
what a pair cannot show, that an error raised by one leaf reaches another, needs
no more than two either.  Each document runs with four sets of facts from a
context that was never used, and each leaf after a vector that left facts and an
error behind.

`EnginesAgree` is what the corpus test asserts, for documents that both engines
know the ids of.  Its other exceptions are spelled out in `SameDocument` and
`NoListFacts`: where the harness cannot write what the document says (null values
and null children become 0, the empty string and no children), a string without
a value, which Go's decoder rejects and a FlatBuffer cannot express,
`PROCESS_ARGV`, which is a list in Go and one string in C, a label whose comparator
is not known, which C looks up all the same, and the uninitialised result of the
first violation below.  Without any one of them TLC finds the difference it names.

What the run does not compare is the string comparators themselves: EXACT, PREFIX, SUFFIX
and CONTAINS of both engines are *one* parameter, `StrCompare`, so a difference between
C's and Go's could not show.  In C they are in `StringComparators`, and `wildcard` holds
them against globs; in Go they are `==`, `strings.HasPrefix`, `strings.HasSuffix` and
`strings.Contains`.  The wildcard matchers, both written by hand, are compared in
`wildcard`, by `MatchersAgree`.

`NewerDecidesNothing` is the promise to old engines: a result other than ABSTAIN
does not depend on what the parts that were not understood mean.  They are
replaced by the constants in every combination and the whole is evaluated anew.
It asks for `NoNewerFacts` besides: `cgo.go` looks the ids of facts up as it does those
of leaves, so a vector with a fact under an id of a newer schema fails in the
harness, while Go's `Context` would hand that fact to the leaf.

**go_policies.**  `OutcomeOfActionsRun` compares the `Outcome` of a policy with what the
actions that the C engine would run set, stated without the loop: the last one to
decide, or to set a name, wins.  `PoliciesIsolated` says which policies are skipped,
by what is wrong with them alone.

**basic_reader.**  One file has a leaf for every evaluator, each with a comparator, so
that a list of names in a wrong order shows; others have names and fields of a
newer schema, and every shape of tree that printing distinguishes.  One document,
which has a table of every kind, is damaged in each field of each table in turn,
by a field that is missing or an offset that leads out of the file.
Room for three records and a cap of three put both bounds of the example in reach
of a tree of a few nodes; handles are what `demo_node_enter` returns.  Strings have room
for eight bytes, so that some values are cut and others, one byte shorter, are not, and every other
pair of numbers has the top bit set (2^63), where `long` and `unsigned long` part.  The command
line evaluator runs its own eleven processes on policies that decide for one of
them, or for all, in either direction, or abstain behind one that decided.

`NamesSurvive` and `DumpCoversTrace` follow a name of a document through the compiler's
numbers, the engine's, the host's and back to what two programs print by different
tables.  The value next to it is the document's as far as the programs print it: of a string
the reader shows the beginning, and a number is what its conversion makes of the bits.
The two programs differ there: the reader's `%lu` prints an unsigned value as it is, the
debugger's `PRId64` prints it as negative from 2^63 on, which `Shows` says with `SameBits`.  `ParenthesesEncloseDescendants` requires that the operators are known, and the
violation `open_parentheses` shows why.  `OnlyReadableEvaluated` has an exception:
`hardcoded_cmdline_evaluator` returns success whatever the evaluation returned.
`DecidedByItsOwnFacts` computes each of the eleven decisions from the policies and that
process alone.

**requirements.**  Patterns are the three that a list treats specially (empty, `*`, `?`)
and three that match differently; positions include both ends of the ids that
exist, the first one beyond either, and those where a list of two or three runs
off the end.  Processes have up to eight arguments, more than there are positions.
Versions are all of 27, on either side of each other in each component.  Two cases
are excluded, by `Odd`: the code treats an empty pattern in the first place unlike
one further on, and a list that starts at -1 goes on at 0; what either should mean
is not said anywhere.  `DeniesUnsupportedLibc` contradicts five comments of `libc.go`
(see *Disagreements without a run*).
`DeniesWhatRulesSay` is about variables whose names are no patterns (`PlainName`): the
converter writes `NAME=value` as one glob, so a star in a name could run past the
`=`, and whether a name may be a pattern is not said anywhere either.

**The five violations** are disagreements between the code and its documentation;
each finding in `PROJECT.json` quotes the line.

1. `composite_evaluator` leaves `res` unassigned for an operator outside the
   enumeration (`evaluator.c:190`).  With children, `DoOper` makes it ABSTAIN; with
   none, the uninitialised value is returned.
2. `perform_actions` overwrites `res`, so the "total number of errors" forgets a failed
   action that is followed by a successful one (`evaluator.c:294`).
3. The matcher tests equality before `*` (`evaluator_default.c:114`): `*` does not match
   `**`.  `WildcardComplete` shows that a star in the *string* is the only way for
   this to happen.
4. `evaluator.c:42` abstains when the context holds an error, which reading an id out
   of range leaves there: after a leaf with an id of a newer schema, *every later
   leaf* of the policy that has a default evaluator abstains in C, and only that
   leaf in Go, although `doc.go` promises the same of both.
5. `print_evaluation_trace` counts as open only the parentheses of AND, OR and NOT, but a
   composite with an operator of a newer schema has children too
   (`basic-reader.c:116`): below it "the number of parentheses left open" is not "just
   the depth the next record sits at".

**Disagreements without a run of their own.**  Two more were met, where a passing property
says what the code does and the comment is wrong, or the other way round.

- *The debugger's unsigned numbers.*  `evaluators.fbs:76` says of the value of a `UNumEvaluator`
  "The value is an unsigned long.", and `basic-debugger.c:49` prints it with the signed `PRId64`:
  2^63 is shown as -2^63.  `basic-reader.c:151` prints the same value with `%lu`, as it is.
  `DumpCoversTrace` states both, and would fail for a dump equal to the trace.
- *The comments of `libc.go`.*  "supported: true + version → DENY if version < min" (line 110) and
  "supported: false + version → DENY if version >= min" (line 117) are what the code does, the
  tests expect, and `DeniesUnsupportedLibc` says.  Other comments contradict them.  Line 120, "(major ==
  minMajor AND minor >= minMinor)", would deny 2.30.4 where the minimum is 2.30.5.  Lines 131
  and 151 say "<" of the builder that compares with LTE, and lines 168 and 188 ">=" of the one
  that compares with GT.  That the engine puts the policy's value on the left of a comparison
  explains why a "less" builder serves `>=`, but not these: strict and not strict differ at
  the minimum itself, where a converter that followed them would violate the property.

### Fairness

`Termination` of the engine assumes weak fairness of the engine's own steps and of
the return of callbacks: one thread runs, nothing blocks, and a callback that
never returns is the host's fault.  It assumes nothing of the host's context
calls, which are bounded, nor that anyone calls the engine.  The matcher is a
plain function: weak fairness of its only next step says that it keeps running.

### Deadlock

Deadlock is checked in the runs of the engine.  The matcher stops when it has
returned, a document when it is decoded and the conformance test when no vector
is left or the next one is rejected, hence `CHECK_DEADLOCK FALSE` in their
configurations, and in those of the example programs and the converter, which exit.

## 4. Theorems

All hold for every value of the constants: any forest of nodes (even one with
cycles, which a FlatBuffer cannot have), any policies, any host, any bound; any
pattern and any string; any document of the Go package; any corpus of the
conformance test; any requirements file; any policy file with at most one flaw.

| Theorem | Statement |
|---|---|
| `PolicyEngine_proofs!TypeCorrect` | `Spec => []TypeOK` |
| `PolicyEngine_proofs!StackBounded` | `Spec => []StackBound` |
| `PolicyEngine_proofs!ErrorIsolation` | `Spec => []ErrorIsolated` |
| `PolicyEngine_proofs!OneObserver` | `Spec => []OneObserverPerPolicy` |
| `PolicyEngine_proofs!VerdictDelivered` | `Spec => []ActionsSeeVerdict` |
| `PolicyEngine_proofs!ActionsComplete` | `Spec => []NoActionLost` |
| `PolicyEngine_proofs!JudgeImplemented` | `Spec => ImplementsJudge` |
| `PolicyWalk_proofs!VerdictIsKleene` | `Spec => []VerdictSound` |
| `PolicyWalk_proofs!StopsEarly` | `Spec => []StopsWhenDecided` |
| `PolicyWalk_proofs!CallbacksNest` | `Spec => []WellFramed` |
| `Wildcard_proofs!InBounds` | `Spec => []TypeOK` |
| `Wildcard_proofs!LoopProgress` | `Spec => Progress` |
| `Wildcard_proofs!WildcardSoundness` | `Spec => []WildcardSound` |
| `Wildcard_proofs!WildcardCompleteness` | `Spec => []WildcardComplete` |
| `Wildcard_proofs!ComparatorsAgreement` | `Spec => []ComparatorsAgree` |
| `Wildcard_proofs!MatchersAgreement` | `Spec => []MatchersAgree` |
| `Conformance_proofs!EnginesAlwaysAgree` | `Spec => []EnginesAgree` |
| `Conformance_proofs!NewerNeverDecides` | `Spec => []NewerDecidesNothing` |
| `GoPolicies_proofs!OutcomesRight` | `Spec => []OutcomeOfActionsRun` |
| `GoPolicies_proofs!VariablesInOrder` | `Spec => []ConfigsInOrder` |
| `GoPolicies_proofs!PolicyIsolation` | `Spec => []PoliciesIsolated` |
| `RequirementsMeaning_proofs!NoRuleDropped` | `ConverterSpec => []AllOrNothing` |
| `RequirementsMeaning_proofs!DenyRulesMean` | `ConverterSpec => []DeniesWhatRulesSay` |
| `RequirementsMeaning_proofs!LibcRulesMean` | `ConverterSpec => []DeniesUnsupportedLibc` |
| `ReaderProperties_proofs!VerifierCorrect` | `\A f \in Files : VerifyAsRoot(f) <=> f \in ReadableFiles` |
| `ReaderProperties_proofs!ReadersEvaluateReadable` | `ExamplesSpec => []OnlyReadableEvaluated` |
| `GoEngine_proofs!EvaluateEquation` | `Evaluate` is the root's result in a function that gives every place of a document the result its children make |

**The engine.**  `TypeOK` alone is not inductive: `NextChild` reads a child of the top frame's
node, which is a child only if the node is a composite and the index in range;
`ReturnToComposite` reads the frame below, which must exist; actions of a policy are
read through `pix`.  `Inv` adds `Located` (a policy is being evaluated exactly where the
code assumes one, and the stack is empty elsewhere), `Path` (frame i has depth i - 1,
and all but the last are composites above the cap) and `AtTop` (what each place knows
of the innermost frame).  `StackBound` is then a line: the last frame's depth is the
length of the stack less one, and a frame is pushed only from one above the cap.
There is one lemma for each action.

**The history.**  `ErrorIsolated` needs to know why the context's error is set:
`PolicyEngine_proofs` strengthens it with *if the context holds an error while a
policy is evaluated, an event of this policy raised it*, which holds because
`BeginPolicy` clears error and history in one step and because every step that sets the
error logs an event.  `OneObserverPerPolicy` and `ActionsSeeVerdict` need only what each
place says of the events so far.  Most steps log nothing or one event that no
part of the invariant is about, and are disposed of by two lemmas, `SilentStep` and
`LogStep`.

**The actions.**  `Acting` says what the history has of `perform_actions` while it runs: the
events of actions are in the order of the list, all before `aix` (`Ordered`), none of an
oversized one (`Sized`), and, if the host did not intervene, they are exactly the handled ones before `aix`, none of them
oversized (`Performed`).  At `policy_done` this is `NoActionLost`.  For the refinement every
action of `Engine` is shown to be one of `PolicyJudge` or to leave its four variables
alone; what the last action was told is in the history, hence `Ordered` again.

**The walk.**  `Walking` ties the stack to the history.  `Linked`: each frame is the call for
the child that the frame below it counted last.  `Turns` and `Placed`: the children a frame
has counted have values in the history that did not decide it, and everything in the
history had its turn under a parent that has a value or is still on the stack;
`StopsWhenDecided` is `Placed` with an empty stack.  `Framed`: a node that was entered is
open exactly while its frame is on the stack, with the frame's handle.

`Valued` is the one for `VerdictSound`, and it quantifies over *valuations* of all places,
reached or not, that agree with the history: under each, the accumulator of a frame
is the Kleene value of the children counted so far, and every value in the history is
the Kleene value of *all* its children.  A short circuit keeps it because a decided
accumulator is the Kleene value whatever the rest is.  Kleene logic over the tree is a
recursive function.  When a policy is done, `Record` with the guesses is by `Valued` a
solution of that recursion, so there is one; and there is no other, without induction
over data: two solutions that differed would differ at a deepest place, as depths are
bounded by the cap, and there their children agree.

**The matcher.**  The pointers never fall behind the place to go back to (`Ahead`); the
pattern's terminator is no star, so skipping stars stops inside the string,
by the well-foundedness of `<` on the naturals.

What a glob matches is a recursive function over pairs of places, and the matcher
never looks at it that way.  The proof gives the recursion an explicit solution: an
*alignment* of a pattern with a string tells for each place of the pattern where in
the string it begins, and `GlobEquation` shows that "there is an alignment" solves the
recursion, and alone does.  The matcher then has two invariants.  `Promising`: a match
of what is left of the pattern with what is left of the string makes a match of the
whole; so `TRUE` is sound.  `NothingMissed` is about strings without a star.  Before the
first star was met, a match of the whole is one of what is left from here.  After
that, if there is a match at all, the pattern from the last star on matches from the
place to go back to or from a later byte, and every such match carries over to the
pointers, moved along by as many bytes, because between the last star and the pointers
there is no star.  This is where *going back to the last star is enough* is proved; that
it fails for strings with a star is the finding `wildcard_star`.

The Go matcher is the same loop as a recursive function of its variables; *runs* of turns
solve that recursion (`GoEquation`), and `SameTurn` says that from the turn the C machine
is at, the recursion comes to the answer of `wildcardMatch`.

**The two engines.**  One is a machine with a stack that stops early, the other a
recursion over all children.  `GoEngine_proofs` turns the recursion into an equation:
its loops over children are functions of the *set* of their results (`OrOfAll`, `AndOfAll`),
and `EvaluateEquation` says that `Evaluate` gives each place, a node at a depth, the
result that its children make.  A solution exists because depths are bounded by the
cap: it is built from the deepest places up, one depth at a time.

The invariant `Inv` of `Conformance_proofs` has four parts.  `Begun`: what the harness has
prepared, so that `conf_reset` has left no parameter of an earlier vector (`Ready`) and
what an evaluator returns is a function of its node and the facts.  `Linked`: each
frame is the call for the child that the frame below it counted last.  `AtTop`: what
each place of the engine says of the innermost frame.  `Agreed`: the accumulator of each
frame *meets* what Go makes of the children that have returned to it, and so does a
result that is being returned.

Both properties come from one invariant.  *Meets* is equality when it is about the
document itself, all of whose ids are known; then `Agreed` also says that the context has
no error, as no leaf can raise one, and at the end it is `EnginesAgree`.  For a *reading*, a
document in which constants stand in for what neither engine understands, to meet a
result is to be that result or ABSTAIN.  An error that makes later leaves abstain
keeps this, and at the end it is the half of `NewerDecidesNothing` that is about C;
the other half compares the solutions for two readings of one document, from the
deepest places up.  The leaves are compared case by case: strings in the default
evaluator, labels and numbers in those of the harness, where a parameter that was
not set is a fact that is absent (`StringLeafAgrees`, `LabelLeafAgrees`,
`NumberLeafAgrees`).

`Agreed` speaks of every reading and every solution, so TLC cannot evaluate it; the two
properties that follow from it are in the run.  The assumptions are in `Conformance`:
the children of a node are nodes, the string values are those that the parameter `Cut`
cuts at their separator, a corpus of the test has no lists, its facts are not null, and the names of the
enumerations are distinct.

**The Go decoder.**  `DecoderInv` says of the policy being decoded what its `Outcome` accounts
for: exactly the settings before the current value (`InPolicy`), in the words of
`OutcomeOfActionsRun` and `ConfigsInOrder`, which are about policies that are done; and of
those done that `out` and `skipped` are in the order of the document (`Sorted`).

**The converter.**  A conversion that did not fail says of its rule that it was
convertible, in each of its parts; the invariant `Converting` keeps this for the rules
counted so far, and the output file is touched, and success reported, only when all
are.  That is `NoRuleDropped`.  Writing may fail with nothing, a part or all of it
written (`os.WriteFile` also reports an error of `Close`), so an output that is complete
does not mean success.

What the policies *mean* is a statement about two programs, the converter and the engine
that evaluates its trees, and no state of the converter holds a result.  The proof goes
up from the engine:

- *Trees.*  `EvaluateEquation`, at the nodes of a tree's `Document`, makes the result of a
  composite that of its children, one level down; a tree of the converter has up to four
  levels (`Flat`, `Low`, `Trees`), so four applications of one lemma, `LevelUp`, do what an
  induction over trees would.  `TreeResult`: a tree is TRUE exactly if it is in `TrueTrees`,
  which are built of the leaves that are TRUE.
- *Leaves.*  A leaf on a fact compares with that fact, one on a list with all of its
  texts; `PositionFact` and `PositionOf` say that the fact with the id of a position is
  the argument at that place of `argv`, from the start or from the end, if there is one.
- *Globs.*  A pattern without a star or a question mark matches itself, `?*` what is not
  empty (`PlainGlob`, `SomethingGlob`).  `KeyGlob` is the one with work in it: a glob
  `NAME=value` matches a variable's text exactly if the name is the same and the glob `value`
  matches its value, because the characters of a plain name end where they begin and
  no variable has an `=` in its name.
- *Versions.*  `VersionDenied`: the tree of LT, LTE, GT and EQ over two or three components
  is the lexicographic order, the components that are not compared being 0.
- *Rules.*  `DenyDenied` and `LibcDenied` put the parts of one rule together, for whichever
  order the variables come in.

`DeniesWhatRulesSay` and `DeniesUnsupportedLibc` are not inductive, as they speak of the
finished output.  `Meant` is what they need: the policies so far are the first
`converted` deny rules' one by one, and behind them those of the libc rules counted so
far, each with the meaning of its rule, a rule whose versions are all supported having
none.  Ties of policies to rules would break with one conversion that adds two policies
or skips a rule, which is why the invariant counts both.  `Meant` and `Converting` hold
in the run's model too.

**The verifier.**  `VerifierCorrect` compares two descriptions of a file that share nothing but
its tables: `VerifyAsRoot`, a recursion over fields in the order of the generated verifiers, and
`ReadableFiles`, which says of each table on its own that its offsets lead somewhere and its
unions are whole.  They could part in two ways: a table that no verifier looks at may be
damaged, or a verifier may refuse what the accessors never follow.

- *The recursion has solutions, and any will do.*  `FileBytes` is a graph; whether the verifier's
  recursion ends is a matter of the document.  The largest set of tables that vouch for each other
  is *stable* (`StableSet`), a solution is a stable set (`SolvesStable`), and the two lemmas
  below are about every stable set, so that no termination argument is needed for the verifier.
- *What passes can be read* (`VerifiedReadable`).  A table that is vouched for can be read
  (`VouchedReadable`), and so can one that is as the compiler left it (`IntactReadable`).  The one
  table that is not is vouched for: if all that are vouched for were intact, the verifier
  would get from the root to every table of the file (`IntactReached`), along the
  nodes below the root of each policy (`BelowNodes`), and so to the damaged one.
- *What can be read passes* (`ReadableVerified`).  Leaves are vouched for, and any other table once
  those that it leads to are; if a node were not, a lowest such node (`LowestNode`, where documents
  must not have cycles) would be one whose children all are.  `IntactPolicies` to `IntactOther` say
  what the compiler writes in each kind of table, `VouchedRoles` what its verifier asks.

`OnlyReadableEvaluated` is then about the programs.  Its invariant, `Course`, ties three things
that are set at different times: what was opened (`Opening`), what the engine was handed
and has counted (`Evaluating`: a total of 0 means the file was verified, and a total that is
not 0 has one of the property's three reasons), and the handlers, because `AbortActions`
makes an error only for an action that *has* a handler, and the property asks for it
in the context that is left at the end (`KeepsHandlers`).

Two proof patterns recur.  The library's induction theorems take an operator, which
the provers cannot instantiate, so induction over a number is induction over the *set*
of numbers at which a statement holds (`Counting`), or the least, or the deepest,
counterexample (`LeastOne`).  And equal truth values are compared as equivalences.

The assumptions are the constants' types, named in the modules that declare
them; TLC evaluates them in every run.  `Wildcard` assumes that the star, the question
mark and the terminator are different bytes.  Those of the converter are these:

- `InputsAssumption`: what `json.Unmarshal` and the validation of a libc rule's version make
  of a file that they accept: rules in lists, texts of characters, at least two parts of
  a version.
- `ProcessesAssumption`: the facts that a host has of a process.  The name of a variable has
  no `=`, as in any environment, and no part of a version is the number that means
  *not set*.
- `TextsAssumption`: on the patterns and the texts at hand, the comparator WILDCARD is the
  glob and EXACT equality.  For texts without stars this is what `Wildcard_proofs` shows
  of the matcher; texts for which it fails (see the third violation) are not covered.
- `NamesAssumption`, `NumbersAssumption`: names of systems, architectures and libcs are compared
  as they are, and parts of versions are integers that 64 bits hold.
- `IdsAssumption`, `DepthAssumption`: the engine is one that knows the ids and comparators of
  this schema, and its cap is at least the depth of the trees (64 in the code).
- `AbsentAssumption`: the values that stand for *nothing* are no values.

Those of a policy file, in `PolicyBuffer`:

- `FilesAssumption`, `BytesAssumption`: a file is what the compiler makes of a list of policies that
  compiles, with at most one flaw.
- `DocumentsAssumption`: a JSON text is finite and nests, so no node is below itself; a node that
  is no evaluator has none; a type that a newer schema adds is none of this schema's.
- `OffsetsAssumption`: NULL, which stands for a field that is absent, is no value of a field, and
  the compiler itself writes no offset that leads out of its buffer.
- `TablesAssumption`, `ProgramAssumption` in `BasicReader`: what the engine's constants are when they
  are read from the tables of these files.

### Only model-checked

- `Termination` of the engine and of the matcher: liveness under fairness.
- The other properties of the example programs.  `RecordsInTreeOrder`, `ParenthesesEncloseDescendants`
  and `DumpCoversTrace` compare lists of lines that are made by recursion;
  `NamesSurvive` goes through enumerations of this schema, and `DecidedByItsOwnFacts` is true of
  the files of the run (none of them has a leaf of an unknown id before one that
  decides), not of every file.

## 5. Plan

Everything of the first plan is modelled.  What is left to prove of the example programs is
`RecordsInTreeOrder`, from the invariants of the walk and one about handles.

## 6. Not modelled

- **Bytes of a file.**  A policy file is a graph of tables; alignment, vtables and
  the arithmetic of the verifiers are the FlatBuffers runtime's, outside this
  repository.  The flaws of `basic_reader` are of offsets and required fields.  The runtime's
  verifier also has a limit on how deep tables nest, so it refuses a very deep tree that the
  accessors could read; `VerifierCorrect` and `OnlyReadableEvaluated` are about files within
  that limit.
- **Strings that are absent** and printed with `%s` by the debugger: what the C library makes of
  a null pointer there, "(null)" or worse, is NULL in the dump.
- **Parsing** of JSON and of version strings: an input that does not parse is one
  value.  The ANTLR parser and its visitor, generated and not used by the programs
  modelled here.
- **`value_sets.c`**: stateless tables of strings that the engine does not read.
- **The fuzz target**: the engine on any bytes, for memory errors, which a model does
  not have.  Memory, other than a result that is uninitialised, is not modelled.
- **The path value example**, an example generator: it turns a JSON list of path
  conditions into policies with the builders the requirements converter uses, each
  unknown name replaced by a default.  It has no state; what it writes is one more
  policy file for the modelled readers.
- **Wording**: descriptions, uuids, versions of policies and log lines, except where
  they identify a node in what a program prints.
- **Widths**: numbers have three bits in the run of the two engines, and `long` is as wide as a policy's
  number.  Strings have at most four bytes (unbounded in the proofs of the matcher).
- The conformance harness keeps at most 32 labels and 256 bytes of a value; no
  vector comes near.  The facts of Go's `Context` are taken as given: building one
  from a process is the caller's.
