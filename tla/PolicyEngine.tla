---------------------------- MODULE PolicyEngine ----------------------------
(***************************************************************************)
(* The C engine of evaluator.c as a machine: one call of                   *)
(* plcs_evaluate_buffer_early_exit, the policies of its buffer, the        *)
(* recursive walk of evaluate_rules and composite_evaluator over a         *)
(* policy's rule tree (an explicit stack, one frame per active call), and  *)
(* perform_actions.                                                        *)
(*                                                                         *)
(* The program has one thread, and yet steps interleave: custom            *)
(* evaluators, the observer's callbacks, action handlers and should_stop   *)
(* are host code, which may call the context API before it returns.  `pc`  *)
(* is therefore either a point inside the engine or the callback that the  *)
(* host is executing.                                                      *)
(***************************************************************************)
EXTENDS TriState, EvalCtx, Sequences

CONSTANTS
  Nodes,          \* the nodes of every rule tree
  Tree,           \* what each node holds
  Cmps,           \* comparators this version knows
  Compare(_, _, _, _),  \* the default evaluators: kind, comparator, policy, process value
  Policies,       \* the policies
  Policy,         \* each policy's root and its actions
  Buffers,        \* buffers a caller may pass: sequences of policies
  Callbacks,      \* which of the four callbacks each observer provides
  Handles,        \* what a node_enter callback may return
  HostErrors,     \* what an action handler may return
  Setups,         \* contexts the host may have prepared before the first call
  MaxEvalDepth,   \* PLCS_MAX_EVAL_DEPTH
  MaxHostCalls    \* bound: context calls the host makes from now on

CallbackNames == {"policy_enter", "policy_exit", "node_enter", "node_exit"}

NodeRecords ==
  [kind     : Kinds \cup {"comp", "unknown"},
   op       : Ops,
   children : Seq(Nodes),
   id       : StrIds \cup NumIds \cup {NULL},
   cmp      : Cmps \cup {"UNKNOWN", "BEYOND"},
   value    : Params]

ActionRecords == [id : ActionIds \cup {NULL}, oversized : BOOLEAN]

ASSUME TreeAssumption ==
  /\ NULL \notin Nodes \cup Policies
  /\ Tree \in [Nodes -> NodeRecords]
  /\ Policy \in [Policies -> [rules   : Nodes \cup {NULL},
                              actions : Seq(ActionRecords)]]
  /\ Buffers \subseteq Seq(Policies \cup {NULL})
ASSUME CompareAssumption ==
  \A k \in Kinds, cmp \in Cmps, p \in Params, v \in Params :
    Compare(k, cmp, p, v) \in Results
ASSUME HostAssumption ==
  /\ Callbacks \in [Observers -> SUBSET CallbackNames]
  /\ Handles \subseteq Nat
  /\ HostErrors \subseteq Errors
  /\ Setups \subseteq Contexts
ASSUME BoundAssumption == MaxEvalDepth \in Nat /\ MaxHostCalls \in Nat

VARIABLES
  ctx,        \* the evaluation context
  pc,         \* where the engine is, or the callback the host executes
  buffer,     \* the policies of the buffer
  pix,        \* index of the current policy
  stopFn,     \* whether the caller passed a should_stop
  watcher,    \* the observer evaluate_policy read when the policy began
  stack,      \* active calls of evaluate_rules, the innermost last
  ret,        \* what the last evaluator or evaluate_rules returned
  verdict,    \* the policy's evaluation result
  aix,        \* index of the current action
  actRes,     \* `res` of perform_actions
  total,      \* total_errors, and what the last call returned
  trace,      \* history: what happened in this policy, for the properties
  hostCalls   \* history: context calls made, for the bound

evalVars == <<buffer, pix, stopFn, total>>
walkVars == <<watcher, stack, ret, verdict>>
actVars  == <<aix, actRes>>
vars == <<ctx, pc, evalVars, walkVars, actVars, trace, hostCalls>>

-----------------------------------------------------------------------------
(* Frames, events and the history of a policy *)

Frames ==
  [node : Nodes, depth : Nat, ix : Nat, res : Outcomes, handle : Nat]

Frame(n, d) == [node |-> n, depth |-> d, ix |-> 0, res |-> "ABSTAIN", handle |-> 0]

Top == stack[Len(stack)]
Node == Tree[Top.node]
Entry == <<Node.kind, Node.id>>

Pop == SubSeq(stack, 1, Len(stack) - 1)
SetTop(f) == [stack EXCEPT ![Len(stack)] = f]

(***************************************************************************)
(* Besides the calls of the observer and of the handlers ("action"), the   *)
(* history keeps what every evaluate_rules returned ("value"), each leaf   *)
(* that raised the context's error ("raise") or abstained because of one   *)
(* ("gate"), and each context call of the host ("call", with the error it  *)
(* left).                                                                  *)
(***************************************************************************)
EventNames == CallbackNames \cup {"value", "gate", "raise", "call", "action"}

Events ==
  [ev : EventNames, obs : Observers \cup {NULL}, node : Nodes \cup {NULL},
   depth : Nat, handle : Nat, res : Outcomes, ix : Nat, rc : Errors]

Event(name) ==
  [ev |-> name, obs |-> NULL, node |-> NULL, depth |-> 0, handle |-> 0,
   res |-> "ABSTAIN", ix |-> 0, rc |-> ESUCCESS]

FrameEvent(name, obs, f, r) ==
  [Event(name) EXCEPT !.obs = obs, !.node = f.node, !.depth = f.depth,
                      !.handle = f.handle, !.res = r]

Log(e) == trace' = Append(trace, e)

-----------------------------------------------------------------------------
(* The observer *)

\* Mutant: every callback goes to whoever is installed at that moment.
WatchingInstalled == ctx.observer

\* evaluate_policy reads the observer once and hands that one down.
Watching == watcher

Reports(cb) == Watching # NULL /\ cb \in Callbacks[Watching]

\* Mutant: one handle for the whole walk, the one node_enter returned last.
LatestHandle(f) ==
  LET enters == {i \in DOMAIN trace : trace[i].ev = "node_enter"}
  IN  IF enters = {} THEN 0
      ELSE trace[CHOOSE i \in enters : \A j \in enters : j <= i].handle

\* node_exit gets back what this node's node_enter returned.
ExitHandle(f) == f.handle

\* plcs_describe_node reads the process value once more, which reports an id
\* out of range a second time.
DescribeNode(c) == IF Node.kind \in Kinds THEN ReadEntry(c, Entry) ELSE c

-----------------------------------------------------------------------------
(* plcs_evaluate_buffer_early_exit and evaluate_policy *)

\* A buffer that does not verify, or has no policies, is NULL here.
EvaluateBuffer(b, s) ==
  /\ pc = "idle"
  /\ IF b = NULL
       THEN total' = ENO_DATA /\ UNCHANGED <<pc, buffer, pix, stopFn>>
       ELSE /\ pc' = "policies"
            /\ buffer' = b
            /\ pix' = 1
            /\ stopFn' = s
            /\ total' = ESUCCESS
  /\ UNCHANGED <<ctx, walkVars, actVars, trace, hostCalls>>

SkipPolicy ==
  /\ pc = "policies"
  /\ pix <= Len(buffer)
  /\ buffer[pix] = NULL
  /\ pix' = pix + 1
  /\ UNCHANGED <<ctx, pc, buffer, stopFn, total, walkVars, actVars, trace, hostCalls>>

\* Mutant: the error of a previous policy stays in the context.
ErrorLeaks(c) == c

\* "a malformed node in a previous policy must not leak its error into this one"
ForgetError(c) == SetError(c, ESUCCESS)

BeginPolicy ==
  /\ pc = "policies"
  /\ pix <= Len(buffer)
  /\ buffer[pix] # NULL
  /\ ctx' = ForgetError(ctx)
  /\ watcher' = ctx.observer
  /\ IF ctx.observer # NULL /\ "policy_enter" \in Callbacks[ctx.observer]
       THEN /\ pc' = "policy_enter"
            /\ trace' = <<[Event("policy_enter") EXCEPT !.obs = ctx.observer]>>
       ELSE /\ pc' = "root"
            /\ trace' = << >>
  /\ UNCHANGED <<evalVars, stack, ret, verdict, actVars, hostCalls>>

PolicyEnterReturns ==
  /\ pc = "policy_enter"
  /\ pc' = "root"
  /\ UNCHANGED <<ctx, evalVars, walkVars, actVars, trace, hostCalls>>

\* Mutant: a policy without rules has the result of the policy before it.
EvaluateRootOrKeep ==
  /\ pc = "root"
  /\ LET root == Policy[buffer[pix]].rules IN
       IF root = NULL THEN pc' = "verdict" /\ UNCHANGED stack
                      ELSE pc' = "rules" /\ stack' = <<Frame(root, 0)>>
  /\ UNCHANGED <<ctx, evalVars, watcher, ret, verdict, actVars, trace, hostCalls>>

\* A policy without rules abstains, and no node is entered.
EvaluateRoot ==
  /\ pc = "root"
  /\ LET root == Policy[buffer[pix]].rules IN
       IF root = NULL
         THEN /\ verdict' = "ABSTAIN"
              /\ pc' = "verdict"
              /\ UNCHANGED stack
         ELSE /\ stack' = <<Frame(root, 0)>>
              /\ pc' = "rules"
              /\ UNCHANGED verdict
  /\ UNCHANGED <<ctx, evalVars, watcher, ret, actVars, trace, hostCalls>>

ReportVerdict ==
  /\ pc = "verdict"
  /\ aix' = 1
  /\ actRes' = ESUCCESS
  /\ IF Reports("policy_exit")
       THEN /\ pc' = "policy_exit"
            /\ Log([Event("policy_exit") EXCEPT !.obs = Watching, !.res = verdict])
       ELSE pc' = "actions" /\ UNCHANGED trace
  /\ UNCHANGED <<ctx, evalVars, walkVars, hostCalls>>

PolicyExitReturns ==
  /\ pc = "policy_exit"
  /\ pc' = "actions"
  /\ UNCHANGED <<ctx, evalVars, walkVars, actVars, trace, hostCalls>>

\* The policy's errors are added up, then should_stop is asked, if there is one.
EndPolicy ==
  /\ pc = "policy_done"
  /\ total' = total + actRes
  /\ pix' = pix + 1
  /\ pc' = IF stopFn THEN "stop" ELSE "policies"
  /\ trace' = << >>
  /\ UNCHANGED <<ctx, buffer, stopFn, walkVars, actVars, hostCalls>>

\* The locals of a call that returns are gone.
Forget == buffer' = << >> /\ pix' = 1 /\ stopFn' = FALSE

ShouldStopReturns(stop) ==
  /\ pc = "stop"
  /\ IF stop THEN pc' = "idle" /\ Forget
             ELSE pc' = "policies" /\ UNCHANGED <<buffer, pix, stopFn>>
  /\ UNCHANGED <<ctx, total, walkVars, actVars, trace, hostCalls>>

BufferDone ==
  /\ pc = "policies"
  /\ pix > Len(buffer)
  /\ pc' = "idle"
  /\ Forget
  /\ UNCHANGED <<ctx, total, walkVars, actVars, trace, hostCalls>>

-----------------------------------------------------------------------------
(* evaluate_rules: entering and leaving a node *)

\* Mutant: off by one, a level more than the code walks.
TooDeepByOne(d) == d > MaxEvalDepth + 1

TooDeep(d) == d > MaxEvalDepth

\* A node beyond the cap abstains, and the observer hears nothing of it.
CutNode ==
  /\ pc = "rules"
  /\ TooDeep(Top.depth)
  /\ ret' = "ABSTAIN"
  /\ pc' = "return"
  /\ UNCHANGED <<ctx, evalVars, watcher, stack, verdict, actVars, trace, hostCalls>>

EnterNode ==
  /\ pc = "rules"
  /\ ~TooDeep(Top.depth)
  /\ pc' = IF Reports("node_enter") THEN "node_enter" ELSE "node"
  /\ UNCHANGED <<ctx, evalVars, walkVars, actVars, trace, hostCalls>>

\* The event is logged when the callback returns, with the handle it chose.
NodeEnterReturns(h) ==
  /\ pc = "node_enter"
  /\ LET f == [Top EXCEPT !.handle = h] IN
       /\ stack' = SetTop(f)
       /\ Log(FrameEvent("node_enter", Watching, f, "ABSTAIN"))
  /\ pc' = "node"
  /\ UNCHANGED <<ctx, evalVars, watcher, ret, verdict, actVars, hostCalls>>

LeaveNode ==
  /\ pc = "leave"
  /\ IF Reports("node_exit")
       THEN /\ ctx' = DescribeNode(ctx)
            /\ pc' = "node_exit"
            /\ Log(FrameEvent("node_exit", Watching,
                              [Top EXCEPT !.handle = ExitHandle(Top)], ret))
       ELSE pc' = "return" /\ UNCHANGED <<ctx, trace>>
  /\ UNCHANGED <<evalVars, walkVars, actVars, hostCalls>>

NodeExitReturns ==
  /\ pc = "node_exit"
  /\ pc' = "return"
  /\ UNCHANGED <<ctx, evalVars, walkVars, actVars, trace, hostCalls>>

-----------------------------------------------------------------------------
(* node_evaluator: the leaves *)

\* An EvaluatorNode with an evaluator, or a node type, that a newer schema added.
EvaluateUnknown ==
  /\ pc = "node"
  /\ Node.kind = "unknown"
  /\ ret' = "ABSTAIN"
  /\ pc' = "leave"
  /\ UNCHANGED <<ctx, evalVars, watcher, stack, verdict, actVars, trace, hostCalls>>

(***************************************************************************)
(* evaluate_string, evaluate_numeric and evaluate_unumeric read the        *)
(* parameter, give up on a number that is not set, look the evaluator up   *)
(* and then call it only when the context holds no error, whoever raised   *)
(* it.                                                                     *)
(***************************************************************************)
ParamMissing == Node.kind # "str" /\ GetParam(ctx, Entry) = NotSet(Node.kind)
Consults == ~ParamMissing /\ ReadEntry(ctx, Entry).error = ESUCCESS

LeafAbstains ==
  /\ pc = "node"
  /\ Node.kind \in Kinds
  /\ ~Consults
  /\ ctx' = ReadEntry(ctx, Entry)
  /\ ret' = "ABSTAIN"
  /\ pc' = "leave"
  /\ IF Entry \notin Entries THEN Log(FrameEvent("raise", NULL, Top, "ABSTAIN"))
     ELSE IF ~ParamMissing THEN Log(FrameEvent("gate", NULL, Top, "ABSTAIN"))
     ELSE UNCHANGED trace
  /\ UNCHANGED <<evalVars, watcher, stack, verdict, actVars, hostCalls>>

\* The default evaluators abstain on a missing string and on a comparator they
\* do not know; one outside the enumeration is reported on the entry.
DefaultResult(n, v) ==
  IF n.kind = "str" /\ NULL \in {n.value, v} THEN "ABSTAIN"
  ELSE IF n.cmp \in Cmps THEN Compare(n.kind, n.cmp, n.value, v)
  ELSE "ABSTAIN"

DefaultError(c, n, v) ==
  IF n.cmp = "BEYOND" /\ ~(n.kind = "str" /\ NULL \in {n.value, v})
    THEN SetEvalError(c, Entry, EUNKNOWN_CMP) ELSE c

CallDefaultEvaluator ==
  /\ pc = "node"
  /\ Node.kind \in Kinds
  /\ Consults
  /\ GetEvaluator(ctx, Entry) = NULL
  /\ ret' = DefaultResult(Node, GetParam(ctx, Entry))
  /\ ctx' = DefaultError(ctx, Node, GetParam(ctx, Entry))
  /\ pc' = "leave"
  /\ UNCHANGED <<evalVars, watcher, stack, verdict, actVars, trace, hostCalls>>

CallHostEvaluator ==
  /\ pc = "node"
  /\ Node.kind \in Kinds
  /\ Consults
  /\ GetEvaluator(ctx, Entry) # NULL
  /\ pc' = "evaluator"
  /\ UNCHANGED <<ctx, evalVars, walkVars, actVars, trace, hostCalls>>

EvaluatorReturns(r) ==
  /\ pc = "evaluator"
  /\ ret' = r
  /\ pc' = "leave"
  /\ UNCHANGED <<ctx, evalVars, watcher, stack, verdict, actVars, trace, hostCalls>>

-----------------------------------------------------------------------------
(* composite_evaluator *)

\* The frame on top has called its first `ix` children.
CallChild(f) ==
  stack' = Append(SetTop([f EXCEPT !.ix = @ + 1]),
                  Frame(Node.children[f.ix + 1], f.depth + 1))

\* "CAN ONLY HAVE ONE CHILD!"
BeginNot ==
  /\ pc = "node"
  /\ Node.kind = "comp"
  /\ Node.op = "NOT"
  /\ IF Len(Node.children) = 1
       THEN CallChild(Top) /\ pc' = "rules" /\ UNCHANGED ret
       ELSE ret' = "ABSTAIN" /\ pc' = "leave" /\ UNCHANGED stack
  /\ UNCHANGED <<ctx, evalVars, watcher, verdict, actVars, trace, hostCalls>>

BeginComposite ==
  /\ pc = "node"
  /\ Node.kind = "comp"
  /\ Node.op # "NOT"
  /\ \E r \in InitialResults(Node.op) : stack' = SetTop([Top EXCEPT !.res = r])
  /\ pc' = "loop"
  /\ UNCHANGED <<ctx, evalVars, watcher, ret, verdict, actVars, trace, hostCalls>>

NextChild ==
  /\ pc = "loop"
  /\ Top.ix < Len(Node.children)
  /\ CallChild(Top)
  /\ pc' = "rules"
  /\ UNCHANGED <<ctx, evalVars, watcher, ret, verdict, actVars, trace, hostCalls>>

ChildrenDone ==
  /\ pc = "loop"
  /\ Top.ix = Len(Node.children)
  /\ ret' = Top.res
  /\ pc' = "leave"
  /\ UNCHANGED <<ctx, evalVars, watcher, stack, verdict, actVars, trace, hostCalls>>

\* A child of a NOT returns: its composite returns the negation.
ReturnToNot ==
  /\ pc = "return"
  /\ Len(stack) > 1
  /\ Tree[stack[Len(stack) - 1].node].op = "NOT"
  /\ stack' = Pop
  /\ ret' = DoNot(ret)
  /\ pc' = "leave"
  /\ Log(FrameEvent("value", NULL, Top, ret))
  /\ UNCHANGED <<ctx, evalVars, watcher, verdict, actVars, hostCalls>>

\* A child of any other composite returns: its result is folded in, and the
\* loop goes on unless that decided the composite.
ReturnToComposite ==
  /\ pc = "return"
  /\ Len(stack) > 1
  /\ LET f == stack[Len(stack) - 1]
         op == Tree[f.node].op
         r == DoOper(op, f.res, ret)
     IN  /\ op # "NOT"
         /\ stack' = [Pop EXCEPT ![Len(stack) - 1] = [f EXCEPT !.res = r]]
         /\ IF ShortCircuits(op, r)
              THEN ret' = r /\ pc' = "leave"
              ELSE pc' = "loop" /\ UNCHANGED ret
  /\ Log(FrameEvent("value", NULL, Top, ret))
  /\ UNCHANGED <<ctx, evalVars, watcher, verdict, actVars, hostCalls>>

\* The root returns to evaluate_policy.
ReturnToPolicy ==
  /\ pc = "return"
  /\ Len(stack) = 1
  /\ stack' = << >>
  /\ verdict' = ret
  /\ pc' = "verdict"
  /\ Log(FrameEvent("value", NULL, Top, ret))
  /\ UNCHANGED <<ctx, evalVars, watcher, ret, actVars, hostCalls>>

-----------------------------------------------------------------------------
(* perform_actions *)

Actions == Policy[buffer[pix]].actions

\* Mutant: `break` where the code says `continue`.
BreaksAt(i) == Len(Actions) + 1
\* Mutant: the index is not advanced.
StaysAt(i) == i

ContinueAt(i) == i + 1

\* An action nobody handles, or that this version does not know.
SkipAction ==
  /\ pc = "actions"
  /\ aix <= Len(Actions)
  /\ GetAction(ctx, Actions[aix].id) = NULL
  /\ aix' = ContinueAt(aix)
  /\ UNCHANGED <<ctx, pc, evalVars, walkVars, actRes, trace, hostCalls>>

\* More values than PLCS_ACTION_VALUES_MAX - 1: the remaining actions are lost.
AbortActions ==
  /\ pc = "actions"
  /\ aix <= Len(Actions)
  /\ GetAction(ctx, Actions[aix].id) # NULL
  /\ Actions[aix].oversized
  /\ actRes' = EIX_OVERFLOW
  /\ pc' = "policy_done"
  /\ UNCHANGED <<ctx, evalVars, walkVars, aix, trace, hostCalls>>

CallAction ==
  /\ pc = "actions"
  /\ aix <= Len(Actions)
  /\ GetAction(ctx, Actions[aix].id) # NULL
  /\ ~Actions[aix].oversized
  /\ pc' = "handler"
  /\ UNCHANGED <<ctx, evalVars, walkVars, actVars, trace, hostCalls>>

\* Mutant: the action is handed what the walk returned first, a leaf's result.
FirstValue ==
  LET values == {i \in DOMAIN trace : trace[i].ev = "value"}
  IN  IF values = {} THEN verdict
      ELSE trace[CHOOSE i \in values : \A j \in values : i <= j].res

HandedResult == verdict

ActionReturns(rc) ==
  /\ pc = "handler"
  /\ actRes' = rc
  /\ ctx' = SetActionError(ctx, Actions[aix].id, rc)
  /\ aix' = aix + 1
  /\ pc' = "actions"
  /\ Log([Event("action") EXCEPT !.ix = aix, !.res = HandedResult, !.rc = rc])
  /\ UNCHANGED <<evalVars, walkVars, hostCalls>>

ActionsDone ==
  /\ pc = "actions"
  /\ aix > Len(Actions)
  /\ pc' = "policy_done"
  /\ UNCHANGED <<ctx, evalVars, walkVars, actVars, trace, hostCalls>>

-----------------------------------------------------------------------------
(* The host: the context API, called from a callback or between evaluations *)

PolicyCallbacks == CallbackNames \cup {"evaluator", "handler"}
HostTurn == pc \in PolicyCallbacks \cup {"idle", "stop"}

\* A call that leaves the context as it is need not be a step.
HostCall(c) ==
  /\ HostTurn
  /\ hostCalls < MaxHostCalls
  /\ hostCalls' = hostCalls + 1
  /\ c # ctx
  /\ ctx' = c
  /\ IF pc \in PolicyCallbacks
       THEN Log([Event("call") EXCEPT !.rc = c.error])
       ELSE UNCHANGED trace
  /\ UNCHANGED <<pc, evalVars, walkVars, actVars>>

HostRegistersEvaluator ==
  \E e \in Entries, f \in HostFns : HostCall(RegisterEvaluator(ctx, e, f))
HostSetsParam ==
  \E e \in Entries, v \in Params : HostCall(SetParam(ctx, e, v))
HostRegistersAction ==
  \E a \in ActionIds, h \in Handlers \cup {NULL} : HostCall(RegisterAction(ctx, a, h))
HostSetsObserver ==
  \E o \in Observers \cup {NULL} : HostCall(SetObserver(ctx, o))
\* One of the public getters, with an id out of range.
HostReadsBadId ==
  \E k \in Kinds : HostCall(ReadEntry(ctx, <<k, NULL>>))
HostReadsError == HostCall(GetLastError(ctx))
HostResets == HostCall(Reset(ctx))
HostInits == HostCall(InitCtx(ctx))

Host ==
  \/ HostRegistersEvaluator
  \/ HostSetsParam
  \/ HostRegistersAction
  \/ HostSetsObserver
  \/ HostReadsBadId
  \/ HostReadsError
  \/ HostResets
  \/ HostInits

-----------------------------------------------------------------------------
Init ==
  /\ ctx \in Setups
  /\ pc = "idle"
  /\ buffer = << >> /\ pix = 1 /\ stopFn = FALSE /\ total = ESUCCESS
  /\ watcher = NULL /\ stack = << >> /\ ret = "ABSTAIN" /\ verdict = "ABSTAIN"
  /\ aix = 1 /\ actRes = ESUCCESS
  /\ trace = << >>
  /\ hostCalls = 0

Call == \E b \in Buffers \cup {NULL}, s \in BOOLEAN : EvaluateBuffer(b, s)

\* The steps of the engine's own code.
Engine ==
  \/ SkipPolicy \/ BeginPolicy \/ EvaluateRoot \/ ReportVerdict \/ EndPolicy \/ BufferDone
  \/ CutNode \/ EnterNode \/ LeaveNode
  \/ EvaluateUnknown \/ LeafAbstains \/ CallDefaultEvaluator \/ CallHostEvaluator
  \/ BeginNot \/ BeginComposite \/ NextChild \/ ChildrenDone
  \/ ReturnToNot \/ ReturnToComposite \/ ReturnToPolicy
  \/ SkipAction \/ AbortActions \/ CallAction \/ ActionsDone

\* A callback of the host returns to the engine.
CallbackReturns ==
  \/ PolicyEnterReturns
  \/ \E h \in Handles : NodeEnterReturns(h)
  \/ NodeExitReturns
  \/ PolicyExitReturns
  \/ \E r \in Results : EvaluatorReturns(r)
  \/ \E rc \in HostErrors : ActionReturns(rc)
  \/ \E b \in BOOLEAN : ShouldStopReturns(b)

Next == Call \/ Engine \/ CallbackReturns \/ Host

Spec == Init /\ [][Next]_vars

\* Nothing but the host can keep the engine from its next step, and a host's
\* callback returns; nobody has to call the engine, or the context API.
Fairness == WF_vars(Engine) /\ WF_vars(CallbackReturns)

FairSpec == Spec /\ Fairness

-----------------------------------------------------------------------------
(* Types, and what each place in the engine can rely on *)

WalkPlaces == {"rules", "node_enter", "node", "evaluator", "loop", "leave", "node_exit", "return"}
PolicyPlaces ==
  WalkPlaces \cup {"policy_enter", "root", "verdict", "policy_exit", "actions", "handler",
                   "policy_done"}
Places == PolicyPlaces \cup {"idle", "policies", "stop"}

\* Every variable keeps its type: in particular the engine never follows an
\* index out of a tree, a buffer or a list of actions into something else.
TypeOK ==
  /\ ctx \in Contexts
  /\ pc \in Places
  /\ buffer \in Seq(Policies \cup {NULL})
  /\ pix \in Nat \ {0}
  /\ stopFn \in BOOLEAN
  /\ total \in Nat
  /\ watcher \in Observers \cup {NULL}
  /\ stack \in Seq(Frames)
  /\ ret \in Outcomes
  /\ verdict \in Outcomes
  /\ aix \in Nat \ {0}
  /\ actRes \in Errors
  /\ trace \in Seq(Events)
  /\ hostCalls \in 0 .. MaxHostCalls

\* The recursion is bounded by the cap whatever the shape of the tree: at most
\* one frame for each depth up to PLCS_MAX_EVAL_DEPTH and the one that is cut.
StackBound == Len(stack) <= MaxEvalDepth + 2

\* A leaf with a valid id is refused its evaluator because of an error only if
\* that error was raised earlier in the same policy: "a malformed node in a
\* previous policy must not leak its error into this one".
Raises(e) == e.ev = "raise" \/ (e.ev = "call" /\ e.rc # ESUCCESS)
ErrorIsolated ==
  \A i \in DOMAIN trace :
    trace[i].ev = "gate" => \E j \in 1 .. i - 1 : Raises(trace[j])

\* Everything one policy reports goes to one observer, the one installed when the
\* policy began, even if a callback installs another or resets the context.
OneObserverPerPolicy ==
  \A i \in DOMAIN trace : trace[i].ev \in CallbackNames => trace[i].obs = watcher

\* Every action of a policy is handed the result of that policy's tree, the one
\* policy_exit was told, and the tree is not touched any more once actions run.
ActionsSeeVerdict ==
  /\ \A i \in DOMAIN trace :
       trace[i].ev = "action" =>
         /\ trace[i].res = verdict
         /\ \A j \in DOMAIN trace : trace[j].ev = "policy_exit" => j < i
  /\ \A i, j \in DOMAIN trace :
       trace[i].ev \in {"policy_exit", "action"} /\ i < j =>
         trace[j].ev \in {"call", "action"}
=============================================================================
