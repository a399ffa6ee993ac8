-------------------------- MODULE PolicyWalk_proofs --------------------------
(***************************************************************************)
(* The walk over a policy's tree: every composite has its Kleene value,    *)
(* nothing is evaluated after a parent was decided, and the observer's     *)
(* node callbacks nest as the calls do.  All three follow from what the    *)
(* frames on the stack owe to the history: a frame's fold is that of the   *)
(* children it has counted, whose values are in the history, and a node    *)
(* that was entered is open exactly while its frame is there.              *)
(***************************************************************************)
EXTENDS PolicyEngine_proofs, WellFoundedInduction

\* The places of evaluate_rules at which a node was entered and not yet left, and
\* those at which its result is known.
EnteredPlaces == {"node", "evaluator", "loop", "leave"}
FinishedPlaces == {"leave", "node_exit", "return"}

Entered(k) == k < Len(stack) \/ pc \in EnteredPlaces
Folding(k) == k < Len(stack) \/ pc = "loop"

\* How many children of a frame have returned to it, and the place of each.
Done(k) == IF k < Len(stack) THEN stack[k].ix - 1 ELSE stack[k].ix
NodeOf(k) == Tree[stack[k].node]
ChildAt(k, c) == <<NodeOf(k).children[c], k>>
TopPlace == <<Top.node, Top.depth>>

\* Every frame is the call for the child that the frame below it counted last.
Linked ==
  /\ stack # << >> => stack[1].node = Root
  /\ \A k \in 1 .. Len(stack) - 1 :
       /\ stack[k].ix >= 1
       /\ stack[k + 1].node = NodeOf(k).children[stack[k].ix]
       /\ NodeOf(k).op = "NOT" => Len(NodeOf(k).children) = 1
  /\ pc = "loop" => Node.op # "NOT"

\* The children that a frame has counted were evaluated, and did not decide it.
Turns ==
  \A k \in 1 .. Len(stack) :
    Folding(k) =>
      \A c \in 1 .. Done(k) : \E m \in ValueEvents :
        /\ Place(trace[m]) = ChildAt(k, c)
        /\ trace[m].res \notin Deciding(NodeOf(k).op)

\* What was evaluated is a node.
Evaluated == \A i \in ValueEvents : trace[i].node \in Nodes

\* What was evaluated had its turn under a parent that was evaluated since, or
\* still is being evaluated.
Placed ==
  \A i \in ValueEvents :
    trace[i].depth # 0 =>
      \E p \in Nodes :
        /\ \E j \in DOMAIN Tree[p].children : InTurn(i, p, j)
        /\ \/ <<p, trace[i].depth - 1>> \in Reached
           \/ trace[i].depth <= Len(stack) /\ stack[trace[i].depth].node = p

(***************************************************************************)
(* Any values of all places, reached or not, that agree with the history:  *)
(* the folds on the stack, the results that are about to be returned and   *)
(* those in the history are the Kleene values they give to the children.   *)
(***************************************************************************)
Valuations == [Nodes \X Nat -> Results]
Agrees(val) == \A i \in ValueEvents : trace[i].res = val[Place(trace[i])]
Folded(val, k) == {val[ChildAt(k, c)] : c \in 1 .. Done(k)}
ChildValues(val, s) == {val[t] : t \in Children(s)}

FoldsAgree(val) ==
  \A k \in 1 .. Len(stack) :
    Folding(k) /\ NodeOf(k).op \in {"AND", "OR", "UNKNOWN"} =>
      stack[k].res = Strong(NodeOf(k), Folded(val, k))
ResultAgrees(val) ==
  stack # << >> /\ pc \in FinishedPlaces /\ ~Given(TopPlace) =>
    ret = Strong(Node, ChildValues(val, TopPlace))
HistoryAgrees(val) ==
  \A i \in ValueEvents :
    ~Given(Place(trace[i])) =>
      trace[i].res = Strong(Tree[trace[i].node], ChildValues(val, Place(trace[i])))
Valued ==
  \A val \in Valuations :
    Agrees(val) => FoldsAgree(val) /\ ResultAgrees(val) /\ HistoryAgrees(val)

\* The verdict is what the root returned.
Concluded ==
  pc = "verdict" /\ Root # NULL =>
    \E i \in ValueEvents : Place(trace[i]) = <<Root, 0>> /\ trace[i].res = verdict

(***************************************************************************)
(* The brackets, for an observer that hears of both ends.                  *)
(***************************************************************************)
Bracketed == watcher # NULL /\ {"node_enter", "node_exit"} \subseteq Callbacks[watcher]
OpenAt(e, k) ==
  /\ Mark(trace[e]) = <<stack[k].node, k - 1, stack[k].handle>>
  /\ \A m \in Enters \cup Exits : e < m => trace[m].depth > k - 1
Nested(e) ==
  trace[e].depth # 0 =>
    \E p \in Enters :
      /\ p < e /\ trace[e].depth = trace[p].depth + 1
      /\ trace[e].node \in Kids(trace[p].node)
      /\ DeeperBetween(p, e)
Framed ==
  Bracketed =>
    /\ \A x \in Exits : \E e \in Enters : Closes(x, e)
    /\ \A e \in Enters : Nested(e)
    /\ \A k \in 1 .. Len(stack) : Entered(k) => \E e \in Enters : OpenAt(e, k)
    /\ \A e \in Enters :
         \/ \E x \in Exits : Closes(x, e)
         \/ \E k \in 1 .. Len(stack) : Entered(k) /\ OpenAt(e, k)

Walking == Linked /\ Turns /\ Evaluated /\ Placed /\ Valued /\ Concluded /\ Framed

-----------------------------------------------------------------------------
(* Numbers and Kleene logic *)

\* A set of natural numbers has a least one.
LEMMA LeastOne ==
  ASSUME NEW M \in SUBSET Nat, M # {}
  PROVE  \E m \in M : \A k \in M : m <= k
<1>1. PICK m \in M : \A k \in M : <<k, m>> \notin OpToRel(<, Nat)
  BY NatLessThanWellFounded, WFMin
<1>2. ASSUME NEW k \in M PROVE m <= k
  <2>1. ~(k < m)
    BY <1>1 DEF OpToRel
  <2> QED BY <2>1
<1> QED BY <1>2

\* The fold of composite_evaluator computes strong Kleene logic child by child.
LEMMA StrongStep ==
  ASSUME NEW n, n.op \in {"AND", "OR", "UNKNOWN"}, NEW S \in SUBSET Results, NEW b \in Results
  PROVE  /\ DoOper(n.op, Strong(n, S), b) = Strong(n, S \cup {b})
         /\ ~ShortCircuits(n.op, Strong(n, S \cup {b})) => b \notin Deciding(n.op)
<1>1. Strong(n, S) \in Results /\ Strong(n, S \cup {b}) \in Results
  BY DEF Strong, Results
<1>2. CASE n.op = "AND"
  BY <1>2 DEF Strong, DoOper, DoAnd, ShortCircuits, Deciding, Results
<1>3. CASE n.op = "OR"
  BY <1>3 DEF Strong, DoOper, DoOr, ShortCircuits, Deciding, Results
<1>4. CASE n.op = "UNKNOWN"
  BY <1>4 DEF Strong, DoOper, ShortCircuits, Deciding
<1> QED BY <1>2, <1>3, <1>4

\* The values it starts from are those of no children at all.
LEMMA StrongStart ==
  ASSUME NEW n, n.op \in {"AND", "OR", "UNKNOWN"}, NEW r \in InitialResults(n.op)
  PROVE  r = Strong(n, {})
BY DEF Strong, InitialResults

\* What decides some of the children decides all of them.
LEMMA StrongEarly ==
  ASSUME NEW n, NEW S, NEW T, S \subseteq T, ShortCircuits(n.op, Strong(n, S))
  PROVE  Strong(n, T) = Strong(n, S)
<1>1. n.op \in {"AND", "OR"}
  BY DEF ShortCircuits
<1>2. CASE n.op = "AND"
  BY <1>2 DEF Strong, ShortCircuits
<1>3. CASE n.op = "OR"
  BY <1>3 DEF Strong, ShortCircuits
<1> QED BY <1>1, <1>2, <1>3

LEMMA StrongNot ==
  ASSUME NEW n, n.op = "NOT", NEW b \in Results
  PROVE  /\ Len(n.children) = 1 => Strong(n, {b}) = DoNot(b)
         /\ Len(n.children) # 1 => \A S : Strong(n, S) = "ABSTAIN"
<1>1. b = "TRUE" \/ b = "FALSE" \/ b = "ABSTAIN"
  BY DEF Results
<1>2. /\ {b} = {"TRUE"} <=> b = "TRUE"
      /\ {b} = {"FALSE"} <=> b = "FALSE"
  OBVIOUS
<1> QED BY <1>1, <1>2 DEF Strong, DoNot

-----------------------------------------------------------------------------
(* Frame by frame *)

\* Every frame stands on a node with a list of children.
LEMMA FrameTypes ==
  ASSUME Inv
  PROVE  /\ Len(stack) \in Nat
         /\ \A k \in 1 .. Len(stack) :
              /\ stack[k] \in Frames /\ stack[k].node \in Nodes /\ stack[k].ix \in Nat
              /\ stack[k].depth = k - 1
              /\ NodeOf(k) \in NodeRecords
              /\ Len(NodeOf(k).children) \in Nat
              /\ DOMAIN NodeOf(k).children = 1 .. Len(NodeOf(k).children)
              /\ \A c \in 1 .. Len(NodeOf(k).children) : NodeOf(k).children[c] \in Nodes
              /\ stack[k].ix <= Len(NodeOf(k).children)
<1>1. stack \in Seq(Frames)
  BY DEF Inv, TypeOK
<1>2. Len(stack) \in Nat /\ \A k \in 1 .. Len(stack) : stack[k] \in Frames
  BY <1>1
<1>3. ASSUME NEW k \in 1 .. Len(stack)
      PROVE  /\ stack[k] \in Frames /\ stack[k].node \in Nodes /\ stack[k].ix \in Nat
             /\ stack[k].depth = k - 1
             /\ NodeOf(k) \in NodeRecords
             /\ Len(NodeOf(k).children) \in Nat
             /\ DOMAIN NodeOf(k).children = 1 .. Len(NodeOf(k).children)
             /\ \A c \in 1 .. Len(NodeOf(k).children) : NodeOf(k).children[c] \in Nodes
             /\ stack[k].ix <= Len(NodeOf(k).children)
  <2>1. stack[k] \in Frames
    BY <1>2
  <2>2. stack[k].node \in Nodes /\ stack[k].ix \in Nat
    BY <2>1 DEF Frames
  <2>3. NodeOf(k) \in NodeRecords
    BY <2>2, TreeAssumption DEF NodeOf
  <2>4. NodeOf(k).children \in Seq(Nodes)
    BY <2>3 DEF NodeRecords
  <2>5. stack[k].depth = k - 1 /\ stack[k].ix <= Len(NodeOf(k).children)
    BY DEF Inv, Path, NodeOf
  <2>6. /\ Len(NodeOf(k).children) \in Nat
        /\ DOMAIN NodeOf(k).children = 1 .. Len(NodeOf(k).children)
        /\ \A c \in 1 .. Len(NodeOf(k).children) : NodeOf(k).children[c] \in Nodes
    BY <2>4
  <2> QED BY <2>1, <2>2, <2>3, <2>5, <2>6
<1> QED BY <1>2, <1>3

\* The innermost frame changes, and stays on its node.
LEMMA PutStack ==
  ASSUME Inv, stack # << >>, NEW f \in Frames, stack' = SetTop(f)
  PROVE  /\ Len(stack') = Len(stack) /\ Len(stack) \in Nat \ {0}
         /\ stack'[Len(stack)] = f /\ Top' = f
         /\ \A k \in 1 .. Len(stack) : k # Len(stack) => stack'[k] = stack[k]
<1>1. stack \in Seq(Frames) /\ Len(stack) \in Nat \ {0}
  BY LastSeq DEF Inv, TypeOK
<1>2. /\ Len(stack') = Len(stack) /\ stack'[Len(stack)] = f
      /\ \A k \in 1 .. Len(stack) : k # Len(stack) => stack'[k] = stack[k]
  BY <1>1, PutSeq DEF SetTop
<1> QED BY <1>1, <1>2 DEF Top

\* A child is called.
LEMMA CallStack ==
  ASSUME Inv, stack # << >>, Top.ix < Len(Node.children), CallChild(Top),
         NEW n, n = Len(stack)
  PROVE  /\ n \in Nat \ {0} /\ Len(stack') = n + 1
         /\ stack'[n + 1].node = Node.children[Top.ix + 1]
         /\ stack'[n].node = Top.node /\ stack'[n].ix = Top.ix + 1
         /\ stack'[n].res = Top.res /\ stack'[n].handle = Top.handle
         /\ \A k \in 1 .. n : k # n => stack'[k] = stack[k]
<1> DEFINE f == [Top EXCEPT !.ix = @ + 1]
           g == Frame(Node.children[Top.ix + 1], Top.depth + 1)
           s == SetTop(f)
<1>1. stack \in Seq(Frames) /\ n \in Nat \ {0} /\ n \in 1 .. n /\ stack[n] = Top
  BY LastSeq DEF Inv, TypeOK, Top
<1>2. Top \in Frames /\ Top.ix \in Nat /\ Top.depth \in Nat /\ Node = NodeOf(n)
  <2>1. Top \in Frames
    BY <1>1
  <2> QED BY <1>1, <2>1 DEF Node, NodeOf, Frames
<1>3. f = [Top EXCEPT !.ix = Top.ix + 1] /\ Top.ix + 1 \in Nat
  BY <1>2
<1>4. /\ f \in Frames /\ f.node = Top.node /\ f.ix = Top.ix + 1
      /\ f.res = Top.res /\ f.handle = Top.handle
  <2> HIDE DEF f
  <2> QED BY <1>2, <1>3 DEF Frames
<1>5. Node.children[Top.ix + 1] \in Nodes
  <2>1. Top.ix + 1 \in 1 .. Len(NodeOf(n).children)
    BY <1>1, <1>2, FrameTypes
  <2> QED BY <1>1, <1>2, <2>1, FrameTypes
<1>6. g \in Frames /\ g.node = Node.children[Top.ix + 1]
  BY <1>2, <1>5 DEF Frame, Frames, Outcomes, Results
<1>7. stack' = Append(s, g)
  BY DEF CallChild
<1> HIDE DEF f, g
<1>8. /\ s \in Seq(Frames) /\ Len(s) = n /\ s[n] = f
      /\ \A k \in 1 .. n : k # n => s[k] = stack[k]
  BY <1>1, <1>4, PutSeq DEF SetTop
<1> HIDE DEF s
<1>9. /\ Len(stack') = n + 1 /\ stack'[n + 1] = g
      /\ \A k \in 1 .. n : stack'[k] = s[k]
  BY <1>6, <1>7, <1>8, PushSeq
<1> QED BY <1>1, <1>4, <1>6, <1>8, <1>9

\* A call returns to its caller, whose frame is on top again.
LEMMA ReturnStack ==
  ASSUME Inv, pc = "return", ReturnToNot \/ ReturnToComposite, NEW n, n = Len(stack) - 1
  PROVE  /\ n \in Nat \ {0} /\ Len(stack) = n + 1 /\ Len(stack') = n
         /\ stack'[n].node = stack[n].node /\ stack'[n].ix = stack[n].ix
         /\ stack'[n].handle = stack[n].handle /\ stack'[n].depth = stack[n].depth
         /\ ReturnToComposite =>
              stack'[n].res = DoOper(NodeOf(n).op, stack[n].res, ret)
         /\ \A k \in 1 .. n : k # n => stack'[k] = stack[k]
<1> DEFINE f == stack[n]
           r == DoOper(Tree[f.node].op, f.res, ret)
           g == [f EXCEPT !.res = r]
<1>1. stack \in Seq(Frames) /\ stack # << >> /\ Len(stack) > 1
  BY TopTypes DEF ReturnToNot, ReturnToComposite, WalkPlaces
<1>2. n \in Nat \ {0} /\ Len(stack) = n + 1 /\ f \in Frames
  BY <1>1, CallerIndex
<1>3. Pop \in Seq(Frames) /\ Len(Pop) = n /\ \A k \in 1 .. n : Pop[k] = stack[k]
  BY <1>1, FrontSeq DEF Pop
<1>4. r \in Outcomes
  BY DEF DoOper, DoAnd, DoOr, DoNot, Outcomes, Results
<1>5. ReturnToComposite => stack' = [Pop EXCEPT ![n] = g]
  BY DEF ReturnToComposite
<1> HIDE DEF r
<1>6. /\ g \in Frames /\ g.node = f.node /\ g.ix = f.ix /\ g.handle = f.handle /\ g.res = r
      /\ g.depth = f.depth
  BY <1>2, <1>4 DEF Frames
<1> HIDE DEF g
<1>7. CASE ReturnToNot
  <2>1. stack' = Pop /\ ~ReturnToComposite
    BY <1>7 DEF ReturnToNot, ReturnToComposite
  <2>2. n \in 1 .. n /\ \A k \in 1 .. n : stack'[k] = stack[k]
    BY <1>2, <1>3, <2>1
  <2> QED BY <1>2, <1>3, <2>1, <2>2
<1>8. CASE ReturnToComposite
  <2>1. n \in 1 .. Len(Pop)
    BY <1>2, <1>3
  <2>2. /\ Len(stack') = n /\ stack'[n] = g
        /\ \A k \in 1 .. n : k # n => stack'[k] = stack[k]
    BY <1>3, <1>5, <1>6, <1>8, <2>1, PutSeq
  <2> QED BY <1>2, <1>6, <2>2 DEF r, NodeOf
<1> QED BY <1>7, <1>8

-----------------------------------------------------------------------------
(* The history *)

Kept == ValueEvents \cup Enters \cup Exits

\* Nothing was evaluated, entered or left.
Quiet ==
  /\ ValueEvents' = ValueEvents /\ Enters' = Enters /\ Exits' = Exits
  /\ \A i \in Kept : trace'[i] = trace[i]

\* The history is empty of all that.
Fresh == ValueEvents' = {} /\ Enters' = {} /\ Exits' = {}

LEMMA SilentIsQuiet == trace' = trace => Quiet
BY DEF Quiet, Kept, ValueEvents, Enters, Exits

LEMMA KeptTypes ==
  ASSUME Inv
  PROVE  /\ Len(trace) \in Nat
         /\ \A i \in Kept : i \in 1 .. Len(trace) /\ i \in Nat /\ trace[i] \in Events
         /\ ValueEvents \subseteq Kept /\ Enters \subseteq Kept /\ Exits \subseteq Kept
<1>1. trace \in Seq(Events)
  BY DEF Inv, TypeOK
<1>2. \A i \in Kept : i \in DOMAIN trace
  BY DEF Kept, ValueEvents, Enters, Exits
<1>3. Len(trace) \in Nat /\ DOMAIN trace = 1 .. Len(trace)
  BY <1>1
<1>4. \A i \in 1 .. Len(trace) : i \in Nat /\ trace[i] \in Events
  BY <1>1
<1> QED BY <1>2, <1>3, <1>4 DEF Kept

\* What logging an event adds to the three kinds.
LEMMA LogKinds ==
  ASSUME Inv, NEW e \in Events, Log(e), NEW n, n = Len(trace)
  PROVE  /\ n \in Nat /\ n + 1 \notin Kept
         /\ \A i \in Kept : i \in 1 .. n /\ trace'[i] = trace[i]
         /\ trace'[n + 1] = e
         /\ ValueEvents' = ValueEvents \cup (IF e.ev = "value" THEN {n + 1} ELSE {})
         /\ Enters' = Enters \cup (IF e.ev = "node_enter" THEN {n + 1} ELSE {})
         /\ Exits' = Exits \cup (IF e.ev = "node_exit" THEN {n + 1} ELSE {})
<1>1. /\ n \in Nat /\ DOMAIN trace = 1 .. n /\ DOMAIN trace' = 1 .. n + 1
      /\ trace'[n + 1] = e
      /\ \A j \in 1 .. n : trace'[j] = trace[j]
  BY LogAppends
<1>2. \A i \in 1 .. n + 1 : i \in 1 .. n \/ i = n + 1
  BY <1>1
<1>3. n + 1 \in 1 .. n + 1 /\ n + 1 \notin 1 .. n /\ \A i \in 1 .. n : i \in 1 .. n + 1
  BY <1>1
<1>4. \A i \in Kept : i \in 1 .. n
  BY <1>1 DEF Kept, ValueEvents, Enters, Exits
<1>5. ValueEvents' = ValueEvents \cup (IF e.ev = "value" THEN {n + 1} ELSE {})
  BY <1>1, <1>2, <1>3 DEF ValueEvents
<1>6. Enters' = Enters \cup (IF e.ev = "node_enter" THEN {n + 1} ELSE {})
  BY <1>1, <1>2, <1>3 DEF Enters
<1>7. Exits' = Exits \cup (IF e.ev = "node_exit" THEN {n + 1} ELSE {})
  BY <1>1, <1>2, <1>3 DEF Exits
<1> QED BY <1>1, <1>3, <1>4, <1>5, <1>6, <1>7

LEMMA OtherLogIsQuiet ==
  ASSUME Inv, NEW e \in Events, Log(e), e.ev \notin {"value", "node_enter", "node_exit"}
  PROVE  Quiet
<1>1. PICK n : n = Len(trace)
  OBVIOUS
<1> QED BY <1>1, LogKinds DEF Quiet

\* What the engine logs when a node is entered, left or evaluated.
LEMMA FrameEventFields ==
  ASSUME NEW name, NEW obs, NEW f, NEW r
  PROVE  /\ FrameEvent(name, obs, f, r).ev = name
         /\ FrameEvent(name, obs, f, r).node = f.node
         /\ FrameEvent(name, obs, f, r).depth = f.depth
         /\ FrameEvent(name, obs, f, r).handle = f.handle
         /\ FrameEvent(name, obs, f, r).res = r
BY DEF FrameEvent, Event

-----------------------------------------------------------------------------
(* The kinds of steps *)

\* Before, after and between the walks.
Outside ==
  /\ stack = << >> /\ stack' = << >> /\ pc' \notin WalkPlaces
  /\ Fresh \/ (Quiet /\ watcher' = watcher)
  /\ pc' = "verdict" => Root' = NULL

\* In the walk, from place to place of the same call.
Rests ==
  /\ stack # << >> /\ stack' = stack /\ Quiet /\ watcher' = watcher /\ Root' = Root
  /\ pc \in WalkPlaces /\ pc' \in WalkPlaces
  /\ pc' = "loop" => pc = "loop"
  /\ pc' \in EnteredPlaces => pc \in EnteredPlaces \/ ~Bracketed
  /\ pc \in EnteredPlaces => pc' \in EnteredPlaces \/ ~Bracketed
  /\ pc' \in FinishedPlaces =>
       \/ pc \in FinishedPlaces /\ ret' = ret
       \/ Given(TopPlace)
       \/ Node.op = "NOT" /\ Len(Node.children) # 1 /\ ret' = "ABSTAIN"
       \/ pc = "loop" /\ Top.ix = Len(Node.children) /\ ret' = Top.res

Calls ==
  /\ stack # << >> /\ pc \in {"node", "loop"} /\ pc' = "rules"
  /\ Top.ix < Len(Node.children) /\ CallChild(Top)
  /\ IF Node.op = "NOT" THEN pc = "node" /\ Len(Node.children) = 1 ELSE pc = "loop"
  /\ Quiet /\ watcher' = watcher /\ Root' = Root

Returns == ReturnToNot \/ ReturnToComposite
Starts == EvaluateRoot /\ Root # NULL
Reported == LeaveNode /\ Reports("node_exit")

LEMMA OutsideSteps ==
  ASSUME Inv,
         \/ \E b \in Buffers \cup {NULL}, s \in BOOLEAN : EvaluateBuffer(b, s)
         \/ SkipPolicy \/ BeginPolicy \/ PolicyEnterReturns \/ (EvaluateRoot /\ Root = NULL)
         \/ ReportVerdict \/ PolicyExitReturns \/ EndPolicy \/ BufferDone
         \/ \E b \in BOOLEAN : ShouldStopReturns(b)
         \/ SkipAction \/ AbortActions \/ CallAction \/ ActionsDone
         \/ \E rc \in HostErrors : ActionReturns(rc)
  PROVE  Outside
<1>1. pc \notin WalkPlaces /\ pc' \notin WalkPlaces /\ (pc' = "verdict" => Root' = NULL)
  BY DEF EvaluateBuffer, SkipPolicy, BeginPolicy, PolicyEnterReturns, EvaluateRoot, ReportVerdict,
     PolicyExitReturns, EndPolicy, BufferDone, ShouldStopReturns, SkipAction, AbortActions,
     CallAction, ActionsDone, ActionReturns, WalkPlaces, Root, evalVars
<1>2. stack = << >> /\ stack' = << >>
  <2>1. stack = << >>
    BY <1>1 DEF Inv, Located
  <2>2. stack' = stack
    BY DEF EvaluateBuffer, SkipPolicy, BeginPolicy, PolicyEnterReturns, EvaluateRoot, ReportVerdict,
       PolicyExitReturns, EndPolicy, BufferDone, ShouldStopReturns, SkipAction, AbortActions,
       CallAction, ActionsDone, ActionReturns, walkVars, Root
  <2> QED BY <2>1, <2>2
<1>3. Fresh \/ (Quiet /\ watcher' = watcher)
  <2>1. CASE BeginPolicy
    <3> DEFINE e == [Event("policy_enter") EXCEPT !.obs = ctx.observer]
    <3>1. e.ev = "policy_enter"
      BY DEF Event
    <3>2. trace' = <<e>> \/ trace' = << >>
      BY <2>1 DEF BeginPolicy
    <3> HIDE DEF e
    <3>3. \A i \in DOMAIN trace' : trace'[i] = e
      BY <3>2, NothingInEmpty
    <3> QED BY <3>1, <3>3 DEF Fresh, ValueEvents, Enters, Exits
  <2>2. CASE EndPolicy
    <3>1. DOMAIN trace' = {}
      BY <2>2, NothingInEmpty DEF EndPolicy
    <3> QED BY <3>1 DEF Fresh, ValueEvents, Enters, Exits
  <2>3. CASE ReportVerdict
    <3> DEFINE e == [Event("policy_exit") EXCEPT !.obs = Watching, !.res = verdict]
    <3>1. Log(e) \/ trace' = trace
      BY <2>3 DEF ReportVerdict
    <3>2. "policy_exit" \in EventNames /\ Watching \in Observers \cup {NULL} /\ verdict \in Outcomes
      BY DEF EventNames, CallbackNames, Inv, TypeOK, Watching
    <3>3. e \in Events
      BY <3>2, EventTypes
    <3>4. e.ev = "policy_exit"
      BY DEF Event
    <3> HIDE DEF e
    <3> QED BY <2>3, <3>1, <3>3, <3>4, SilentIsQuiet, OtherLogIsQuiet DEF ReportVerdict, walkVars
  <2>4. ASSUME NEW rc \in HostErrors, ActionReturns(rc) PROVE Quiet /\ watcher' = watcher
    <3> DEFINE e == [Event("action") EXCEPT !.ix = aix, !.res = HandedResult, !.rc = rc]
    <3>1. Log(e)
      BY <2>4 DEF ActionReturns
    <3>2. rc \in Errors /\ aix \in Nat /\ HandedResult \in Outcomes /\ "action" \in EventNames
      BY HostAssumption DEF Inv, TypeOK, HandedResult, EventNames
    <3>3. e \in Events
      BY <3>2, EventTypes
    <3>4. e.ev = "action"
      BY DEF Event
    <3> HIDE DEF e
    <3> QED BY <2>4, <3>1, <3>3, <3>4, OtherLogIsQuiet DEF ActionReturns, walkVars
  <2>5. CASE ~BeginPolicy /\ ~EndPolicy /\ ~ReportVerdict /\ ~\E rc \in HostErrors : ActionReturns(rc)
    <3>1. trace' = trace /\ watcher' = watcher
      BY <2>5 DEF EvaluateBuffer, SkipPolicy, PolicyEnterReturns, EvaluateRoot, PolicyExitReturns,
         BufferDone, ShouldStopReturns, SkipAction, AbortActions, CallAction, ActionsDone, walkVars
    <3> QED BY <3>1, SilentIsQuiet
  <2> QED BY <2>1, <2>2, <2>3, <2>4, <2>5
<1> QED BY <1>1, <1>2, <1>3 DEF Outside

LEMMA RestSteps ==
  ASSUME Inv, Linked,
         \/ CutNode \/ EnterNode \/ (LeaveNode /\ ~Reports("node_exit")) \/ NodeExitReturns
         \/ EvaluateUnknown \/ LeafAbstains \/ CallDefaultEvaluator \/ CallHostEvaluator
         \/ \E r \in Results : EvaluatorReturns(r)
         \/ (BeginNot /\ Len(Node.children) # 1)
         \/ ChildrenDone
  PROVE  Rests
<1>1. /\ stack' = stack /\ watcher' = watcher /\ Root' = Root
      /\ pc \in WalkPlaces /\ pc' \in WalkPlaces
      /\ pc' # "loop"
  BY DEF CutNode, EnterNode, LeaveNode, NodeExitReturns, EvaluateUnknown, LeafAbstains,
     CallDefaultEvaluator, CallHostEvaluator, EvaluatorReturns, BeginNot, ChildrenDone,
     walkVars, evalVars, WalkPlaces, Root
<1>2. stack # << >>
  BY <1>1 DEF Inv, Located
<1>3. Quiet
  <2>1. CASE LeafAbstains
    <3>1. /\ NULL \in Observers \cup {NULL} /\ Top \in Frames /\ "ABSTAIN" \in Outcomes
          /\ "raise" \in EventNames /\ "gate" \in EventNames
      BY <1>1, TopTypes DEF Outcomes, Results, EventNames
    <3> DEFINE e == FrameEvent("raise", NULL, Top, "ABSTAIN")
               f == FrameEvent("gate", NULL, Top, "ABSTAIN")
    <3>2. e \in Events /\ f \in Events /\ e.ev = "raise" /\ f.ev = "gate"
      BY <3>1, FrameEventFacts
    <3>3. Log(e) \/ Log(f) \/ trace' = trace
      BY <2>1 DEF LeafAbstains
    <3> HIDE DEF e, f
    <3> QED BY <3>2, <3>3, SilentIsQuiet, OtherLogIsQuiet
  <2>2. CASE ~LeafAbstains
    <3>1. trace' = trace
      BY <2>2 DEF CutNode, EnterNode, LeaveNode, NodeExitReturns, EvaluateUnknown,
         CallDefaultEvaluator, CallHostEvaluator, EvaluatorReturns, BeginNot, ChildrenDone
    <3> QED BY <3>1, SilentIsQuiet
  <2> QED BY <2>1, <2>2
<1>4. pc' \in EnteredPlaces => pc \in EnteredPlaces \/ ~Bracketed
  BY DEF CutNode, EnterNode, LeaveNode, NodeExitReturns, EvaluateUnknown, LeafAbstains,
     CallDefaultEvaluator, CallHostEvaluator, EvaluatorReturns, BeginNot, ChildrenDone,
     EnteredPlaces, Bracketed, Reports, Watching
<1>5. pc \in EnteredPlaces => pc' \in EnteredPlaces \/ ~Bracketed
  BY DEF CutNode, EnterNode, LeaveNode, NodeExitReturns, EvaluateUnknown, LeafAbstains,
     CallDefaultEvaluator, CallHostEvaluator, EvaluatorReturns, BeginNot, ChildrenDone,
     EnteredPlaces, Bracketed, Reports, Watching
<1>6. Node.kind # "comp" => Given(TopPlace)
  BY DEF Given, TopPlace, Node
<1>7. CASE CutNode
  <2>1. Top.depth > MaxEvalDepth
    BY <1>7 DEF CutNode, TooDeep
  <2>2. Given(TopPlace)
    BY <2>1 DEF Given, TopPlace
  <2> QED BY <1>1, <1>2, <1>3, <1>4, <1>5, <2>2 DEF Rests
<1>8. CASE ~CutNode
  <2>1. pc' \in FinishedPlaces =>
          \/ pc \in FinishedPlaces /\ ret' = ret
          \/ Node.kind # "comp"
          \/ Node.op = "NOT" /\ Len(Node.children) # 1 /\ ret' = "ABSTAIN"
          \/ pc = "loop" /\ Top.ix = Len(Node.children) /\ ret' = Top.res
    <3>1. pc = "evaluator" => Node.kind # "comp"
      BY DEF Inv, AtTop, Entry, Entries, Kinds
    <3> QED BY <1>8, <3>1 DEF EnterNode, LeaveNode, NodeExitReturns, EvaluateUnknown, LeafAbstains,
         CallDefaultEvaluator, CallHostEvaluator, EvaluatorReturns, BeginNot, ChildrenDone,
         FinishedPlaces, walkVars, Kinds
  <2> QED BY <1>1, <1>2, <1>3, <1>4, <1>5, <1>6, <2>1 DEF Rests
<1> QED BY <1>7, <1>8

LEMMA CallSteps ==
  ASSUME Inv, Linked, NextChild \/ (BeginNot /\ Len(Node.children) = 1)
  PROVE  Calls
<1>1. /\ pc \in {"node", "loop"} /\ pc \in WalkPlaces /\ pc' = "rules" /\ CallChild(Top)
      /\ trace' = trace /\ watcher' = watcher /\ Root' = Root
  BY DEF NextChild, BeginNot, evalVars, Root, WalkPlaces
<1>2. stack # << >>
  BY <1>1 DEF Inv, Located
<1>3. Top.ix < Len(Node.children)
  <2>1. NextChild => Top.ix < Len(Node.children)
    BY DEF NextChild
  <2>2. BeginNot => Top.ix = 0
    BY DEF BeginNot, Inv, AtTop
  <2>3. Top.ix = 0 /\ Len(Node.children) = 1 => Top.ix < Len(Node.children)
    OBVIOUS
  <2> QED BY <2>1, <2>2, <2>3, Zenon
<1>4. IF Node.op = "NOT" THEN pc = "node" /\ Len(Node.children) = 1 ELSE pc = "loop"
  BY DEF NextChild, BeginNot, Linked
<1> QED BY <1>1, <1>2, <1>3, <1>4, SilentIsQuiet DEF Calls

LEMMA HostSteps ==
  ASSUME Inv, NEW c \in Contexts, HostCall(c)
  PROVE  Outside \/ Rests
<1> DEFINE e == [Event("call") EXCEPT !.rc = c.error]
<1>1. /\ pc' = pc /\ pc # "verdict" /\ pc # "loop" /\ stack' = stack /\ watcher' = watcher
      /\ Root' = Root /\ ret' = ret
  BY DEF HostCall, HostTurn, PolicyCallbacks, CallbackNames, evalVars, walkVars, Root
<1>2. c.error \in Errors
  BY DEF Contexts
<1>3. e \in Events /\ e.ev = "call"
  BY <1>2, CallEventFacts
<1>4. Log(e) \/ trace' = trace
  BY DEF HostCall
<1> HIDE DEF e
<1>5. Quiet
  BY <1>3, <1>4, SilentIsQuiet, OtherLogIsQuiet
<1>6. CASE pc \in WalkPlaces
  BY <1>1, <1>5, <1>6 DEF Rests, Inv, Located
<1>7. CASE pc \notin WalkPlaces
  BY <1>1, <1>5, <1>7 DEF Outside, Inv, Located
<1> QED BY <1>6, <1>7

\* Every step is one of these.
LEMMA StepKinds ==
  ASSUME Inv, Linked, Next
  PROVE  \/ Outside \/ Rests \/ Calls \/ Returns \/ Starts \/ Reported
         \/ BeginComposite \/ ReturnToPolicy
         \/ \E h \in Handles : NodeEnterReturns(h)
<1>1. CASE Call
  BY <1>1, OutsideSteps DEF Call
<1>2. CASE Engine
  <2>1. \/ SkipPolicy \/ BeginPolicy \/ (EvaluateRoot /\ Root = NULL) \/ ReportVerdict
        \/ EndPolicy \/ BufferDone
        \/ SkipAction \/ AbortActions \/ CallAction \/ ActionsDone
        => Outside
    BY OutsideSteps
  <2>2. \/ CutNode \/ EnterNode \/ (LeaveNode /\ ~Reports("node_exit"))
        \/ EvaluateUnknown \/ LeafAbstains \/ CallDefaultEvaluator \/ CallHostEvaluator
        \/ (BeginNot /\ Len(Node.children) # 1)
        \/ ChildrenDone
        => Rests
    BY RestSteps
  <2>3. NextChild \/ (BeginNot /\ Len(Node.children) = 1) => Calls
    BY CallSteps
  <2>4. /\ EvaluateRoot => (EvaluateRoot /\ Root = NULL) \/ Starts
        /\ LeaveNode => (LeaveNode /\ ~Reports("node_exit")) \/ Reported
        /\ BeginNot => (BeginNot /\ Len(Node.children) # 1) \/ (BeginNot /\ Len(Node.children) = 1)
        /\ ReturnToNot \/ ReturnToComposite => Returns
    BY DEF Starts, Reported, Returns
  <2> QED BY <1>2, <2>1, <2>2, <2>3, <2>4 DEF Engine
<1>3. CASE CallbackReturns
  <2>1. PolicyEnterReturns \/ PolicyExitReturns => Outside
    BY OutsideSteps
  <2>2. ASSUME NEW b \in BOOLEAN, ShouldStopReturns(b) PROVE Outside
    BY <2>2, OutsideSteps
  <2>3. ASSUME NEW rc \in HostErrors, ActionReturns(rc) PROVE Outside
    BY <2>3, OutsideSteps
  <2>4. NodeExitReturns => Rests
    BY RestSteps
  <2>5. ASSUME NEW r \in Results, EvaluatorReturns(r) PROVE Rests
    BY <2>5, RestSteps
  <2> QED BY <1>3, <2>1, <2>2, <2>3, <2>4, <2>5 DEF CallbackReturns
<1>4. CASE Host
  BY <1>4, HostContexts, HostSteps DEF Inv
<1> QED BY <1>1, <1>2, <1>3, <1>4 DEF Next

-----------------------------------------------------------------------------
(* The chain of calls *)

LEMMA TopFacts ==
  ASSUME Inv, stack # << >>, NEW n, n = Len(stack)
  PROVE  /\ n \in Nat \ {0} /\ n \in 1 .. n
         /\ Top = stack[n] /\ Node = NodeOf(n)
         /\ Top \in Frames /\ Top.node \in Nodes /\ Top.depth = n - 1
         /\ TopPlace = <<stack[n].node, n - 1>>
<1>1. stack \in Seq(Frames)
  BY DEF Inv, TypeOK
<1>2. n \in Nat \ {0} /\ n \in 1 .. n
  BY <1>1, LastSeq
<1>3. Top = stack[n] /\ Node = NodeOf(n)
  BY DEF Top, Node, NodeOf
<1>4. Top \in Frames /\ Top.node \in Nodes /\ Top.depth = n - 1
  BY <1>2, <1>3, FrameTypes
<1> QED BY <1>2, <1>3, <1>4 DEF TopPlace

LEMMA OutsideStack ==
  ASSUME stack' = << >>
  PROVE  Len(stack') = 0 /\ 1 .. Len(stack') = {} /\ 1 .. Len(stack') - 1 = {}
<1>1. Len(stack') = 0
  BY NothingInEmpty
<1> QED BY <1>1

LEMMA OutsideLinked ==
  ASSUME stack' = << >>, pc' \notin WalkPlaces
  PROVE  Linked'
BY OutsideStack DEF Linked, WalkPlaces

LEMMA RestsLinked == Linked /\ Rests => Linked'
<1> SUFFICES ASSUME Linked, Rests PROVE Linked'
  OBVIOUS
<1>1. stack' = stack /\ Root' = Root /\ (pc' = "loop" => pc = "loop")
  BY DEF Rests
<1>2. \A k : NodeOf(k)' = NodeOf(k)
  BY <1>1 DEF NodeOf
<1>3. Node' = Node
  BY <1>1 DEF Node, Top
<1> QED BY <1>1, <1>2, <1>3 DEF Linked

LEMMA StartsLinked ==
  ASSUME Inv, Starts
  PROVE  /\ Linked'
         /\ stack = << >> /\ Len(stack') = 1 /\ stack'[1].node = Root /\ stack'[1].ix = 0
<1> DEFINE f == Frame(Root, 0)
<1>1. stack' = <<f>> /\ pc = "root" /\ pc' = "rules" /\ Root' = Root
  BY DEF Starts, EvaluateRoot, Root, evalVars
<1>2. stack = << >>
  BY <1>1 DEF Inv, Located, WalkPlaces
<1>3. f.node = Root /\ f.ix = 0
  BY DEF Frame
<1> HIDE DEF f
<1>4. Len(stack') = 1 /\ stack'[1] = f
  BY <1>1
<1>5. Linked'
  <2>1. 1 .. Len(stack') - 1 = {}
    BY <1>4
  <2> QED BY <1>1, <1>3, <1>4, <2>1 DEF Linked
<1> QED BY <1>2, <1>3, <1>4, <1>5

\* The innermost frame changes, and keeps its node.
LEMMA PutLinked ==
  ASSUME Inv, Linked, stack # << >>, NEW f \in Frames, stack' = SetTop(f), f.node = Top.node,
         Root' = Root, pc' = "loop" => Node.op # "NOT"
  PROVE  Linked'
<1>1. PICK n : n = Len(stack)
  OBVIOUS
<1>2. /\ n \in Nat \ {0} /\ Len(stack') = n /\ stack'[n] = f /\ Top' = f
      /\ \A k \in 1 .. n : k # n => stack'[k] = stack[k]
  BY <1>1, PutStack
<1>3. \A k \in 1 .. n : stack'[k].node = stack[k].node
  BY <1>1, <1>2, TopFacts
<1>4. Node' = Node
  BY <1>2 DEF Node
<1>5. stack'[1].node = Root'
  BY <1>2, <1>3 DEF Linked
<1>6. ASSUME NEW k \in 1 .. n - 1
      PROVE  /\ stack'[k].ix >= 1
             /\ stack'[k + 1].node = NodeOf(k)'.children[stack'[k].ix]
             /\ NodeOf(k)'.op = "NOT" => Len(NodeOf(k)'.children) = 1
  <2>1. k \in 1 .. n /\ k # n /\ k + 1 \in 1 .. n
    BY <1>2
  <2>2. stack'[k] = stack[k] /\ stack'[k + 1].node = stack[k + 1].node /\ NodeOf(k)' = NodeOf(k)
    BY <1>2, <1>3, <2>1 DEF NodeOf
  <2> QED BY <1>1, <2>2 DEF Linked
<1> QED BY <1>2, <1>4, <1>5, <1>6 DEF Linked

LEMMA CallsLinked == Inv /\ Linked /\ Calls => Linked'
<1> SUFFICES ASSUME Inv, Linked, Calls PROVE Linked'
  OBVIOUS
<1>1. PICK n : n = Len(stack)
  OBVIOUS
<1>2. stack # << >> /\ Top.ix < Len(Node.children) /\ CallChild(Top) /\ Root' = Root /\ pc' = "rules"
  BY DEF Calls
<1>3. /\ n \in Nat \ {0} /\ Len(stack') = n + 1
      /\ stack'[n + 1].node = Node.children[Top.ix + 1]
      /\ stack'[n].node = Top.node /\ stack'[n].ix = Top.ix + 1
      /\ \A k \in 1 .. n : k # n => stack'[k] = stack[k]
  BY <1>1, <1>2, CallStack
<1>4. Top = stack[n] /\ Node = NodeOf(n) /\ Top.ix \in Nat
  BY <1>1, <1>2, TopFacts, FrameTypes
<1>5. \A k \in 1 .. n : stack'[k].node = stack[k].node /\ NodeOf(k)' = NodeOf(k)
  BY <1>3, <1>4 DEF NodeOf
<1>6. stack'[1].node = Root'
  BY <1>2, <1>3, <1>5 DEF Linked
<1>7. ASSUME NEW k \in 1 .. n
      PROVE  /\ stack'[k].ix >= 1
             /\ stack'[k + 1].node = NodeOf(k)'.children[stack'[k].ix]
             /\ NodeOf(k)'.op = "NOT" => Len(NodeOf(k)'.children) = 1
  <2>1. CASE k = n
    BY <1>3, <1>4, <1>5, <2>1 DEF Calls
  <2>2. CASE k # n
    <3>1. k \in 1 .. n - 1 /\ k + 1 \in 1 .. n
      BY <1>3, <2>2
    <3> QED BY <1>1, <1>3, <1>5, <2>2, <3>1 DEF Linked
  <2> QED BY <2>1, <2>2
<1>8. (n + 1) - 1 = n
  BY <1>3
<1> QED BY <1>2, <1>3, <1>6, <1>7, <1>8 DEF Linked

LEMMA ReturnsLinked ==
  ASSUME Inv, Linked, Returns
  PROVE  Linked'
<1>1. PICK n : n = Len(stack) - 1
  OBVIOUS
<1>2. pc = "return" /\ Root' = Root
  BY DEF Returns, ReturnToNot, ReturnToComposite, evalVars, Root
<1>3. /\ n \in Nat \ {0} /\ Len(stack) = n + 1 /\ Len(stack') = n
      /\ stack'[n].node = stack[n].node /\ stack'[n].ix = stack[n].ix
      /\ \A k \in 1 .. n : k # n => stack'[k] = stack[k]
  BY <1>1, <1>2, ReturnStack DEF Returns
<1>4. \A k \in 1 .. n : /\ stack'[k].node = stack[k].node /\ stack'[k].ix = stack[k].ix
                        /\ NodeOf(k)' = NodeOf(k)
  BY <1>3 DEF NodeOf
<1>5. stack'[1].node = Root'
  <2>1. stack # << >>
    BY <1>2, TopTypes DEF WalkPlaces
  <2> QED BY <1>2, <1>3, <1>4, <2>1 DEF Linked
<1>6. ASSUME NEW k \in 1 .. n - 1
      PROVE  /\ stack'[k].ix >= 1
             /\ stack'[k + 1].node = NodeOf(k)'.children[stack'[k].ix]
             /\ NodeOf(k)'.op = "NOT" => Len(NodeOf(k)'.children) = 1
  <2>1. k \in 1 .. n /\ k + 1 \in 1 .. n /\ k \in 1 .. Len(stack) - 1
    BY <1>3
  <2> QED BY <1>4, <2>1 DEF Linked
<1>7. pc' = "loop" => Node'.op # "NOT"
  <2>1. Node' = NodeOf(n)
    BY <1>3 DEF Node, Top, NodeOf
  <2> QED BY <1>1, <2>1 DEF Returns, ReturnToNot, ReturnToComposite, NodeOf
<1> QED BY <1>3, <1>5, <1>6, <1>7 DEF Linked

\* The callback of a node that is entered returns, with a handle.
LEMMA EnterStep ==
  ASSUME Inv, NEW h \in Handles, NodeEnterReturns(h)
  PROVE  \E f \in Frames : \E e \in Events :
           /\ stack # << >> /\ stack' = SetTop(f) /\ pc = "node_enter" /\ pc' = "node"
           /\ watcher' = watcher /\ Root' = Root /\ ret' = ret
           /\ f.node = Top.node /\ f.depth = Top.depth /\ f.ix = Top.ix
           /\ f.res = Top.res /\ f.handle = h
           /\ Log(e) /\ e.ev = "node_enter"
           /\ e.node = Top.node /\ e.depth = Top.depth /\ e.handle = h
<1> DEFINE f == [Top EXCEPT !.handle = h]
<1>1. /\ stack' = SetTop(f) /\ pc = "node_enter" /\ pc' = "node" /\ pc \in WalkPlaces
      /\ watcher' = watcher /\ Root' = Root /\ ret' = ret
      /\ Log(FrameEvent("node_enter", Watching, f, "ABSTAIN"))
  BY DEF NodeEnterReturns, WalkPlaces, evalVars, Root
<1>2. stack # << >> /\ Top \in Frames /\ h \in Nat
  BY <1>1, TopTypes, HostAssumption
<1>3. /\ f \in Frames /\ f.node = Top.node /\ f.depth = Top.depth /\ f.ix = Top.ix
      /\ f.res = Top.res /\ f.handle = h
  BY <1>2 DEF Frames
<1>4. "node_enter" \in EventNames /\ "ABSTAIN" \in Outcomes /\ Watching \in Observers \cup {NULL}
  BY DEF EventNames, CallbackNames, Outcomes, Results, Inv, TypeOK, Watching
<1> HIDE DEF f
<1> DEFINE e == FrameEvent("node_enter", Watching, f, "ABSTAIN")
<1>5. e \in Events
  BY <1>3, <1>4, FrameEventFacts
<1>6. e.ev = "node_enter" /\ e.node = f.node /\ e.depth = f.depth /\ e.handle = f.handle
  BY FrameEventFields
<1>7. Log(e)
  BY <1>1
<1> HIDE DEF e
<1> QED BY <1>1, <1>2, <1>3, <1>5, <1>6, <1>7

LEMMA ReportStep ==
  ASSUME Inv, Reported
  PROVE  \E e \in Events :
           /\ stack # << >> /\ stack' = stack /\ pc = "leave" /\ pc' = "node_exit"
           /\ watcher' = watcher /\ Root' = Root /\ ret' = ret
           /\ Log(e) /\ e.ev = "node_exit"
           /\ e.node = Top.node /\ e.depth = Top.depth /\ e.handle = Top.handle
<1> DEFINE f == [Top EXCEPT !.handle = ExitHandle(Top)]
<1>1. /\ stack' = stack /\ pc = "leave" /\ pc' = "node_exit" /\ pc \in WalkPlaces
      /\ watcher' = watcher /\ Root' = Root /\ ret' = ret
      /\ Log(FrameEvent("node_exit", Watching, f, ret))
  BY DEF Reported, LeaveNode, WalkPlaces, evalVars, walkVars, Root
<1>2. stack # << >> /\ Top \in Frames /\ ret \in Outcomes
  BY <1>1, TopTypes DEF Inv, TypeOK
<1>3. /\ f \in Frames /\ f.node = Top.node /\ f.depth = Top.depth /\ f.handle = Top.handle
  BY <1>2 DEF Frames, ExitHandle
<1>4. "node_exit" \in EventNames /\ Watching \in Observers \cup {NULL}
  BY DEF EventNames, CallbackNames, Inv, TypeOK, Watching
<1> HIDE DEF f
<1> DEFINE e == FrameEvent("node_exit", Watching, f, ret)
<1>5. e \in Events
  BY <1>2, <1>3, <1>4, FrameEventFacts
<1>6. e.ev = "node_exit" /\ e.node = f.node /\ e.depth = f.depth /\ e.handle = f.handle
  BY FrameEventFields
<1>7. Log(e)
  BY <1>1
<1> HIDE DEF e
<1> QED BY <1>1, <1>2, <1>3, <1>5, <1>6, <1>7

LEMMA ValueStep ==
  ASSUME Inv, Returns \/ ReturnToPolicy
  PROVE  \E e \in Events :
           /\ stack # << >> /\ pc = "return" /\ watcher' = watcher /\ Root' = Root
           /\ Log(e) /\ e.ev = "value"
           /\ e.node = Top.node /\ e.depth = Top.depth /\ e.res = ret
<1> DEFINE e == FrameEvent("value", NULL, Top, ret)
<1>1. /\ pc = "return" /\ pc \in WalkPlaces /\ watcher' = watcher /\ Root' = Root /\ Log(e)
  BY DEF Returns, ReturnToNot, ReturnToComposite, ReturnToPolicy, WalkPlaces, evalVars, Root
<1>2. stack # << >> /\ Top \in Frames /\ ret \in Outcomes /\ NULL \in Observers \cup {NULL}
  BY <1>1, TopTypes DEF Inv, TypeOK
<1>3. "value" \in EventNames
  BY DEF EventNames
<1>4. e \in Events
  BY <1>2, <1>3, FrameEventFacts
<1>5. e.ev = "value" /\ e.node = Top.node /\ e.depth = Top.depth /\ e.res = ret
  BY FrameEventFields
<1> HIDE DEF e
<1> QED BY <1>1, <1>2, <1>4, <1>5

LEMMA BeginStep ==
  ASSUME Inv, BeginComposite
  PROVE  \E r \in InitialResults(Node.op) : \E f \in Frames :
           /\ stack # << >> /\ stack' = SetTop(f) /\ pc = "node" /\ pc' = "loop"
           /\ f.node = Top.node /\ f.depth = Top.depth /\ f.ix = 0 /\ f.res = r
           /\ f.handle = Top.handle
           /\ Node.kind = "comp" /\ Node.op # "NOT"
           /\ watcher' = watcher /\ Root' = Root /\ Quiet
<1>1. /\ pc = "node" /\ pc' = "loop" /\ pc \in WalkPlaces /\ Node.kind = "comp" /\ Node.op # "NOT"
      /\ watcher' = watcher /\ Root' = Root /\ trace' = trace
  BY DEF BeginComposite, WalkPlaces, evalVars, Root
<1>2. PICK r \in InitialResults(Node.op) : stack' = SetTop([Top EXCEPT !.res = r])
  BY DEF BeginComposite
<1> DEFINE f == [Top EXCEPT !.res = r]
<1>3. r \in Outcomes
  BY DEF InitialResults, Outcomes, Results
<1>4. stack # << >> /\ Top \in Frames /\ Top.ix = 0
  BY <1>1, TopTypes DEF Inv, AtTop
<1>5. /\ f \in Frames /\ f.node = Top.node /\ f.depth = Top.depth /\ f.ix = 0 /\ f.res = r
      /\ f.handle = Top.handle
  BY <1>3, <1>4 DEF Frames
<1>6. stack' = SetTop(f)
  BY <1>2
<1> HIDE DEF f
<1> QED BY <1>1, <1>4, <1>5, <1>6, SilentIsQuiet

LEMMA LinkedKept ==
  ASSUME Inv, Linked, Next
  PROVE  Linked'
<1>1. Outside \/ ReturnToPolicy => Linked'
  BY OutsideLinked DEF Outside, ReturnToPolicy, WalkPlaces
<1>2. Rests \/ Calls \/ Returns \/ Starts => Linked'
  BY RestsLinked, CallsLinked, ReturnsLinked, StartsLinked
<1>3. Reported => Linked'
  <2> SUFFICES ASSUME Reported PROVE Linked'
    OBVIOUS
  <2>1. stack' = stack /\ Root' = Root /\ pc' # "loop"
    BY ReportStep
  <2>2. \A k : NodeOf(k)' = NodeOf(k)
    BY <2>1 DEF NodeOf
  <2> QED BY <2>1, <2>2 DEF Linked
<1>4. BeginComposite => Linked'
  BY BeginStep, PutLinked
<1>5. ASSUME NEW h \in Handles, NodeEnterReturns(h) PROVE Linked'
  BY <1>5, EnterStep, PutLinked
<1> QED BY <1>1, <1>2, <1>3, <1>4, <1>5, StepKinds

-----------------------------------------------------------------------------
(* Turns *)

\* What was evaluated stays in the history.
ValuesKept == ValueEvents \subseteq ValueEvents' /\ \A i \in ValueEvents : trace'[i] = trace[i]

LEMMA QuietValues == Quiet => ValuesKept /\ ValueEvents' = ValueEvents
BY DEF Quiet, ValuesKept, Kept

LEMMA LogValues ==
  ASSUME Inv, NEW e \in Events, Log(e)
  PROVE  ValuesKept
<1>1. PICK n : n = Len(trace)
  OBVIOUS
<1>2. ValueEvents \subseteq Kept
  BY DEF Kept
<1> QED BY <1>1, <1>2, LogKinds DEF ValuesKept

\* A frame goes on with the same fold.
Continues(k) ==
  /\ k \in 1 .. Len(stack) /\ Folding(k) /\ Done(k)' = Done(k)
  /\ stack'[k].node = stack[k].node /\ stack'[k].res = stack[k].res

\* A frame that folds has either no child yet or the children it had.
Carried(k) ==
  \/ Done(k)' = 0
  \/ k \in 1 .. Len(stack) /\ Folding(k) /\ stack'[k].node = stack[k].node /\ Done(k)' = Done(k)

LEMMA TurnCarried ==
  ASSUME Turns, ValuesKept, NEW k \in 1 .. Len(stack'), Carried(k)
  PROVE  \A c \in 1 .. Done(k)' : \E m \in ValueEvents' :
           /\ Place(trace'[m]) = ChildAt(k, c)'
           /\ trace'[m].res \notin Deciding(NodeOf(k)'.op)
<1>1. CASE Done(k)' = 0
  <2>1. 1 .. Done(k)' = {}
    BY <1>1
  <2> QED BY <2>1
<1>2. CASE k \in 1 .. Len(stack) /\ Folding(k) /\ stack'[k].node = stack[k].node
           /\ Done(k)' = Done(k)
  <2>1. NodeOf(k)' = NodeOf(k)
    BY <1>2 DEF NodeOf
  <2>2. \A c : ChildAt(k, c)' = ChildAt(k, c)
    BY <2>1 DEF ChildAt
  <2>3. ASSUME NEW c \in 1 .. Done(k)'
        PROVE  \E m \in ValueEvents' :
                 /\ Place(trace'[m]) = ChildAt(k, c)'
                 /\ trace'[m].res \notin Deciding(NodeOf(k)'.op)
    <3>1. c \in 1 .. Done(k)
      BY <1>2
    <3>2. PICK m \in ValueEvents : /\ Place(trace[m]) = ChildAt(k, c)
                                   /\ trace[m].res \notin Deciding(NodeOf(k).op)
      BY <1>2, <3>1 DEF Turns
    <3>3. m \in ValueEvents' /\ trace'[m] = trace[m]
      BY DEF ValuesKept
    <3> QED BY <2>1, <2>2, <3>2, <3>3
  <2> QED BY <2>3
<1> QED BY <1>1, <1>2 DEF Carried

LEMMA TurnsCarried ==
  ASSUME Turns, ValuesKept, \A k \in 1 .. Len(stack') : Folding(k)' => Carried(k)
  PROVE  Turns'
BY TurnCarried DEF Turns

LEMMA OutsideCarried ==
  ASSUME stack' = << >>
  PROVE  \A k \in 1 .. Len(stack') : FALSE
BY OutsideStack

LEMMA RestsCarried ==
  ASSUME stack' = stack, pc' = "loop" => pc = "loop"
  PROVE  \A k \in 1 .. Len(stack') : Folding(k)' => Continues(k) /\ Carried(k)
BY DEF Folding, Carried, Done, Continues

LEMMA PutCarried ==
  ASSUME Inv, stack # << >>, NEW f \in Frames, stack' = SetTop(f), pc' = "loop" => f.ix = 0
  PROVE  \A k \in 1 .. Len(stack') :
           Folding(k)' => /\ Carried(k)
                          /\ \/ k = Len(stack) /\ pc' = "loop" /\ Done(k)' = 0
                             \/ Continues(k)
<1>1. PICK n : n = Len(stack)
  OBVIOUS
<1>2. /\ n \in Nat \ {0} /\ Len(stack') = n /\ stack'[n] = f
      /\ \A k \in 1 .. n : k # n => stack'[k] = stack[k]
  BY <1>1, PutStack
<1>3. ASSUME NEW k \in 1 .. n, Folding(k)'
      PROVE  /\ Carried(k)
             /\ \/ k = n /\ pc' = "loop" /\ Done(k)' = 0
                \/ Continues(k)
  <2>1. CASE k = n
    <3>1. pc' = "loop" /\ Done(k)' = 0
      BY <1>2, <1>3, <2>1 DEF Folding, Done
    <3> QED BY <2>1, <3>1 DEF Carried
  <2>2. CASE k # n
    <3>1. k < n /\ stack'[k] = stack[k]
      BY <1>2, <2>2
    <3>2. Folding(k) /\ Done(k)' = Done(k)
      BY <1>1, <1>2, <3>1 DEF Folding, Done
    <3> QED BY <1>1, <3>1, <3>2 DEF Carried, Continues
  <2> QED BY <2>1, <2>2
<1> QED BY <1>1, <1>2, <1>3

LEMMA CallsCarried ==
  ASSUME Inv, Calls
  PROVE  \A k \in 1 .. Len(stack') :
           Folding(k)' => Carried(k) /\ (Continues(k) \/ NodeOf(k)'.op = "NOT")
<1>1. PICK n : n = Len(stack)
  OBVIOUS
<1>2. stack # << >> /\ Top.ix < Len(Node.children) /\ CallChild(Top) /\ pc' = "rules"
  BY DEF Calls
<1>3. /\ n \in Nat \ {0} /\ Len(stack') = n + 1
      /\ stack'[n].node = Top.node /\ stack'[n].ix = Top.ix + 1 /\ stack'[n].res = Top.res
      /\ \A k \in 1 .. n : k # n => stack'[k] = stack[k]
  BY <1>1, <1>2, CallStack
<1>4. Top = stack[n] /\ Node = NodeOf(n) /\ Top.ix \in Nat
  BY <1>1, <1>2, TopFacts, FrameTypes
<1>5. ASSUME NEW k \in 1 .. n + 1, Folding(k)'
      PROVE  Carried(k) /\ (Continues(k) \/ NodeOf(k)'.op = "NOT")
  <2>1. k < n + 1
    BY <1>2, <1>3, <1>5 DEF Folding
  <2>2. CASE k = n
    <3>1. Done(k)' = Top.ix
      BY <1>3, <1>4, <2>1, <2>2 DEF Done
    <3>2. CASE pc = "loop"
      <4>1. Folding(k) /\ Done(k) = Top.ix
        BY <1>1, <1>3, <1>4, <2>2, <3>2 DEF Folding, Done
      <4> QED BY <1>1, <1>3, <1>4, <2>2, <3>1, <4>1 DEF Carried, Continues
    <3>3. CASE pc # "loop"
      <4>1. pc = "node" /\ Node.op = "NOT"
        BY <3>3 DEF Calls
      <4>2. Top.ix = 0
        BY <4>1 DEF Inv, AtTop
      <4>3. NodeOf(k)' = NodeOf(k)
        BY <1>3, <1>4, <2>2 DEF NodeOf
      <4> QED BY <1>4, <2>2, <3>1, <4>1, <4>2, <4>3 DEF Carried
    <3> QED BY <3>2, <3>3
  <2>3. CASE k # n
    <3>1. k < n /\ k \in 1 .. n /\ stack'[k] = stack[k]
      BY <1>3, <2>1, <2>3
    <3>2. Folding(k) /\ Done(k)' = Done(k)
      BY <1>1, <1>3, <3>1 DEF Folding, Done
    <3> QED BY <1>1, <3>1, <3>2 DEF Carried, Continues
  <2> QED BY <2>2, <2>3
<1> QED BY <1>1, <1>3, <1>5

LEMMA StartsCarried ==
  ASSUME Inv, Starts
  PROVE  \A k \in 1 .. Len(stack') : ~Folding(k)'
<1>1. Len(stack') = 1 /\ pc' = "rules"
  BY StartsLinked DEF Starts, EvaluateRoot, Root
<1> QED BY <1>1 DEF Folding

\* A fold that goes on was not decided by the value it took in.
LEMMA NotDecided ==
  ASSUME NEW op, NEW a, NEW b, op # "NOT", ~ShortCircuits(op, DoOper(op, a, b))
  PROVE  b \notin Deciding(op)
<1>1. CASE op = "AND"
  BY <1>1 DEF ShortCircuits, DoOper, DoAnd, Deciding
<1>2. CASE op = "OR"
  BY <1>2 DEF ShortCircuits, DoOper, DoOr, Deciding
<1>3. CASE op # "AND" /\ op # "OR"
  BY <1>3 DEF Deciding
<1> QED BY <1>1, <1>2, <1>3

\* A child that returns is the one its caller counted last.
LEMMA ReturnFacts ==
  ASSUME Inv, Linked, Returns, NEW n, n = Len(stack) - 1
  PROVE  /\ n \in Nat \ {0} /\ Len(stack) = n + 1 /\ Len(stack') = n /\ n \in 1 .. n
         /\ pc = "return"
         /\ stack[n].ix \in Nat \ {0} /\ stack[n].ix \in 1 .. Len(NodeOf(n).children)
         /\ TopPlace = ChildAt(n, stack[n].ix) /\ Top.depth = n
         /\ stack'[n].node = stack[n].node /\ stack'[n].ix = stack[n].ix
         /\ stack'[n].handle = stack[n].handle
         /\ NodeOf(n)' = NodeOf(n)
         /\ Done(n) = stack[n].ix - 1 /\ Folding(n)
         /\ \A k \in 1 .. n : k # n => /\ stack'[k] = stack[k] /\ k < n
                                       /\ Folding(k) /\ Done(k)' = Done(k)
<1>1. pc = "return"
  BY DEF Returns, ReturnToNot, ReturnToComposite
<1>2. /\ n \in Nat \ {0} /\ Len(stack) = n + 1 /\ Len(stack') = n
      /\ stack'[n].node = stack[n].node /\ stack'[n].ix = stack[n].ix
      /\ stack'[n].handle = stack[n].handle
      /\ \A k \in 1 .. n : k # n => stack'[k] = stack[k]
  BY <1>1, ReturnStack DEF Returns
<1>3. n \in 1 .. n /\ n \in 1 .. Len(stack) - 1 /\ n \in 1 .. Len(stack) /\ n < Len(stack)
  <2>1. PICK m \in Nat : m = n /\ m # 0 /\ Len(stack) = m + 1
    BY <1>2, Zenon
  <2> QED BY <2>1
<1>4. stack[n].ix >= 1 /\ stack[n + 1].node = NodeOf(n).children[stack[n].ix]
  BY <1>3 DEF Linked
<1>5. stack[n].ix \in Nat /\ stack[n].ix <= Len(NodeOf(n).children) /\ Len(NodeOf(n).children) \in Nat
  BY <1>3, FrameTypes
<1>6. stack[n].ix \in Nat \ {0} /\ stack[n].ix \in 1 .. Len(NodeOf(n).children)
  BY <1>4, <1>5
<1>7. TopPlace = <<stack[n + 1].node, n>> /\ Top.depth = n
  <2>1. stack # << >>
    BY <1>1, TopTypes DEF WalkPlaces
  <2>2. PICK m : m = Len(stack)
    OBVIOUS
  <2>3. m = n + 1 /\ m - 1 = n
    BY <1>2, <2>2
  <2> QED BY <2>1, <2>2, <2>3, TopFacts
<1>8. TopPlace = ChildAt(n, stack[n].ix)
  BY <1>4, <1>7 DEF ChildAt
<1>9. NodeOf(n)' = NodeOf(n)
  BY <1>2 DEF NodeOf
<1>10. Done(n) = stack[n].ix - 1 /\ Folding(n)
  BY <1>3 DEF Done, Folding
<1>11. ASSUME NEW k \in 1 .. n, k # n
       PROVE  stack'[k] = stack[k] /\ k < n /\ Folding(k) /\ Done(k)' = Done(k)
  <2>1. k < n /\ k < Len(stack) /\ k < Len(stack') /\ stack'[k] = stack[k]
    BY <1>2, <1>11
  <2> QED BY <2>1 DEF Folding, Done
<1> QED BY <1>1, <1>2, <1>3, <1>6, <1>7, <1>8, <1>9, <1>10, <1>11

\* The value it returns is the newest of the history.
LEMMA ReturnValue ==
  ASSUME Inv, Returns \/ ReturnToPolicy
  PROVE  /\ ValuesKept
         /\ \E w \in ValueEvents' :
              /\ w \notin ValueEvents /\ ValueEvents' = ValueEvents \cup {w}
              /\ w \in Nat /\ \A i \in ValueEvents : i < w
              /\ Place(trace'[w]) = TopPlace /\ trace'[w].depth = Top.depth
              /\ trace'[w].node = Top.node /\ trace'[w].res = ret
         /\ Enters' = Enters /\ Exits' = Exits
         /\ \A i \in Kept : trace'[i] = trace[i]
<1>1. PICK e \in Events : /\ Log(e) /\ e.ev = "value"
                          /\ e.node = Top.node /\ e.depth = Top.depth /\ e.res = ret
  BY ValueStep
<1>2. PICK n : n = Len(trace)
  OBVIOUS
<1>3. /\ n \in Nat /\ n + 1 \notin Kept /\ trace'[n + 1] = e
      /\ \A i \in Kept : i \in 1 .. n /\ trace'[i] = trace[i]
      /\ ValueEvents' = ValueEvents \cup (IF e.ev = "value" THEN {n + 1} ELSE {})
      /\ Enters' = Enters \cup (IF e.ev = "node_enter" THEN {n + 1} ELSE {})
      /\ Exits' = Exits \cup (IF e.ev = "node_exit" THEN {n + 1} ELSE {})
  BY <1>1, <1>2, LogKinds
<1>4. ValueEvents' = ValueEvents \cup {n + 1} /\ Enters' = Enters /\ Exits' = Exits
  BY <1>1, <1>3
<1>5. \A i \in ValueEvents : i < n + 1
  BY <1>3 DEF Kept
<1>6. Place(trace'[n + 1]) = TopPlace
  BY <1>1, <1>3 DEF Place, TopPlace
<1>7. n + 1 \notin ValueEvents /\ n + 1 \in ValueEvents' /\ n + 1 \in Nat
  BY <1>3, <1>4 DEF Kept
<1> QED BY <1>1, <1>3, <1>4, <1>5, <1>6, <1>7, LogValues

LEMMA ReturnsTurns ==
  ASSUME Inv, Linked, Turns, Returns
  PROVE  Turns'
<1>1. PICK n : n = Len(stack) - 1
  OBVIOUS
<1>2. /\ n \in Nat \ {0} /\ Len(stack') = n /\ n \in 1 .. Len(stack)
      /\ stack[n].ix \in Nat \ {0} /\ stack'[n].ix = stack[n].ix
      /\ TopPlace = ChildAt(n, stack[n].ix) /\ NodeOf(n)' = NodeOf(n)
      /\ Done(n) = stack[n].ix - 1 /\ Folding(n)
      /\ \A k \in 1 .. n : k # n => Carried(k)
  <2>1. /\ n \in Nat \ {0} /\ Len(stack) = n + 1 /\ Len(stack') = n
        /\ stack[n].ix \in Nat \ {0} /\ stack'[n].ix = stack[n].ix
        /\ TopPlace = ChildAt(n, stack[n].ix) /\ NodeOf(n)' = NodeOf(n)
        /\ Done(n) = stack[n].ix - 1 /\ Folding(n)
        /\ \A k \in 1 .. n : k # n => /\ stack'[k] = stack[k] /\ k < n
                                      /\ Folding(k) /\ Done(k)' = Done(k)
    BY <1>1, ReturnFacts, SMTT(30)
  <2>2. \A k \in 1 .. n : k \in 1 .. Len(stack)
    BY <2>1
  <2>3. n \in 1 .. Len(stack)
    BY <2>1
  <2>4. ASSUME NEW k \in 1 .. n, k # n PROVE Carried(k)
    <3>1. stack'[k] = stack[k] /\ Folding(k) /\ Done(k)' = Done(k) /\ k \in 1 .. Len(stack)
      BY <2>1, <2>2, <2>4
    <3> QED BY <3>1 DEF Carried
  <2> QED BY <2>1, <2>3, <2>4
<1>3. PICK w \in ValueEvents' : Place(trace'[w]) = TopPlace /\ trace'[w].res = ret
  BY ReturnValue
<1>4. ValuesKept
  BY ReturnValue
<1>5. ASSUME NEW k \in 1 .. n, Folding(k)', NEW c \in 1 .. Done(k)'
      PROVE  \E m \in ValueEvents' :
               /\ Place(trace'[m]) = ChildAt(k, c)'
               /\ trace'[m].res \notin Deciding(NodeOf(k)'.op)
  <2>1. CASE k # n
    BY <1>2, <1>4, <1>5, <2>1, TurnCarried
  <2>2. CASE k = n
    <3>1. pc' = "loop" /\ Done(n)' = stack[n].ix
      BY <1>2, <1>5, <2>2 DEF Folding, Done
    <3>2. NodeOf(n).op # "NOT" /\ ~ShortCircuits(NodeOf(n).op, DoOper(NodeOf(n).op, stack[n].res, ret))
      BY <1>1, <3>1 DEF Returns, ReturnToNot, ReturnToComposite, NodeOf
    <3>3. ret \notin Deciding(NodeOf(n).op)
      BY <3>2, NotDecided
    <3>4. \A d : ChildAt(n, d)' = ChildAt(n, d)
      BY <1>2 DEF ChildAt
    <3>5. CASE c = stack[n].ix
      BY <1>2, <1>3, <2>2, <3>3, <3>4, <3>5
    <3>6. CASE c # stack[n].ix
      <4>1. c \in 1 .. Done(n)
        BY <1>2, <1>5, <2>2, <3>1, <3>6
      <4>2. PICK m \in ValueEvents : /\ Place(trace[m]) = ChildAt(n, c)
                                     /\ trace[m].res \notin Deciding(NodeOf(n).op)
        BY <1>2, <4>1 DEF Turns
      <4>3. m \in ValueEvents' /\ trace'[m] = trace[m]
        BY <1>4 DEF ValuesKept
      <4> QED BY <1>2, <2>2, <3>4, <4>2, <4>3
    <3> QED BY <3>5, <3>6
  <2> QED BY <2>1, <2>2
<1> QED BY <1>2, <1>5 DEF Turns

LEMMA TurnsKept ==
  ASSUME Inv, Linked, Turns, Next
  PROVE  Turns'
<1>1. Outside \/ ReturnToPolicy => Turns'
  BY OutsideCarried DEF Outside, ReturnToPolicy, Turns
<1>2. Rests => Turns'
  BY RestsCarried, TurnsCarried, QuietValues DEF Rests
<1>3. Calls => Turns'
  BY CallsCarried, TurnsCarried, QuietValues DEF Calls
<1>4. Returns => Turns'
  BY ReturnsTurns
<1>5. Starts => Turns'
  BY StartsCarried DEF Turns
<1>6. Reported => Turns'
  <2> SUFFICES ASSUME Reported PROVE Turns'
    OBVIOUS
  <2>1. PICK e \in Events : stack' = stack /\ pc' = "node_exit" /\ Log(e)
    BY ReportStep
  <2> QED BY <2>1, LogValues, RestsCarried, TurnsCarried
<1>7. BeginComposite => Turns'
  <2> SUFFICES ASSUME BeginComposite PROVE Turns'
    OBVIOUS
  <2>1. PICK f \in Frames : stack # << >> /\ stack' = SetTop(f) /\ f.ix = 0 /\ Quiet
    BY BeginStep
  <2> QED BY <2>1, QuietValues, PutCarried, TurnsCarried
<1>8. ASSUME NEW h \in Handles, NodeEnterReturns(h) PROVE Turns'
  <2>1. PICK f \in Frames, e \in Events :
          stack # << >> /\ stack' = SetTop(f) /\ pc' = "node" /\ Log(e)
    BY <1>8, EnterStep
  <2> QED BY <2>1, LogValues, PutCarried, TurnsCarried
<1> QED BY <1>1, <1>2, <1>3, <1>4, <1>5, <1>6, <1>7, <1>8, StepKinds

-----------------------------------------------------------------------------
(* Placed *)

\* Having had its turn is for good.
LEMMA InTurnKept ==
  ASSUME ValuesKept, NEW i \in ValueEvents, NEW p, NEW j, InTurn(i, p, j)
  PROVE  InTurn(i, p, j)'
<1>1. trace'[i] = trace[i]
  BY DEF ValuesKept
<1>2. ASSUME NEW k \in 1 .. j - 1
      PROVE  \E m \in ValueEvents' :
               /\ m < i
               /\ Place(trace'[m]) = <<Tree[p].children[k], trace'[i].depth>>
               /\ trace'[m].res \notin Deciding(Tree[p].op)
  <2>1. PICK m \in ValueEvents :
               /\ m < i
               /\ Place(trace[m]) = <<Tree[p].children[k], trace[i].depth>>
               /\ trace[m].res \notin Deciding(Tree[p].op)
    BY <1>2 DEF InTurn
  <2>2. m \in ValueEvents' /\ trace'[m] = trace[m]
    BY DEF ValuesKept
  <2> QED BY <1>1, <2>1, <2>2
<1>3. Tree[p].children[j] = trace'[i].node
  BY <1>1 DEF InTurn
<1> QED BY <1>2, <1>3 DEF InTurn

LEMMA ReachedKept ==
  ASSUME ValuesKept
  PROVE  Reached \subseteq Reached'
BY DEF ValuesKept, Reached

LEMMA ValueDepths ==
  ASSUME Inv
  PROVE  \A i \in ValueEvents : trace[i].depth \in Nat /\ trace[i].node \in Nodes \cup {NULL}
                                /\ trace[i].res \in Outcomes
<1>1. \A i \in ValueEvents : trace[i] \in Events
  BY KeptTypes
<1> QED BY <1>1 DEF Events

\* One event, after a step that keeps what was evaluated.
LEMMA PlaceCarried ==
  ASSUME Inv, Placed, ValuesKept, NEW i \in ValueEvents, trace'[i].depth # 0,
         \A p : trace[i].depth <= Len(stack) /\ stack[trace[i].depth].node = p =>
           \/ trace[i].depth <= Len(stack') /\ stack'[trace[i].depth].node = p
           \/ <<p, trace[i].depth - 1>> \in Reached'
  PROVE  \E p \in Nodes :
           /\ \E j \in DOMAIN Tree[p].children : InTurn(i, p, j)'
           /\ \/ <<p, trace'[i].depth - 1>> \in Reached'
              \/ trace'[i].depth <= Len(stack') /\ stack'[trace'[i].depth].node = p
<1>1. trace'[i] = trace[i]
  BY DEF ValuesKept
<1>2. PICK p \in Nodes :
        /\ \E j \in DOMAIN Tree[p].children : InTurn(i, p, j)
        /\ \/ <<p, trace[i].depth - 1>> \in Reached
           \/ trace[i].depth <= Len(stack) /\ stack[trace[i].depth].node = p
  BY <1>1 DEF Placed
<1>3. PICK j \in DOMAIN Tree[p].children : InTurn(i, p, j)
  BY <1>2
<1>4. InTurn(i, p, j)'
  BY <1>3, InTurnKept
<1>5. \/ <<p, trace'[i].depth - 1>> \in Reached'
      \/ trace'[i].depth <= Len(stack') /\ stack'[trace'[i].depth].node = p
  BY <1>1, <1>2, ReachedKept
<1> QED BY <1>4, <1>5

\* A step that evaluates nothing and leaves the path to the innermost frame.
LEMMA PlacedCarried ==
  ASSUME Inv, Placed, ValuesKept, ValueEvents' = ValueEvents,
         Len(stack) <= Len(stack'), Len(stack') \in Nat,
         \A k \in 1 .. Len(stack) : stack'[k].node = stack[k].node
  PROVE  Placed'
<1>1. ASSUME NEW i \in ValueEvents', trace'[i].depth # 0
      PROVE  \E p \in Nodes :
               /\ \E j \in DOMAIN Tree[p].children : InTurn(i, p, j)'
               /\ \/ <<p, trace'[i].depth - 1>> \in Reached'
                  \/ trace'[i].depth <= Len(stack') /\ stack'[trace'[i].depth].node = p
  <2>1. i \in ValueEvents /\ trace'[i] = trace[i]
    BY DEF ValuesKept
  <2>2. PICK d \in Nat : d = trace[i].depth /\ d # 0
    BY <1>1, <2>1, ValueDepths
  <2>3. ASSUME d <= Len(stack) PROVE d <= Len(stack') /\ stack'[d].node = stack[d].node
    <3>1. Len(stack) \in Nat
      BY FrameTypes
    <3>2. d \in 1 .. Len(stack)
      BY <2>2, <2>3, <3>1
    <3> QED BY <2>2, <2>3, <3>1, <3>2
  <2> QED BY <1>1, <2>1, <2>2, <2>3, PlaceCarried
<1> QED BY <1>1 DEF Placed

LEMMA OutsidePlaced ==
  ASSUME Inv, Placed, Outside
  PROVE  Placed'
<1>1. CASE Fresh
  BY <1>1 DEF Fresh, Placed
<1>2. CASE Quiet
  <2>1. Len(stack) = 0 /\ stack' = stack
    BY NothingInEmpty DEF Outside
  <2> QED BY <1>2, <2>1, QuietValues, PlacedCarried
<1> QED BY <1>1, <1>2 DEF Outside

\* The node that returns is in the history now, and no longer needs its frame.
LEMMA PopPlaced ==
  ASSUME Inv, Placed, Returns \/ ReturnToPolicy,
         \A k \in 1 .. Len(stack) - 1 : k <= Len(stack') /\ stack'[k].node = stack[k].node,
         NEW i \in ValueEvents, trace'[i].depth # 0
  PROVE  \E p \in Nodes :
           /\ \E j \in DOMAIN Tree[p].children : InTurn(i, p, j)'
           /\ \/ <<p, trace'[i].depth - 1>> \in Reached'
              \/ trace'[i].depth <= Len(stack') /\ stack'[trace'[i].depth].node = p
<1>1. PICK w \in ValueEvents' : Place(trace'[w]) = TopPlace
  BY ReturnValue
<1>2. ValuesKept
  BY ReturnValue
<1>3. trace'[i] = trace[i]
  BY <1>2 DEF ValuesKept
<1>4. PICK d \in Nat : d = trace[i].depth /\ d # 0
  BY <1>3, ValueDepths
<1>5. PICK n \in Nat : n = Len(stack) /\ n # 0 /\ TopPlace = <<stack[n].node, n - 1>>
  <2>1. stack # << >>
    BY ValueStep
  <2> QED BY <2>1, TopFacts
<1>6. ASSUME d <= n
      PROVE  \/ d <= Len(stack') /\ stack'[d].node = stack[d].node
             \/ <<stack[d].node, d - 1>> \in Reached'
  <2>1. CASE d = n
    BY <1>1, <1>5, <2>1 DEF Reached
  <2>2. CASE d # n
    <3>1. d \in 1 .. n - 1
      BY <1>4, <1>6, <2>2
    <3> QED BY <1>5, <3>1
  <2> QED BY <2>1, <2>2
<1> QED BY <1>2, <1>4, <1>5, <1>6, PlaceCarried

\* What returns has had its turn under the frame it returns to.
LEMMA ReturnInTurn ==
  ASSUME Inv, Linked, Turns, Returns, NEW n, n = Len(stack) - 1,
         NEW w \in ValueEvents', ValueEvents' = ValueEvents \cup {w},
         \A i \in ValueEvents : i < w, trace'[w].node = Top.node, trace'[w].depth = n,
         NEW p, p = stack[n].node, NEW j, j = stack[n].ix
  PROVE  InTurn(w, p, j)'
<1>1. /\ n \in Nat \ {0} /\ Len(stack) = n + 1
      /\ stack[n].ix \in Nat \ {0}
      /\ TopPlace = ChildAt(n, stack[n].ix)
      /\ Done(n) = stack[n].ix - 1 /\ Folding(n)
  BY ReturnFacts
<1>2. ValuesKept
  BY ReturnValue
<1>3. n \in 1 .. Len(stack)
  BY <1>1
<1>4. ASSUME NEW k \in 1 .. j - 1
      PROVE  \E m \in ValueEvents' :
               /\ m < w
               /\ Place(trace'[m]) = <<Tree[p].children[k], trace'[w].depth>>
               /\ trace'[m].res \notin Deciding(Tree[p].op)
  <2>1. PICK m \in ValueEvents : /\ Place(trace[m]) = ChildAt(n, k)
                                 /\ trace[m].res \notin Deciding(NodeOf(n).op)
    BY <1>1, <1>3, <1>4 DEF Turns
  <2>2. m \in ValueEvents' /\ trace'[m] = trace[m]
    BY <1>2 DEF ValuesKept
  <2> QED BY <2>1, <2>2 DEF ChildAt, NodeOf
<1>5. Tree[p].children[j] = trace'[w].node
  BY <1>1 DEF ChildAt, NodeOf, TopPlace
<1> QED BY <1>4, <1>5 DEF InTurn

LEMMA ReturnsPlaced ==
  ASSUME Inv, Linked, Turns, Placed, Returns
  PROVE  Placed'
<1>1. PICK n : n = Len(stack) - 1
  OBVIOUS
<1>2. /\ n \in Nat \ {0} /\ Len(stack) = n + 1 /\ Len(stack') = n
      /\ stack[n].ix \in 1 .. Len(NodeOf(n).children)
      /\ Top.depth = n
      /\ stack'[n].node = stack[n].node
      /\ \A k \in 1 .. n : k # n => stack'[k] = stack[k]
  <2>1. /\ n \in Nat \ {0} /\ Len(stack) = n + 1 /\ Len(stack') = n
        /\ stack[n].ix \in 1 .. Len(NodeOf(n).children)
        /\ Top.depth = n
        /\ stack'[n].node = stack[n].node
    BY <1>1, ReturnFacts, SMTT(30)
  <2>2. \A k \in 1 .. n : k # n => stack'[k] = stack[k]
    BY <1>1, ReturnFacts, SMTT(30)
  <2> QED BY <2>1, <2>2
<1>3. PICK w \in ValueEvents' :
              /\ ValueEvents' = ValueEvents \cup {w} /\ \A i \in ValueEvents : i < w
              /\ trace'[w].depth = Top.depth /\ trace'[w].node = Top.node
  BY ReturnValue
<1>4. PICK p, j : p = stack[n].node /\ j = stack[n].ix
  OBVIOUS
<1>5. InTurn(w, p, j)'
  BY <1>1, <1>2, <1>3, <1>4, ReturnInTurn
<1>6. \A k \in 1 .. Len(stack) - 1 : k <= Len(stack') /\ stack'[k].node = stack[k].node
  BY <1>2
<1>7. p \in Nodes /\ j \in DOMAIN Tree[p].children
  <2>1. n \in 1 .. Len(stack)
    BY <1>2
  <2> QED BY <1>2, <1>4, <2>1, FrameTypes DEF NodeOf
<1>8. trace'[w].depth <= Len(stack') /\ stack'[trace'[w].depth].node = p
  BY <1>2, <1>3, <1>4
<1>9. ASSUME NEW i \in ValueEvents', trace'[i].depth # 0
      PROVE  \E q \in Nodes :
               /\ \E c \in DOMAIN Tree[q].children : InTurn(i, q, c)'
               /\ \/ <<q, trace'[i].depth - 1>> \in Reached'
                  \/ trace'[i].depth <= Len(stack') /\ stack'[trace'[i].depth].node = q
  <2>1. CASE i = w
    BY <1>5, <1>7, <1>8, <2>1
  <2>2. CASE i # w
    <3>1. i \in ValueEvents
      BY <1>3, <2>2
    <3> QED BY <1>6, <1>9, <3>1, PopPlaced
  <2> QED BY <2>1, <2>2
<1> QED BY <1>9 DEF Placed

LEMMA ReturnToPolicyPlaced ==
  ASSUME Inv, Placed, ReturnToPolicy
  PROVE  Placed'
<1>1. Len(stack) = 1 /\ 1 .. Len(stack) - 1 = {}
  BY DEF ReturnToPolicy
<1>2. stack # << >>
  BY ValueStep
<1>3. Top.depth = 0
  BY <1>1, <1>2, TopFacts
<1>4. PICK w \in ValueEvents' : ValueEvents' = ValueEvents \cup {w} /\ trace'[w].depth = Top.depth
  BY ReturnValue
<1>5. ASSUME NEW i \in ValueEvents', trace'[i].depth # 0
      PROVE  \E p \in Nodes :
               /\ \E j \in DOMAIN Tree[p].children : InTurn(i, p, j)'
               /\ \/ <<p, trace'[i].depth - 1>> \in Reached'
                  \/ trace'[i].depth <= Len(stack') /\ stack'[trace'[i].depth].node = p
  <2>1. i \in ValueEvents
    BY <1>3, <1>4, <1>5
  <2> QED BY <1>1, <1>5, <2>1, PopPlaced
<1> QED BY <1>5 DEF Placed

LEMMA PlacedKept ==
  ASSUME Inv, Linked, Turns, Placed, Next
  PROVE  Placed'
<1>1. Outside => Placed'
  BY OutsidePlaced
<1>2. Rests => Placed'
  BY QuietValues, FrameTypes, PlacedCarried DEF Rests
<1>3. Calls => Placed'
  <2> SUFFICES ASSUME Calls PROVE Placed'
    OBVIOUS
  <2>1. PICK n : n = Len(stack)
    OBVIOUS
  <2>2. stack # << >> /\ Top.ix < Len(Node.children) /\ CallChild(Top) /\ Quiet
    BY DEF Calls
  <2>3. /\ n \in Nat \ {0} /\ Len(stack') = n + 1 /\ stack'[n].node = Top.node
        /\ \A k \in 1 .. n : k # n => stack'[k] = stack[k]
    BY <2>1, <2>2, CallStack
  <2>4. Top = stack[n]
    BY <2>1 DEF Top
  <2>5. \A k \in 1 .. n : stack'[k].node = stack[k].node
    BY <2>3, <2>4
  <2>6. Len(stack) <= Len(stack') /\ Len(stack') \in Nat
    BY <2>1, <2>3
  <2> QED BY <2>1, <2>2, <2>5, <2>6, QuietValues, PlacedCarried
<1>4. Returns => Placed'
  BY ReturnsPlaced
<1>5. ReturnToPolicy => Placed'
  BY ReturnToPolicyPlaced
<1>6. Starts => Placed'
  <2> SUFFICES ASSUME Starts PROVE Placed'
    OBVIOUS
  <2>1. trace' = trace
    BY DEF Starts, EvaluateRoot
  <2>2. Len(stack) = 0 /\ Len(stack') = 1
    BY StartsLinked, NothingInEmpty
  <2> QED BY <2>1, <2>2, SilentIsQuiet, QuietValues, PlacedCarried
<1>7. ASSUME NEW f \in Frames, stack # << >>, stack' = SetTop(f), f.node = Top.node,
             ValuesKept, ValueEvents' = ValueEvents
      PROVE  Placed'
  <2>1. PICK n : n = Len(stack)
    OBVIOUS
  <2>2. /\ n \in Nat \ {0} /\ Len(stack') = n /\ stack'[n] = f
        /\ \A k \in 1 .. n : k # n => stack'[k] = stack[k]
    BY <1>7, <2>1, PutStack
  <2>3. Top = stack[n]
    BY <2>1 DEF Top
  <2>4. \A k \in 1 .. n : stack'[k].node = stack[k].node
    BY <1>7, <2>2, <2>3
  <2> QED BY <1>7, <2>1, <2>2, <2>4, PlacedCarried
<1>8. BeginComposite => Placed'
  <2> SUFFICES ASSUME BeginComposite PROVE Placed'
    OBVIOUS
  <2>1. PICK f \in Frames : stack # << >> /\ stack' = SetTop(f) /\ f.node = Top.node /\ Quiet
    BY BeginStep
  <2> QED BY <1>7, <2>1, QuietValues
<1>9. ASSUME NEW e \in Events, Log(e), e.ev # "value" PROVE ValuesKept /\ ValueEvents' = ValueEvents
  <2>1. PICK n : n = Len(trace)
    OBVIOUS
  <2> QED BY <1>9, <2>1, LogKinds, LogValues
<1>10. ASSUME NEW h \in Handles, NodeEnterReturns(h) PROVE Placed'
  <2>1. PICK f \in Frames, e \in Events :
          /\ stack # << >> /\ stack' = SetTop(f) /\ f.node = Top.node
          /\ Log(e) /\ e.ev = "node_enter"
    BY <1>10, EnterStep
  <2> QED BY <1>7, <1>9, <2>1
<1>11. Reported => Placed'
  <2> SUFFICES ASSUME Reported PROVE Placed'
    OBVIOUS
  <2>1. PICK e \in Events : stack' = stack /\ Log(e) /\ e.ev = "node_exit"
    BY ReportStep
  <2> QED BY <1>9, <2>1, FrameTypes, PlacedCarried
<1> QED BY <1>1, <1>2, <1>3, <1>4, <1>5, <1>6, <1>8, <1>10, <1>11, StepKinds

-----------------------------------------------------------------------------
(* Valued *)

LEMMA AgreedBefore ==
  ASSUME NEW val, ValuesKept, Agrees(val)'
  PROVE  Agrees(val)
BY DEF ValuesKept, Agrees

LEMMA HistoryCarried ==
  ASSUME NEW val, HistoryAgrees(val), ValuesKept, ValueEvents' = ValueEvents
  PROVE  HistoryAgrees(val)'
BY DEF ValuesKept, HistoryAgrees, ChildValues

LEMMA FoldCarried ==
  ASSUME NEW val, FoldsAgree(val), NEW k \in 1 .. Len(stack'), Continues(k),
         NodeOf(k)'.op \in {"AND", "OR", "UNKNOWN"}
  PROVE  stack'[k].res = Strong(NodeOf(k)', Folded(val, k)')
<1>1. NodeOf(k)' = NodeOf(k)
  BY DEF NodeOf, Continues
<1>2. \A c : ChildAt(k, c)' = ChildAt(k, c)
  BY <1>1 DEF ChildAt
<1>3. Folded(val, k)' = Folded(val, k)
  BY <1>2 DEF Folded, Continues
<1>4. stack[k].res = Strong(NodeOf(k), Folded(val, k))
  BY <1>1 DEF FoldsAgree, Continues
<1> QED BY <1>1, <1>3, <1>4 DEF Continues

LEMMA FoldsCarried ==
  ASSUME NEW val, FoldsAgree(val),
         \A k \in 1 .. Len(stack') :
           Folding(k)' => Continues(k) \/ NodeOf(k)'.op = "NOT"
  PROVE  FoldsAgree(val)'
<1>1. ASSUME NEW k \in 1 .. Len(stack'), Folding(k)', NodeOf(k)'.op \in {"AND", "OR", "UNKNOWN"}
      PROVE  stack'[k].res = Strong(NodeOf(k)', Folded(val, k)')
  <2>1. Continues(k)
    BY <1>1
  <2> QED BY <1>1, <2>1, FoldCarried
<1> QED BY <1>1 DEF FoldsAgree

\* The values of the children, by their places or by their positions.
LEMMA ChildrenByPosition ==
  ASSUME Inv, NEW val, NEW k \in 1 .. Len(stack)
  PROVE  /\ ChildValues(val, <<stack[k].node, k - 1>>)
              = {val[ChildAt(k, c)] : c \in 1 .. Len(NodeOf(k).children)}
         /\ \A c \in 1 .. Len(NodeOf(k).children) : ChildAt(k, c) \in Nodes \X Nat
<1> DEFINE s == <<stack[k].node, k - 1>>
<1>1. /\ DOMAIN NodeOf(k).children = 1 .. Len(NodeOf(k).children)
      /\ \A c \in 1 .. Len(NodeOf(k).children) : NodeOf(k).children[c] \in Nodes
  BY FrameTypes
<1>2. k \in Nat /\ (k - 1) + 1 = k
  BY FrameTypes
<1>3. Kids(stack[k].node) = {NodeOf(k).children[c] : c \in 1 .. Len(NodeOf(k).children)}
  BY <1>1 DEF Kids, ToSet, NodeOf
<1>4. Children(s) = {<<n, k>> : n \in Kids(stack[k].node)}
  BY <1>2 DEF Children
<1>5. Children(s) = {ChildAt(k, c) : c \in 1 .. Len(NodeOf(k).children)}
  BY <1>3, <1>4 DEF ChildAt
<1>6. ChildValues(val, s) = {val[ChildAt(k, c)] : c \in 1 .. Len(NodeOf(k).children)}
  BY <1>5 DEF ChildValues
<1> QED BY <1>1, <1>2, <1>6 DEF ChildAt

LEMMA OpsOf ==
  ASSUME Inv, NEW k \in 1 .. Len(stack)
  PROVE  NodeOf(k).op \in {"AND", "OR", "NOT", "UNKNOWN", "BEYOND"}
<1>1. NodeOf(k) \in NodeRecords
  BY FrameTypes
<1> QED BY <1>1 DEF NodeRecords, Ops

\* A loop over all the children ends with the value of the node.
LEMMA LoopValue ==
  ASSUME Inv, Linked, NEW val, FoldsAgree(val), stack # << >>,
         pc = "loop", Top.ix = Len(Node.children), ~Given(TopPlace)
  PROVE  Top.res = Strong(Node, ChildValues(val, TopPlace))
<1>1. PICK n : n = Len(stack)
  OBVIOUS
<1>2. /\ n \in Nat \ {0} /\ n \in 1 .. Len(stack) /\ Top = stack[n] /\ Node = NodeOf(n)
      /\ TopPlace = <<stack[n].node, n - 1>>
  BY <1>1, TopFacts
<1>3. Folding(n) /\ Done(n) = Len(NodeOf(n).children)
  BY <1>1, <1>2 DEF Folding, Done
<1>4. Node.op # "NOT"
  BY DEF Linked
<1>5. Node.op # "BEYOND"
  BY <1>2 DEF Given, NodeOf
<1>6. NodeOf(n).op \in {"AND", "OR", "UNKNOWN"}
  BY <1>2, <1>4, <1>5, OpsOf
<1>7. Top.res = Strong(Node, Folded(val, n))
  BY <1>2, <1>3, <1>6 DEF FoldsAgree
<1>8. Folded(val, n) = ChildValues(val, TopPlace)
  BY <1>2, <1>3, ChildrenByPosition DEF Folded
<1> QED BY <1>7, <1>8

LEMMA RestsResult ==
  ASSUME Inv, Linked, NEW val, FoldsAgree(val), ResultAgrees(val), Rests
  PROVE  ResultAgrees(val)'
<1>1. stack' = stack /\ stack # << >>
  BY DEF Rests
<1>2. Node' = Node /\ TopPlace' = TopPlace
  BY <1>1 DEF Node, Top, TopPlace
<1>3. ChildValues(val, TopPlace)' = ChildValues(val, TopPlace)
  BY <1>2 DEF ChildValues
<1>4. ASSUME pc' \in FinishedPlaces, ~Given(TopPlace)
      PROVE  ret' = Strong(Node, ChildValues(val, TopPlace))
  <2>1. CASE pc \in FinishedPlaces /\ ret' = ret
    BY <1>1, <1>4, <2>1 DEF ResultAgrees
  <2>2. CASE Node.op = "NOT" /\ Len(Node.children) # 1 /\ ret' = "ABSTAIN"
    BY <2>2 DEF Strong
  <2>3. CASE pc = "loop" /\ Top.ix = Len(Node.children) /\ ret' = Top.res
    BY <1>1, <1>4, <2>3, LoopValue
  <2> QED BY <1>4, <2>1, <2>2, <2>3 DEF Rests
<1>5. Given(TopPlace)' = Given(TopPlace)
  BY <1>2 DEF Given
<1> QED BY <1>2, <1>3, <1>4, <1>5 DEF ResultAgrees

\* No result is about to be returned.
LEMMA NoResult ==
  ASSUME NEW val, pc' \notin FinishedPlaces \/ stack' = << >>
  PROVE  ResultAgrees(val)'
BY DEF ResultAgrees

LEMMA NoFolds ==
  ASSUME NEW val, \A k \in 1 .. Len(stack') : ~Folding(k)'
  PROVE  FoldsAgree(val)'
BY DEF FoldsAgree

\* What a call returns, in values that agree with the history.
LEMMA ReturnedValue ==
  ASSUME Inv, NEW val \in Valuations, Returns \/ ReturnToPolicy, Agrees(val)'
  PROVE  /\ ret = val[TopPlace] /\ ret \in Results
         /\ Agrees(val) /\ ValuesKept
<1>1. PICK w \in ValueEvents' : Place(trace'[w]) = TopPlace /\ trace'[w].res = ret
  BY ReturnValue
<1>2. ret = val[TopPlace]
  BY <1>1 DEF Agrees
<1>3. stack # << >>
  BY ValueStep
<1>4. TopPlace \in Nodes \X Nat
  <2>1. PICK n : n = Len(stack)
    OBVIOUS
  <2>2. n - 1 \in Nat /\ TopPlace = <<stack[n].node, n - 1>> /\ stack[n].node \in Nodes
    BY <1>3, <2>1, TopFacts
  <2> QED BY <2>2
<1>5. ret \in Results
  BY <1>2, <1>4 DEF Valuations
<1> QED BY <1>2, <1>5, ReturnValue, AgreedBefore

\* The child's value joins the fold of its parent.
LEMMA FoldGrows ==
  ASSUME Inv, Linked, Returns, NEW val \in Valuations, Agrees(val)', NEW n, n = Len(stack) - 1
  PROVE  Folded(val, n) \cup {ret} = {val[ChildAt(n, c)] : c \in 1 .. stack[n].ix}
<1>1. /\ stack[n].ix \in Nat \ {0} /\ TopPlace = ChildAt(n, stack[n].ix)
      /\ Done(n) = stack[n].ix - 1
  BY ReturnFacts
<1>2. ret = val[ChildAt(n, stack[n].ix)]
  BY <1>1, ReturnedValue
<1>3. \A c \in 1 .. stack[n].ix : c \in 1 .. Done(n) \/ c = stack[n].ix
  BY <1>1
<1>4. stack[n].ix \in 1 .. stack[n].ix /\ \A c \in 1 .. Done(n) : c \in 1 .. stack[n].ix
  BY <1>1
<1> QED BY <1>2, <1>3, <1>4 DEF Folded

LEMMA TakenIn ==
  ASSUME Inv, Linked, Returns, NEW val \in Valuations, Agrees(val)', FoldsAgree(val),
         NEW n, n = Len(stack) - 1, NodeOf(n).op \in {"AND", "OR", "UNKNOWN"},
         NEW S, S = Folded(val, n) \cup {ret}
  PROVE  /\ DoOper(NodeOf(n).op, stack[n].res, ret) = Strong(NodeOf(n), S)
         /\ S \subseteq ChildValues(val, <<stack[n].node, n - 1>>)
<1>1. /\ n \in Nat \ {0} /\ Len(stack) = n + 1
      /\ stack[n].ix \in Nat \ {0} /\ stack[n].ix \in 1 .. Len(NodeOf(n).children)
      /\ TopPlace = ChildAt(n, stack[n].ix)
      /\ Done(n) = stack[n].ix - 1 /\ Folding(n)
  BY ReturnFacts
<1>2. n \in 1 .. Len(stack)
  BY <1>1
<1>3. ret = val[ChildAt(n, stack[n].ix)] /\ ret \in Results
  BY <1>1, ReturnedValue
<1>4. S = {val[ChildAt(n, c)] : c \in 1 .. stack[n].ix}
  BY FoldGrows
<1>5. \A c \in 1 .. stack[n].ix : c \in 1 .. Len(NodeOf(n).children)
  <2>1. Len(NodeOf(n).children) \in Nat
    BY <1>2, FrameTypes
  <2> QED BY <1>1, <2>1
<1>6. S \subseteq ChildValues(val, <<stack[n].node, n - 1>>)
  <2>1. ChildValues(val, <<stack[n].node, n - 1>>)
          = {val[ChildAt(n, c)] : c \in 1 .. Len(NodeOf(n).children)}
    BY <1>2, ChildrenByPosition, SMTT(30)
  <2> QED BY <1>4, <1>5, <2>1
<1>7. Folded(val, n) \in SUBSET Results
  <2>1. ASSUME NEW c \in 1 .. Done(n) PROVE val[ChildAt(n, c)] \in Results
    <3>1. c \in 1 .. stack[n].ix
      BY <1>1, <2>1
    <3>2. ChildAt(n, c) \in Nodes \X Nat
      BY <1>2, <1>5, <3>1, ChildrenByPosition
    <3> QED BY <3>2 DEF Valuations
  <2> QED BY <2>1 DEF Folded
<1>8. stack[n].res = Strong(NodeOf(n), Folded(val, n))
  BY <1>1, <1>2 DEF FoldsAgree
<1>9. DoOper(NodeOf(n).op, stack[n].res, ret) = Strong(NodeOf(n), S)
  BY <1>3, <1>7, <1>8, StrongStep
<1> QED BY <1>6, <1>9

LEMMA ReturnsFolds ==
  ASSUME Inv, Linked, Returns, NEW val \in Valuations, Agrees(val)', FoldsAgree(val)
  PROVE  FoldsAgree(val)'
<1>1. PICK n : n = Len(stack) - 1
  OBVIOUS
<1>2. /\ n \in Nat \ {0} /\ Len(stack') = n
      /\ stack'[n].ix = stack[n].ix /\ NodeOf(n)' = NodeOf(n)
  BY <1>1, ReturnFacts
<1>3. ASSUME NEW k \in 1 .. n, Folding(k)', NodeOf(k)'.op \in {"AND", "OR", "UNKNOWN"}
      PROVE  stack'[k].res = Strong(NodeOf(k)', Folded(val, k)')
  <2>1. CASE k # n
    <3>1. Len(stack) = n + 1 /\ stack'[k] = stack[k] /\ Folding(k) /\ Done(k)' = Done(k)
      BY <1>1, <2>1, ReturnFacts, SMTT(30)
    <3>2. k \in 1 .. Len(stack)
      BY <1>2, <3>1
    <3> QED BY <1>2, <1>3, <3>1, <3>2, FoldCarried DEF Continues
  <2>2. CASE k = n
    <3>1. pc' = "loop" /\ Done(n)' = stack[n].ix
      BY <1>2, <1>3, <2>2 DEF Folding, Done
    <3>2. ReturnToComposite
      BY <3>1 DEF Returns, ReturnToNot
    <3>3. stack'[n].res = DoOper(NodeOf(n).op, stack[n].res, ret)
      BY <1>1, <3>2, ReturnStack DEF ReturnToComposite
    <3>4. PICK S : S = Folded(val, n) \cup {ret}
      OBVIOUS
    <3>5. NodeOf(n).op \in {"AND", "OR", "UNKNOWN"}
      BY <1>2, <1>3, <2>2
    <3>6. DoOper(NodeOf(n).op, stack[n].res, ret) = Strong(NodeOf(n), S)
      BY <1>1, <3>4, <3>5, TakenIn
    <3>8. S = {val[ChildAt(n, c)] : c \in 1 .. stack[n].ix}
      BY <1>1, <3>4, FoldGrows
    <3>7. \A c : ChildAt(n, c)' = ChildAt(n, c)
      BY <1>2 DEF ChildAt
    <3>9. Folded(val, n)' = S
      BY <3>1, <3>7, <3>8 DEF Folded
    <3> QED BY <1>2, <2>2, <3>3, <3>6, <3>9
  <2> QED BY <2>1, <2>2
<1> QED BY <1>2, <1>3 DEF FoldsAgree

LEMMA ReturnsResult ==
  ASSUME Inv, Linked, Returns, NEW val \in Valuations, Agrees(val)', FoldsAgree(val)
  PROVE  ResultAgrees(val)'
<1>1. PICK n : n = Len(stack) - 1
  OBVIOUS
<1>2. /\ n \in Nat \ {0} /\ Len(stack) = n + 1 /\ Len(stack') = n
      /\ stack[n].ix \in 1 .. Len(NodeOf(n).children)
      /\ TopPlace = ChildAt(n, stack[n].ix)
      /\ stack'[n].node = stack[n].node
      /\ NodeOf(n)' = NodeOf(n) /\ pc = "return"
  BY <1>1, ReturnFacts
<1>3. n \in 1 .. Len(stack) /\ n \in 1 .. Len(stack) - 1
  BY <1>2
<1>4. Node' = NodeOf(n) /\ TopPlace' = <<stack[n].node, n - 1>>
  <2>1. stack'[n].depth = stack[n].depth
    BY <1>1, <1>2, ReturnStack DEF Returns
  <2>2. stack[n].depth = n - 1
    BY <1>3, FrameTypes
  <2>3. Top' = stack'[n]
    BY <1>2 DEF Top
  <2> QED BY <1>2, <2>1, <2>2, <2>3 DEF Node, TopPlace, NodeOf
<1>5. ret = val[ChildAt(n, stack[n].ix)] /\ ret \in Results
  BY <1>2, ReturnedValue
<1> DEFINE s == <<stack[n].node, n - 1>>
<1>6. ASSUME pc' \in FinishedPlaces, ~Given(s)
      PROVE  ret' = Strong(NodeOf(n), ChildValues(val, s))
  <2>1. CASE ReturnToNot
    <3>1. NodeOf(n).op = "NOT" /\ ret' = DoNot(ret)
      BY <1>1, <2>1 DEF ReturnToNot, NodeOf
    <3>2. Len(NodeOf(n).children) = 1
      BY <1>3, <3>1 DEF Linked
    <3>3. stack[n].ix = 1 /\ 1 .. Len(NodeOf(n).children) = {1}
      BY <1>2, <3>2
    <3>4. ChildValues(val, s) = {val[ChildAt(n, c)] : c \in 1 .. Len(NodeOf(n).children)}
      BY <1>3, ChildrenByPosition
    <3>5. ChildValues(val, s) = {ret}
      BY <1>5, <3>3, <3>4
    <3> QED BY <1>5, <3>1, <3>2, <3>5, StrongNot
  <2>2. CASE ReturnToComposite
    <3> DEFINE r == DoOper(NodeOf(n).op, stack[n].res, ret)
    <3>1. NodeOf(n).op # "NOT" /\ ShortCircuits(NodeOf(n).op, r) /\ ret' = r
      BY <1>1, <1>6, <2>2 DEF ReturnToComposite, NodeOf, FinishedPlaces
    <3>2. NodeOf(n).op \in {"AND", "OR", "UNKNOWN"}
      BY <3>1 DEF ShortCircuits
    <3>3. PICK S : S = Folded(val, n) \cup {ret}
      OBVIOUS
    <3>4. r = Strong(NodeOf(n), S) /\ S \subseteq ChildValues(val, s)
      BY <1>1, <3>2, <3>3, TakenIn
    <3> QED BY <3>1, <3>4, StrongEarly
  <2> QED BY <2>1, <2>2 DEF Returns
<1>7. Given(TopPlace)' = Given(s) /\ ChildValues(val, TopPlace)' = ChildValues(val, s)
  BY <1>4 DEF Given, ChildValues
<1> QED BY <1>4, <1>6, <1>7 DEF ResultAgrees

\* The value that joins the history is that of the call's node.
LEMMA ReturnHistoryAgrees ==
  ASSUME Inv, NEW val, HistoryAgrees(val), ResultAgrees(val), Returns \/ ReturnToPolicy
  PROVE  HistoryAgrees(val)'
<1>1. PICK w \in ValueEvents' :
        /\ ValueEvents' = ValueEvents \cup {w}
        /\ Place(trace'[w]) = TopPlace /\ trace'[w].node = Top.node /\ trace'[w].res = ret
  BY ReturnValue
<1>2. ValuesKept
  BY ReturnValue
<1>3. ASSUME ~Given(TopPlace) PROVE ret = Strong(Node, ChildValues(val, TopPlace))
  <2>1. stack # << >> /\ pc \in FinishedPlaces
    BY ValueStep DEF FinishedPlaces
  <2> QED BY <1>3, <2>1 DEF ResultAgrees
<1>4. ASSUME NEW i \in ValueEvents', ~Given(Place(trace'[i]))
      PROVE  trace'[i].res = Strong(Tree[trace'[i].node], ChildValues(val, Place(trace'[i])))
  <2>1. CASE i = w
    BY <1>1, <1>3, <1>4, <2>1 DEF Node
  <2>2. CASE i # w
    <3>1. i \in ValueEvents /\ trace'[i] = trace[i]
      BY <1>1, <1>2, <2>2 DEF ValuesKept
    <3> QED BY <1>4, <3>1 DEF HistoryAgrees
  <2> QED BY <2>1, <2>2
<1>5. \A i : Place(trace[i])' = Place(trace'[i])
  OBVIOUS
<1> QED BY <1>4, <1>5 DEF HistoryAgrees, Given, ChildValues

LEMMA OutsideValued ==
  ASSUME Valued, Outside, NEW val \in Valuations, Agrees(val)'
  PROVE  FoldsAgree(val)' /\ ResultAgrees(val)' /\ HistoryAgrees(val)'
<1>1. stack' = << >>
  BY DEF Outside
<1>2. FoldsAgree(val)' /\ ResultAgrees(val)'
  BY <1>1, OutsideCarried, NoFolds, NoResult
<1>3. CASE Fresh
  BY <1>2, <1>3 DEF Fresh, HistoryAgrees
<1>4. CASE Quiet
  <2>1. Agrees(val)
    BY <1>4, QuietValues, AgreedBefore
  <2>2. HistoryAgrees(val)
    BY <2>1 DEF Valued
  <2> QED BY <1>2, <1>4, <2>2, QuietValues, HistoryCarried
<1> QED BY <1>3, <1>4 DEF Outside

\* A frame begins its fold with the value of no children.
LEMMA BeginFolds ==
  ASSUME Inv, BeginComposite, NEW val, FoldsAgree(val)
  PROVE  FoldsAgree(val)'
<1>1. PICK n : n = Len(stack)
  OBVIOUS
<1>2. PICK r \in InitialResults(Node.op), f \in Frames :
        /\ stack # << >> /\ stack' = SetTop(f) /\ f.node = Top.node /\ f.ix = 0 /\ f.res = r
  BY BeginStep
<1>3. n \in Nat \ {0} /\ Len(stack') = n /\ stack'[n] = f /\ Top' = f
  BY <1>1, <1>2, PutStack
<1>4. Node' = Node /\ NodeOf(n)' = Node
  BY <1>2, <1>3 DEF Node, NodeOf
<1>5. ASSUME NEW k \in 1 .. Len(stack'), Folding(k)', NodeOf(k)'.op \in {"AND", "OR", "UNKNOWN"}
      PROVE  stack'[k].res = Strong(NodeOf(k)', Folded(val, k)')
  <2>1. CASE k = n /\ Done(k)' = 0
    <3>1. 1 .. Done(n)' = {}
      BY <2>1
    <3>2. Folded(val, n)' = {}
      BY <3>1 DEF Folded
    <3>3. Node.op \in {"AND", "OR", "UNKNOWN"} /\ r \in InitialResults(Node.op)
      BY <1>2, <1>4, <1>5, <2>1
    <3>4. r = Strong(Node, {})
      BY <3>3, StrongStart
    <3> QED BY <1>2, <1>3, <1>4, <2>1, <3>2, <3>4
  <2>2. CASE Continues(k)
    BY <1>5, <2>2, FoldCarried
  <2>3. (k = n /\ Done(k)' = 0) \/ Continues(k)
    BY <1>1, <1>2, <1>5, PutCarried
  <2> QED BY <2>1, <2>2, <2>3
<1> QED BY <1>5 DEF FoldsAgree

LEMMA ValuedKept ==
  ASSUME Inv, Linked, Valued, Next
  PROVE  Valued'
<1> SUFFICES ASSUME NEW val \in Valuations, Agrees(val)'
             PROVE  FoldsAgree(val)' /\ ResultAgrees(val)' /\ HistoryAgrees(val)'
  BY DEF Valued
<1>1. ValuesKept => FoldsAgree(val) /\ ResultAgrees(val) /\ HistoryAgrees(val)
  BY AgreedBefore DEF Valued
<1> DEFINE Goal == FoldsAgree(val)' /\ ResultAgrees(val)' /\ HistoryAgrees(val)'
<1>2. Outside => Goal
  BY OutsideValued
<1>3. Rests => Goal
  <2> SUFFICES ASSUME Rests PROVE Goal
    OBVIOUS
  <2>1. stack' = stack /\ (pc' = "loop" => pc = "loop") /\ ValuesKept /\ ValueEvents' = ValueEvents
    BY QuietValues DEF Rests
  <2> QED BY <1>1, <2>1, RestsCarried, FoldsCarried, RestsResult, HistoryCarried
<1>4. Calls => Goal
  <2> SUFFICES ASSUME Calls PROVE Goal
    OBVIOUS
  <2>1. ValuesKept /\ ValueEvents' = ValueEvents /\ pc' \notin FinishedPlaces
    BY QuietValues DEF Calls, FinishedPlaces
  <2> QED BY <1>1, <2>1, CallsCarried, FoldsCarried, NoResult, HistoryCarried
<1>5. Returns => Goal
  <2> SUFFICES ASSUME Returns PROVE Goal
    OBVIOUS
  <2>1. ValuesKept
    BY ReturnValue
  <2> QED BY <1>1, <2>1, ReturnsFolds, ReturnsResult, ReturnHistoryAgrees
<1>6. ReturnToPolicy => Goal
  <2> SUFFICES ASSUME ReturnToPolicy PROVE Goal
    OBVIOUS
  <2>1. ValuesKept /\ stack' = << >>
    BY ReturnValue DEF ReturnToPolicy
  <2> QED BY <1>1, <2>1, OutsideCarried, NoFolds, NoResult, ReturnHistoryAgrees
<1>7. Starts => Goal
  <2> SUFFICES ASSUME Starts PROVE Goal
    OBVIOUS
  <2>1. trace' = trace /\ pc' \notin FinishedPlaces
    BY DEF Starts, EvaluateRoot, Root, FinishedPlaces
  <2>2. ValuesKept /\ ValueEvents' = ValueEvents
    BY <2>1, SilentIsQuiet, QuietValues
  <2> QED BY <1>1, <2>1, <2>2, StartsCarried, NoFolds, NoResult, HistoryCarried
<1>8. ASSUME NEW e \in Events, Log(e), e.ev # "value" PROVE ValuesKept /\ ValueEvents' = ValueEvents
  <2>1. PICK n : n = Len(trace)
    OBVIOUS
  <2> QED BY <1>8, <2>1, LogKinds, LogValues
<1>9. Reported => Goal
  <2> SUFFICES ASSUME Reported PROVE Goal
    OBVIOUS
  <2>1. PICK e \in Events : /\ stack # << >> /\ stack' = stack /\ pc = "leave" /\ pc' = "node_exit"
                            /\ ret' = ret /\ Log(e) /\ e.ev = "node_exit"
    BY ReportStep
  <2>2. ValuesKept /\ ValueEvents' = ValueEvents
    BY <1>8, <2>1
  <2>3. ResultAgrees(val)'
    <3>1. Node' = Node /\ TopPlace' = TopPlace
      BY <2>1 DEF Node, Top, TopPlace
    <3>2. ~Given(TopPlace) => ret = Strong(Node, ChildValues(val, TopPlace))
      BY <1>1, <2>1, <2>2 DEF ResultAgrees, FinishedPlaces
    <3> QED BY <2>1, <3>1, <3>2 DEF ResultAgrees, Given, ChildValues
  <2> QED BY <1>1, <2>1, <2>2, <2>3, RestsCarried, FoldsCarried, HistoryCarried
<1>10. BeginComposite => Goal
  <2> SUFFICES ASSUME BeginComposite PROVE Goal
    OBVIOUS
  <2>1. Quiet /\ pc' \notin FinishedPlaces
    BY BeginStep DEF FinishedPlaces
  <2>2. ValuesKept /\ ValueEvents' = ValueEvents
    BY <2>1, QuietValues
  <2> QED BY <1>1, <2>1, <2>2, BeginFolds, NoResult, HistoryCarried
<1>11. ASSUME NEW h \in Handles, NodeEnterReturns(h) PROVE Goal
  <2>1. PICK f \in Frames, e \in Events :
          /\ stack # << >> /\ stack' = SetTop(f) /\ pc' = "node" /\ Log(e) /\ e.ev = "node_enter"
    BY <1>11, EnterStep
  <2>2. ValuesKept /\ ValueEvents' = ValueEvents /\ pc' \notin FinishedPlaces
    BY <1>8, <2>1 DEF FinishedPlaces
  <2>3. \A k \in 1 .. Len(stack') : Folding(k)' => Continues(k)
    BY <2>1, PutCarried
  <2> QED BY <1>1, <2>2, <2>3, FoldsCarried, NoResult, HistoryCarried
<1> QED BY <1>2, <1>3, <1>4, <1>5, <1>6, <1>7, <1>9, <1>10, <1>11, StepKinds

-----------------------------------------------------------------------------
(* Concluded *)

LEMMA ConcludedKept ==
  ASSUME Inv, Linked, Next
  PROVE  Concluded'
<1>1. Outside => Concluded'
  BY DEF Outside, Concluded
<1>2. pc' # "verdict" => Concluded'
  BY DEF Concluded
<1>3. Rests \/ Calls \/ Starts \/ Reported \/ BeginComposite \/ Returns => pc' # "verdict"
  <2>1. Rests => pc' # "verdict"
    BY DEF Rests, WalkPlaces
  <2>2. Starts => pc' # "verdict"
    BY DEF Starts, EvaluateRoot, Root
  <2>3. Calls \/ Reported \/ BeginComposite \/ Returns => pc' # "verdict"
    BY DEF Calls, Reported, LeaveNode, BeginComposite, Returns, ReturnToNot, ReturnToComposite
  <2> QED BY <2>1, <2>2, <2>3
<1>4. ASSUME NEW h \in Handles, NodeEnterReturns(h) PROVE pc' # "verdict"
  BY <1>4 DEF NodeEnterReturns
<1>5. ReturnToPolicy => Concluded'
  <2> SUFFICES ASSUME ReturnToPolicy PROVE Concluded'
    OBVIOUS
  <2>1. stack # << >> /\ Root' = Root
    BY ValueStep
  <2>2. Len(stack) = 1 /\ verdict' = ret
    BY DEF ReturnToPolicy
  <2>3. TopPlace = <<Root, 0>>
    BY <2>1, <2>2, TopFacts DEF Linked
  <2>4. PICK w \in ValueEvents' : Place(trace'[w]) = TopPlace /\ trace'[w].res = ret
    BY ReturnValue
  <2>5. Place(trace'[w]) = <<Root', 0>> /\ trace'[w].res = verdict'
    BY <2>1, <2>2, <2>3, <2>4
  <2> QED BY <2>5 DEF Concluded
<1> QED BY <1>1, <1>2, <1>3, <1>4, <1>5, StepKinds

-----------------------------------------------------------------------------
(* Framed *)

\* Entered and left nodes stay in the history, and what is new comes after them.
BracketsKept ==
  /\ Enters \subseteq Enters' /\ Exits \subseteq Exits'
  /\ \A i \in Enters \cup Exits : i \in Nat /\ trace'[i] = trace[i]
  /\ \A m \in Enters' \cup Exits' :
       m \in Nat /\ (m \in Enters \cup Exits \/ \A i \in Enters \cup Exits : i < m)

LEMMA QuietBrackets ==
  ASSUME Inv, Enters' = Enters, Exits' = Exits, \A i \in Kept : trace'[i] = trace[i]
  PROVE  BracketsKept
BY KeptTypes DEF BracketsKept, Kept

LEMMA LogBrackets ==
  ASSUME Inv, NEW e \in Events, Log(e)
  PROVE  BracketsKept
<1>1. PICK n : n = Len(trace)
  OBVIOUS
<1>2. /\ n \in Nat
      /\ \A i \in Kept : i \in 1 .. n /\ trace'[i] = trace[i]
      /\ Enters' = Enters \cup (IF e.ev = "node_enter" THEN {n + 1} ELSE {})
      /\ Exits' = Exits \cup (IF e.ev = "node_exit" THEN {n + 1} ELSE {})
  BY <1>1, LogKinds
<1>3. \A m \in Enters' \cup Exits' : m \in Enters \cup Exits \/ m = n + 1
  BY <1>2
<1>4. Enters \subseteq Enters' /\ Exits \subseteq Exits'
  BY <1>2
<1>5. \A i \in Enters \cup Exits : i \in 1 .. n /\ i \in Nat /\ i < n + 1 /\ trace'[i] = trace[i]
  BY <1>2 DEF Kept
<1>6. n + 1 \in Nat
  BY <1>2
<1> QED BY <1>3, <1>4, <1>5, <1>6 DEF BracketsKept

LEMMA DeeperKept ==
  ASSUME BracketsKept, NEW i \in Enters \cup Exits, NEW j \in Enters \cup Exits,
         DeeperBetween(i, j)
  PROVE  DeeperBetween(i, j)'
<1>1. ASSUME NEW m \in Enters' \cup Exits', i < m, m < j PROVE trace'[m].depth > trace'[i].depth
  <2>1. m \in Nat /\ j \in Nat
    BY DEF BracketsKept
  <2>2. ~(j < m)
    BY <1>1, <2>1
  <2>3. m \in Enters \cup Exits
    BY <2>2 DEF BracketsKept
  <2>4. trace'[m] = trace[m] /\ trace'[i] = trace[i]
    BY <2>3 DEF BracketsKept
  <2> QED BY <1>1, <2>3, <2>4 DEF DeeperBetween
<1> QED BY <1>1 DEF DeeperBetween

LEMMA ClosesKept ==
  ASSUME BracketsKept, NEW x \in Exits, NEW e \in Enters, Closes(x, e)
  PROVE  Closes(x, e)'
<1>1. trace'[x] = trace[x] /\ trace'[e] = trace[e]
  BY DEF BracketsKept
<1>2. DeeperBetween(e, x)'
  BY DeeperKept DEF Closes
<1> QED BY <1>1, <1>2 DEF Closes, Mark

LEMMA NestedKept ==
  ASSUME BracketsKept, NEW e \in Enters, Nested(e)
  PROVE  Nested(e)'
<1>1. trace'[e] = trace[e]
  BY DEF BracketsKept
<1>2. ASSUME trace'[e].depth # 0
      PROVE  \E p \in Enters' :
               /\ p < e /\ trace'[e].depth = trace'[p].depth + 1
               /\ trace'[e].node \in Kids(trace'[p].node)
               /\ DeeperBetween(p, e)'
  <2>1. PICK p \in Enters :
          /\ p < e /\ trace[e].depth = trace[p].depth + 1
          /\ trace[e].node \in Kids(trace[p].node)
          /\ DeeperBetween(p, e)
    BY <1>1, <1>2 DEF Nested
  <2>2. trace'[p] = trace[p] /\ p \in Enters'
    BY DEF BracketsKept
  <2>3. DeeperBetween(p, e)'
    BY <2>1, DeeperKept
  <2> QED BY <1>1, <2>1, <2>2, <2>3
<1>3. \A n : Kids(n)' = Kids(n)
  BY DEF Kids
<1> QED BY <1>2 DEF Nested, Kids

LEMMA OpenKept ==
  ASSUME BracketsKept, NEW k, NEW e \in Enters, OpenAt(e, k),
         stack'[k].node = stack[k].node, stack'[k].handle = stack[k].handle,
         \A m \in Enters' \cup Exits' : m \in Enters \cup Exits \/ trace'[m].depth > k - 1
  PROVE  OpenAt(e, k)'
<1>1. trace'[e] = trace[e]
  BY DEF BracketsKept
<1>2. ASSUME NEW m \in Enters' \cup Exits', e < m PROVE trace'[m].depth > k - 1
  <2>1. CASE m \in Enters \cup Exits
    <3>1. trace'[m] = trace[m]
      BY <2>1 DEF BracketsKept
    <3> QED BY <1>2, <2>1, <3>1 DEF OpenAt
  <2> QED BY <2>1
<1> QED BY <1>1, <1>2 DEF OpenAt, Mark

LEMMA SameBracketed == watcher' = watcher => Bracketed' = Bracketed
BY DEF Bracketed

\* A step that enters and leaves no node.
LEMMA FramedCarried ==
  ASSUME Inv, Framed, watcher' = watcher,
         Enters' = Enters, Exits' = Exits, \A i \in Kept : trace'[i] = trace[i],
         Bracketed => \A k : k \in 1 .. Len(stack') /\ Entered(k)'
                               <=> k \in 1 .. Len(stack) /\ Entered(k),
         \A k \in 1 .. Len(stack) : k \in 1 .. Len(stack') =>
            stack'[k].node = stack[k].node /\ stack'[k].handle = stack[k].handle
  PROVE  Framed'
<1> SUFFICES ASSUME Bracketed'
             PROVE  /\ \A x \in Exits' : \E e \in Enters' : Closes(x, e)'
                    /\ \A e \in Enters' : Nested(e)'
                    /\ \A k \in 1 .. Len(stack') : Entered(k)' => \E e \in Enters' : OpenAt(e, k)'
                    /\ \A e \in Enters' :
                         \/ \E x \in Exits' : Closes(x, e)'
                         \/ \E k \in 1 .. Len(stack') : Entered(k)' /\ OpenAt(e, k)'
  BY DEF Framed
<1>1. BracketsKept
  BY QuietBrackets
<1>2. Bracketed
  BY SameBracketed
<1>3. \A x \in Exits' : \E e \in Enters' : Closes(x, e)'
  <2> SUFFICES ASSUME NEW x \in Exits' PROVE \E e \in Enters' : Closes(x, e)'
    OBVIOUS
  <2>1. PICK e \in Enters : Closes(x, e)
    BY <1>2 DEF Framed
  <2> QED BY <1>1, <2>1, ClosesKept
<1>4. \A e \in Enters' : Nested(e)'
  BY <1>1, <1>2, NestedKept DEF Framed
<1>5. ASSUME NEW k, NEW e \in Enters, OpenAt(e, k), k \in 1 .. Len(stack), k \in 1 .. Len(stack')
      PROVE  OpenAt(e, k)'
  BY <1>1, <1>5, OpenKept
<1>6. \A k \in 1 .. Len(stack') : Entered(k)' => \E e \in Enters' : OpenAt(e, k)'
  <2> SUFFICES ASSUME NEW k \in 1 .. Len(stack'), Entered(k)'
               PROVE  \E e \in Enters' : OpenAt(e, k)'
    OBVIOUS
  <2>1. k \in 1 .. Len(stack) /\ Entered(k)
    BY <1>2
  <2>2. PICK e \in Enters : OpenAt(e, k)
    BY <1>2, <2>1 DEF Framed
  <2> QED BY <1>5, <2>1, <2>2
<1>7. \A e \in Enters' :
         \/ \E x \in Exits' : Closes(x, e)'
         \/ \E k \in 1 .. Len(stack') : Entered(k)' /\ OpenAt(e, k)'
  <2> SUFFICES ASSUME NEW e \in Enters'
               PROVE  \/ \E x \in Exits' : Closes(x, e)'
                      \/ \E k \in 1 .. Len(stack') : Entered(k)' /\ OpenAt(e, k)'
    OBVIOUS
  <2>1. CASE \E x \in Exits : Closes(x, e)
    BY <1>1, <2>1, ClosesKept
  <2>2. CASE \E k \in 1 .. Len(stack) : Entered(k) /\ OpenAt(e, k)
    <3>1. PICK k \in 1 .. Len(stack) : Entered(k) /\ OpenAt(e, k)
      BY <2>2
    <3>2. k \in 1 .. Len(stack') /\ Entered(k)'
      BY <1>2, <3>1
    <3> QED BY <1>5, <3>1, <3>2
  <2> QED BY <1>2, <2>1, <2>2 DEF Framed
<1> QED BY <1>3, <1>4, <1>6, <1>7

LEMMA OutsideFramed ==
  ASSUME Inv, Framed, Outside
  PROVE  Framed'
<1>1. Len(stack) = 0 /\ Len(stack') = 0 /\ 1 .. Len(stack) = {} /\ 1 .. Len(stack') = {}
  BY OutsideStack, NothingInEmpty DEF Outside
<1>2. CASE Fresh
  BY <1>1, <1>2 DEF Fresh, Framed
<1>3. CASE Quiet /\ watcher' = watcher
  BY <1>1, <1>3, FramedCarried DEF Quiet
<1> QED BY <1>2, <1>3 DEF Outside

LEMMA RestsFramed ==
  ASSUME Inv, Framed, Rests
  PROVE  Framed'
<1>1. /\ stack' = stack /\ watcher' = watcher
      /\ Enters' = Enters /\ Exits' = Exits /\ \A i \in Kept : trace'[i] = trace[i]
  BY DEF Rests, Quiet
<1>2. Bracketed => (pc' \in EnteredPlaces <=> pc \in EnteredPlaces)
  BY DEF Rests
<1>3. Bracketed => \A k : k \in 1 .. Len(stack') /\ Entered(k)'
                            <=> k \in 1 .. Len(stack) /\ Entered(k)
  BY <1>1, <1>2 DEF Entered
<1> QED BY <1>1, <1>3, FramedCarried

LEMMA CallsFramed ==
  ASSUME Inv, Framed, Calls
  PROVE  Framed'
<1>1. PICK n : n = Len(stack)
  OBVIOUS
<1>2. /\ stack # << >> /\ Top.ix < Len(Node.children) /\ CallChild(Top)
      /\ pc \in EnteredPlaces /\ pc' \notin EnteredPlaces /\ watcher' = watcher
      /\ Enters' = Enters /\ Exits' = Exits /\ \A i \in Kept : trace'[i] = trace[i]
  BY DEF Calls, Quiet, EnteredPlaces
<1>3. /\ n \in Nat \ {0} /\ Len(stack') = n + 1
      /\ stack'[n].node = Top.node /\ stack'[n].handle = Top.handle
      /\ \A k \in 1 .. n : k # n => stack'[k] = stack[k]
  BY <1>1, <1>2, CallStack
<1>4. Top = stack[n]
  BY <1>1 DEF Top
<1>5. \A k : k \in 1 .. Len(stack') /\ Entered(k)' <=> k \in 1 .. Len(stack) /\ Entered(k)
  <2> SUFFICES ASSUME NEW k
               PROVE  k \in 1 .. n + 1 /\ Entered(k)' <=> k \in 1 .. n /\ Entered(k)
    BY <1>1, <1>3
  <2>1. Entered(k)' <=> k < n + 1
    BY <1>2, <1>3 DEF Entered
  <2>2. Entered(k)
    BY <1>2 DEF Entered
  <2> QED BY <1>3, <2>1, <2>2
<1>6. \A k \in 1 .. n : stack'[k].node = stack[k].node /\ stack'[k].handle = stack[k].handle
  BY <1>3, <1>4
<1> QED BY <1>1, <1>2, <1>5, <1>6, FramedCarried

LEMMA ReturnsFramed ==
  ASSUME Inv, Linked, Framed, Returns
  PROVE  Framed'
<1>1. PICK n : n = Len(stack) - 1
  OBVIOUS
<1>2. /\ n \in Nat \ {0} /\ Len(stack) = n + 1 /\ Len(stack') = n
      /\ stack'[n].node = stack[n].node /\ stack'[n].handle = stack[n].handle
      /\ pc = "return"
      /\ \A k \in 1 .. n : k # n => stack'[k] = stack[k]
  BY <1>1, ReturnFacts, SMTT(30)
<1>3. watcher' = watcher /\ pc' \in EnteredPlaces
  BY DEF Returns, ReturnToNot, ReturnToComposite, EnteredPlaces
<1>4. Enters' = Enters /\ Exits' = Exits /\ \A i \in Kept : trace'[i] = trace[i]
  BY ReturnValue
<1>5. \A k : k \in 1 .. Len(stack') /\ Entered(k)' <=> k \in 1 .. Len(stack) /\ Entered(k)
  <2> SUFFICES ASSUME NEW k
               PROVE  k \in 1 .. n /\ Entered(k)' <=> k \in 1 .. n + 1 /\ Entered(k)
    BY <1>2
  <2>1. Entered(k)'
    BY <1>3 DEF Entered
  <2>2. Entered(k) <=> k < n + 1
    BY <1>2 DEF Entered, EnteredPlaces
  <2> QED BY <1>2, <2>1, <2>2
<1>6. \A k \in 1 .. n : stack'[k].node = stack[k].node /\ stack'[k].handle = stack[k].handle
  BY <1>2
<1> QED BY <1>2, <1>3, <1>4, <1>5, <1>6, FramedCarried

LEMMA ReturnToPolicyFramed ==
  ASSUME Inv, Framed, ReturnToPolicy
  PROVE  Framed'
<1>1. /\ Len(stack) = 1 /\ stack' = << >> /\ pc = "return" /\ watcher' = watcher
  BY DEF ReturnToPolicy
<1>2. Enters' = Enters /\ Exits' = Exits /\ \A i \in Kept : trace'[i] = trace[i]
  BY ReturnValue
<1>3. \A k \in 1 .. Len(stack) : ~Entered(k)
  BY <1>1 DEF Entered, EnteredPlaces
<1>4. 1 .. Len(stack') = {}
  BY <1>1, OutsideStack
<1> QED BY <1>1, <1>2, <1>3, <1>4, FramedCarried

LEMMA StartsFramed ==
  ASSUME Inv, Framed, Starts
  PROVE  Framed'
<1>1. stack = << >> /\ Len(stack') = 1 /\ pc' = "rules" /\ trace' = trace /\ watcher' = watcher
  BY StartsLinked DEF Starts, EvaluateRoot, Root
<1>2. Enters' = Enters /\ Exits' = Exits /\ \A i \in Kept : trace'[i] = trace[i]
  BY <1>1, SilentIsQuiet DEF Quiet
<1>3. 1 .. Len(stack) = {}
  BY <1>1, NothingInEmpty
<1>4. \A k \in 1 .. Len(stack') : ~Entered(k)'
  BY <1>1 DEF Entered, EnteredPlaces
<1> QED BY <1>1, <1>2, <1>3, <1>4, FramedCarried

LEMMA BeginFramed ==
  ASSUME Inv, Framed, BeginComposite
  PROVE  Framed'
<1>1. PICK n : n = Len(stack)
  OBVIOUS
<1>2. PICK f \in Frames :
        /\ stack # << >> /\ stack' = SetTop(f) /\ pc = "node" /\ pc' = "loop"
        /\ f.node = Top.node /\ f.handle = Top.handle /\ watcher' = watcher /\ Quiet
  BY BeginStep
<1>3. /\ n \in Nat \ {0} /\ Len(stack') = n /\ stack'[n] = f
      /\ \A k \in 1 .. n : k # n => stack'[k] = stack[k]
  BY <1>1, <1>2, PutStack
<1>4. Top = stack[n]
  BY <1>1 DEF Top
<1>5. \A k \in 1 .. n : stack'[k].node = stack[k].node /\ stack'[k].handle = stack[k].handle
  BY <1>2, <1>3, <1>4
<1>6. \A k : Entered(k)' <=> Entered(k)
  BY <1>2 DEF Entered, EnteredPlaces
<1>7. Enters' = Enters /\ Exits' = Exits /\ \A i \in Kept : trace'[i] = trace[i]
  BY <1>2 DEF Quiet
<1> QED BY <1>1, <1>2, <1>3, <1>5, <1>6, <1>7, FramedCarried

\* A node is entered: its enter is open at its frame, inside that of its parent.
LEMMA EnterFramed ==
  ASSUME Inv, Linked, Framed, NEW h \in Handles, NodeEnterReturns(h)
  PROVE  Framed'
<1> SUFFICES ASSUME Bracketed'
             PROVE  /\ \A x \in Exits' : \E e \in Enters' : Closes(x, e)'
                    /\ \A e \in Enters' : Nested(e)'
                    /\ \A k \in 1 .. Len(stack') : Entered(k)' => \E e \in Enters' : OpenAt(e, k)'
                    /\ \A e \in Enters' :
                         \/ \E x \in Exits' : Closes(x, e)'
                         \/ \E k \in 1 .. Len(stack') : Entered(k)' /\ OpenAt(e, k)'
  BY DEF Framed
<1>1. PICK n : n = Len(stack)
  OBVIOUS
<1>2. PICK f \in Frames, e \in Events :
        /\ stack # << >> /\ stack' = SetTop(f) /\ pc = "node_enter" /\ pc' = "node"
        /\ watcher' = watcher /\ f.node = Top.node /\ f.handle = h
        /\ Log(e) /\ e.ev = "node_enter"
        /\ e.node = Top.node /\ e.depth = Top.depth /\ e.handle = h
  BY EnterStep
<1>3. /\ n \in Nat \ {0} /\ Len(stack') = n /\ stack'[n] = f
      /\ \A k \in 1 .. n : k # n => stack'[k] = stack[k]
  BY <1>1, <1>2, PutStack
<1>4. Top = stack[n] /\ Top.depth = n - 1
  BY <1>1, <1>2, TopFacts
<1>5. PICK w : w = Len(trace) + 1
  OBVIOUS
<1>6. /\ w \in Nat /\ w \notin Kept /\ trace'[w] = e
      /\ Enters' = Enters \cup {w} /\ Exits' = Exits
      /\ \A i \in Enters \cup Exits : i < w
  <2>1. PICK l : l = Len(trace)
    OBVIOUS
  <2>2. /\ l \in Nat /\ l + 1 \notin Kept /\ trace'[l + 1] = e
        /\ \A i \in Kept : i \in 1 .. l
        /\ Enters' = Enters \cup (IF e.ev = "node_enter" THEN {l + 1} ELSE {})
        /\ Exits' = Exits \cup (IF e.ev = "node_exit" THEN {l + 1} ELSE {})
    BY <1>2, <2>1, LogKinds
  <2>3. Enters' = Enters \cup {w} /\ Exits' = Exits /\ w = l + 1
    BY <1>2, <1>5, <2>1, <2>2
  <2>4. \A i \in Enters \cup Exits : i < l + 1
    BY <2>2 DEF Kept
  <2> QED BY <2>2, <2>3, <2>4
<1>7. trace'[w].depth = n - 1 /\ trace'[w].node = stack[n].node /\ trace'[w].handle = h
  BY <1>2, <1>4, <1>6
<1>8. BracketsKept /\ Bracketed
  BY <1>2, LogBrackets, SameBracketed
<1>9. \A k \in 1 .. n : /\ Entered(k)' 
                        /\ Entered(k) <=> k # n
  BY <1>1, <1>2, <1>3 DEF Entered, EnteredPlaces
<1>10. OpenAt(w, n)'
  <2>1. ASSUME NEW m \in Enters' \cup Exits', w < m PROVE FALSE
    <3>1. m = w \/ m < w
      BY <1>6
    <3>2. m \in Nat
      BY <1>8 DEF BracketsKept
    <3> QED BY <1>6, <2>1, <3>1, <3>2
  <2>2. stack'[n].node = stack[n].node /\ stack'[n].handle = h
    BY <1>2, <1>3, <1>4
  <2>3. Mark(trace'[w]) = <<stack'[n].node, n - 1, stack'[n].handle>>
    BY <1>7, <2>2 DEF Mark
  <2> QED BY <2>1, <2>3 DEF OpenAt
<1>11. ASSUME NEW k \in 1 .. n, k # n, NEW i \in Enters, OpenAt(i, k) PROVE OpenAt(i, k)'
  <2>1. n - 1 > k - 1
    BY <1>3, <1>11
  <2>2. \A m \in Enters' \cup Exits' : m \in Enters \cup Exits \/ trace'[m].depth > k - 1
    BY <1>6, <1>7, <2>1
  <2>3. stack'[k].node = stack[k].node /\ stack'[k].handle = stack[k].handle
    BY <1>3, <1>11
  <2> QED BY <1>8, <1>11, <2>2, <2>3, OpenKept
<1>12. \A x \in Exits' : \E i \in Enters' : Closes(x, i)'
  <2> SUFFICES ASSUME NEW x \in Exits' PROVE \E i \in Enters' : Closes(x, i)'
    OBVIOUS
  <2>1. x \in Exits
    BY <1>6
  <2>2. PICK i \in Enters : Closes(x, i)
    BY <1>8, <2>1 DEF Framed
  <2> QED BY <1>6, <1>8, <2>1, <2>2, ClosesKept
<1>13. Nested(w)'
  <2> SUFFICES ASSUME n - 1 # 0
               PROVE  \E p \in Enters' :
                        /\ p < w /\ trace'[w].depth = trace'[p].depth + 1
                        /\ trace'[w].node \in Kids(trace'[p].node)
                        /\ DeeperBetween(p, w)'
    BY <1>7 DEF Nested, Kids
  <2>1. PICK l : l = n - 1
    OBVIOUS
  <2>2. l \in Nat \ {0} /\ l \in 1 .. n /\ l # n /\ l + 1 = n /\ l \in 1 .. Len(stack) - 1
        /\ l \in 1 .. Len(stack)
    BY <1>1, <1>3, <2>1
  <2>3. PICK p \in Enters : OpenAt(p, l)
    BY <1>8, <1>9, <2>2 DEF Framed
  <2>4. trace'[p] = trace[p] /\ p < w /\ p \in Enters'
    BY <1>6, <1>8 DEF BracketsKept
  <2>5. trace[p].depth = l - 1 /\ trace[p].node = stack[l].node
    BY <2>3 DEF OpenAt, Mark
  <2>6. trace'[w].depth = trace'[p].depth + 1
    BY <1>7, <2>2, <2>4, <2>5
  <2>7. trace'[w].node \in Kids(trace'[p].node)
    <3>1. stack[n].node = NodeOf(l).children[stack[l].ix] /\ stack[l].ix >= 1
      BY <2>2 DEF Linked
    <3>2. stack[l].ix \in DOMAIN NodeOf(l).children
      <4>1. /\ stack[l].ix \in Nat /\ stack[l].ix <= Len(NodeOf(l).children)
            /\ DOMAIN NodeOf(l).children = 1 .. Len(NodeOf(l).children)
            /\ Len(NodeOf(l).children) \in Nat
        BY <2>2, FrameTypes
      <4> QED BY <3>1, <4>1
    <3> QED BY <1>7, <2>4, <2>5, <3>1, <3>2 DEF Kids, ToSet, NodeOf
  <2>8. DeeperBetween(p, w)'
    <3>1. ASSUME NEW m \in Enters' \cup Exits', p < m, m < w PROVE trace'[m].depth > trace'[p].depth
      <4>1. m \in Enters \cup Exits
        BY <1>6, <3>1
      <4>2. trace'[m] = trace[m]
        BY <1>8, <4>1 DEF BracketsKept
      <4> QED BY <2>3, <2>4, <2>5, <3>1, <4>1, <4>2 DEF OpenAt
    <3> QED BY <3>1 DEF DeeperBetween
  <2> QED BY <2>4, <2>6, <2>7, <2>8
<1>14. \A i \in Enters' : Nested(i)'
  <2> SUFFICES ASSUME NEW i \in Enters' PROVE Nested(i)'
    OBVIOUS
  <2>1. CASE i = w
    BY <1>13, <2>1
  <2>2. CASE i \in Enters
    BY <1>8, <2>2, NestedKept DEF Framed
  <2> QED BY <1>6, <2>1, <2>2
<1>15. \A k \in 1 .. Len(stack') : Entered(k)' => \E i \in Enters' : OpenAt(i, k)'
  <2> SUFFICES ASSUME NEW k \in 1 .. n PROVE \E i \in Enters' : OpenAt(i, k)'
    BY <1>3
  <2>1. CASE k = n
    BY <1>6, <1>10, <2>1
  <2>2. CASE k # n
    <3>1. k \in 1 .. Len(stack) /\ Entered(k)
      BY <1>1, <1>9, <2>2
    <3>2. PICK i \in Enters : OpenAt(i, k)
      BY <1>8, <3>1 DEF Framed
    <3> QED BY <1>6, <1>11, <2>2, <3>2
  <2> QED BY <2>1, <2>2
<1>16. \A i \in Enters' :
         \/ \E x \in Exits' : Closes(x, i)'
         \/ \E k \in 1 .. Len(stack') : Entered(k)' /\ OpenAt(i, k)'
  <2> SUFFICES ASSUME NEW i \in Enters'
               PROVE  \/ \E x \in Exits' : Closes(x, i)'
                      \/ \E k \in 1 .. Len(stack') : Entered(k)' /\ OpenAt(i, k)'
    OBVIOUS
  <2>1. CASE i = w
    <3>1. n \in 1 .. Len(stack') /\ Entered(n)'
      BY <1>3, <1>9
    <3> QED BY <1>10, <2>1, <3>1
  <2>2. CASE i # w
    <3>1. i \in Enters
      BY <1>6, <2>2
    <3>2. CASE \E x \in Exits : Closes(x, i)
      BY <1>6, <1>8, <3>1, <3>2, ClosesKept
    <3>3. CASE \E k \in 1 .. Len(stack) : Entered(k) /\ OpenAt(i, k)
      <4>1. PICK k \in 1 .. n : Entered(k) /\ OpenAt(i, k)
        BY <1>1, <3>3
      <4>2. k # n /\ Entered(k)' /\ k \in 1 .. Len(stack')
        BY <1>3, <1>9, <4>1
      <4> QED BY <1>11, <3>1, <4>1, <4>2
    <3> QED BY <1>8, <3>1, <3>2, <3>3 DEF Framed
  <2> QED BY <2>1, <2>2
<1> QED BY <1>12, <1>14, <1>15, <1>16

\* A node is left: its exit closes the enter that is open at its frame.
LEMMA ReportedFramed ==
  ASSUME Inv, Framed, Reported
  PROVE  Framed'
<1> SUFFICES ASSUME Bracketed'
             PROVE  /\ \A x \in Exits' : \E e \in Enters' : Closes(x, e)'
                    /\ \A e \in Enters' : Nested(e)'
                    /\ \A k \in 1 .. Len(stack') : Entered(k)' => \E e \in Enters' : OpenAt(e, k)'
                    /\ \A e \in Enters' :
                         \/ \E x \in Exits' : Closes(x, e)'
                         \/ \E k \in 1 .. Len(stack') : Entered(k)' /\ OpenAt(e, k)'
  BY DEF Framed
<1>1. PICK n : n = Len(stack)
  OBVIOUS
<1>2. PICK e \in Events :
        /\ stack # << >> /\ stack' = stack /\ pc = "leave" /\ pc' = "node_exit"
        /\ watcher' = watcher /\ Log(e) /\ e.ev = "node_exit"
        /\ e.node = Top.node /\ e.depth = Top.depth /\ e.handle = Top.handle
  BY ReportStep
<1>3. n \in Nat \ {0} /\ n \in 1 .. n /\ Top = stack[n] /\ Top.depth = n - 1
  BY <1>1, <1>2, TopFacts
<1>4. PICK l : l = Len(trace)
  OBVIOUS
<1>5. PICK w : w = l + 1
  OBVIOUS
<1>6. /\ trace'[w] = e /\ Enters' = Enters /\ Exits' = Exits \cup {w}
      /\ \A i \in Enters \cup Exits : i < w
  <2>1. /\ l \in Nat /\ l + 1 \notin Kept /\ trace'[l + 1] = e
        /\ \A i \in Kept : i \in 1 .. l
        /\ Enters' = Enters \cup (IF e.ev = "node_enter" THEN {l + 1} ELSE {})
        /\ Exits' = Exits \cup (IF e.ev = "node_exit" THEN {l + 1} ELSE {})
    BY <1>2, <1>4, LogKinds
  <2>2. Enters' = Enters /\ Exits' = Exits \cup {w}
    BY <1>2, <1>5, <2>1
  <2>3. \A i \in Enters \cup Exits : i < l + 1
    BY <2>1 DEF Kept
  <2> QED BY <1>5, <2>1, <2>2, <2>3
<1>7. Mark(trace'[w]) = <<stack[n].node, n - 1, stack[n].handle>> /\ trace'[w].depth = n - 1
  BY <1>2, <1>3, <1>6 DEF Mark
<1>8. BracketsKept /\ Bracketed
  BY <1>2, LogBrackets, SameBracketed
<1>9. \A k \in 1 .. n : /\ Entered(k)
                        /\ Entered(k)' <=> k # n
  BY <1>1, <1>2, <1>3 DEF Entered, EnteredPlaces
<1>10. ASSUME NEW i \in Enters, OpenAt(i, n) PROVE Closes(w, i)'
  <2>1. trace'[i] = trace[i] /\ i < w
    BY <1>6, <1>8 DEF BracketsKept
  <2>2. Mark(trace'[w]) = Mark(trace'[i]) /\ trace'[i].depth = n - 1
    BY <1>7, <1>10, <2>1 DEF OpenAt, Mark
  <2>3. ASSUME NEW m \in Enters' \cup Exits', i < m, m < w PROVE trace'[m].depth > trace'[i].depth
    <3>1. w \in Nat /\ ~(w < w)
      BY <1>6, <1>8 DEF BracketsKept
    <3>2. m \in Enters \cup Exits
      BY <1>6, <2>3, <3>1
    <3>3. trace'[m] = trace[m]
      BY <1>8, <3>2 DEF BracketsKept
    <3> QED BY <1>10, <2>2, <2>3, <3>2, <3>3 DEF OpenAt
  <2> QED BY <2>1, <2>2, <2>3 DEF Closes, DeeperBetween
<1>11. ASSUME NEW k \in 1 .. n, k # n, NEW i \in Enters, OpenAt(i, k) PROVE OpenAt(i, k)'
  <2>1. n - 1 > k - 1
    BY <1>3, <1>11
  <2>2. \A m \in Enters' \cup Exits' : m \in Enters \cup Exits \/ trace'[m].depth > k - 1
    BY <1>6, <1>7, <2>1
  <2>3. stack'[k].node = stack[k].node /\ stack'[k].handle = stack[k].handle
    BY <1>2
  <2> QED BY <1>8, <1>11, <2>2, <2>3, OpenKept
<1>12. \A x \in Exits' : \E i \in Enters' : Closes(x, i)'
  <2> SUFFICES ASSUME NEW x \in Exits' PROVE \E i \in Enters' : Closes(x, i)'
    OBVIOUS
  <2>1. CASE x = w
    <3>1. n \in 1 .. Len(stack) /\ Entered(n)
      BY <1>1, <1>3, <1>9
    <3>2. PICK i \in Enters : OpenAt(i, n)
      BY <1>8, <3>1 DEF Framed
    <3> QED BY <1>6, <1>10, <2>1, <3>2
  <2>2. CASE x \in Exits
    <3>1. PICK i \in Enters : Closes(x, i)
      BY <1>8, <2>2 DEF Framed
    <3> QED BY <1>6, <1>8, <2>2, <3>1, ClosesKept
  <2> QED BY <1>6, <2>1, <2>2
<1>13. \A i \in Enters' : Nested(i)'
  BY <1>6, <1>8, NestedKept DEF Framed
<1>14. \A k \in 1 .. Len(stack') : Entered(k)' => \E i \in Enters' : OpenAt(i, k)'
  <2> SUFFICES ASSUME NEW k \in 1 .. n, Entered(k)' PROVE \E i \in Enters' : OpenAt(i, k)'
    BY <1>1, <1>2
  <2>1. k # n /\ Entered(k) /\ k \in 1 .. Len(stack)
    BY <1>1, <1>9
  <2>2. PICK i \in Enters : OpenAt(i, k)
    BY <1>8, <2>1 DEF Framed
  <2> QED BY <1>6, <1>11, <2>1, <2>2
<1>15. \A i \in Enters' :
         \/ \E x \in Exits' : Closes(x, i)'
         \/ \E k \in 1 .. Len(stack') : Entered(k)' /\ OpenAt(i, k)'
  <2> SUFFICES ASSUME NEW i \in Enters
               PROVE  \/ \E x \in Exits' : Closes(x, i)'
                      \/ \E k \in 1 .. Len(stack') : Entered(k)' /\ OpenAt(i, k)'
    BY <1>6
  <2>1. CASE \E x \in Exits : Closes(x, i)
    BY <1>6, <1>8, <2>1, ClosesKept
  <2>2. CASE \E k \in 1 .. Len(stack) : Entered(k) /\ OpenAt(i, k)
    <3>1. PICK k \in 1 .. n : OpenAt(i, k)
      BY <1>1, <2>2
    <3>2. CASE k = n
      BY <1>6, <1>10, <3>1, <3>2
    <3>3. CASE k # n
      <4>1. Entered(k)' /\ k \in 1 .. Len(stack')
        BY <1>1, <1>2, <1>9, <3>3
      <4> QED BY <1>11, <3>1, <3>3, <4>1
    <3> QED BY <3>2, <3>3
  <2> QED BY <1>8, <2>1, <2>2 DEF Framed
<1> QED BY <1>12, <1>13, <1>14, <1>15

LEMMA FramedKept ==
  ASSUME Inv, Linked, Framed, Next
  PROVE  Framed'
BY OutsideFramed, RestsFramed, CallsFramed, ReturnsFramed, ReturnToPolicyFramed, StartsFramed,
   BeginFramed, ReportedFramed, EnterFramed, StepKinds

-----------------------------------------------------------------------------
(* Evaluated *)

LEMMA EvaluatedKept ==
  ASSUME Inv, Linked, Evaluated, Next
  PROVE  Evaluated'
<1>1. ValueEvents' = {} => Evaluated'
  BY DEF Evaluated
<1>2. ValuesKept /\ ValueEvents' = ValueEvents => Evaluated'
  BY DEF Evaluated, ValuesKept
<1>3. Quiet => Evaluated'
  BY <1>2, QuietValues
<1>4. Outside \/ Rests \/ Calls => Evaluated'
  BY <1>1, <1>3 DEF Outside, Rests, Calls, Fresh
<1>5. Starts => Evaluated'
  BY <1>3, SilentIsQuiet DEF Starts, EvaluateRoot
<1>6. ASSUME NEW e \in Events, Log(e), e.ev # "value" PROVE Evaluated'
  <2>1. PICK n : n = Len(trace)
    OBVIOUS
  <2> QED BY <1>2, <1>6, <2>1, LogKinds, LogValues
<1>7. Reported => Evaluated'
  <2> SUFFICES ASSUME Reported PROVE Evaluated'
    OBVIOUS
  <2>1. PICK e \in Events : Log(e) /\ e.ev = "node_exit"
    BY ReportStep
  <2> QED BY <1>6, <2>1
<1>8. BeginComposite => Evaluated'
  BY <1>3, BeginStep
<1>9. ASSUME NEW h \in Handles, NodeEnterReturns(h) PROVE Evaluated'
  <2>1. PICK e \in Events : Log(e) /\ e.ev = "node_enter"
    BY <1>9, EnterStep
  <2> QED BY <1>6, <2>1
<1>10. ASSUME Returns \/ ReturnToPolicy PROVE Evaluated'
  <2>1. PICK w \in ValueEvents' :
          ValueEvents' = ValueEvents \cup {w} /\ trace'[w].node = Top.node
    BY <1>10, ReturnValue
  <2>2. ValuesKept
    BY <1>10, ReturnValue
  <2>3. Top.node \in Nodes
    <3>1. stack # << >>
      BY <1>10, ValueStep
    <3> QED BY <3>1, TopFacts
  <2> QED BY <2>1, <2>2, <2>3 DEF Evaluated, ValuesKept
<1> QED BY <1>4, <1>5, <1>7, <1>8, <1>9, <1>10, StepKinds

-----------------------------------------------------------------------------
(* The invariant *)

LEMMA InitWalking == Init => Walking
<1> SUFFICES ASSUME Init PROVE Walking
  OBVIOUS
<1>1. stack = << >> /\ trace = << >> /\ pc = "idle"
  BY DEF Init
<1>2. DOMAIN trace = {} /\ Len(stack) = 0
  BY <1>1, NothingInEmpty
<1>3. ValueEvents = {} /\ Enters = {} /\ Exits = {}
  BY <1>2 DEF ValueEvents, Enters, Exits
<1>4. 1 .. Len(stack) = {} /\ 1 .. Len(stack) - 1 = {}
  BY <1>2
<1>5. Linked /\ Turns /\ Evaluated /\ Placed /\ Concluded
  BY <1>1, <1>3, <1>4 DEF Linked, Turns, Evaluated, Placed, Concluded
<1>6. Valued
  BY <1>1, <1>3, <1>4 DEF Valued, FoldsAgree, ResultAgrees, HistoryAgrees
<1>7. Framed
  BY <1>3, <1>4 DEF Framed
<1> QED BY <1>5, <1>6, <1>7 DEF Walking

LEMMA StutterWalking == Walking /\ UNCHANGED vars => Walking'
<1> SUFFICES ASSUME Walking, UNCHANGED vars PROVE Walking'
  OBVIOUS
<1>1. /\ stack' = stack /\ trace' = trace /\ pc' = pc /\ watcher' = watcher /\ ret' = ret
      /\ verdict' = verdict /\ buffer' = buffer /\ pix' = pix
  BY DEF vars, walkVars, evalVars
<1>2. Linked'
  BY <1>1 DEF Walking, Linked, Root, Node, Top, NodeOf
<1>3. Turns'
  BY <1>1 DEF Walking, Turns, Folding, Done, ValueEvents, Place, ChildAt, NodeOf
<1>4. Evaluated' /\ Placed'
  BY <1>1 DEF Walking, Evaluated, Placed, ValueEvents, InTurn, Place, Reached
<1>5. Valued'
  <2> SUFFICES ASSUME NEW val \in Valuations, Agrees(val)'
               PROVE  FoldsAgree(val)' /\ ResultAgrees(val)' /\ HistoryAgrees(val)'
    BY DEF Valued
  <2>1. ValuesKept /\ ValueEvents' = ValueEvents
    BY <1>1, SilentIsQuiet, QuietValues
  <2>2. FoldsAgree(val) /\ ResultAgrees(val) /\ HistoryAgrees(val)
    BY <2>1, AgreedBefore DEF Walking, Valued
  <2>3. FoldsAgree(val)'
    BY <1>1, <2>2, RestsCarried, FoldsCarried
  <2>4. ResultAgrees(val)'
    BY <1>1, <2>2 DEF ResultAgrees, TopPlace, Node, Top, Given, ChildValues
  <2> QED BY <2>1, <2>2, <2>3, <2>4, HistoryCarried
<1>6. Concluded'
  BY <1>1 DEF Walking, Concluded, Root, ValueEvents, Place
<1>7. Framed'
  BY <1>1 DEF Walking, Framed, Bracketed, Enters, Exits, Closes, Nested, OpenAt, Entered, Mark,
     DeeperBetween
<1> QED BY <1>2, <1>3, <1>4, <1>5, <1>6, <1>7 DEF Walking

LEMMA NextWalking == Inv /\ Walking /\ [Next]_vars => Walking'
<1>1. Inv /\ Walking /\ Next => Walking'
  BY LinkedKept, TurnsKept, EvaluatedKept, PlacedKept, ValuedKept, ConcludedKept, FramedKept
     DEF Walking
<1> QED BY <1>1, StutterWalking

LEMMA WalkingInvariance == Spec => [](Inv /\ Walking)
<1>1. Init => Inv /\ Walking
  BY InitInv, InitWalking
<1>2. Inv /\ Walking /\ [Next]_vars => (Inv /\ Walking)'
  BY NextInv, NextWalking
<1> QED BY <1>1, <1>2, PTL DEF Spec

-----------------------------------------------------------------------------
(* The theorems *)

\* "Nodes the evaluation never reached, because a parent short-circuited, are not
\* entered", for every tree, every cap and whatever the callbacks do: a node is
\* evaluated after all its elder siblings, none of which had decided its parent.
THEOREM StopsEarly == Spec => []StopsWhenDecided
<1>1. Inv /\ Walking => StopsWhenDecided
  <2> SUFFICES ASSUME Inv, Placed, pc = "verdict", NEW i \in ValueEvents, trace[i].depth # 0
               PROVE  \E s \in Reached :
                        /\ trace[i].depth = s[2] + 1
                        /\ \E j \in DOMAIN Tree[s[1]].children : InTurn(i, s[1], j)
    BY DEF Walking, StopsWhenDecided
  <2>1. Len(stack) = 0
    BY NothingInEmpty DEF Inv, Located, WalkPlaces
  <2>2. PICK d \in Nat : d = trace[i].depth /\ d # 0
    BY ValueDepths
  <2>3. PICK p \in Nodes :
          /\ \E j \in DOMAIN Tree[p].children : InTurn(i, p, j)
          /\ \/ <<p, d - 1>> \in Reached
             \/ d <= Len(stack) /\ stack[d].node = p
    BY <2>2 DEF Placed
  <2>4. PICK s : s = <<p, d - 1>>
    OBVIOUS
  <2>5. s \in Reached /\ s[1] = p /\ s[2] + 1 = d
    BY <2>1, <2>2, <2>3, <2>4
  <2> QED BY <2>2, <2>3, <2>5
<1> QED BY <1>1, WalkingInvariance, PTL

\* "node_enter always has a matching node_exit and a node is entered before the
\* children it is built from": the observer's node callbacks are brackets.
THEOREM CallbacksNest == Spec => []WellFramed
<1>1. Inv /\ Walking => WellFramed
  <2> SUFFICES ASSUME Inv, Framed, Bracketed
               PROVE  /\ \A x \in Exits : \E e \in Enters : Closes(x, e)
                      /\ \A e \in Enters : Nested(e)
                      /\ Judged => \A e \in Enters : \E x \in Exits : Closes(x, e)
    BY DEF Walking, WellFramed, Bracketed, Nested
  <2>1. Judged => 1 .. Len(stack) = {}
    <3>1. Judged => stack = << >>
      BY DEF Judged, Inv, Located, WalkPlaces
    <3> QED BY <3>1, NothingInEmpty
  <2> QED BY <2>1 DEF Framed
<1> QED BY <1>1, WalkingInvariance, PTL

\* One step of the recursion of Kleene.
KleeneStep(guess, f, s) ==
  IF Given(s) THEN Record[s]
  ELSE Strong(Tree[s[1]], {IF k \in Reached THEN f[k] ELSE guess[k] : k \in Children(s)})

\* What solves the recursion is defined by it.
LEMMA KleeneEquation ==
  ASSUME NEW guess, NEW g, g = [s \in Reached |-> KleeneStep(guess, g, s)],
         NEW v, v = Kleene(guess)
  PROVE  v = [s \in Reached |-> KleeneStep(guess, v, s)]
<1> DEFINE P(f) == f = [s \in Reached |-> KleeneStep(guess, f, s)]
<1>1. P(g)
  OBVIOUS
<1>2. v = CHOOSE f : P(f)
  BY DEF Kleene, KleeneStep
<1> HIDE DEF P
<1>3. P(v)
  BY <1>1, <1>2
<1> QED BY <1>3 DEF P

\* The history that has one answer for each place.
LEMMA RecordFacts ==
  ASSUME OneAnswer, Evaluated, Inv
  PROVE  /\ \A i \in ValueEvents : Place(trace[i]) \in Reached /\ Record[Place(trace[i])] = trace[i].res
         /\ Reached \subseteq Nodes \X Nat
         /\ \A s \in Reached : Record[s] \in Results
<1>1. ASSUME NEW i \in ValueEvents
      PROVE  /\ Place(trace[i]) \in Reached /\ Place(trace[i]) \in Nodes \X Nat
             /\ Record[Place(trace[i])] = trace[i].res
             /\ trace[i].res \in Results
  <2> DEFINE s == Place(trace[i])
             j == CHOOSE k \in ValueEvents : Place(trace[k]) = s
  <2>1. j \in ValueEvents /\ Place(trace[j]) = s
    OBVIOUS
  <2>2. s \in Reached
    BY DEF Reached
  <2>3. Record[s] = trace[j].res
    BY <2>2 DEF Record
  <2>4. trace[j].res = trace[i].res /\ trace[i].res \in Results
    BY <2>1 DEF OneAnswer
  <2>5. s \in Nodes \X Nat
    BY ValueDepths DEF Place, Evaluated
  <2> QED BY <2>2, <2>3, <2>4, <2>5
<1>2. \A s \in Reached : \E i \in ValueEvents : s = Place(trace[i])
  BY DEF Reached
<1> QED BY <1>1, <1>2

\* Whatever the places that were never reached would have been, the record has
\* the Kleene values of those that were.
LEMMA RecordSolves ==
  ASSUME Inv, Walking, OneAnswer, NEW guess \in [Unreached -> Results]
  PROVE  Record = [s \in Reached |-> KleeneStep(guess, Record, s)]
<1> DEFINE val == [t \in Nodes \X Nat |-> IF t \in Reached THEN Record[t]
                                          ELSE IF t \in Unreached THEN guess[t] ELSE "ABSTAIN"]
<1>1. /\ \A i \in ValueEvents : Place(trace[i]) \in Reached /\ Record[Place(trace[i])] = trace[i].res
      /\ Reached \subseteq Nodes \X Nat
      /\ \A s \in Reached : Record[s] \in Results
  BY RecordFacts DEF Walking
<1>2. val \in Valuations
  <2>1. \A t \in Unreached : guess[t] \in Results
    OBVIOUS
  <2>2. "ABSTAIN" \in Results
    BY DEF Results
  <2> QED BY <1>1, <2>1, <2>2 DEF Valuations
<1>3. \A t \in Nodes \X Nat : /\ t \in Reached => val[t] = Record[t]
                              /\ t \in Unreached /\ t \notin Reached => val[t] = guess[t]
  OBVIOUS
<1> HIDE DEF val
<1>4. Agrees(val)
  BY <1>1, <1>3 DEF Agrees
<1>5. HistoryAgrees(val)
  BY <1>2, <1>4 DEF Walking, Valued
<1>6. ASSUME NEW s \in Reached, ~Given(s)
      PROVE  Record[s] = KleeneStep(guess, Record, s)
  <2>1. PICK i \in ValueEvents : Place(trace[i]) = s
    BY DEF Reached
  <2>2. s[1] = trace[i].node /\ s[1] \in Nodes /\ s[2] \in Nat
    BY <2>1, ValueDepths DEF Place, Walking, Evaluated
  <2>3. Record[s] = Strong(Tree[s[1]], ChildValues(val, s))
    BY <1>1, <1>5, <1>6, <2>1, <2>2 DEF HistoryAgrees
  <2>4. ASSUME NEW k \in Children(s)
        PROVE  val[k] = IF k \in Reached THEN Record[k] ELSE guess[k]
    <3>1. k \in Nodes \X Nat
      <4>1. Tree[s[1]].children \in Seq(Nodes)
        BY <2>2, TreeAssumption DEF NodeRecords
      <4>2. Kids(s[1]) \subseteq Nodes
        BY <4>1 DEF Kids, ToSet
      <4> QED BY <2>2, <4>2 DEF Children
    <3>2. k \in Reached \/ k \in Unreached
      BY <1>6 DEF Unreached
    <3> QED BY <1>3, <3>1, <3>2
  <2>5. ChildValues(val, s) = {IF k \in Reached THEN Record[k] ELSE guess[k] : k \in Children(s)}
    BY <2>4 DEF ChildValues
  <2> QED BY <1>6, <2>3, <2>5 DEF KleeneStep
<1>7. \A s \in Reached : Record[s] = KleeneStep(guess, Record, s)
  BY <1>6 DEF KleeneStep
<1> DEFINE g == [s \in Reached |-> KleeneStep(guess, Record, s)]
<1>8. Record = [s \in Reached |-> Record[s]]
  BY DEF Record
<1> HIDE DEF Record
<1>9. [s \in Reached |-> Record[s]] = g
  BY <1>7
<1> QED BY <1>8, <1>9

\* The recursion has one solution: of two, look at the deepest place at which
\* they differ.
LEMMA KleeneUnique ==
  ASSUME Inv, Walking, NEW guess,
         NEW f, f = [s \in Reached |-> KleeneStep(guess, f, s)],
         NEW g, g = [s \in Reached |-> KleeneStep(guess, g, s)]
  PROVE  \A s \in Reached : f[s] = g[s]
<1> SUFFICES ASSUME NEW b \in Reached, f[b] # g[b] PROVE FALSE
  OBVIOUS
<1> DEFINE Bad == {s \in Reached : f[s] # g[s]}
           M == {MaxEvalDepth - s[2] : s \in Bad}
<1>1. \A s \in Reached : f[s] = KleeneStep(guess, f, s) /\ g[s] = KleeneStep(guess, g, s)
  <2>1. ASSUME NEW s \in Reached PROVE f[s] = KleeneStep(guess, f, s)
    <3> DEFINE h == [t \in Reached |-> KleeneStep(guess, f, t)]
    <3>1. h[s] = KleeneStep(guess, f, s)
      OBVIOUS
    <3> HIDE DEF h
    <3>2. f = h
      BY DEF h
    <3> QED BY <3>1, <3>2
  <2>2. ASSUME NEW s \in Reached PROVE g[s] = KleeneStep(guess, g, s)
    <3> DEFINE h == [t \in Reached |-> KleeneStep(guess, g, t)]
    <3>1. h[s] = KleeneStep(guess, g, s)
      OBVIOUS
    <3> HIDE DEF h
    <3>2. g = h
      BY DEF h
    <3> QED BY <3>1, <3>2
  <2> QED BY <2>1, <2>2
<1>2. \A s \in Bad : s[2] \in Nat /\ s[2] <= MaxEvalDepth /\ ~Given(s)
  <2> SUFFICES ASSUME NEW s \in Bad PROVE s[2] \in Nat /\ s[2] <= MaxEvalDepth /\ ~Given(s)
    OBVIOUS
  <2>1. ~Given(s)
    BY <1>1 DEF KleeneStep
  <2>2. PICK i \in ValueEvents : s = Place(trace[i])
    BY DEF Reached
  <2>3. s[2] \in Nat
    BY <2>2, ValueDepths DEF Place
  <2> QED BY <2>1, <2>3, BoundAssumption DEF Given
<1>3. M \in SUBSET Nat /\ M # {}
  <2>1. \A s \in Bad : MaxEvalDepth - s[2] \in Nat
    BY <1>2, BoundAssumption
  <2> QED BY <2>1
<1> HIDE DEF M
<1>4. PICK m \in M : \A k \in M : m <= k
  BY <1>3, LeastOne
<1>5. PICK s \in Bad : m = MaxEvalDepth - s[2]
  BY <1>4 DEF M
<1>6. ASSUME NEW k \in Children(s), k \in Reached PROVE f[k] = g[k]
  <2> SUFFICES ASSUME k \in Bad PROVE FALSE
    BY <1>6
  <2>1. k[2] = s[2] + 1
    BY DEF Children
  <2>2. MaxEvalDepth - k[2] \in M
    BY DEF M
  <2>3. MaxEvalDepth - s[2] <= MaxEvalDepth - k[2]
    BY <1>4, <1>5, <2>2
  <2> QED BY <1>2, <2>1, <2>3, BoundAssumption
<1>7. {IF k \in Reached THEN f[k] ELSE guess[k] : k \in Children(s)}
        = {IF k \in Reached THEN g[k] ELSE guess[k] : k \in Children(s)}
  BY <1>6
<1>8. f[s] = g[s]
  BY <1>1, <1>2, <1>7 DEF KleeneStep
<1> QED BY <1>8

\* Stopping early never changes an answer, for every tree (sharing included),
\* every cap and every operator the version knows: whatever the nodes that were
\* never reached would have been, the root's Kleene value is the verdict.
THEOREM VerdictIsKleene == Spec => []VerdictSound
<1>1. Inv /\ Walking => VerdictSound
  <2> SUFFICES ASSUME Inv, Walking, pc = "verdict", Root # NULL, OneAnswer,
                      NEW guess \in [Unreached -> Results]
               PROVE  Kleene(guess)[<<Root, 0>>] = verdict
    BY DEF VerdictSound
  <2>1. PICK i \in ValueEvents : Place(trace[i]) = <<Root, 0>> /\ trace[i].res = verdict
    BY DEF Walking, Concluded
  <2>2. <<Root, 0>> \in Reached /\ Record[<<Root, 0>>] = verdict
    BY <2>1, RecordFacts DEF Walking
  <2>3. Record = [s \in Reached |-> KleeneStep(guess, Record, s)]
    BY RecordSolves
  <2>4. PICK g : g = Record
    OBVIOUS
  <2>5. PICK v : v = Kleene(guess)
    OBVIOUS
  <2>6. g = [s \in Reached |-> KleeneStep(guess, g, s)]
    BY <2>3, <2>4
  <2>7. v = [s \in Reached |-> KleeneStep(guess, v, s)]
    BY <2>5, <2>6, KleeneEquation
  <2>8. \A s \in Reached : v[s] = g[s]
    BY <2>6, <2>7, KleeneUnique
  <2> QED BY <2>2, <2>4, <2>5, <2>8
<1> QED BY <1>1, WalkingInvariance, PTL

=============================================================================
