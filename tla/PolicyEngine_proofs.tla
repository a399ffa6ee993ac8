------------------------- MODULE PolicyEngine_proofs -------------------------
(***************************************************************************)
(* Theorems about the engine for every forest, every host and every bound: *)
(* types and the stack; what happens in the course of one policy, where    *)
(* errors come from, who observes, which actions run and what they are     *)
(* told; and that the engine as a whole does what PolicyJudge promises.    *)
(*                                                                         *)
(* Type correctness is not inductive on its own: it needs to know where in *)
(* the tree each frame stands (Path), what the innermost one has done so   *)
(* far (AtTop) and that a policy's index is in range while the policy is   *)
(* evaluated (Located).                                                    *)
(*                                                                         *)
(* The history is a trace that the engine only appends to, so each action  *)
(* is either silent or logs one event. The lemmas SilentStep and LogStep   *)
(* say what either has to show for the invariant History; Acting adds to   *)
(* it which actions have run so far; and the refinement is argued action   *)
(* by action from both.                                                    *)
(***************************************************************************)
EXTENDS PolicyRefinement, SequenceTheorems, TLAPS


\* While a policy is evaluated there is one, and the stack is empty outside the walk.
Located ==
  /\ pc \in PolicyPlaces => pix \in 1 .. Len(buffer) /\ buffer[pix] \in Policies
  /\ pc \in WalkPlaces => stack # << >>
  /\ pc \notin WalkPlaces => stack = << >>

\* The frames are the path from the root to the node at work, a level each; all
\* but the last are composites above the cap.
Path ==
  /\ \A i \in 1 .. Len(stack) :
       /\ stack[i].depth = i - 1
       /\ stack[i].ix <= Len(Tree[stack[i].node].children)
  /\ \A i \in 1 .. Len(stack) - 1 :
       /\ stack[i].depth <= MaxEvalDepth
       /\ Tree[stack[i].node].kind = "comp"

\* What the place in evaluate_rules says of the innermost frame.
AtTop ==
  /\ pc \in WalkPlaces \ {"rules", "return"} => Top.depth <= MaxEvalDepth
  /\ pc \in {"rules", "node_enter", "node"} => Top.ix = 0
  /\ pc = "loop" => Node.kind = "comp"
  /\ pc = "evaluator" => Entry \in Entries

Inv == TypeOK /\ Located /\ Path /\ AtTop

-----------------------------------------------------------------------------
(* The context *)

LEMMA ResetTypes ==
  ASSUME NEW c \in Contexts
  PROVE  Reset(c) \in Contexts /\ InitCtx(c) \in Contexts
<1>1. ESUCCESS \in Errors
  BY DEF ESUCCESS, Errors
<1>2. \A e \in Entries : NotSet(e[1]) \in Params
  BY ParamAssumption DEF NotSet
<1>3. Reset(c) \in Contexts
  BY <1>1, <1>2 DEF Reset, Contexts
<1>4. InitCtx(c) \in Contexts
  BY <1>3 DEF InitCtx, Contexts
<1> QED BY <1>3, <1>4

\* The calls of the host keep the context's type.
LEMMA HostCallTypes ==
  ASSUME NEW c \in Contexts
  PROVE  /\ \A e : \A f \in HostFns : RegisterEvaluator(c, e, f) \in Contexts
         /\ \A e : \A v \in Params : SetParam(c, e, v) \in Contexts
         /\ \A a : \A h \in Handlers \cup {NULL} : RegisterAction(c, a, h) \in Contexts
         /\ \A o \in Observers \cup {NULL} : SetObserver(c, o) \in Contexts
<1>1. ASSUME NEW e, NEW f \in HostFns PROVE RegisterEvaluator(c, e, f) \in Contexts
  BY DEF Contexts, RegisterEvaluator
<1>2. ASSUME NEW e, NEW v \in Params PROVE SetParam(c, e, v) \in Contexts
  BY DEF Contexts, SetParam
<1>3. ASSUME NEW a, NEW h \in Handlers \cup {NULL} PROVE RegisterAction(c, a, h) \in Contexts
  BY DEF Contexts, RegisterAction
<1>4. ASSUME NEW o \in Observers \cup {NULL} PROVE SetObserver(c, o) \in Contexts
  BY DEF Contexts, SetObserver
<1> QED BY <1>1, <1>2, <1>3, <1>4

\* So do the engine's own, and they change no observer and no initialised flag.
LEMMA ErrorCallTypes ==
  ASSUME NEW c \in Contexts
  PROVE  /\ \A err \in Errors : SetError(c, err) \in Contexts
         /\ GetLastError(c) \in Contexts
         /\ \A e : ReadEntry(c, e) \in Contexts
         /\ \A a : \A err \in Errors : SetActionError(c, a, err) \in Contexts
         /\ \A e : \A err \in Errors : SetEvalError(c, e, err) \in Contexts
<1>1. ASSUME NEW err \in Errors PROVE SetError(c, err) \in Contexts
  BY DEF Contexts, SetError
<1>2. GetLastError(c) \in Contexts
  BY DEF Contexts, GetLastError, Errors, ESUCCESS
<1>3. ASSUME NEW e PROVE ReadEntry(c, e) \in Contexts
  BY DEF Contexts, ReadEntry, Errors, EIX_OVERFLOW
<1>4. ASSUME NEW a, NEW err \in Errors PROVE SetActionError(c, a, err) \in Contexts
  BY DEF Contexts, SetActionError
<1>5. ASSUME NEW e, NEW err \in Errors PROVE SetEvalError(c, e, err) \in Contexts
  BY DEF Contexts, SetEvalError
<1> QED BY <1>1, <1>2, <1>3, <1>4, <1>5

-----------------------------------------------------------------------------
(* Frames and events *)

LEMMA LastSeq ==
  ASSUME NEW S, NEW s \in Seq(S), s # << >>
  PROVE  Len(s) \in Nat \ {0} /\ s[Len(s)] \in S
<1>1. Len(s) \in Nat \ {0}
  OBVIOUS
<1> QED BY <1>1

LEMMA FrontSeq ==
  ASSUME NEW S, NEW s \in Seq(S), s # << >>
  PROVE  /\ SubSeq(s, 1, Len(s) - 1) \in Seq(S)
         /\ Len(SubSeq(s, 1, Len(s) - 1)) = Len(s) - 1
         /\ \A i \in 1 .. Len(s) - 1 : SubSeq(s, 1, Len(s) - 1)[i] = s[i]
<1> DEFINE n == Len(s) - 1
<1>1. n \in Nat /\ n \in Int /\ 1 \in Int
  OBVIOUS
<1>2. \A i \in 1 .. n : s[i] \in S
  BY <1>1
<1> HIDE DEF n
<1>3. /\ SubSeq(s, 1, n) \in Seq(S)
      /\ Len(SubSeq(s, 1, n)) = IF 1 <= n THEN n - 1 + 1 ELSE 0
      /\ \A i \in 1 .. n - 1 + 1 : SubSeq(s, 1, n)[i] = s[1 + i - 1]
  BY <1>1, <1>2, SubSeqProperties
<1>4. Len(SubSeq(s, 1, n)) = n
  BY <1>1, <1>3
<1>5. \A i \in 1 .. n : SubSeq(s, 1, n)[i] = s[i]
  BY <1>1, <1>3
<1> QED BY <1>3, <1>4, <1>5 DEF n

LEMMA PutSeq ==
  ASSUME NEW S, NEW s \in Seq(S), NEW i \in 1 .. Len(s), NEW f \in S
  PROVE  /\ [s EXCEPT ![i] = f] \in Seq(S)
         /\ Len([s EXCEPT ![i] = f]) = Len(s)
         /\ [s EXCEPT ![i] = f][i] = f
         /\ \A j \in 1 .. Len(s) : j # i => [s EXCEPT ![i] = f][j] = s[j]
<1>1. [s EXCEPT ![i] = f] \in Seq(S)
  OBVIOUS
<1>2. Len([s EXCEPT ![i] = f]) = Len(s)
  OBVIOUS
<1>3. [s EXCEPT ![i] = f][i] = f
  OBVIOUS
<1>4. \A j \in 1 .. Len(s) : j # i => [s EXCEPT ![i] = f][j] = s[j]
  OBVIOUS
<1> QED BY <1>1, <1>2, <1>3, <1>4

LEMMA PushSeq ==
  ASSUME NEW S, NEW s \in Seq(S), NEW f \in S
  PROVE  /\ Append(s, f) \in Seq(S)
         /\ Len(Append(s, f)) = Len(s) + 1
         /\ Append(s, f)[Len(s) + 1] = f
         /\ \A j \in 1 .. Len(s) : Append(s, f)[j] = s[j]
<1>1. Append(s, f) \in Seq(S)
  OBVIOUS
<1>2. Len(Append(s, f)) = Len(s) + 1
  OBVIOUS
<1>3. Append(s, f)[Len(s) + 1] = f
  OBVIOUS
<1>4. \A j \in 1 .. Len(s) : Append(s, f)[j] = s[j]
  OBVIOUS
<1> QED BY <1>1, <1>2, <1>3, <1>4

LEMMA NothingInEmpty ==
  ASSUME NEW S
  PROVE  << >> \in Seq(S) /\ Len(<< >>) = 0
OBVIOUS

LEMMA OneSeq ==
  ASSUME NEW S, NEW f \in S
  PROVE  <<f>> \in Seq(S) /\ Len(<<f>>) = 1 /\ <<f>>[1] = f
OBVIOUS

LEMMA EventTypes ==
  ASSUME NEW name \in EventNames
  PROVE  /\ Event(name) \in Events
         /\ \A obs \in Observers \cup {NULL} : [Event(name) EXCEPT !.obs = obs] \in Events
         /\ \A obs \in Observers \cup {NULL}, f \in Frames, r \in Outcomes :
              FrameEvent(name, obs, f, r) \in Events
         /\ \A obs \in Observers \cup {NULL}, r \in Outcomes :
              [Event(name) EXCEPT !.obs = obs, !.res = r] \in Events
         /\ \A rc \in Errors : [Event(name) EXCEPT !.rc = rc] \in Events
         /\ \A i \in Nat, r \in Outcomes, rc \in Errors :
              [Event(name) EXCEPT !.ix = i, !.res = r, !.rc = rc] \in Events
<1>1. Event(name) \in Events
  BY DEF Event, Events, Outcomes, Results, Errors, ESUCCESS
<1>2. ASSUME NEW obs \in Observers \cup {NULL}, NEW f \in Frames, NEW r \in Outcomes
      PROVE  FrameEvent(name, obs, f, r) \in Events
  BY <1>1 DEF FrameEvent, Events, Frames
<1>3. ASSUME NEW obs \in Observers \cup {NULL}
      PROVE  [Event(name) EXCEPT !.obs = obs] \in Events
  BY <1>1 DEF Events
<1>4. ASSUME NEW obs \in Observers \cup {NULL}, NEW r \in Outcomes
      PROVE  [Event(name) EXCEPT !.obs = obs, !.res = r] \in Events
  BY <1>1 DEF Events
<1>5. ASSUME NEW rc \in Errors PROVE [Event(name) EXCEPT !.rc = rc] \in Events
  BY <1>1 DEF Events
<1>6. ASSUME NEW i \in Nat, NEW r \in Outcomes, NEW rc \in Errors
      PROVE  [Event(name) EXCEPT !.ix = i, !.res = r, !.rc = rc] \in Events
  BY <1>1 DEF Events
<1> QED BY <1>1, <1>2, <1>3, <1>4, <1>5, <1>6

LEMMA LogTypes ==
  ASSUME trace \in Seq(Events), NEW e \in Events, Log(e)
  PROVE  trace' \in Seq(Events)
BY PushSeq DEF Log

-----------------------------------------------------------------------------
LEMMA InitInv == Init => Inv
<1> SUFFICES ASSUME Init PROVE Inv
  OBVIOUS
<1>1. TypeOK
  <2>1. "ABSTAIN" \in Outcomes /\ ESUCCESS \in Errors /\ ESUCCESS \in Nat
    BY DEF Outcomes, Results, Errors, ESUCCESS
  <2>2. ctx \in Contexts /\ hostCalls \in 0 .. MaxHostCalls
    BY HostAssumption, BoundAssumption DEF Init
  <2>3. << >> \in Seq(Policies \cup {NULL}) /\ << >> \in Seq(Frames) /\ << >> \in Seq(Events)
    BY NothingInEmpty
  <2>4. pc \in Places /\ watcher \in Observers \cup {NULL}
    BY DEF Init, Places
  <2>5. stopFn \in BOOLEAN
    BY DEF Init
  <2>6. /\ buffer \in Seq(Policies \cup {NULL})
        /\ stack \in Seq(Frames)
        /\ trace \in Seq(Events)
    BY <2>3, Zenon DEF Init
  <2>7. pix \in Nat \ {0} /\ aix \in Nat \ {0}
    BY DEF Init
  <2>8. ret \in Outcomes /\ verdict \in Outcomes /\ total \in Nat /\ actRes \in Errors
    BY <2>1 DEF Init
  <2> QED BY <2>2, <2>4, <2>5, <2>6, <2>7, <2>8 DEF TypeOK
<1>2. Located
  BY DEF Init, Located, PolicyPlaces, WalkPlaces
<1>3. Path /\ AtTop
  <2>1. Len(stack) = 0
    BY NothingInEmpty DEF Init
  <2> QED BY <2>1 DEF Init, Path, AtTop, WalkPlaces
<1> QED BY <1>1, <1>2, <1>3 DEF Inv

-----------------------------------------------------------------------------
(* The steps outside the walk, one lemma for each action *)

\* The trees and the buffers, as the assumptions give them.
LEMMA PolicyTypes ==
  ASSUME TypeOK, Located, pc \in PolicyPlaces
  PROVE  /\ buffer[pix] \in Policies
         /\ Policy[buffer[pix]].rules \in Nodes \cup {NULL}
         /\ Actions \in Seq(ActionRecords)
         /\ Len(Actions) \in Nat
<1>1. buffer[pix] \in Policies
  BY DEF Located
<1>2. Policy[buffer[pix]] \in [rules : Nodes \cup {NULL}, actions : Seq(ActionRecords)]
  BY <1>1, TreeAssumption
<1>3. Actions \in Seq(ActionRecords)
  BY <1>2 DEF Actions
<1> QED BY <1>1, <1>2, <1>3

\* A step outside the walk leaves nothing to say of the frames.
LEMMA EmptyPath ==
  ASSUME stack' = << >>, pc' \notin WalkPlaces
  PROVE  Path' /\ AtTop'
<1>1. Len(stack') = 0
  BY NothingInEmpty
<1> QED BY <1>1 DEF Path, AtTop, WalkPlaces

LEMMA EvaluateBufferInv ==
  ASSUME Inv, NEW b \in Buffers \cup {NULL}, NEW s \in BOOLEAN, EvaluateBuffer(b, s)
  PROVE  Inv'
<1>1. TypeOK'
  <2>1. ENO_DATA \in Nat /\ ESUCCESS \in Nat
    BY DEF ENO_DATA, ESUCCESS
  <2>2. buffer' \in Seq(Policies \cup {NULL})
    BY TreeAssumption DEF EvaluateBuffer, Inv, TypeOK
  <2>3. stopFn' \in BOOLEAN
    BY DEF EvaluateBuffer, Inv, TypeOK
  <2>4. total' \in Nat /\ pix' \in Nat \ {0} /\ pc' \in Places
    BY <2>1 DEF EvaluateBuffer, Inv, TypeOK, Places
  <2> QED BY <2>2, <2>3, <2>4 DEF EvaluateBuffer, Inv, TypeOK, walkVars, actVars
<1>2. pc' \notin PolicyPlaces /\ stack' = << >>
  BY DEF EvaluateBuffer, Inv, Located, PolicyPlaces, WalkPlaces, walkVars
<1>3. Located'
  BY <1>2 DEF Located, PolicyPlaces
<1>4. Path' /\ AtTop'
  BY <1>2, EmptyPath DEF PolicyPlaces
<1> QED BY <1>1, <1>3, <1>4 DEF Inv

LEMMA SkipPolicyInv == Inv /\ SkipPolicy => Inv'
<1> SUFFICES ASSUME Inv, SkipPolicy PROVE Inv'
  OBVIOUS
<1>1. TypeOK'
  BY DEF SkipPolicy, Inv, TypeOK, walkVars, actVars
<1>2. pc' \notin PolicyPlaces /\ stack' = << >>
  BY DEF SkipPolicy, Inv, Located, PolicyPlaces, WalkPlaces, walkVars
<1>3. Located' /\ Path' /\ AtTop'
  BY <1>2, EmptyPath DEF Located, PolicyPlaces
<1> QED BY <1>1, <1>3 DEF Inv

LEMMA BeginPolicyInv == Inv /\ BeginPolicy => Inv'
<1> SUFFICES ASSUME Inv, BeginPolicy PROVE Inv'
  OBVIOUS
<1>1. TypeOK'
  <2>1. ctx' \in Contexts
    BY ErrorCallTypes DEF BeginPolicy, Inv, TypeOK, ForgetError, Errors, ESUCCESS
  <2>2. watcher' \in Observers \cup {NULL}
    BY DEF BeginPolicy, Inv, TypeOK, Contexts
  <2>3. trace' \in Seq(Events)
    <3>1. "policy_enter" \in EventNames /\ ctx.observer \in Observers \cup {NULL}
      BY DEF Inv, TypeOK, Contexts, EventNames, CallbackNames
    <3>2. [Event("policy_enter") EXCEPT !.obs = ctx.observer] \in Events
      BY <3>1, EventTypes
    <3>3. <<[Event("policy_enter") EXCEPT !.obs = ctx.observer]>> \in Seq(Events)
      BY <3>2, OneSeq
    <3>4. << >> \in Seq(Events)
      BY NothingInEmpty
    <3> QED BY <3>3, <3>4, Zenon DEF BeginPolicy
  <2>4. pc' \in Places
    BY DEF BeginPolicy, Places, PolicyPlaces
  <2> QED BY <2>1, <2>2, <2>3, <2>4 DEF BeginPolicy, Inv, TypeOK, evalVars, actVars
<1>2. pc' \notin WalkPlaces /\ stack' = << >>
  BY DEF BeginPolicy, Inv, Located, PolicyPlaces, WalkPlaces
<1>3. pix' \in 1 .. Len(buffer') /\ buffer'[pix'] \in Policies
  BY DEF BeginPolicy, Inv, TypeOK, evalVars
<1>4. Located'
  BY <1>2, <1>3 DEF Located
<1> QED BY <1>1, <1>2, <1>4, EmptyPath DEF Inv

LEMMA PolicyEnterReturnsInv == Inv /\ PolicyEnterReturns => Inv'
<1> SUFFICES ASSUME Inv, PolicyEnterReturns PROVE Inv'
  OBVIOUS
<1>1. TypeOK'
  BY DEF PolicyEnterReturns, Inv, TypeOK, evalVars, walkVars, actVars, Places, PolicyPlaces
<1>2. pc' \notin WalkPlaces /\ stack' = << >>
  BY DEF PolicyEnterReturns, Inv, Located, WalkPlaces, walkVars
<1>3. Located'
  BY <1>2 DEF PolicyEnterReturns, Inv, Located, PolicyPlaces, evalVars
<1> QED BY <1>1, <1>2, <1>3, EmptyPath DEF Inv

LEMMA EvaluateRootInv == Inv /\ EvaluateRoot => Inv'
<1> SUFFICES ASSUME Inv, EvaluateRoot PROVE Inv'
  OBVIOUS
<1> DEFINE root == Policy[buffer[pix]].rules
<1>1. TypeOK /\ Located /\ pc \in PolicyPlaces
  BY DEF Inv, EvaluateRoot, PolicyPlaces
<1>2. root \in Nodes \cup {NULL}
  BY <1>1, PolicyTypes
<1>3. pix' \in 1 .. Len(buffer') /\ buffer'[pix'] \in Policies
  BY <1>1 DEF Located, EvaluateRoot, evalVars
<1> HIDE DEF root
<1>4. CASE root = NULL
  <2>1. pc' = "verdict" /\ stack' = stack /\ verdict' = "ABSTAIN"
    BY <1>4 DEF EvaluateRoot, root
  <2>2. TypeOK'
    BY <1>1, <2>1 DEF EvaluateRoot, TypeOK, evalVars, actVars, Places, PolicyPlaces, Outcomes, Results
  <2>3. stack' = << >> /\ pc' \notin WalkPlaces
    BY <1>1, <2>1 DEF Located, EvaluateRoot, WalkPlaces
  <2>4. Located'
    BY <1>3, <2>3 DEF Located
  <2> QED BY <2>2, <2>3, <2>4, EmptyPath DEF Inv
<1>5. CASE root # NULL
  <2>1. pc' = "rules" /\ stack' = <<Frame(root, 0)>> /\ verdict' = verdict
    BY <1>5 DEF EvaluateRoot, root
  <2>2. Frame(root, 0) \in Frames
    BY <1>2, <1>5 DEF Frame, Frames, Outcomes, Results
  <2>3. stack' \in Seq(Frames) /\ Len(stack') = 1 /\ stack'[1] = Frame(root, 0)
    BY <2>1, <2>2, OneSeq
  <2>4. TypeOK'
    BY <1>1, <2>1, <2>3 DEF EvaluateRoot, TypeOK, evalVars, actVars, Places, PolicyPlaces, WalkPlaces
  <2>5. Located'
    BY <1>3, <2>1, <2>3, NothingInEmpty DEF Located, PolicyPlaces, WalkPlaces
  <2>6. 0 <= Len(Tree[root].children)
    BY <1>2, <1>5, TreeAssumption DEF NodeRecords
  <2>7. Path' /\ AtTop'
    BY <2>1, <2>3, <2>6 DEF Path, AtTop, Frame, Top, WalkPlaces
  <2> QED BY <2>4, <2>5, <2>7 DEF Inv
<1> QED BY <1>4, <1>5

LEMMA ReportVerdictInv == Inv /\ ReportVerdict => Inv'
<1> SUFFICES ASSUME Inv, ReportVerdict PROVE Inv'
  OBVIOUS
<1>1. TypeOK'
  <2>1. trace' \in Seq(Events)
    <3>1. "policy_exit" \in EventNames
      BY DEF EventNames, CallbackNames
    <3>2. [Event("policy_exit") EXCEPT !.obs = Watching, !.res = verdict] \in Events
      BY <3>1, EventTypes DEF Inv, TypeOK, Watching
    <3> QED BY <3>2, LogTypes DEF Inv, TypeOK, ReportVerdict
  <2>2. actRes' \in Errors /\ pc' \in Places /\ aix' \in Nat \ {0}
    BY DEF ReportVerdict, Errors, ESUCCESS, Places, PolicyPlaces
  <2> QED BY <2>1, <2>2 DEF ReportVerdict, Inv, TypeOK, evalVars, walkVars
<1>2. pc' \notin WalkPlaces /\ stack' = << >>
  BY DEF ReportVerdict, Inv, Located, WalkPlaces, walkVars
<1>3. Located'
  BY <1>2 DEF ReportVerdict, Inv, Located, PolicyPlaces, evalVars
<1> QED BY <1>1, <1>2, <1>3, EmptyPath DEF Inv

LEMMA PolicyExitReturnsInv == Inv /\ PolicyExitReturns => Inv'
<1> SUFFICES ASSUME Inv, PolicyExitReturns PROVE Inv'
  OBVIOUS
<1>1. TypeOK'
  BY DEF PolicyExitReturns, Inv, TypeOK, evalVars, walkVars, actVars, Places, PolicyPlaces
<1>2. pc' \notin WalkPlaces /\ stack' = << >>
  BY DEF PolicyExitReturns, Inv, Located, WalkPlaces, walkVars
<1>3. Located'
  BY <1>2 DEF PolicyExitReturns, Inv, Located, PolicyPlaces, evalVars
<1> QED BY <1>1, <1>2, <1>3, EmptyPath DEF Inv

LEMMA EndPolicyInv == Inv /\ EndPolicy => Inv'
<1> SUFFICES ASSUME Inv, EndPolicy PROVE Inv'
  OBVIOUS
<1>1. TypeOK'
  <2>1. total' \in Nat
    BY DEF EndPolicy, Inv, TypeOK, Errors
  <2>2. trace' \in Seq(Events)
    BY NothingInEmpty DEF EndPolicy
  <2>3. pc' \in Places /\ pix' \in Nat \ {0}
    BY DEF EndPolicy, Inv, TypeOK, Places
  <2> QED BY <2>1, <2>2, <2>3 DEF EndPolicy, Inv, TypeOK, walkVars, actVars
<1>2. pc' \notin PolicyPlaces /\ pc' \notin WalkPlaces /\ stack' = << >>
  BY DEF EndPolicy, Inv, Located, PolicyPlaces, WalkPlaces, walkVars
<1>3. Located'
  BY <1>2 DEF Located
<1> QED BY <1>1, <1>2, <1>3, EmptyPath DEF Inv

LEMMA ForgetTypes ==
  ASSUME Forget
  PROVE  buffer' \in Seq(Policies \cup {NULL}) /\ pix' \in Nat \ {0} /\ stopFn' \in BOOLEAN
<1>1. buffer' \in Seq(Policies \cup {NULL})
  BY NothingInEmpty DEF Forget
<1>2. pix' \in Nat \ {0}
  BY DEF Forget
<1>3. stopFn' \in BOOLEAN
  BY DEF Forget
<1> QED BY <1>1, <1>2, <1>3

LEMMA ShouldStopReturnsInv ==
  ASSUME Inv, NEW b \in BOOLEAN, ShouldStopReturns(b)
  PROVE  Inv'
<1>1. TypeOK'
  <2>1. /\ buffer' \in Seq(Policies \cup {NULL})
        /\ pix' \in Nat \ {0}
        /\ stopFn' \in BOOLEAN
        /\ pc' \in Places
    BY ForgetTypes DEF ShouldStopReturns, Inv, TypeOK, Places
  <2> QED BY <2>1 DEF ShouldStopReturns, Inv, TypeOK, walkVars, actVars
<1>2. pc' \notin PolicyPlaces /\ pc' \notin WalkPlaces /\ stack' = << >>
  BY DEF ShouldStopReturns, Inv, Located, PolicyPlaces, WalkPlaces, walkVars
<1>3. Located'
  BY <1>2 DEF Located
<1> QED BY <1>1, <1>2, <1>3, EmptyPath DEF Inv

LEMMA BufferDoneInv == Inv /\ BufferDone => Inv'
<1> SUFFICES ASSUME Inv, BufferDone PROVE Inv'
  OBVIOUS
<1>1. TypeOK'
  <2>1. pc' \in Places
    BY DEF BufferDone, Places
  <2> QED BY <2>1, ForgetTypes DEF BufferDone, Inv, TypeOK, walkVars, actVars
<1>2. pc' \notin PolicyPlaces /\ pc' \notin WalkPlaces /\ stack' = << >>
  BY DEF BufferDone, Inv, Located, PolicyPlaces, WalkPlaces, walkVars
<1>3. Located'
  BY <1>2 DEF Located
<1> QED BY <1>1, <1>2, <1>3, EmptyPath DEF Inv

-----------------------------------------------------------------------------
(* The steps of the walk *)

\* In the walk the innermost frame stands on a node of the tree.
LEMMA TopTypes ==
  ASSUME Inv, pc \in WalkPlaces
  PROVE  /\ stack \in Seq(Frames) /\ stack # << >>
         /\ Len(stack) \in Nat \ {0}
         /\ Top \in Frames
         /\ Node \in NodeRecords
         /\ Len(Node.children) \in Nat
         /\ Top.depth = Len(stack) - 1
         /\ Top.ix <= Len(Node.children)
         /\ pix \in 1 .. Len(buffer) /\ buffer[pix] \in Policies
<1>1. stack \in Seq(Frames) /\ stack # << >>
  BY DEF Inv, TypeOK, Located
<1>2. Len(stack) \in Nat \ {0} /\ Top \in Frames
  BY <1>1, LastSeq DEF Top
<1>3. Node \in NodeRecords
  BY <1>2, TreeAssumption DEF Node, Frames
<1>4. Len(Node.children) \in Nat
  BY <1>3 DEF NodeRecords
<1>5. Top.depth = Len(stack) - 1 /\ Top.ix <= Len(Node.children)
  BY <1>2 DEF Inv, Path, Top, Node
<1>6. pix \in 1 .. Len(buffer) /\ buffer[pix] \in Policies
  BY DEF Inv, Located, PolicyPlaces
<1> QED BY <1>1, <1>2, <1>3, <1>4, <1>5, <1>6

\* A step within the walk keeps what a policy relies on.
LEMMA StillWalking ==
  ASSUME Inv, pc \in WalkPlaces, pc' \in WalkPlaces, stack' # << >>,
         UNCHANGED evalVars
  PROVE  Located'
BY DEF Inv, Located, PolicyPlaces, evalVars

\* A step that moves only to another place keeps the path.
LEMMA SameStack ==
  ASSUME Inv, pc \in WalkPlaces, stack' = stack
  PROVE  Path' /\ stack' # << >> /\ Top' = Top /\ Node' = Node /\ Entry' = Entry
BY DEF Inv, Path, Located, Top, Node, Entry

\* So does one that changes the innermost frame and leaves it on its node.
LEMMA PutTop ==
  ASSUME Inv, pc \in WalkPlaces, NEW f \in Frames,
         f.node = Top.node, f.depth = Top.depth, f.ix <= Len(Node.children),
         stack' = SetTop(f)
  PROVE  /\ stack' \in Seq(Frames) /\ stack' # << >>
         /\ Path' /\ Top' = f /\ Node' = Node
<1>1. /\ stack' \in Seq(Frames)
      /\ Len(stack') = Len(stack)
      /\ stack'[Len(stack)] = f
      /\ \A i \in 1 .. Len(stack) : i # Len(stack) => stack'[i] = stack[i]
  BY TopTypes, PutSeq DEF SetTop
<1>2. stack' # << >>
  BY <1>1, TopTypes, NothingInEmpty
<1>3. Top' = f /\ Node' = Node
  BY <1>1 DEF Top, Node
<1>4. ASSUME NEW i \in 1 .. Len(stack)
      PROVE  stack'[i].node = stack[i].node /\ stack'[i].depth = stack[i].depth
  BY <1>1 DEF Top
<1>5. ASSUME NEW i \in 1 .. Len(stack)
      PROVE  stack'[i].ix <= Len(Tree[stack'[i].node].children)
  <2>1. CASE i = Len(stack)
    BY <1>1, <2>1 DEF Node
  <2>2. CASE i # Len(stack)
    BY <1>1, <2>2 DEF Inv, Path
  <2> QED BY <2>1, <2>2
<1>6. Path'
  <2>1. ASSUME NEW i \in 1 .. Len(stack')
        PROVE  /\ stack'[i].depth = i - 1
               /\ stack'[i].ix <= Len(Tree[stack'[i].node].children)
    BY <1>1, <1>4, <1>5 DEF Inv, Path
  <2>2. ASSUME NEW i \in 1 .. Len(stack') - 1
        PROVE  stack'[i].depth <= MaxEvalDepth /\ Tree[stack'[i].node].kind = "comp"
    <3>1. i \in 1 .. Len(stack) - 1 /\ i \in 1 .. Len(stack)
      BY <1>1, TopTypes
    <3> QED BY <1>4, <3>1 DEF Inv, Path
  <2> QED BY <2>1, <2>2 DEF Path
<1> QED BY <1>1, <1>2, <1>3, <1>6

LEMMA CutNodeInv == Inv /\ CutNode => Inv'
<1> SUFFICES ASSUME Inv, CutNode PROVE Inv'
  OBVIOUS
<1>1. pc \in WalkPlaces /\ pc' \in WalkPlaces /\ stack' = stack
  BY DEF CutNode, WalkPlaces
<1>2. TypeOK'
  BY <1>1 DEF CutNode, Inv, TypeOK, evalVars, actVars, Places, PolicyPlaces, Outcomes, Results
<1>3. Located'
  BY <1>1, SameStack, StillWalking DEF CutNode
<1>4. AtTop'
  BY DEF CutNode, AtTop
<1> QED BY <1>1, <1>2, <1>3, <1>4, SameStack DEF Inv

LEMMA EnterNodeInv == Inv /\ EnterNode => Inv'
<1> SUFFICES ASSUME Inv, EnterNode PROVE Inv'
  OBVIOUS
<1>1. pc \in WalkPlaces /\ pc' \in {"node_enter", "node"} /\ stack' = stack
  BY DEF EnterNode, WalkPlaces, walkVars
<1>2. pc' \in WalkPlaces
  BY <1>1 DEF WalkPlaces
<1>3. TypeOK'
  BY <1>2 DEF EnterNode, Inv, TypeOK, evalVars, walkVars, actVars, Places, PolicyPlaces
<1>4. Located'
  BY <1>1, <1>2, SameStack, StillWalking DEF EnterNode
<1>5. Top.depth <= MaxEvalDepth /\ Top.ix = 0
  BY <1>1, TopTypes, BoundAssumption DEF EnterNode, Inv, AtTop, TooDeep
<1>6. AtTop'
  BY <1>1, <1>5, SameStack DEF AtTop
<1> QED BY <1>1, <1>3, <1>4, <1>6, SameStack DEF Inv

LEMMA NodeEnterReturnsInv ==
  ASSUME Inv, NEW h \in Handles, NodeEnterReturns(h)
  PROVE  Inv'
<1> DEFINE f == [Top EXCEPT !.handle = h]
<1>1. pc \in WalkPlaces /\ pc = "node_enter" /\ pc' = "node" /\ pc' \in WalkPlaces
  BY DEF NodeEnterReturns, WalkPlaces
<1>2. f \in Frames /\ f.node = Top.node /\ f.depth = Top.depth /\ f.ix = Top.ix
  BY <1>1, TopTypes, HostAssumption DEF Frames
<1>3. stack' = SetTop(f) /\ Log(FrameEvent("node_enter", Watching, f, "ABSTAIN"))
  BY DEF NodeEnterReturns
<1> HIDE DEF f
<1>4. /\ stack' \in Seq(Frames) /\ stack' # << >>
      /\ Path' /\ Top' = f /\ Node' = Node
  BY <1>1, <1>2, <1>3, TopTypes, PutTop
<1>5. TypeOK'
  <2>1. "node_enter" \in EventNames /\ "ABSTAIN" \in Outcomes
    BY DEF EventNames, CallbackNames, Outcomes, Results
  <2>2. trace' \in Seq(Events)
    BY <1>2, <1>3, <2>1, EventTypes, LogTypes DEF Inv, TypeOK, Watching
  <2> QED BY <1>1, <1>4, <2>2 DEF NodeEnterReturns, Inv, TypeOK, evalVars, actVars, Places, PolicyPlaces
<1>6. Located'
  BY <1>1, <1>4, StillWalking DEF NodeEnterReturns
<1>7. AtTop'
  BY <1>1, <1>2, <1>4 DEF Inv, AtTop, WalkPlaces
<1> QED BY <1>4, <1>5, <1>6, <1>7 DEF Inv

LEMMA LeaveNodeInv == Inv /\ LeaveNode => Inv'
<1> SUFFICES ASSUME Inv, LeaveNode PROVE Inv'
  OBVIOUS
<1>1. /\ pc = "leave" /\ pc' \in {"node_exit", "return"} /\ stack' = stack
      /\ pc \in WalkPlaces /\ pc' \in WalkPlaces
  BY DEF LeaveNode, WalkPlaces, walkVars
<1>2. TypeOK'
  <2>1. ctx' \in Contexts
    BY ErrorCallTypes DEF LeaveNode, DescribeNode, Inv, TypeOK
  <2>2. trace' \in Seq(Events)
    <3>1. "node_exit" \in EventNames
      BY DEF EventNames, CallbackNames
    <3>2. [Top EXCEPT !.handle = ExitHandle(Top)] \in Frames
      BY <1>1, TopTypes DEF Frames, ExitHandle
    <3>3. FrameEvent("node_exit", Watching, [Top EXCEPT !.handle = ExitHandle(Top)], ret)
            \in Events
      BY <3>1, <3>2, EventTypes DEF Inv, TypeOK, Watching
    <3> QED BY <3>3, LogTypes DEF LeaveNode, Inv, TypeOK
  <2> QED BY <1>1, <2>1, <2>2 DEF LeaveNode, Inv, TypeOK, evalVars, walkVars, actVars, Places, PolicyPlaces
<1>3. Located'
  BY <1>1, SameStack, StillWalking DEF LeaveNode
<1>4. AtTop'
  BY <1>1, SameStack DEF Inv, AtTop, WalkPlaces
<1> QED BY <1>1, <1>2, <1>3, <1>4, SameStack DEF Inv

LEMMA NodeExitReturnsInv == Inv /\ NodeExitReturns => Inv'
<1> SUFFICES ASSUME Inv, NodeExitReturns PROVE Inv'
  OBVIOUS
<1>1. pc \in WalkPlaces /\ pc' = "return" /\ pc' \in WalkPlaces /\ stack' = stack
  BY DEF NodeExitReturns, WalkPlaces, walkVars
<1>2. TypeOK'
  BY <1>1 DEF NodeExitReturns, Inv, TypeOK, evalVars, walkVars, actVars, Places, PolicyPlaces
<1>3. Located'
  BY <1>1, SameStack, StillWalking DEF NodeExitReturns
<1>4. AtTop'
  BY <1>1 DEF AtTop
<1> QED BY <1>1, <1>2, <1>3, <1>4, SameStack DEF Inv

LEMMA EvaluateUnknownInv == Inv /\ EvaluateUnknown => Inv'
<1> SUFFICES ASSUME Inv, EvaluateUnknown PROVE Inv'
  OBVIOUS
<1>1. /\ pc = "node" /\ pc' = "leave" /\ stack' = stack
      /\ pc \in WalkPlaces /\ pc' \in WalkPlaces
  BY DEF EvaluateUnknown, WalkPlaces
<1>2. TypeOK'
  BY <1>1 DEF EvaluateUnknown, Inv, TypeOK, evalVars, actVars, Places, PolicyPlaces, Outcomes, Results
<1>3. Located'
  BY <1>1, SameStack, StillWalking DEF EvaluateUnknown
<1>4. AtTop'
  BY <1>1, SameStack DEF Inv, AtTop, WalkPlaces
<1> QED BY <1>1, <1>2, <1>3, <1>4, SameStack DEF Inv

LEMMA LeafAbstainsInv == Inv /\ LeafAbstains => Inv'
<1> SUFFICES ASSUME Inv, LeafAbstains PROVE Inv'
  OBVIOUS
<1>1. /\ pc = "node" /\ pc' = "leave" /\ stack' = stack
      /\ pc \in WalkPlaces /\ pc' \in WalkPlaces
  BY DEF LeafAbstains, WalkPlaces
<1>2. TypeOK'
  <2>1. ctx' \in Contexts
    BY ErrorCallTypes DEF LeafAbstains, Inv, TypeOK
  <2>2. "ABSTAIN" \in Outcomes /\ {"raise", "gate"} \subseteq EventNames
    BY DEF Outcomes, Results, EventNames
  <2>3. /\ FrameEvent("raise", NULL, Top, "ABSTAIN") \in Events
        /\ FrameEvent("gate", NULL, Top, "ABSTAIN") \in Events
    BY <1>1, <2>2, TopTypes, EventTypes
  <2>4. trace' \in Seq(Events)
    BY <2>3, LogTypes DEF LeafAbstains, Inv, TypeOK
  <2> QED BY <1>1, <2>1, <2>2, <2>4 DEF LeafAbstains, Inv, TypeOK, evalVars, actVars, Places, PolicyPlaces
<1>3. Located'
  BY <1>1, SameStack, StillWalking DEF LeafAbstains
<1>4. AtTop'
  BY <1>1, SameStack DEF Inv, AtTop, WalkPlaces
<1> QED BY <1>1, <1>2, <1>3, <1>4, SameStack DEF Inv

\* Only a valid id gets as far as its evaluator.
LEMMA ConsultedEntry ==
  ASSUME Consults
  PROVE  Entry \in Entries
BY DEF Consults, ReadEntry, EIX_OVERFLOW, ESUCCESS

LEMMA CallDefaultEvaluatorInv == Inv /\ CallDefaultEvaluator => Inv'
<1> SUFFICES ASSUME Inv, CallDefaultEvaluator PROVE Inv'
  OBVIOUS
<1>1. /\ pc = "node" /\ pc' = "leave" /\ stack' = stack
      /\ pc \in WalkPlaces /\ pc' \in WalkPlaces
  BY DEF CallDefaultEvaluator, WalkPlaces
<1>2. TypeOK'
  <2>1. ctx' \in Contexts
    <3>1. EUNKNOWN_CMP \in Errors
      BY DEF EUNKNOWN_CMP, Errors
    <3> QED BY <3>1, ErrorCallTypes DEF CallDefaultEvaluator, DefaultError, Inv, TypeOK
  <2>2. ret' \in Outcomes
    <3>1. Entry \in Entries /\ Node \in NodeRecords /\ Node.kind \in Kinds
      BY <1>1, ConsultedEntry, TopTypes DEF CallDefaultEvaluator
    <3>2. GetParam(ctx, Entry) \in Params /\ Node.value \in Params
      BY <3>1 DEF GetParam, Inv, TypeOK, Contexts, NodeRecords
    <3>3. DefaultResult(Node, GetParam(ctx, Entry)) \in Results
      BY <3>1, <3>2, CompareAssumption DEF DefaultResult, Results
    <3> QED BY <3>3 DEF CallDefaultEvaluator, Outcomes
  <2> QED BY <1>1, <2>1, <2>2 DEF CallDefaultEvaluator, Inv, TypeOK, evalVars, actVars, Places, PolicyPlaces
<1>3. Located'
  BY <1>1, SameStack, StillWalking DEF CallDefaultEvaluator
<1>4. AtTop'
  BY <1>1, SameStack DEF Inv, AtTop, WalkPlaces
<1> QED BY <1>1, <1>2, <1>3, <1>4, SameStack DEF Inv

LEMMA CallHostEvaluatorInv == Inv /\ CallHostEvaluator => Inv'
<1> SUFFICES ASSUME Inv, CallHostEvaluator PROVE Inv'
  OBVIOUS
<1>1. /\ pc = "node" /\ pc' = "evaluator" /\ stack' = stack
      /\ pc \in WalkPlaces /\ pc' \in WalkPlaces
  BY DEF CallHostEvaluator, WalkPlaces, walkVars
<1>2. TypeOK'
  BY <1>1 DEF CallHostEvaluator, Inv, TypeOK, evalVars, walkVars, actVars, Places, PolicyPlaces
<1>3. Located'
  BY <1>1, SameStack, StillWalking DEF CallHostEvaluator
<1>4. Entry \in Entries
  BY ConsultedEntry DEF CallHostEvaluator
<1>5. AtTop'
  BY <1>1, <1>4, SameStack DEF Inv, AtTop, WalkPlaces
<1> QED BY <1>1, <1>2, <1>3, <1>5, SameStack DEF Inv

LEMMA EvaluatorReturnsInv ==
  ASSUME Inv, NEW r \in Results, EvaluatorReturns(r)
  PROVE  Inv'
<1>1. /\ pc = "evaluator" /\ pc' = "leave" /\ stack' = stack
      /\ pc \in WalkPlaces /\ pc' \in WalkPlaces
  BY DEF EvaluatorReturns, WalkPlaces
<1>2. TypeOK'
  BY <1>1 DEF EvaluatorReturns, Inv, TypeOK, evalVars, actVars, Places, PolicyPlaces, Outcomes
<1>3. Located'
  BY <1>1, SameStack, StillWalking DEF EvaluatorReturns
<1>4. AtTop'
  BY <1>1, SameStack DEF Inv, AtTop, WalkPlaces
<1> QED BY <1>1, <1>2, <1>3, <1>4, SameStack DEF Inv

\* A call of evaluate_rules on the next child: the caller's frame counts it, and a
\* frame for the child goes on top.
LEMMA CallChildTypes ==
  ASSUME Inv, pc \in WalkPlaces, Node.kind = "comp", Top.depth <= MaxEvalDepth,
         Top.ix < Len(Node.children), CallChild(Top), pc' = "rules"
  PROVE  /\ stack' \in Seq(Frames) /\ stack' # << >>
         /\ Path' /\ AtTop'
<1> DEFINE f == [Top EXCEPT !.ix = @ + 1]
           g == Frame(Node.children[Top.ix + 1], Top.depth + 1)
           s == SetTop(f)
<1>1. f \in Frames /\ f.node = Top.node /\ f.depth = Top.depth /\ f.ix = Top.ix + 1
  <2>1. Top \in Frames
    BY TopTypes
  <2>2. f = [Top EXCEPT !.ix = Top.ix + 1] /\ Top.ix + 1 \in Nat
    BY <2>1 DEF Frames
  <2> HIDE DEF f
  <2> QED BY <2>1, <2>2 DEF Frames
<1>2. g \in Frames /\ g.node \in Nodes /\ g.depth = Top.depth + 1 /\ g.ix = 0
  <2>1. Top.ix + 1 \in 1 .. Len(Node.children) /\ Top.depth \in Nat
    BY TopTypes, SMTT(30) DEF Frames
  <2>2. Node.children[Top.ix + 1] \in Nodes
    BY <2>1, TopTypes DEF NodeRecords
  <2> QED BY <2>1, <2>2 DEF Frame, Frames, Outcomes, Results
<1>3. stack' = Append(s, g)
  BY DEF CallChild
<1> HIDE DEF f, g
<1>4. /\ s \in Seq(Frames) /\ Len(s) = Len(stack)
      /\ s[Len(stack)] = f
      /\ \A i \in 1 .. Len(stack) : i # Len(stack) => s[i] = stack[i]
  BY <1>1, TopTypes, PutSeq DEF SetTop
<1> HIDE DEF s
<1>5. /\ stack' \in Seq(Frames)
      /\ Len(stack') = Len(stack) + 1
      /\ stack'[Len(stack) + 1] = g
      /\ \A i \in 1 .. Len(stack) : stack'[i] = s[i]
  BY <1>2, <1>3, <1>4, PushSeq
<1>6. stack' # << >>
  BY <1>5, TopTypes, NothingInEmpty
<1>7. ASSUME NEW i \in 1 .. Len(stack)
      PROVE  /\ stack'[i].depth = i - 1
             /\ stack'[i].ix <= Len(Tree[stack'[i].node].children)
             /\ stack'[i].depth <= MaxEvalDepth
             /\ Tree[stack'[i].node].kind = "comp"
  <2>1. CASE i = Len(stack)
    <3>1. stack'[i] = f
      BY <1>4, <1>5, <2>1
    <3>2. f.ix <= Len(Node.children)
      <4>1. Top.ix \in Nat /\ Len(Node.children) \in Nat
        BY TopTypes DEF Frames
      <4> QED BY <1>1, <4>1
    <3> QED BY <1>1, <2>1, <3>1, <3>2, TopTypes DEF Node
  <2>2. CASE i # Len(stack)
    <3>1. i \in 1 .. Len(stack) - 1 /\ stack'[i] = stack[i]
      BY <1>4, <1>5, <2>2, TopTypes
    <3> QED BY <3>1 DEF Inv, Path
  <2> QED BY <2>1, <2>2
<1>8. /\ g.depth = Len(stack)
      /\ g.ix <= Len(Tree[g.node].children)
  BY <1>2, TopTypes, TreeAssumption DEF NodeRecords
<1>9. Path'
  <2>1. ASSUME NEW i \in 1 .. Len(stack')
        PROVE  /\ stack'[i].depth = i - 1
               /\ stack'[i].ix <= Len(Tree[stack'[i].node].children)
    <3>1. i \in 1 .. Len(stack) \/ i = Len(stack) + 1
      BY <1>5, TopTypes
    <3>2. CASE i \in 1 .. Len(stack)
      BY <1>7, <3>2
    <3>3. CASE i = Len(stack) + 1
      BY <1>5, <1>8, <3>3, TopTypes
    <3> QED BY <3>1, <3>2, <3>3
  <2>2. ASSUME NEW i \in 1 .. Len(stack') - 1
        PROVE  stack'[i].depth <= MaxEvalDepth /\ Tree[stack'[i].node].kind = "comp"
    BY <1>5, <1>7, TopTypes
  <2> QED BY <2>1, <2>2 DEF Path
<1>10. AtTop'
  BY <1>2, <1>5 DEF AtTop, Top
<1> QED BY <1>5, <1>6, <1>9, <1>10

LEMMA BeginNotInv == Inv /\ BeginNot => Inv'
<1> SUFFICES ASSUME Inv, BeginNot PROVE Inv'
  OBVIOUS
<1>1. /\ pc = "node" /\ pc \in WalkPlaces /\ Node.kind = "comp"
      /\ Top.depth <= MaxEvalDepth /\ Top.ix = 0
  BY DEF BeginNot, Inv, AtTop, WalkPlaces
<1>2. CASE Len(Node.children) = 1
  <2>1. CallChild(Top) /\ pc' = "rules" /\ pc' \in WalkPlaces /\ ret' = ret
    BY <1>2 DEF BeginNot, WalkPlaces
  <2>2. stack' \in Seq(Frames) /\ stack' # << >> /\ Path' /\ AtTop'
    BY <1>1, <1>2, <2>1, CallChildTypes
  <2>3. TypeOK'
    BY <2>1, <2>2 DEF BeginNot, Inv, TypeOK, evalVars, actVars, Places, PolicyPlaces
  <2>4. Located'
    BY <1>1, <2>1, <2>2, StillWalking DEF BeginNot
  <2> QED BY <2>2, <2>3, <2>4 DEF Inv
<1>3. CASE Len(Node.children) # 1
  <2>1. ret' = "ABSTAIN" /\ pc' = "leave" /\ pc' \in WalkPlaces /\ stack' = stack
    BY <1>3 DEF BeginNot, WalkPlaces
  <2>2. TypeOK'
    BY <2>1 DEF BeginNot, Inv, TypeOK, evalVars, actVars, Places, PolicyPlaces, Outcomes, Results
  <2>3. Located'
    BY <1>1, <2>1, SameStack, StillWalking DEF BeginNot
  <2>4. AtTop'
    BY <1>1, <2>1, SameStack DEF AtTop
  <2> QED BY <1>1, <2>1, <2>2, <2>3, <2>4, SameStack DEF Inv
<1> QED BY <1>2, <1>3

LEMMA BeginCompositeInv == Inv /\ BeginComposite => Inv'
<1> SUFFICES ASSUME Inv, BeginComposite PROVE Inv'
  OBVIOUS
<1>1. /\ pc = "node" /\ pc' = "loop" /\ Node.kind = "comp"
      /\ pc \in WalkPlaces /\ pc' \in WalkPlaces
  BY DEF BeginComposite, WalkPlaces
<1>2. PICK r \in InitialResults(Node.op) : stack' = SetTop([Top EXCEPT !.res = r])
  BY DEF BeginComposite
<1> DEFINE f == [Top EXCEPT !.res = r]
<1>3. r \in Outcomes
  BY DEF InitialResults, Outcomes, Results
<1>4. f \in Frames /\ f.node = Top.node /\ f.depth = Top.depth /\ f.ix = Top.ix
  BY <1>1, <1>3, TopTypes DEF Frames
<1>5. stack' = SetTop(f)
  BY <1>2
<1> HIDE DEF f
<1>6. /\ stack' \in Seq(Frames) /\ stack' # << >>
      /\ Path' /\ Top' = f /\ Node' = Node
  BY <1>1, <1>4, <1>5, TopTypes, PutTop
<1>7. TypeOK'
  BY <1>1, <1>6 DEF BeginComposite, Inv, TypeOK, evalVars, actVars, Places, PolicyPlaces
<1>8. Located'
  BY <1>1, <1>6, StillWalking DEF BeginComposite
<1>9. AtTop'
  BY <1>1, <1>4, <1>6 DEF Inv, AtTop, WalkPlaces
<1> QED BY <1>6, <1>7, <1>8, <1>9 DEF Inv

LEMMA NextChildInv == Inv /\ NextChild => Inv'
<1> SUFFICES ASSUME Inv, NextChild PROVE Inv'
  OBVIOUS
<1>1. /\ pc = "loop" /\ pc' = "rules" /\ Node.kind = "comp" /\ Top.depth <= MaxEvalDepth
      /\ pc \in WalkPlaces /\ pc' \in WalkPlaces
  BY DEF NextChild, Inv, AtTop, WalkPlaces
<1>2. stack' \in Seq(Frames) /\ stack' # << >> /\ Path' /\ AtTop'
  BY <1>1, CallChildTypes DEF NextChild
<1>3. TypeOK'
  BY <1>1, <1>2 DEF NextChild, Inv, TypeOK, evalVars, actVars, Places, PolicyPlaces
<1>4. Located'
  BY <1>1, <1>2, StillWalking DEF NextChild
<1> QED BY <1>2, <1>3, <1>4 DEF Inv

LEMMA ChildrenDoneInv == Inv /\ ChildrenDone => Inv'
<1> SUFFICES ASSUME Inv, ChildrenDone PROVE Inv'
  OBVIOUS
<1>1. /\ pc = "loop" /\ pc' = "leave" /\ stack' = stack
      /\ pc \in WalkPlaces /\ pc' \in WalkPlaces
  BY DEF ChildrenDone, WalkPlaces
<1>2. TypeOK'
  <2>1. ret' \in Outcomes
    BY <1>1, TopTypes DEF ChildrenDone, Frames
  <2> QED BY <1>1, <2>1 DEF ChildrenDone, Inv, TypeOK, evalVars, actVars, Places, PolicyPlaces
<1>3. Located'
  BY <1>1, SameStack, StillWalking DEF ChildrenDone
<1>4. AtTop'
  BY <1>1, SameStack DEF Inv, AtTop, WalkPlaces
<1> QED BY <1>1, <1>2, <1>3, <1>4, SameStack DEF Inv

\* A call of evaluate_rules returns: the caller, a composite above the cap, is on
\* top again, changed at most in what it has folded.
LEMMA PutPopTypes ==
  ASSUME Inv, pc \in WalkPlaces, NEW n \in Nat \ {0}, Len(stack) = n + 1,
         NEW g \in Frames,
         g.node = stack[n].node, g.depth = stack[n].depth, g.ix = stack[n].ix,
         stack' = [Pop EXCEPT ![n] = g]
  PROVE  /\ stack' \in Seq(Frames) /\ stack' # << >> /\ Path'
         /\ Top'.depth <= MaxEvalDepth /\ Node'.kind = "comp"
<1>1. stack \in Seq(Frames) /\ stack # << >>
  BY TopTypes
<1>2. Pop \in Seq(Frames) /\ Len(Pop) = n /\ \A i \in 1 .. n : Pop[i] = stack[i]
  BY <1>1, FrontSeq DEF Pop
<1>3. /\ stack' \in Seq(Frames) /\ Len(stack') = n /\ stack'[n] = g
      /\ \A i \in 1 .. n : i # n => stack'[i] = Pop[i]
  <2>1. n \in 1 .. Len(Pop)
    BY <1>2
  <2> QED BY <1>2, <2>1, PutSeq
<1>4. stack' # << >>
  BY <1>3, NothingInEmpty
<1>5. ASSUME NEW i \in 1 .. n
      PROVE  /\ stack'[i].node = stack[i].node
             /\ stack'[i].depth = stack[i].depth
             /\ stack'[i].ix = stack[i].ix
  BY <1>2, <1>3
<1>6. ASSUME NEW i \in 1 .. n
      PROVE  /\ stack[i].depth = i - 1
             /\ stack[i].ix <= Len(Tree[stack[i].node].children)
             /\ stack[i].depth <= MaxEvalDepth
             /\ Tree[stack[i].node].kind = "comp"
  BY DEF Inv, Path
<1>7. Path'
  <2>1. ASSUME NEW i \in 1 .. n
        PROVE  /\ stack'[i].depth = i - 1
               /\ stack'[i].ix <= Len(Tree[stack'[i].node].children)
               /\ stack'[i].depth <= MaxEvalDepth
               /\ Tree[stack'[i].node].kind = "comp"
    BY <1>5, <1>6
  <2>2. \A i \in 1 .. n - 1 : i \in 1 .. n
    OBVIOUS
  <2> QED BY <1>3, <2>1, <2>2 DEF Path
<1>8. Top'.depth <= MaxEvalDepth /\ Node'.kind = "comp"
  <2>1. n \in 1 .. n /\ Top' = g
    BY <1>3 DEF Top
  <2> QED BY <1>3, <1>5, <1>6, <2>1 DEF Node
<1> QED BY <1>3, <1>4, <1>7, <1>8

LEMMA PopTypes ==
  ASSUME Inv, pc \in WalkPlaces, NEW n \in Nat \ {0}, Len(stack) = n + 1, stack' = Pop
  PROVE  /\ stack' \in Seq(Frames) /\ stack' # << >> /\ Path'
         /\ Top'.depth <= MaxEvalDepth /\ Node'.kind = "comp"
<1>1. stack \in Seq(Frames) /\ stack # << >>
  BY TopTypes
<1>2. Pop \in Seq(Frames) /\ Len(Pop) = n /\ \A i \in 1 .. n : Pop[i] = stack[i]
  BY <1>1, FrontSeq DEF Pop
<1>3. stack[n] \in Frames
  BY <1>1
<1>4. Pop = [Pop EXCEPT ![n] = stack[n]]
  BY <1>2
<1> QED BY <1>3, <1>4, PutPopTypes

\* Below a frame that returns to a frame there is one.
LEMMA CallerIndex ==
  ASSUME NEW s \in Seq(Frames), Len(s) > 1
  PROVE  Len(s) - 1 \in Nat \ {0} /\ Len(s) = (Len(s) - 1) + 1 /\ s[Len(s) - 1] \in Frames
<1> DEFINE n == Len(s)
<1>1. n \in Nat /\ n > 1
  OBVIOUS
<1>2. \A i \in 1 .. n : s[i] \in Frames
  OBVIOUS
<1> HIDE DEF n
<1>3. n - 1 \in Nat \ {0} /\ n = (n - 1) + 1 /\ n - 1 \in 1 .. n
  BY <1>1
<1>4. s[n - 1] \in Frames
  BY <1>2, <1>3
<1> QED BY <1>3, <1>4 DEF n

\* What a call returned is recorded.
LEMMA ValueTypes ==
  ASSUME Inv, pc \in WalkPlaces, Log(FrameEvent("value", NULL, Top, ret))
  PROVE  trace' \in Seq(Events)
<1>1. "value" \in EventNames
  BY DEF EventNames
<1>2. FrameEvent("value", NULL, Top, ret) \in Events
  BY <1>1, TopTypes, EventTypes DEF Inv, TypeOK
<1> QED BY <1>2, LogTypes DEF Inv, TypeOK

LEMMA ReturnToNotInv == Inv /\ ReturnToNot => Inv'
<1> SUFFICES ASSUME Inv, ReturnToNot PROVE Inv'
  OBVIOUS
<1>1. /\ pc = "return" /\ pc' = "leave" /\ stack' = Pop /\ Len(stack) > 1
      /\ pc \in WalkPlaces /\ pc' \in WalkPlaces
  BY DEF ReturnToNot, WalkPlaces
<1>2. /\ stack' \in Seq(Frames) /\ stack' # << >> /\ Path'
      /\ Top'.depth <= MaxEvalDepth /\ Node'.kind = "comp"
  BY <1>1, CallerIndex, TopTypes, PopTypes
<1>3. TypeOK'
  <2>1. ret' \in Outcomes
    BY DEF ReturnToNot, DoNot, Outcomes, Results
  <2>2. trace' \in Seq(Events)
    BY <1>1, ValueTypes DEF ReturnToNot
  <2> QED BY <1>1, <1>2, <2>1, <2>2 DEF ReturnToNot, Inv, TypeOK, evalVars, actVars, Places, PolicyPlaces
<1>4. Located'
  BY <1>1, <1>2, StillWalking DEF ReturnToNot
<1>5. AtTop'
  BY <1>1, <1>2 DEF AtTop
<1> QED BY <1>2, <1>3, <1>4, <1>5 DEF Inv

LEMMA ReturnToCompositeNode ==
  ASSUME Inv, ReturnToComposite
  PROVE  /\ stack' \in Seq(Frames) /\ stack' # << >> /\ Path'
         /\ Top'.depth <= MaxEvalDepth /\ Node'.kind = "comp"
         /\ ret' \in Outcomes
<1> DEFINE f == stack[Len(stack) - 1]
           r == DoOper(Tree[f.node].op, f.res, ret)
           g == [f EXCEPT !.res = r]
<1>1. /\ pc \in WalkPlaces /\ Len(stack) > 1
      /\ stack' = [Pop EXCEPT ![Len(stack) - 1] = g]
      /\ ret' \in {r, ret}
  BY DEF ReturnToComposite, WalkPlaces
<1>2. r \in Outcomes
  BY DEF DoOper, DoAnd, DoOr, DoNot, Outcomes, Results
<1> HIDE DEF r
<1>3. f \in Frames
  BY <1>1, CallerIndex, TopTypes
<1>4. g \in Frames /\ g.node = f.node /\ g.depth = f.depth /\ g.ix = f.ix
  BY <1>2, <1>3 DEF Frames
<1>5. ret' \in Outcomes
  BY <1>1, <1>2 DEF Inv, TypeOK
<1> HIDE DEF f, g
<1> QED BY <1>1, <1>4, <1>5, CallerIndex, TopTypes, PutPopTypes DEF f

LEMMA ReturnToCompositeInv == Inv /\ ReturnToComposite => Inv'
<1> SUFFICES ASSUME Inv, ReturnToComposite PROVE Inv'
  OBVIOUS
<1>1. /\ pc = "return" /\ pc' \in {"leave", "loop"}
      /\ pc \in WalkPlaces /\ pc' \in WalkPlaces
  BY DEF ReturnToComposite, WalkPlaces
<1>2. /\ stack' \in Seq(Frames) /\ stack' # << >> /\ Path'
      /\ Top'.depth <= MaxEvalDepth /\ Node'.kind = "comp"
      /\ ret' \in Outcomes
  BY ReturnToCompositeNode
<1>3. TypeOK'
  <2>1. trace' \in Seq(Events)
    BY <1>1, ValueTypes DEF ReturnToComposite
  <2> QED BY <1>1, <1>2, <2>1 DEF ReturnToComposite, Inv, TypeOK, evalVars, actVars, Places, PolicyPlaces
<1>4. Located'
  BY <1>1, <1>2, StillWalking DEF ReturnToComposite
<1>5. AtTop'
  BY <1>1, <1>2 DEF AtTop
<1> QED BY <1>2, <1>3, <1>4, <1>5 DEF Inv

LEMMA ReturnToPolicyInv == Inv /\ ReturnToPolicy => Inv'
<1> SUFFICES ASSUME Inv, ReturnToPolicy PROVE Inv'
  OBVIOUS
<1>1. /\ pc \in WalkPlaces /\ pc' = "verdict" /\ pc' \notin WalkPlaces
      /\ pc' \in PolicyPlaces /\ stack' = << >>
  BY DEF ReturnToPolicy, WalkPlaces, PolicyPlaces
<1>2. TypeOK'
  <2>1. trace' \in Seq(Events)
    BY <1>1, ValueTypes DEF ReturnToPolicy
  <2>2. stack' \in Seq(Frames)
    BY <1>1, NothingInEmpty
  <2> QED BY <1>1, <2>1, <2>2 DEF ReturnToPolicy, Inv, TypeOK, evalVars, actVars, Places
<1>3. Located'
  BY <1>1, TopTypes DEF ReturnToPolicy, Located, evalVars
<1> QED BY <1>1, <1>2, <1>3, EmptyPath DEF Inv

-----------------------------------------------------------------------------
(* The steps of perform_actions *)

LEMMA SkipActionInv == Inv /\ SkipAction => Inv'
<1> SUFFICES ASSUME Inv, SkipAction PROVE Inv'
  OBVIOUS
<1>1. TypeOK'
  BY DEF SkipAction, ContinueAt, Inv, TypeOK, evalVars, walkVars
<1>2. pc' \notin WalkPlaces /\ stack' = << >>
  BY DEF SkipAction, Inv, Located, WalkPlaces, walkVars
<1>3. Located'
  BY <1>2 DEF SkipAction, Inv, Located, PolicyPlaces, evalVars
<1> QED BY <1>1, <1>2, <1>3, EmptyPath DEF Inv

LEMMA AbortActionsInv == Inv /\ AbortActions => Inv'
<1> SUFFICES ASSUME Inv, AbortActions PROVE Inv'
  OBVIOUS
<1>1. TypeOK'
  BY DEF AbortActions, Inv, TypeOK, evalVars, walkVars, Errors, EIX_OVERFLOW, Places, PolicyPlaces
<1>2. pc' \notin WalkPlaces /\ stack' = << >>
  BY DEF AbortActions, Inv, Located, WalkPlaces, walkVars
<1>3. Located'
  BY <1>2 DEF AbortActions, Inv, Located, PolicyPlaces, evalVars
<1> QED BY <1>1, <1>2, <1>3, EmptyPath DEF Inv

LEMMA CallActionInv == Inv /\ CallAction => Inv'
<1> SUFFICES ASSUME Inv, CallAction PROVE Inv'
  OBVIOUS
<1>1. TypeOK'
  BY DEF CallAction, Inv, TypeOK, evalVars, walkVars, actVars, Places, PolicyPlaces
<1>2. pc' \notin WalkPlaces /\ stack' = << >>
  BY DEF CallAction, Inv, Located, WalkPlaces, walkVars
<1>3. Located'
  BY <1>2 DEF CallAction, Inv, Located, PolicyPlaces, evalVars
<1> QED BY <1>1, <1>2, <1>3, EmptyPath DEF Inv

LEMMA ActionReturnsInv ==
  ASSUME Inv, NEW rc \in HostErrors, ActionReturns(rc)
  PROVE  Inv'
<1>1. TypeOK'
  <2>1. rc \in Errors
    BY HostAssumption
  <2>2. ctx' \in Contexts
    BY <2>1, ErrorCallTypes DEF ActionReturns, Inv, TypeOK
  <2>3. trace' \in Seq(Events)
    <3>1. "action" \in EventNames /\ aix \in Nat /\ HandedResult \in Outcomes
      BY DEF EventNames, Inv, TypeOK, HandedResult
    <3>2. [Event("action") EXCEPT !.ix = aix, !.res = HandedResult, !.rc = rc] \in Events
      BY <2>1, <3>1, EventTypes
    <3> QED BY <3>2, LogTypes DEF ActionReturns, Inv, TypeOK
  <2>4. aix' \in Nat \ {0} /\ pc' \in Places
    BY DEF ActionReturns, Inv, TypeOK, Places, PolicyPlaces
  <2> QED BY <2>1, <2>2, <2>3, <2>4 DEF ActionReturns, Inv, TypeOK, evalVars, walkVars
<1>2. pc' \notin WalkPlaces /\ stack' = << >>
  BY DEF ActionReturns, Inv, Located, WalkPlaces, walkVars
<1>3. Located'
  BY <1>2 DEF ActionReturns, Inv, Located, PolicyPlaces, evalVars
<1> QED BY <1>1, <1>2, <1>3, EmptyPath DEF Inv

LEMMA ActionsDoneInv == Inv /\ ActionsDone => Inv'
<1> SUFFICES ASSUME Inv, ActionsDone PROVE Inv'
  OBVIOUS
<1>1. TypeOK'
  BY DEF ActionsDone, Inv, TypeOK, evalVars, walkVars, actVars, Places, PolicyPlaces
<1>2. pc' \notin WalkPlaces /\ stack' = << >>
  BY DEF ActionsDone, Inv, Located, WalkPlaces, walkVars
<1>3. Located'
  BY <1>2 DEF ActionsDone, Inv, Located, PolicyPlaces, evalVars
<1> QED BY <1>1, <1>2, <1>3, EmptyPath DEF Inv

-----------------------------------------------------------------------------
(* The steps of the host *)

LEMMA HostCallInv ==
  ASSUME Inv, NEW c \in Contexts, HostCall(c)
  PROVE  Inv'
<1>1. TypeOK'
  <2>1. trace' \in Seq(Events)
    <3>1. "call" \in EventNames /\ c.error \in Errors
      BY DEF EventNames, Contexts
    <3>2. [Event("call") EXCEPT !.rc = c.error] \in Events
      BY <3>1, EventTypes
    <3> QED BY <3>2, LogTypes DEF HostCall, Inv, TypeOK
  <2>2. ctx' \in Contexts /\ hostCalls' \in 0 .. MaxHostCalls
    BY BoundAssumption DEF HostCall, Inv, TypeOK
  <2> QED BY <2>1, <2>2 DEF HostCall, Inv, TypeOK, evalVars, walkVars, actVars
<1>2. Located'
  BY DEF HostCall, Inv, Located, evalVars, walkVars
<1>3. Path' /\ AtTop'
  BY DEF HostCall, Inv, Path, AtTop, Top, Node, Entry, walkVars
<1> QED BY <1>1, <1>2, <1>3 DEF Inv

\* Whatever the host calls, it leaves a context.
LEMMA HostContexts ==
  ASSUME TypeOK, Host
  PROVE  \E c \in Contexts : HostCall(c)
<1>1. CASE HostRegistersEvaluator
  BY <1>1, HostCallTypes DEF HostRegistersEvaluator, TypeOK
<1>2. CASE HostSetsParam
  BY <1>2, HostCallTypes DEF HostSetsParam, TypeOK
<1>3. CASE HostRegistersAction
  BY <1>3, HostCallTypes DEF HostRegistersAction, TypeOK
<1>4. CASE HostSetsObserver
  BY <1>4, HostCallTypes DEF HostSetsObserver, TypeOK
<1>5. CASE HostReadsBadId
  BY <1>5, ErrorCallTypes DEF HostReadsBadId, TypeOK
<1>6. CASE HostReadsError
  BY <1>6, ErrorCallTypes DEF HostReadsError, TypeOK
<1>7. CASE HostResets
  BY <1>7, ResetTypes DEF HostResets, TypeOK
<1>8. CASE HostInits
  BY <1>8, ResetTypes DEF HostInits, TypeOK
<1> QED BY <1>1, <1>2, <1>3, <1>4, <1>5, <1>6, <1>7, <1>8 DEF Host

-----------------------------------------------------------------------------
LEMMA EngineInv == Inv /\ Engine => Inv'
BY SkipPolicyInv, BeginPolicyInv, EvaluateRootInv, ReportVerdictInv, EndPolicyInv,
   BufferDoneInv, CutNodeInv, EnterNodeInv, LeaveNodeInv, EvaluateUnknownInv,
   LeafAbstainsInv, CallDefaultEvaluatorInv, CallHostEvaluatorInv, BeginNotInv,
   BeginCompositeInv, NextChildInv, ChildrenDoneInv, ReturnToNotInv,
   ReturnToCompositeInv, ReturnToPolicyInv, SkipActionInv, AbortActionsInv,
   CallActionInv, ActionsDoneInv DEF Engine

LEMMA CallbackReturnsInv == Inv /\ CallbackReturns => Inv'
BY PolicyEnterReturnsInv, NodeEnterReturnsInv, NodeExitReturnsInv, PolicyExitReturnsInv,
   EvaluatorReturnsInv, ActionReturnsInv, ShouldStopReturnsInv DEF CallbackReturns

\* The invariant is inductive.
LEMMA NextInv == Inv /\ [Next]_vars => Inv'
<1> SUFFICES ASSUME Inv, [Next]_vars PROVE Inv'
  OBVIOUS
<1>1. CASE Call
  BY <1>1, EvaluateBufferInv DEF Call
<1>2. CASE Engine
  BY <1>2, EngineInv
<1>3. CASE CallbackReturns
  BY <1>3, CallbackReturnsInv
<1>4. CASE Host
  BY <1>4, HostContexts, HostCallInv DEF Inv
<1>5. CASE UNCHANGED vars
  <2>1. TypeOK'
    BY <1>5 DEF Inv, TypeOK, vars, evalVars, walkVars, actVars
  <2>2. Located'
    BY <1>5 DEF Inv, Located, vars, evalVars, walkVars
  <2>3. Path' /\ AtTop'
    BY <1>5 DEF Inv, Path, AtTop, Top, Node, Entry, vars, walkVars
  <2> QED BY <2>1, <2>2, <2>3 DEF Inv
<1> QED BY <1>1, <1>2, <1>3, <1>4, <1>5 DEF Next

LEMMA Invariance == Spec => []Inv
BY InitInv, NextInv, PTL DEF Spec

\* For every forest and every host: no variable ever leaves its type.  The walk
\* stays in the tree, perform_actions in the list of actions.
THEOREM TypeCorrect == Spec => []TypeOK
<1>1. Inv => TypeOK
  BY DEF Inv
<1> QED BY <1>1, Invariance, PTL

\* The recursion of evaluate_rules is bounded by PLCS_MAX_EVAL_DEPTH alone, for
\* trees of any shape: the tree need not even be finite.
THEOREM StackBounded == Spec => []StackBound
<1>1. Inv => StackBound
  <2> SUFFICES ASSUME Inv PROVE StackBound
    OBVIOUS
  <2> DEFINE n == Len(stack)
  <2>1. n \in Nat /\ MaxEvalDepth \in Nat
    BY BoundAssumption DEF Inv, TypeOK
  <2>2. \A i \in 1 .. n - 1 : stack[i].depth = i - 1 /\ stack[i].depth <= MaxEvalDepth
    BY <2>1 DEF Inv, Path
  <2> HIDE DEF n
  <2>3. n <= MaxEvalDepth + 2
    <3>1. CASE n <= 1
      BY <2>1, <3>1
    <3>2. CASE n > 1
      <4>1. n - 1 \in 1 .. n - 1
        BY <2>1, <3>2
      <4>2. (n - 1) - 1 <= MaxEvalDepth
        BY <2>2, <4>1
      <4> QED BY <2>1, <4>2
    <3> QED BY <2>1, <3>1, <3>2
  <2> QED BY <2>3 DEF StackBound, n
<1> QED BY <1>1, Invariance, PTL

-----------------------------------------------------------------------------
(* The history of a policy *)

Raised == \E j \in DOMAIN trace : Raises(trace[j])

\* The policy has its result.
Late == {"policy_exit", "actions", "handler", "policy_done"}

\* The error of the context was raised in this policy, as was the one that
\* describing a leaf with a bad id is about to raise once more.
ErrorRaised ==
  /\ pc \in PolicyPlaces /\ ctx.error # ESUCCESS => Raised
  /\ pc = "leave" /\ Node.kind \in Kinds /\ Entry \notin Entries => Raised

VerdictPending ==
  pc \notin Late => \A i \in DOMAIN trace : trace[i].ev \notin {"policy_exit", "action"}

History ==
  /\ ErrorRaised
  /\ ErrorIsolated
  /\ OneObserverPerPolicy
  /\ VerdictPending
  /\ ActionsSeeVerdict

-----------------------------------------------------------------------------
\* A step that logs nothing.
LEMMA SilentStep ==
  ASSUME History, trace' = trace, watcher' = watcher,
         pc' \in PolicyPlaces /\ ctx'.error # ESUCCESS => Raised,
         pc' = "leave" /\ Node'.kind \in Kinds /\ Entry' \notin Entries => Raised,
         pc' \notin Late => pc \notin Late,
         verdict' = verdict \/ pc \notin Late
  PROVE  History'
<1>1. ErrorRaised'
  BY DEF ErrorRaised, Raised, Raises
<1>2. ErrorIsolated'
  BY DEF History, ErrorIsolated, Raises
<1>3. OneObserverPerPolicy'
  BY DEF History, OneObserverPerPolicy
<1>4. VerdictPending'
  BY DEF History, VerdictPending
<1>5. ActionsSeeVerdict'
  BY DEF History, VerdictPending, ActionsSeeVerdict
<1> QED BY <1>1, <1>2, <1>3, <1>4, <1>5 DEF History

\* A step that drops the history, between policies or as one begins.
LEMMA EmptyHistory ==
  ASSUME trace' = << >>, pc' # "leave",
         pc' \in PolicyPlaces => ctx'.error = ESUCCESS
  PROVE  History'
<1>1. DOMAIN trace' = {}
  BY NothingInEmpty
<1> QED
  BY <1>1 DEF History, ErrorRaised, ErrorIsolated, OneObserverPerPolicy, VerdictPending,
     ActionsSeeVerdict, Raised

\* A step that logs an event.
LEMMA LogStep ==
  ASSUME Inv, History, NEW e \in Events, Log(e), watcher' = watcher,
         pc' \in PolicyPlaces /\ ctx'.error # ESUCCESS => Raised \/ Raises(e),
         pc' = "leave" /\ Node'.kind \in Kinds /\ Entry' \notin Entries
           => Raised \/ Raises(e),
         e.ev = "gate" => Raised,
         e.ev \in CallbackNames => e.obs = watcher,
         pc' \notin Late => pc \notin Late /\ e.ev \notin {"policy_exit", "action"},
         pc \in Late => e.ev \in {"call", "action"} /\ verdict' = verdict,
         e.ev = "action" => e.res = verdict'
  PROVE  History'
<1> DEFINE n == Len(trace)
<1>1. /\ n \in Nat /\ DOMAIN trace = 1 .. n
      /\ DOMAIN trace' = 1 .. n + 1
      /\ trace'[n + 1] = e
      /\ \A j \in 1 .. n : trace'[j] = trace[j]
  <2>1. trace \in Seq(Events)
    BY DEF Inv, TypeOK
  <2>2. /\ trace' \in Seq(Events) /\ Len(trace') = n + 1
        /\ trace'[n + 1] = e
        /\ \A j \in 1 .. n : trace'[j] = trace[j]
    BY <2>1, PushSeq DEF Log
  <2> QED BY <2>1, <2>2
<1> HIDE DEF n
<1>2. \A i \in 1 .. n + 1 : i \in 1 .. n \/ i = n + 1
  BY <1>1
<1>3. Raised \/ Raises(e) => Raised'
  <2>1. ASSUME NEW j \in 1 .. n, Raises(trace[j]) PROVE Raised'
    <3>1. j \in 1 .. n + 1 /\ Raises(trace'[j])
      BY <1>1, <2>1
    <3> QED BY <1>1, <3>1 DEF Raised, Raises
  <2>2. n + 1 \in 1 .. n + 1
    BY <1>1
  <2> QED BY <1>1, <2>1, <2>2 DEF Raised, Raises
<1>4. ErrorRaised'
  BY <1>3 DEF ErrorRaised
<1>5. ErrorIsolated'
  <2>1. ASSUME NEW i \in 1 .. n + 1, trace'[i].ev = "gate"
        PROVE  \E j \in 1 .. i - 1 : Raises(trace'[j])
    <3>1. CASE i \in 1 .. n
      <4>1. \E j \in 1 .. i - 1 : Raises(trace[j])
        BY <1>1, <2>1, <3>1 DEF History, ErrorIsolated
      <4> QED BY <1>1, <3>1, <4>1
    <3>2. CASE i = n + 1
      <4>1. \E j \in 1 .. n : Raises(trace[j])
        BY <1>1, <2>1, <3>2 DEF Raised
      <4> QED BY <1>1, <3>2, <4>1
    <3> QED BY <1>2, <3>1, <3>2
  <2> QED BY <1>1, <2>1 DEF ErrorIsolated, Raises
<1>6. OneObserverPerPolicy'
  BY <1>1, <1>2 DEF History, OneObserverPerPolicy
<1>7. VerdictPending'
  BY <1>1, <1>2 DEF History, VerdictPending
<1>8. ActionsSeeVerdict'
  <2>1. pc \notin Late => \A i \in 1 .. n : trace[i].ev \notin {"policy_exit", "action"}
    BY <1>1 DEF History, VerdictPending
  <2>2. ASSUME NEW i \in 1 .. n + 1, NEW j \in 1 .. n + 1, i < j,
               trace'[i].ev \in {"policy_exit", "action"}
        PROVE  trace'[j].ev \in {"call", "action"}
    <3>1. i \in 1 .. n /\ trace[i].ev \in {"policy_exit", "action"} /\ pc \in Late
      BY <1>1, <2>1, <2>2
    <3>2. CASE j \in 1 .. n
      BY <1>1, <2>2, <3>1, <3>2 DEF History, ActionsSeeVerdict
    <3>3. CASE j = n + 1
      BY <1>1, <3>1, <3>3
    <3> QED BY <1>2, <3>2, <3>3
  <2>3. ASSUME NEW i \in 1 .. n + 1, trace'[i].ev = "action"
        PROVE  trace'[i].res = verdict'
    <3>1. CASE i \in 1 .. n
      BY <1>1, <2>1, <2>3, <3>1 DEF History, ActionsSeeVerdict
    <3>2. CASE i = n + 1
      BY <1>1, <2>3, <3>2
    <3> QED BY <1>2, <3>1, <3>2
  <2>4. ASSUME NEW i \in 1 .. n + 1, NEW j \in 1 .. n + 1,
               trace'[i].ev = "action", trace'[j].ev = "policy_exit"
        PROVE  j < i
    <3>1. i # j /\ ~(i < j)
      BY <2>2, <2>4
    <3> QED BY <1>1, <3>1
  <2> QED BY <1>1, <2>2, <2>3, <2>4 DEF ActionsSeeVerdict
<1> QED BY <1>4, <1>5, <1>6, <1>7, <1>8 DEF History

\* The events of the engine, with the fields that the lemmas ask for.
LEMMA FrameEventFacts ==
  ASSUME NEW name \in EventNames, NEW obs \in Observers \cup {NULL}, NEW f \in Frames,
         NEW r \in Outcomes
  PROVE  /\ FrameEvent(name, obs, f, r) \in Events
         /\ FrameEvent(name, obs, f, r).ev = name
         /\ FrameEvent(name, obs, f, r).obs = obs
<1>1. FrameEvent(name, obs, f, r) \in Events
  BY EventTypes
<1>2. /\ FrameEvent(name, obs, f, r).ev = name
      /\ FrameEvent(name, obs, f, r).obs = obs
  BY DEF Event, FrameEvent
<1> QED BY <1>1, <1>2

LEMMA CallEventFacts ==
  ASSUME NEW rc \in Errors
  PROVE  /\ [Event("call") EXCEPT !.rc = rc] \in Events
         /\ [Event("call") EXCEPT !.rc = rc].ev = "call"
         /\ [Event("call") EXCEPT !.rc = rc].rc = rc
<1>1. [Event("call") EXCEPT !.rc = rc] \in Events
  BY EventTypes DEF EventNames
<1>2. /\ [Event("call") EXCEPT !.rc = rc].ev = "call"
      /\ [Event("call") EXCEPT !.rc = rc].rc = rc
  BY DEF Event
<1> QED BY <1>1, <1>2

\* The calls of the engine that write to the context and keep its error.
LEMMA ErrorKept ==
  ASSUME NEW c \in Contexts
  PROVE  /\ \A e, err : SetEvalError(c, e, err).error = c.error
         /\ \A a, err : SetActionError(c, a, err).error = c.error
         /\ \A e : e \in Entries => ReadEntry(c, e) = c
         /\ \A err : SetError(c, err).error = err /\ SetError(c, err).observer = c.observer
BY DEF Contexts, SetEvalError, SetActionError, ReadEntry, SetError

-----------------------------------------------------------------------------
(* The steps outside the walk *)

LEMMA InitHistory == Init => History
<1> SUFFICES ASSUME Init PROVE History
  OBVIOUS
<1>1. DOMAIN trace = {} /\ pc = "idle"
  BY NothingInEmpty DEF Init
<1> QED
  BY <1>1 DEF History, ErrorRaised, ErrorIsolated, OneObserverPerPolicy, VerdictPending,
     ActionsSeeVerdict, Raised, PolicyPlaces, WalkPlaces

\* Between policies nothing is logged, and nothing is said of the error.
LEMMA CallerHistory ==
  ASSUME Inv, History,
         \/ \E b \in Buffers \cup {NULL}, s \in BOOLEAN : EvaluateBuffer(b, s)
         \/ SkipPolicy \/ BufferDone \/ \E b \in BOOLEAN : ShouldStopReturns(b)
  PROVE  History'
<1>1. /\ trace' = trace /\ watcher' = watcher /\ verdict' = verdict
      /\ pc' \notin PolicyPlaces /\ pc' # "leave" /\ pc \notin Late
  BY DEF EvaluateBuffer, SkipPolicy, BufferDone, ShouldStopReturns, walkVars, PolicyPlaces,
     WalkPlaces, Late
<1> QED BY <1>1, SilentStep

LEMMA EndPolicyHistory == EndPolicy => History'
<1> SUFFICES ASSUME EndPolicy PROVE History'
  OBVIOUS
<1>1. trace' = << >> /\ pc' # "leave" /\ pc' \notin PolicyPlaces
  BY DEF EndPolicy, PolicyPlaces, WalkPlaces
<1> QED BY <1>1, EmptyHistory

LEMMA BeginPolicyHistory == Inv /\ BeginPolicy => History'
<1> SUFFICES ASSUME Inv, BeginPolicy PROVE History'
  OBVIOUS
<1> DEFINE e == [Event("policy_enter") EXCEPT !.obs = ctx.observer]
<1>1. ctx'.error = ESUCCESS /\ watcher' = ctx.observer /\ pc' \in {"policy_enter", "root"}
  BY ErrorKept DEF BeginPolicy, ForgetError, Inv, TypeOK
<1>2. CASE pc' = "policy_enter"
  <2>1. trace' = <<e>> /\ e.ev = "policy_enter" /\ e.obs = ctx.observer
    BY <1>2 DEF BeginPolicy, Event
  <2> HIDE DEF e
  <2>2. DOMAIN trace' = {1} /\ trace'[1] = e
    BY <2>1
  <2> QED
    BY <1>1, <1>2, <2>1, <2>2 DEF History, ErrorRaised, ErrorIsolated, OneObserverPerPolicy,
       VerdictPending, ActionsSeeVerdict, Late
<1>3. CASE pc' = "root"
  <2>1. trace' = << >>
    BY <1>3 DEF BeginPolicy
  <2> QED BY <1>1, <1>3, <2>1, EmptyHistory
<1> QED BY <1>1, <1>2, <1>3

LEMMA PolicyHistory ==
  ASSUME Inv, History, PolicyEnterReturns \/ EvaluateRoot
  PROVE  History'
<1>1. /\ trace' = trace /\ watcher' = watcher /\ ctx' = ctx
      /\ pc \in PolicyPlaces /\ pc' # "leave" /\ pc \notin Late
  BY DEF PolicyEnterReturns, EvaluateRoot, walkVars, PolicyPlaces, WalkPlaces, Late
<1>2. pc' \in PolicyPlaces /\ ctx'.error # ESUCCESS => Raised
  BY <1>1 DEF History, ErrorRaised
<1> QED BY <1>1, <1>2, SilentStep

LEMMA ReportVerdictHistory == Inv /\ History /\ ReportVerdict => History'
<1> SUFFICES ASSUME Inv, History, ReportVerdict PROVE History'
  OBVIOUS
<1> DEFINE e == [Event("policy_exit") EXCEPT !.obs = Watching, !.res = verdict]
<1>1. /\ watcher' = watcher /\ ctx' = ctx /\ verdict' = verdict
      /\ pc \in PolicyPlaces /\ pc \notin Late /\ pc' \in Late /\ pc' # "leave"
  BY DEF ReportVerdict, walkVars, PolicyPlaces, Late
<1>2. pc' \in PolicyPlaces /\ ctx'.error # ESUCCESS => Raised
  BY <1>1 DEF History, ErrorRaised
<1>3. CASE trace' = trace
  BY <1>1, <1>2, <1>3, SilentStep
<1>4. CASE Log(e)
  <2>1. "policy_exit" \in EventNames
    BY DEF EventNames, CallbackNames
  <2>2. e \in Events /\ e.ev = "policy_exit" /\ e.obs = watcher
    <3>1. Watching \in Observers \cup {NULL} /\ verdict \in Outcomes
      BY DEF Inv, TypeOK, Watching
    <3>2. e \in Events
      BY <2>1, <3>1, EventTypes
    <3>3. e.ev = "policy_exit" /\ e.obs = Watching
      BY DEF Event
    <3> QED BY <3>2, <3>3 DEF Watching
  <2> HIDE DEF e
  <2> QED BY <1>1, <1>2, <1>4, <2>2, LogStep
<1> QED BY <1>3, <1>4 DEF ReportVerdict

\* Once the policy has its result only the handlers are logged.
LEMMA ActionsHistory ==
  ASSUME Inv, History,
         PolicyExitReturns \/ SkipAction \/ AbortActions \/ CallAction \/ ActionsDone
  PROVE  History'
<1>1. /\ trace' = trace /\ watcher' = watcher /\ ctx' = ctx /\ verdict' = verdict
      /\ pc \in PolicyPlaces /\ pc' # "leave" /\ pc' \in Late
  BY DEF PolicyExitReturns, SkipAction, AbortActions, CallAction, ActionsDone, walkVars,
     PolicyPlaces, Late
<1>2. pc' \in PolicyPlaces /\ ctx'.error # ESUCCESS => Raised
  BY <1>1 DEF History, ErrorRaised
<1> QED BY <1>1, <1>2, SilentStep

LEMMA ActionReturnsHistory ==
  ASSUME Inv, History, NEW rc \in HostErrors, ActionReturns(rc)
  PROVE  History'
<1> DEFINE e == [Event("action") EXCEPT !.ix = aix, !.res = HandedResult, !.rc = rc]
<1>1. /\ Log(e) /\ watcher' = watcher /\ verdict' = verdict
      /\ pc \in PolicyPlaces /\ pc \in Late /\ pc' \in Late /\ pc' # "leave"
  BY DEF ActionReturns, walkVars, PolicyPlaces, Late
<1>2. e \in Events /\ e.ev = "action" /\ e.res = verdict
  <2>1. rc \in Errors /\ aix \in Nat /\ verdict \in Outcomes
    BY HostAssumption DEF Inv, TypeOK
  <2>2. "action" \in EventNames /\ HandedResult = verdict
    BY DEF EventNames, HandedResult
  <2>3. e \in Events
    BY <2>1, <2>2, EventTypes
  <2>4. e.ev = "action" /\ e.res = verdict
    BY <2>2 DEF Event
  <2> QED BY <2>3, <2>4
<1>3. ctx'.error = ctx.error
  BY ErrorKept DEF ActionReturns, Inv, TypeOK
<1>4. pc' \in PolicyPlaces /\ ctx'.error # ESUCCESS => Raised
  BY <1>1, <1>3 DEF History, ErrorRaised
<1>5. e.ev \notin CallbackNames /\ e.ev # "gate"
  BY <1>2 DEF CallbackNames
<1> HIDE DEF e
<1> QED BY <1>1, <1>2, <1>4, <1>5, LogStep

-----------------------------------------------------------------------------
(* The steps of the walk and of the host *)

LEMMA WalkHistory ==
  ASSUME Inv, History,
         \/ CutNode \/ EnterNode \/ NodeExitReturns \/ CallHostEvaluator
         \/ BeginComposite \/ NextChild
  PROVE  History'
<1>1. /\ trace' = trace /\ watcher' = watcher /\ ctx' = ctx /\ verdict' = verdict
      /\ pc \in WalkPlaces /\ pc' # "leave"
  BY DEF CutNode, EnterNode, NodeExitReturns, CallHostEvaluator, BeginComposite, NextChild,
     walkVars, WalkPlaces
<1>2. pc \in PolicyPlaces /\ pc \notin Late
  BY <1>1 DEF WalkPlaces, PolicyPlaces, Late
<1>3. ctx'.error # ESUCCESS => Raised
  BY <1>1, <1>2 DEF History, ErrorRaised
<1> QED BY <1>1, <1>2, <1>3, SilentStep

\* A node is left without an event only when its id, if it has one, is good.
LEMMA NodeDoneHistory ==
  ASSUME Inv, History,
         \/ EvaluateUnknown \/ CallDefaultEvaluator \/ BeginNot \/ ChildrenDone
         \/ \E r \in Results : EvaluatorReturns(r)
  PROVE  History'
<1>1. /\ trace' = trace /\ watcher' = watcher /\ verdict' = verdict
      /\ pc \in WalkPlaces
  BY DEF EvaluateUnknown, CallDefaultEvaluator, BeginNot, ChildrenDone, EvaluatorReturns,
     WalkPlaces
<1>2. pc \in PolicyPlaces /\ pc \notin Late
  BY <1>1 DEF WalkPlaces, PolicyPlaces, Late
<1>3. ctx'.error = ctx.error
  BY ErrorKept DEF EvaluateUnknown, CallDefaultEvaluator, BeginNot, ChildrenDone,
     EvaluatorReturns, DefaultError, Inv, TypeOK
<1>4. ctx'.error # ESUCCESS => Raised
  BY <1>2, <1>3 DEF History, ErrorRaised
<1>5. pc' = "leave" => stack' = stack
  BY DEF EvaluateUnknown, CallDefaultEvaluator, BeginNot, ChildrenDone, EvaluatorReturns
<1>6. Node.kind \notin Kinds \/ Entry \in Entries
  BY ConsultedEntry DEF EvaluateUnknown, CallDefaultEvaluator, BeginNot, ChildrenDone,
     EvaluatorReturns, Inv, AtTop, Kinds
<1>7. pc' = "leave" => Node'.kind \notin Kinds \/ Entry' \in Entries
  BY <1>5, <1>6 DEF Node, Top, Entry
<1> QED BY <1>1, <1>2, <1>4, <1>7, SilentStep

LEMMA NodeEnterReturnsHistory ==
  ASSUME Inv, History, NEW h \in Handles, NodeEnterReturns(h)
  PROVE  History'
<1> DEFINE f == [Top EXCEPT !.handle = h]
           e == FrameEvent("node_enter", Watching, f, "ABSTAIN")
<1>1. /\ Log(e) /\ watcher' = watcher /\ ctx' = ctx /\ verdict' = verdict
      /\ pc \in WalkPlaces /\ pc \in PolicyPlaces /\ pc \notin Late /\ pc' # "leave"
  BY DEF NodeEnterReturns, WalkPlaces, PolicyPlaces, Late
<1>2. e \in Events /\ e.ev = "node_enter" /\ e.obs = watcher
  <2>1. f \in Frames
    BY <1>1, TopTypes, HostAssumption DEF Frames
  <2>2. "node_enter" \in EventNames /\ "ABSTAIN" \in Outcomes
    BY DEF EventNames, CallbackNames, Outcomes, Results
  <2> HIDE DEF f
  <2>3. Watching \in Observers \cup {NULL}
    BY DEF Inv, TypeOK, Watching
  <2>4. e \in Events /\ e.ev = "node_enter" /\ e.obs = Watching
    BY <2>1, <2>2, <2>3, FrameEventFacts
  <2> QED BY <2>4 DEF Watching
<1>3. ctx'.error # ESUCCESS => Raised
  BY <1>1 DEF History, ErrorRaised
<1> HIDE DEF e
<1> QED BY <1>1, <1>2, <1>3, LogStep

LEMMA LeaveNodeHistory == Inv /\ History /\ LeaveNode => History'
<1> SUFFICES ASSUME Inv, History, LeaveNode PROVE History'
  OBVIOUS
<1> DEFINE f == [Top EXCEPT !.handle = ExitHandle(Top)]
           e == FrameEvent("node_exit", Watching, f, ret)
<1>1. /\ watcher' = watcher /\ verdict' = verdict
      /\ pc = "leave" /\ pc' # "leave"
      /\ pc \in WalkPlaces /\ pc \in PolicyPlaces /\ pc \notin Late
  BY DEF LeaveNode, walkVars, WalkPlaces, PolicyPlaces, Late
<1>2. ctx'.error # ESUCCESS => Raised
  <2>1. CASE ctx' = ctx
    BY <1>1, <2>1 DEF History, ErrorRaised
  <2>2. CASE ctx' # ctx
    <3>1. Node.kind \in Kinds /\ Entry \notin Entries
      BY <2>2, ErrorKept DEF LeaveNode, DescribeNode, Inv, TypeOK
    <3> QED BY <1>1, <3>1 DEF History, ErrorRaised
  <2> QED BY <2>1, <2>2
<1>3. CASE trace' = trace
  BY <1>1, <1>2, <1>3, SilentStep
<1>4. CASE Log(e)
  <2>1. f \in Frames
    BY <1>1, TopTypes DEF Frames, ExitHandle
  <2>2. "node_exit" \in EventNames
    BY DEF EventNames, CallbackNames
  <2> HIDE DEF f
  <2>3. e \in Events /\ e.ev = "node_exit" /\ e.obs = watcher
    <3>1. Watching \in Observers \cup {NULL} /\ ret \in Outcomes
      BY DEF Inv, TypeOK, Watching
    <3>2. e \in Events /\ e.ev = "node_exit" /\ e.obs = Watching
      BY <2>1, <2>2, <3>1, FrameEventFacts
    <3> QED BY <3>2 DEF Watching
  <2> HIDE DEF e
  <2> QED BY <1>1, <1>2, <1>4, <2>3, LogStep
<1> QED BY <1>3, <1>4 DEF LeaveNode

LEMMA LeafAbstainsHistory == Inv /\ History /\ LeafAbstains => History'
<1> SUFFICES ASSUME Inv, History, LeafAbstains PROVE History'
  OBVIOUS
<1>1. /\ watcher' = watcher /\ verdict' = verdict /\ stack' = stack
      /\ ctx' = ReadEntry(ctx, Entry) /\ ~Consults
      /\ pc \in WalkPlaces /\ pc \in PolicyPlaces /\ pc \notin Late
  BY DEF LeafAbstains, WalkPlaces, PolicyPlaces, Late
<1>2. Node' = Node /\ Entry' = Entry
  BY <1>1 DEF Node, Top, Entry
<1>3. /\ NULL \in Observers \cup {NULL} /\ Top \in Frames /\ "ABSTAIN" \in Outcomes
      /\ "raise" \in EventNames /\ "gate" \in EventNames
  BY <1>1, TopTypes DEF Outcomes, Results, EventNames
<1>4. CASE Entry \notin Entries
  <2> DEFINE e == FrameEvent("raise", NULL, Top, "ABSTAIN")
  <2>1. Log(e)
    BY <1>4 DEF LeafAbstains
  <2>2. e \in Events /\ e.ev = "raise"
    BY <1>3, FrameEventFacts
  <2>3. Raises(e) /\ e.ev \notin CallbackNames
    BY <2>2 DEF Raises, CallbackNames
  <2> HIDE DEF e
  <2> QED BY <1>1, <2>1, <2>2, <2>3, LogStep
<1>5. CASE Entry \in Entries
  <2>1. ctx' = ctx
    BY <1>1, <1>5, ErrorKept DEF Inv, TypeOK
  <2>2. ctx'.error # ESUCCESS => Raised
    BY <1>1, <2>1 DEF History, ErrorRaised
  <2>3. CASE trace' = trace
    BY <1>1, <1>2, <1>5, <2>2, <2>3, SilentStep
  <2>4. CASE ~ParamMissing
    <3> DEFINE e == FrameEvent("gate", NULL, Top, "ABSTAIN")
    <3>1. Log(e)
      BY <1>5, <2>4 DEF LeafAbstains
    <3>2. e \in Events /\ e.ev = "gate"
      BY <1>3, FrameEventFacts
    <3>3. e.ev \notin CallbackNames
      BY <3>2 DEF CallbackNames
    <3>4. Raised
      BY <1>1, <2>2, <2>4 DEF Consults
    <3> HIDE DEF e
    <3> QED BY <1>1, <1>2, <1>5, <2>2, <3>1, <3>2, <3>3, <3>4, LogStep
  <2> QED BY <1>5, <2>3, <2>4 DEF LeafAbstains
<1> QED BY <1>4, <1>5

LEMMA ReturnHistory ==
  ASSUME Inv, History, ReturnToNot \/ ReturnToComposite \/ ReturnToPolicy
  PROVE  History'
<1> DEFINE e == FrameEvent("value", NULL, Top, ret)
<1>1. /\ Log(e) /\ watcher' = watcher /\ ctx' = ctx
      /\ pc \in WalkPlaces /\ pc \in PolicyPlaces /\ pc \notin Late
  BY DEF ReturnToNot, ReturnToComposite, ReturnToPolicy, WalkPlaces, PolicyPlaces, Late
<1>2. e \in Events /\ e.ev = "value" /\ e.ev \notin CallbackNames
  <2>1. "value" \in EventNames /\ "value" \notin CallbackNames
    BY DEF EventNames, CallbackNames
  <2>2. NULL \in Observers \cup {NULL} /\ Top \in Frames /\ ret \in Outcomes
    BY <1>1, TopTypes DEF Inv, TypeOK
  <2>3. e \in Events /\ e.ev = "value"
    BY <2>1, <2>2, FrameEventFacts
  <2> QED BY <2>1, <2>3
<1>3. ctx'.error # ESUCCESS => Raised
  BY <1>1 DEF History, ErrorRaised
<1>4. pc' = "leave" => Node'.kind \notin Kinds
  <2>1. CASE ReturnToNot
    BY <1>1, <2>1, CallerIndex, TopTypes, PopTypes DEF ReturnToNot, Kinds
  <2>2. CASE ReturnToComposite
    BY <1>1, <2>2, ReturnToCompositeNode DEF Kinds
  <2>3. CASE ReturnToPolicy
    BY <2>3 DEF ReturnToPolicy
  <2> QED BY <2>1, <2>2, <2>3
<1> HIDE DEF e
<1> QED BY <1>1, <1>2, <1>3, <1>4, LogStep

LEMMA HostHistory ==
  ASSUME Inv, History, NEW c \in Contexts, HostCall(c)
  PROVE  History'
<1> DEFINE e == [Event("call") EXCEPT !.rc = c.error]
<1>1. /\ watcher' = watcher /\ verdict' = verdict /\ ctx' = c /\ pc' = pc
      /\ pc # "leave"
  BY DEF HostCall, HostTurn, PolicyCallbacks, CallbackNames, walkVars
<1>2. CASE pc \in PolicyCallbacks
  <2>1. Log(e)
    BY <1>2 DEF HostCall
  <2>2. e \in Events /\ e.ev = "call" /\ e.rc = c.error
    <3>1. c.error \in Errors
      BY DEF Contexts
    <3> QED BY <3>1, CallEventFacts
  <2> HIDE DEF e
  <2>3. e.ev \notin CallbackNames /\ (c.error # ESUCCESS => Raises(e))
    BY <2>2 DEF CallbackNames, Raises
  <2> QED BY <1>1, <2>1, <2>2, <2>3, LogStep
<1>3. CASE pc \notin PolicyCallbacks
  <2>1. pc \notin PolicyPlaces /\ trace' = trace
    BY <1>3 DEF HostCall, HostTurn, PolicyPlaces, WalkPlaces
  <2> QED BY <1>1, <2>1, SilentStep
<1> QED BY <1>2, <1>3

-----------------------------------------------------------------------------
LEMMA NextHistory == Inv /\ History /\ [Next]_vars => History'
<1> SUFFICES ASSUME Inv, History, [Next]_vars PROVE History'
  OBVIOUS
<1>1. CASE Call
  BY <1>1, CallerHistory DEF Call
<1>2. CASE Engine
  BY <1>2, CallerHistory, EndPolicyHistory, BeginPolicyHistory, PolicyHistory,
     ReportVerdictHistory, ActionsHistory, WalkHistory, NodeDoneHistory, LeaveNodeHistory,
     LeafAbstainsHistory, ReturnHistory DEF Engine
<1>3. CASE CallbackReturns
  BY <1>3, CallerHistory, PolicyHistory, ActionsHistory, WalkHistory, NodeDoneHistory,
     NodeEnterReturnsHistory, ActionReturnsHistory DEF CallbackReturns
<1>4. CASE Host
  BY <1>4, HostContexts, HostHistory DEF Inv
<1>5. CASE UNCHANGED vars
  <2>1. /\ trace' = trace /\ watcher' = watcher /\ ctx' = ctx /\ verdict' = verdict
        /\ pc' = pc /\ Node' = Node /\ Entry' = Entry
    BY <1>5 DEF vars, walkVars, Node, Top, Entry
  <2> QED BY <2>1, SilentStep DEF History, ErrorRaised
<1> QED BY <1>1, <1>2, <1>3, <1>4, <1>5 DEF Next

LEMMA HistoryInvariance == Spec => []History
BY InitHistory, NextHistory, Invariance, PTL DEF Spec

\* An error keeps leaves from their evaluators only within the policy that raised
\* it, for any forest and whatever the host does in its callbacks: what
\* evaluate_policy resets is enough.
THEOREM ErrorIsolation == Spec => []ErrorIsolated
<1>1. History => ErrorIsolated
  BY DEF History
<1> QED BY <1>1, HistoryInvariance, PTL

\* A policy is reported to one observer, the one evaluate_policy read, even if a
\* callback replaces the observer or resets the context.
THEOREM OneObserver == Spec => []OneObserverPerPolicy
<1>1. History => OneObserverPerPolicy
  BY DEF History
<1> QED BY <1>1, HistoryInvariance, PTL

\* Every action is handed its policy's result, after policy_exit, and the walk is
\* over by then.
THEOREM VerdictDelivered == Spec => []ActionsSeeVerdict
<1>1. History => ActionsSeeVerdict
  BY DEF History
<1> QED BY <1>1, HistoryInvariance, PTL

-----------------------------------------------------------------------------
(***************************************************************************)
(* perform_actions, and the engine as an implementation of PolicyJudge.    *)
(* Both rest on the same invariant: which actions of the policy have run   *)
(* so far, as the history tells it, and where the index of the loop is.    *)
(***************************************************************************)

\* The actions in the history ran in the order of the list, all of them before
\* the one that is next, and one of them ran last.
Ordered ==
  /\ \A i, j \in ActionEvents : i < j => trace[i].ix < trace[j].ix
  /\ \A i \in ActionEvents : trace[i].ix < aix
  /\ ActionEvents # {} => \E m \in ActionEvents : \A j \in ActionEvents : j <= m

\* What each place outside the walk knows of the policy and of the call.
Prepared ==
  /\ pc = "handler" => aix <= Len(Actions) /\ ~Actions[aix].oversized
  /\ pc \in WalkPlaces => Policy[buffer[pix]].rules # NULL
  /\ pc = "idle" => buffer = << >> /\ pix = 1 /\ stopFn = FALSE

\* Without calls of the host, those that ran are the handled ones before `aix`.
Before == {i \in DOMAIN Actions : i < aix /\ Handled(i)}
Performed ==
  Undisturbed /\ pc \in Late =>
    /\ {trace[i].ix : i \in ActionEvents} = Before
    /\ \A i \in Before : ~Actions[i].oversized
    /\ pc = "policy_exit" => aix = 1
    /\ pc = "handler" => Handled(aix)
    /\ pc = "policy_done" =>
         \/ aix > Len(Actions)
         \/ aix <= Len(Actions) /\ Handled(aix) /\ Actions[aix].oversized

\* None of those that ran has too many values, nor is it behind the list.
Sized ==
  \A i \in ActionEvents : trace[i].ix \in DOMAIN Actions /\ ~Actions[trace[i].ix].oversized

Acting == Ordered /\ Prepared /\ Performed /\ Sized

-----------------------------------------------------------------------------
(* The actions in the history *)

LEMMA NoActionsYet ==
  ASSUME History, pc \notin Late
  PROVE  ActionEvents = {}
BY DEF History, VerdictPending, ActionEvents

\* What Log does, index by index.
LEMMA LogAppends ==
  ASSUME Inv, NEW e \in Events, Log(e)
  PROVE  /\ Len(trace) \in Nat
         /\ DOMAIN trace = 1 .. Len(trace)
         /\ DOMAIN trace' = 1 .. Len(trace) + 1
         /\ trace'[Len(trace) + 1] = e
         /\ \A j \in 1 .. Len(trace) : trace'[j] = trace[j]
<1>1. trace \in Seq(Events)
  BY DEF Inv, TypeOK
<1>2. /\ trace' \in Seq(Events) /\ Len(trace') = Len(trace) + 1
      /\ trace'[Len(trace) + 1] = e
      /\ \A j \in 1 .. Len(trace) : trace'[j] = trace[j]
  BY <1>1, PushSeq DEF Log
<1> QED BY <1>1, <1>2

\* No action ran in this step.
Calm ==
  /\ ActionEvents' = ActionEvents
  /\ \A i \in ActionEvents : trace'[i] = trace[i]

LEMMA SilentIsCalm == trace' = trace => Calm
BY DEF Calm, ActionEvents

LEMMA LogIsCalm ==
  ASSUME Inv, NEW e \in Events, Log(e), e.ev # "action"
  PROVE  Calm
<1> DEFINE n == Len(trace)
<1>1. /\ n \in Nat /\ DOMAIN trace = 1 .. n /\ DOMAIN trace' = 1 .. n + 1
      /\ trace'[n + 1] = e
      /\ \A j \in 1 .. n : trace'[j] = trace[j]
  BY LogAppends
<1> HIDE DEF n
<1>2. \A i \in 1 .. n + 1 : i \in 1 .. n \/ i = n + 1
  BY <1>1
<1>3. \A i \in 1 .. n : i \in 1 .. n + 1
  BY <1>1
<1> QED BY <1>1, <1>2, <1>3 DEF Calm, ActionEvents

LEMMA LastToldKept == Ordered /\ Calm => LastTold' = LastTold
<1> SUFFICES ASSUME Ordered, Calm PROVE LastTold' = LastTold
  OBVIOUS
<1>1. CASE ActionEvents = {}
  BY <1>1 DEF Calm, LastTold
<1>2. CASE ActionEvents # {}
  <2> DEFINE c == CHOOSE i \in ActionEvents : \A j \in ActionEvents : j <= i
             d == CHOOSE i \in ActionEvents' : \A j \in ActionEvents' : j <= i
  <2>1. c \in ActionEvents
    BY <1>2 DEF Ordered
  <2>2. d = c
    BY DEF Calm
  <2> HIDE DEF c, d
  <2>3. trace'[d] = trace[c]
    BY <2>1, <2>2 DEF Calm
  <2>4. /\ LastTold = [action |-> trace[c].ix, result |-> trace[c].res]
        /\ LastTold' = [action |-> trace'[d].ix, result |-> trace'[d].res]
    BY <1>2 DEF LastTold, Calm, c, d
  <2> QED BY <2>3, <2>4
<1> QED BY <1>1, <1>2

\* A step that runs no action and does not move the index back.
LEMMA CalmOrdered ==
  ASSUME Inv, Ordered, Calm, aix' \in Nat, aix' >= aix \/ ActionEvents = {}
  PROVE  Ordered'
<1>1. ActionEvents \subseteq DOMAIN trace /\ trace \in Seq(Events) /\ aix \in Nat
  BY DEF ActionEvents, Inv, TypeOK
<1>2. ASSUME NEW i \in ActionEvents PROVE trace[i].ix \in Nat
  <2>1. trace[i] \in Events
    BY <1>1
  <2> QED BY <2>1 DEF Events
<1>3. \A i \in ActionEvents' : trace'[i].ix = trace[i].ix
  BY DEF Calm
<1>4. \A i \in ActionEvents' : trace'[i].ix < aix'
  BY <1>1, <1>2, <1>3 DEF Ordered, Calm
<1> QED BY <1>3, <1>4 DEF Ordered, Calm

\* While no action can have run.
LEMMA NoneOrdered ==
  ASSUME History', pc' \notin Late
  PROVE  Ordered' /\ Performed' /\ Sized'
<1>1. ActionEvents' = {}
  BY DEF History, VerdictPending, ActionEvents
<1> QED BY <1>1 DEF Ordered, Performed, Sized

\* While the policy is the same and no action runs.
LEMMA CalmSized == Calm /\ Sized /\ Actions' = Actions => Sized'
BY DEF Calm, Sized

-----------------------------------------------------------------------------
(* The steps before a policy has its result, and after its actions *)

Walk ==
  \/ CutNode \/ EnterNode \/ LeaveNode
  \/ EvaluateUnknown \/ LeafAbstains \/ CallDefaultEvaluator \/ CallHostEvaluator
  \/ BeginNot \/ BeginComposite \/ NextChild \/ ChildrenDone
  \/ ReturnToNot \/ ReturnToComposite
  \/ \E h \in Handles : NodeEnterReturns(h)
  \/ NodeExitReturns
  \/ \E r \in Results : EvaluatorReturns(r)

\* A step from node to node leaves the buffer alone.
LEMMA WalkPlacesKept ==
  ASSUME Walk
  PROVE  /\ pc \in WalkPlaces /\ pc' \in WalkPlaces
         /\ UNCHANGED <<buffer, pix, stopFn, total>>
<1>1. CASE CutNode \/ EnterNode \/ LeaveNode \/ NodeExitReturns
  BY <1>1 DEF CutNode, EnterNode, LeaveNode, NodeExitReturns, WalkPlaces, evalVars
<1>2. CASE EvaluateUnknown \/ LeafAbstains \/ CallDefaultEvaluator \/ CallHostEvaluator
  BY <1>2 DEF EvaluateUnknown, LeafAbstains, CallDefaultEvaluator, CallHostEvaluator,
     WalkPlaces, evalVars
<1>3. CASE BeginNot \/ BeginComposite \/ NextChild \/ ChildrenDone
  BY <1>3 DEF BeginNot, BeginComposite, NextChild, ChildrenDone, WalkPlaces, evalVars
<1>4. CASE ReturnToNot \/ ReturnToComposite
  BY <1>4 DEF ReturnToNot, ReturnToComposite, WalkPlaces, evalVars
<1>5. CASE \E h \in Handles : NodeEnterReturns(h)
  BY <1>5 DEF NodeEnterReturns, WalkPlaces, evalVars
<1>6. CASE \E r \in Results : EvaluatorReturns(r)
  BY <1>6 DEF EvaluatorReturns, WalkPlaces, evalVars
<1> QED BY <1>1, <1>2, <1>3, <1>4, <1>5, <1>6 DEF Walk

LEMMA WalkActing == Acting /\ History' /\ Walk => Acting'
<1> SUFFICES ASSUME Acting, History', Walk PROVE Acting'
  OBVIOUS
<1>1. /\ pc \in WalkPlaces /\ pc' \in WalkPlaces
      /\ buffer' = buffer /\ pix' = pix
  BY WalkPlacesKept
<1>2. pc' \notin Late /\ pc' # "handler" /\ pc' # "idle"
  BY <1>1 DEF Late, WalkPlaces
<1>3. Prepared'
  BY <1>1, <1>2 DEF Acting, Prepared
<1> QED BY <1>2, <1>3, NoneOrdered DEF Acting

\* Where plcs_evaluate_buffer_early_exit and evaluate_policy are not in a walk and
\* run no action.
Between ==
  \/ SkipPolicy \/ BeginPolicy \/ PolicyEnterReturns \/ ReturnToPolicy \/ EndPolicy
  \/ BufferDone \/ \E b \in BOOLEAN : ShouldStopReturns(b)

LEMMA BetweenActing == Acting /\ History' /\ Between => Acting'
<1> SUFFICES ASSUME Acting, History', Between PROVE Acting'
  OBVIOUS
<1>1. pc' \in {"policies", "policy_enter", "root", "verdict", "stop", "idle"}
  BY DEF Between, SkipPolicy, BeginPolicy, PolicyEnterReturns, ReturnToPolicy, EndPolicy,
     BufferDone, ShouldStopReturns
<1>2. pc' \notin Late /\ pc' # "handler" /\ pc' \notin WalkPlaces
  BY <1>1 DEF Late, WalkPlaces
<1>3. pc' = "idle" => buffer' = << >> /\ pix' = 1 /\ stopFn' = FALSE
  BY DEF Between, SkipPolicy, BeginPolicy, PolicyEnterReturns, ReturnToPolicy, EndPolicy,
     BufferDone, ShouldStopReturns, Forget
<1>4. Prepared'
  BY <1>2, <1>3 DEF Prepared
<1> QED BY <1>2, <1>4, NoneOrdered DEF Acting

LEMMA CallActing ==
  ASSUME Acting, History', NEW b \in Buffers \cup {NULL}, NEW s \in BOOLEAN,
         EvaluateBuffer(b, s)
  PROVE  Acting'
<1>1. pc' \in {"idle", "policies"}
  BY DEF EvaluateBuffer
<1>2. pc' \notin Late /\ pc' # "handler" /\ pc' \notin WalkPlaces
  BY <1>1 DEF Late, WalkPlaces
<1>3. Prepared'
  BY <1>2 DEF Prepared, Acting, EvaluateBuffer
<1> QED BY <1>2, <1>3, NoneOrdered DEF Acting

LEMMA EvaluateRootActing == Acting /\ History' /\ EvaluateRoot => Acting'
<1> SUFFICES ASSUME Acting, History', EvaluateRoot PROVE Acting'
  OBVIOUS
<1>1. pc' \in {"verdict", "rules"} /\ buffer' = buffer /\ pix' = pix
  BY DEF EvaluateRoot, evalVars
<1>2. pc' \notin Late /\ pc' # "handler" /\ pc' # "idle"
  BY <1>1 DEF Late
<1>3. pc' \in WalkPlaces => Policy[buffer'[pix']].rules # NULL
  BY <1>1 DEF EvaluateRoot, WalkPlaces
<1>4. Prepared'
  BY <1>2, <1>3 DEF Prepared
<1> QED BY <1>2, <1>4, NoneOrdered DEF Acting

-----------------------------------------------------------------------------
(* The steps of perform_actions *)

\* A step without a call of the host, and with the same handlers, that runs no
\* action: what ran is what had run.
LEMMA CalmPerformed ==
  ASSUME Inv, Calm, buffer' = buffer, pix' = pix,
         \A a \in ActionIds \cup {NULL} : GetAction(ctx', a) = GetAction(ctx, a),
         pc \in PolicyPlaces
  PROVE  /\ {trace'[i].ix : i \in ActionEvents'} = {trace[i].ix : i \in ActionEvents}
         /\ Actions' = Actions
         /\ \A i \in DOMAIN Actions : Handled(i)' = Handled(i)
<1>1. {trace'[i].ix : i \in ActionEvents'} = {trace[i].ix : i \in ActionEvents}
  BY DEF Calm
<1>2. Actions' = Actions
  BY DEF Actions
<1>3. ASSUME NEW i \in DOMAIN Actions PROVE Handled(i)' = Handled(i)
  <2>1. Actions \in Seq(ActionRecords)
    BY PolicyTypes DEF Inv
  <2>2. Actions[i] \in ActionRecords
    BY <2>1
  <2>3. Actions[i].id \in ActionIds \cup {NULL}
    BY <2>2 DEF ActionRecords
  <2> QED BY <1>2, <2>3 DEF Handled
<1> QED BY <1>1, <1>2, <1>3

\* The index stands in the list or just behind it.
LEMMA IndexTypes ==
  ASSUME Inv, pc \in PolicyPlaces
  PROVE  /\ aix \in Nat \ {0}
         /\ Len(Actions) \in Nat
         /\ DOMAIN Actions = 1 .. Len(Actions)
<1>1. Actions \in Seq(ActionRecords)
  BY PolicyTypes DEF Inv
<1> QED BY <1>1 DEF Inv, TypeOK

LEMMA ReportVerdictActing == Inv /\ History /\ Acting /\ ReportVerdict => Acting'
<1> SUFFICES ASSUME Inv, History, Acting, ReportVerdict PROVE Acting'
  OBVIOUS
<1> DEFINE e == [Event("policy_exit") EXCEPT !.obs = Watching, !.res = verdict]
<1>1. /\ pc = "verdict" /\ pc' \in {"policy_exit", "actions"} /\ aix' = 1
      /\ pc \in PolicyPlaces /\ pc \notin Late
  BY DEF ReportVerdict, PolicyPlaces, Late
<1>2. ActionEvents = {}
  BY <1>1, NoActionsYet
<1>3. Calm
  <2>1. CASE trace' = trace
    BY <2>1, SilentIsCalm
  <2>2. CASE Log(e)
    <3>1. "policy_exit" \in EventNames /\ Watching \in Observers \cup {NULL} /\ verdict \in Outcomes
      BY DEF EventNames, CallbackNames, Inv, TypeOK, Watching
    <3>2. e \in Events
      BY <3>1, EventTypes
    <3>3. e.ev = "policy_exit"
      BY DEF Event
    <3> HIDE DEF e
    <3> QED BY <2>2, <3>2, <3>3, LogIsCalm
  <2> QED BY <2>1, <2>2 DEF ReportVerdict
<1>4. Ordered'
  BY <1>1, <1>2, <1>3, CalmOrdered DEF Acting
<1>5. Prepared'
  BY <1>1 DEF Prepared, WalkPlaces
<1>6. Performed'
  <2>1. ActionEvents' = {}
    BY <1>2, <1>3 DEF Calm
  <2>2. Before' = {}
    <3>1. Actions' = Actions
      BY DEF ReportVerdict, evalVars, Actions
    <3>2. DOMAIN Actions \subseteq Nat \ {0}
      BY <1>1, IndexTypes
    <3>3. \A i \in DOMAIN Actions' : ~(i < aix')
      BY <1>1, <3>1, <3>2
    <3> QED BY <3>3 DEF Before
  <2> QED BY <1>1, <2>1, <2>2 DEF Performed
<1>7. Sized'
  BY <1>2, <1>3 DEF Sized, Calm
<1> QED BY <1>4, <1>5, <1>6, <1>7 DEF Acting

LEMMA PolicyExitReturnsActing == Inv /\ Acting /\ PolicyExitReturns => Acting'
<1> SUFFICES ASSUME Inv, Acting, PolicyExitReturns PROVE Acting'
  OBVIOUS
<1>1. /\ pc = "policy_exit" /\ pc' = "actions" /\ trace' = trace /\ aix' = aix
      /\ ctx' = ctx /\ buffer' = buffer /\ pix' = pix
      /\ pc \in PolicyPlaces /\ pc \in Late
  BY DEF PolicyExitReturns, evalVars, actVars, PolicyPlaces, Late
<1>2. Calm
  BY <1>1, SilentIsCalm
<1>3. Ordered'
  BY <1>1 DEF Acting, Ordered, ActionEvents
<1>4. Prepared'
  BY <1>1 DEF Prepared, WalkPlaces
<1>5. Performed'
  BY <1>1 DEF Acting, Performed, Before, Handled, Actions, Undisturbed, ActionEvents
<1>6. Sized'
  BY <1>1, <1>2, CalmSized DEF Acting, Actions
<1> QED BY <1>3, <1>4, <1>5, <1>6 DEF Acting

\* The action at the index is passed over, for want of a handler.
LEMMA SkipActionActing == Inv /\ Acting /\ SkipAction => Acting'
<1> SUFFICES ASSUME Inv, Acting, SkipAction PROVE Acting'
  OBVIOUS
<1>1. /\ pc = "actions" /\ pc' = "actions" /\ trace' = trace /\ aix' = aix + 1
      /\ ctx' = ctx /\ buffer' = buffer /\ pix' = pix
      /\ aix <= Len(Actions) /\ ~Handled(aix)
      /\ pc \in PolicyPlaces /\ pc \in Late
  BY DEF SkipAction, ContinueAt, Handled, evalVars, PolicyPlaces, Late
<1>2. aix \in Nat \ {0} /\ DOMAIN Actions = 1 .. Len(Actions) /\ Len(Actions) \in Nat
  BY <1>1, IndexTypes
<1>3. Ordered'
  BY <1>1, <1>2, SilentIsCalm, CalmOrdered DEF Acting
<1>4. Prepared'
  BY <1>1 DEF Prepared, WalkPlaces
<1>5. Before' = Before
  <2>1. \A i \in DOMAIN Actions : Handled(i) => (i < aix + 1 <=> i < aix)
    BY <1>1, <1>2
  <2> QED BY <1>1, <2>1 DEF Before, Handled, Actions
<1>6. Performed'
  BY <1>1, <1>5 DEF Acting, Performed, Actions, Undisturbed, ActionEvents
<1>7. Sized'
  BY <1>1, SilentIsCalm, CalmSized DEF Acting, Actions
<1> QED BY <1>3, <1>4, <1>6, <1>7 DEF Acting

\* The loop ends, with the list or at an oversized action, or an action is called.
LEMMA LoopActing ==
  ASSUME Inv, Acting, AbortActions \/ ActionsDone \/ CallAction
  PROVE  Acting'
<1>1. /\ pc = "actions" /\ pc' \in {"handler", "policy_done"} /\ trace' = trace /\ aix' = aix
      /\ ctx' = ctx /\ buffer' = buffer /\ pix' = pix
      /\ pc \in PolicyPlaces /\ pc \in Late
  BY DEF AbortActions, ActionsDone, CallAction, evalVars, actVars, PolicyPlaces, Late
<1>2. /\ pc' = "handler" => aix <= Len(Actions) /\ ~Actions[aix].oversized /\ Handled(aix)
      /\ pc' = "policy_done" =>
           \/ aix > Len(Actions)
           \/ aix <= Len(Actions) /\ Handled(aix) /\ Actions[aix].oversized
  BY DEF AbortActions, ActionsDone, CallAction, Handled
<1>3. Actions' = Actions /\ Before' = Before /\ \A i : Handled(i)' = Handled(i)
  BY <1>1 DEF Actions, Before, Handled
<1>4. Ordered'
  BY <1>1 DEF Acting, Ordered, ActionEvents
<1>5. Prepared'
  BY <1>1, <1>2, <1>3 DEF Prepared, WalkPlaces
<1>6. Performed'
  BY <1>1, <1>2, <1>3 DEF Acting, Performed, Undisturbed, ActionEvents
<1>7. Sized'
  BY <1>1, SilentIsCalm, CalmSized DEF Acting, Actions
<1> QED BY <1>4, <1>5, <1>6, <1>7 DEF Acting

\* The action at the index runs.
LEMMA ActionReturnsActing ==
  ASSUME Inv, Acting, NEW rc \in HostErrors, ActionReturns(rc)
  PROVE  Acting'
<1> DEFINE e == [Event("action") EXCEPT !.ix = aix, !.res = HandedResult, !.rc = rc]
           n == Len(trace)
<1>1. /\ pc = "handler" /\ pc' = "actions" /\ Log(e) /\ aix' = aix + 1
      /\ ctx' = SetActionError(ctx, Actions[aix].id, rc)
      /\ buffer' = buffer /\ pix' = pix
      /\ pc \in PolicyPlaces /\ pc \in Late
  BY DEF ActionReturns, evalVars, PolicyPlaces, Late
<1>2. /\ aix \in Nat \ {0} /\ DOMAIN Actions = 1 .. Len(Actions) /\ Len(Actions) \in Nat
      /\ aix <= Len(Actions)
  BY <1>1, IndexTypes DEF Acting, Prepared
<1>3. e \in Events /\ e.ev = "action" /\ e.ix = aix
  <2>1. rc \in Errors /\ aix \in Nat /\ HandedResult \in Outcomes
    BY <1>2, HostAssumption DEF Inv, TypeOK, HandedResult
  <2>2. "action" \in EventNames
    BY DEF EventNames
  <2>3. e \in Events
    BY <2>1, <2>2, EventTypes
  <2>4. e.ev = "action" /\ e.ix = aix
    BY DEF Event
  <2> QED BY <2>3, <2>4
<1> HIDE DEF e
<1>4. /\ n \in Nat /\ DOMAIN trace = 1 .. n /\ DOMAIN trace' = 1 .. n + 1
      /\ trace'[n + 1] = e
      /\ \A j \in 1 .. n : trace'[j] = trace[j]
  BY <1>1, <1>3, LogAppends
<1> HIDE DEF n
<1>5. /\ ActionEvents \subseteq 1 .. n
      /\ ActionEvents' = ActionEvents \cup {n + 1}
  <2>1. \A i \in 1 .. n + 1 : i \in 1 .. n \/ i = n + 1
    BY <1>4
  <2>2. \A i \in 1 .. n : i \in 1 .. n + 1
    BY <1>4
  <2>3. n + 1 \in 1 .. n + 1
    BY <1>4
  <2> QED BY <1>3, <1>4, <2>1, <2>2, <2>3 DEF ActionEvents
<1>6. \A i \in ActionEvents : trace'[i] = trace[i] /\ i < n + 1 /\ trace[i].ix < aix
  <2>1. Ordered
    BY DEF Acting
  <2>2. \A i \in ActionEvents : trace[i].ix < aix
    BY ONLY <2>1 DEF Ordered
  <2>3. \A i \in ActionEvents : trace'[i] = trace[i] /\ i < n + 1
    BY ONLY <1>4, <1>5
  <2> QED BY ONLY <2>2, <2>3
<1>7. \A i \in ActionEvents : trace[i].ix \in Nat
  <2>1. ASSUME NEW i \in ActionEvents PROVE trace[i].ix \in Nat
    <3>1. trace \in Seq(Events) /\ i \in DOMAIN trace
      BY <1>4, <1>5 DEF Inv, TypeOK
    <3>2. trace[i] \in Events
      BY <3>1
    <3> QED BY <3>2 DEF Events
  <2> QED BY <2>1
<1>8. Ordered'
  <2>1. ASSUME NEW i \in ActionEvents', NEW j \in ActionEvents', i < j
        PROVE  trace'[i].ix < trace'[j].ix
    <3>1. j \in Int /\ j <= n + 1
      <4>1. j \in 1 .. n \/ j = n + 1
        BY <1>5, Zenon
      <4> QED BY <1>4, <4>1
    <3>2. i # n + 1
      BY <1>4, <2>1, <3>1
    <3>3. i \in ActionEvents
      BY <1>5, <3>2
    <3> QED BY <1>3, <1>4, <1>5, <1>6, <2>1, <3>3 DEF Acting, Ordered
  <2>2. ASSUME NEW i \in ActionEvents' PROVE trace'[i].ix < aix'
    BY <1>1, <1>2, <1>3, <1>4, <1>5, <1>6, <1>7
  <2>3. n + 1 \in ActionEvents' /\ \A j \in ActionEvents' : j <= n + 1
    BY <1>4, <1>5
  <2> QED BY <2>1, <2>2, <2>3 DEF Ordered
<1>9. Prepared'
  BY <1>1 DEF Prepared, WalkPlaces
<1>10. Performed'
  <2> SUFFICES ASSUME Undisturbed'
               PROVE  /\ {trace'[i].ix : i \in ActionEvents'} = Before'
                      /\ \A i \in Before' : ~Actions'[i].oversized
    BY <1>1 DEF Performed
  <2>1. Undisturbed
    BY <1>4 DEF Undisturbed
  <2>2. /\ {trace[i].ix : i \in ActionEvents} = Before
        /\ \A i \in Before : ~Actions[i].oversized
        /\ Handled(aix) /\ ~Actions[aix].oversized
    BY <1>1, <2>1 DEF Acting, Performed, Prepared
  <2>3. Actions' = Actions /\ \A i : Handled(i)' = Handled(i)
    <3>1. ctx'.handler = ctx.handler
      BY <1>1 DEF SetActionError, Inv, TypeOK, Contexts
    <3> QED BY <1>1, <3>1 DEF Actions, Handled, GetAction
  <2>4. Before' = Before \cup {aix}
    BY <1>1, <1>2, <2>2, <2>3 DEF Before
  <2>5. {trace'[i].ix : i \in ActionEvents'} = {trace[i].ix : i \in ActionEvents} \cup {aix}
    BY <1>3, <1>4, <1>5, <1>6
  <2> QED BY <2>2, <2>3, <2>4, <2>5
<1>11. Sized'
  <2>1. Actions' = Actions /\ ~Actions[aix].oversized
    BY <1>1 DEF Actions, Acting, Prepared
  <2>2. aix \in DOMAIN Actions
    BY <1>2
  <2>3. \A i \in ActionEvents : trace'[i] = trace[i]
    BY <1>6
  <2>4. trace'[n + 1].ix = aix
    BY <1>3, <1>4
  <2> QED BY <1>5, <2>1, <2>2, <2>3, <2>4 DEF Acting, Sized
<1> QED BY <1>8, <1>9, <1>10, <1>11 DEF Acting

LEMMA HostActing ==
  ASSUME Inv, Acting, NEW c \in Contexts, HostCall(c)
  PROVE  Acting'
<1> DEFINE e == [Event("call") EXCEPT !.rc = c.error]
<1>1. /\ pc' = pc /\ buffer' = buffer /\ pix' = pix /\ aix' = aix /\ stopFn' = stopFn
      /\ Actions' = Actions
  BY DEF HostCall, evalVars, actVars, Actions
<1>2. c.error \in Errors
  BY DEF Contexts
<1>3. e \in Events /\ e.ev = "call"
  BY <1>2, CallEventFacts
<1>4. pc \in PolicyCallbacks => Log(e)
  BY DEF HostCall
<1>5. pc \notin PolicyCallbacks => trace' = trace /\ pc \notin Late
  BY DEF HostCall, HostTurn, Late
<1> HIDE DEF e
<1>6. Calm
  BY <1>3, <1>4, <1>5, SilentIsCalm, LogIsCalm
<1>7. aix \in Nat
  BY DEF Inv, TypeOK
<1>8. Ordered'
  BY <1>1, <1>6, <1>7, CalmOrdered DEF Acting
<1>9. Prepared'
  BY <1>1 DEF Acting, Prepared
<1>10. Performed'
  <2>1. pc \in PolicyCallbacks => ~Undisturbed'
    <3> SUFFICES ASSUME pc \in PolicyCallbacks PROVE ~Undisturbed'
      OBVIOUS
    <3>1. Len(trace) \in Nat /\ DOMAIN trace' = 1 .. Len(trace) + 1 /\ trace'[Len(trace) + 1] = e
      BY <1>3, <1>4, LogAppends
    <3>2. Len(trace) + 1 \in 1 .. Len(trace) + 1
      BY <3>1
    <3> QED BY <1>3, <3>1, <3>2 DEF Undisturbed
  <2> QED BY <1>1, <1>5, <2>1 DEF Performed
<1>11. Sized'
  BY <1>1, <1>6, CalmSized DEF Acting
<1> QED BY <1>8, <1>9, <1>10, <1>11 DEF Acting

-----------------------------------------------------------------------------
LEMMA InitActing == Init => Acting
<1> SUFFICES ASSUME Init PROVE Acting
  OBVIOUS
<1>1. /\ pc = "idle" /\ pc \notin Late /\ pc \notin WalkPlaces
      /\ buffer = << >> /\ pix = 1 /\ stopFn = FALSE
  BY DEF Init, Late, WalkPlaces
<1>2. ActionEvents = {}
  BY <1>1, InitHistory, NoActionsYet
<1> QED BY <1>1, <1>2 DEF Acting, Ordered, Prepared, Performed, Sized

LEMMA NextActing == Inv /\ History /\ History' /\ Acting /\ [Next]_vars => Acting'
<1> SUFFICES ASSUME Inv, History, History', Acting, [Next]_vars PROVE Acting'
  OBVIOUS
<1>1. CASE Call
  BY <1>1, CallActing DEF Call
<1>2. CASE Engine
  BY <1>2, WalkActing, BetweenActing, EvaluateRootActing, ReportVerdictActing,
     SkipActionActing, LoopActing DEF Engine, Walk, Between
<1>3. CASE CallbackReturns
  BY <1>3, WalkActing, BetweenActing, PolicyExitReturnsActing, ActionReturnsActing
     DEF CallbackReturns, Walk, Between
<1>4. CASE Host
  BY <1>4, HostContexts, HostActing DEF Inv
<1>5. CASE UNCHANGED vars
  BY <1>5 DEF vars, evalVars, walkVars, actVars, Acting, Ordered, Prepared, Performed,
     Sized, ActionEvents, Before, Undisturbed, Handled, Actions
<1> QED BY <1>1, <1>2, <1>3, <1>4, <1>5 DEF Next

LEMMA ActingInvariance == Spec => [](Inv /\ History /\ Acting)
BY InitActing, NextActing, NextHistory, Invariance, HistoryInvariance, PTL DEF Spec

\* For every host and every list: the actions that ran did so in the order of the
\* list, none of them oversized; and unless the host intervened they are exactly those
\* that have a handler and are not behind an oversized one that has.
THEOREM ActionsComplete == Spec => []NoActionLost
<1>1. Inv /\ Acting => NoActionLost
  <2> SUFFICES ASSUME Inv, Acting, pc = "policy_done", Undisturbed
               PROVE  {trace[i].ix : i \in ActionEvents} = Expected
    BY DEF NoActionLost, Acting, Ordered, Sized
  <2>1. /\ aix \in Nat \ {0} /\ DOMAIN Actions = 1 .. Len(Actions) /\ Len(Actions) \in Nat
    BY IndexTypes DEF PolicyPlaces
  <2>2. /\ {trace[i].ix : i \in ActionEvents} = Before
        /\ \A i \in Before : ~Actions[i].oversized
        /\ \/ aix > Len(Actions)
           \/ aix <= Len(Actions) /\ Handled(aix) /\ Actions[aix].oversized
    BY DEF Acting, Performed, Late
  <2>3. ASSUME NEW i \in Before PROVE i \in Expected
    <3>1. i \in DOMAIN Actions /\ Handled(i) /\ i < aix
      BY DEF Before
    <3>2. ASSUME NEW j \in 1 .. i, Handled(j) PROVE ~Actions[j].oversized
      <4>1. j \in Before
        BY <2>1, <3>1, <3>2 DEF Before
      <4> QED BY <2>2, <4>1
    <3> QED BY <3>1, <3>2 DEF Expected
  <2>4. ASSUME NEW i \in Expected PROVE i \in Before
    <3>1. i \in DOMAIN Actions /\ Handled(i)
      BY DEF Expected
    <3>2. i < aix
      <4> SUFFICES ASSUME ~(i < aix) PROVE FALSE
        OBVIOUS
      <4>1. aix \in 1 .. i /\ aix <= Len(Actions)
        BY <2>1, <3>1
      <4> QED BY <2>1, <2>2, <4>1 DEF Expected
    <3> QED BY <3>1, <3>2 DEF Before
  <2> QED BY <2>2, <2>3, <2>4
<1> QED BY <1>1, ActingInvariance, PTL

-----------------------------------------------------------------------------
(* The refinement *)

\* A step in the course of which nothing that PolicyJudge speaks of changes.
LEMMA Stutter ==
  ASSUME Phase' = Phase, LastTold' = LastTold,
         buffer' = buffer, pix' = pix, stopFn' = stopFn,
         Phase = "acting" => verdict' = verdict
  PROVE  UNCHANGED Promise!judgeVars
BY DEF Promise!judgeVars

LEMMA ToldNothing ==
  ASSUME History, pc \notin Late
  PROVE  LastTold = Promise!Nothing
BY NoActionsYet DEF LastTold, Promise!Nothing

\* The policies that are left, at the head of which the current one stands.
LEMMA LeftOver ==
  ASSUME NEW S, NEW b \in Seq(S), NEW k \in 1 .. Len(b)
  PROVE  /\ SubSeq(b, k, Len(b)) # << >>
         /\ Head(SubSeq(b, k, Len(b))) = b[k]
         /\ Tail(SubSeq(b, k, Len(b))) = SubSeq(b, k + 1, Len(b))
<1>1. Len(b) \in k .. Len(b) /\ k \in Int /\ Len(b) \in Int /\ \A i \in k .. Len(b) : b[i] \in S
  OBVIOUS
<1>2. Len(SubSeq(b, k, Len(b))) = Len(b) - k + 1
  BY <1>1, SubSeqProperties
<1>3. SubSeq(b, k, Len(b)) # << >>
  <2>1. Len(SubSeq(b, k, Len(b))) # 0
    BY <1>1, <1>2
  <2>2. Len(<< >>) = 0
    BY NothingInEmpty
  <2> QED BY <2>1, <2>2, Zenon
<1>4. /\ Head(SubSeq(b, k, Len(b))) = b[k]
      /\ Tail(SubSeq(b, k, Len(b))) = SubSeq(b, k + 1, Len(b))
  BY <1>1, HeadTailOfSubSeq
<1> QED BY <1>3, <1>4

\* A step inside an evaluation that judges nothing yet.
LEMMA WalkPromise == History /\ History' /\ Walk => UNCHANGED Promise!judgeVars
<1> SUFFICES ASSUME History, History', Walk PROVE UNCHANGED Promise!judgeVars
  OBVIOUS
<1>1. /\ pc \in WalkPlaces /\ pc' \in WalkPlaces
      /\ buffer' = buffer /\ pix' = pix /\ stopFn' = stopFn
  BY WalkPlacesKept
<1>2. Phase = "judging" /\ Phase' = "judging" /\ pc \notin Late /\ pc' \notin Late
  BY <1>1 DEF WalkPlaces, Phase, Late
<1>3. LastTold = Promise!Nothing
  BY <1>2, ToldNothing
<1>4. LastTold' = Promise!Nothing'
  BY <1>2, NoActionsYet DEF LastTold, Promise!Nothing, History, VerdictPending, ActionEvents
<1> QED BY <1>1, <1>2, <1>3, <1>4, Stutter DEF Promise!Nothing

\* Between the policies, and as one begins or has its result.
LEMMA BetweenPromise ==
  Inv /\ History /\ History' /\ Acting /\ Between => [Promise!JudgeNext]_Promise!judgeVars
<1> SUFFICES ASSUME Inv, History, History', Acting, Between
             PROVE  [Promise!JudgeNext]_Promise!judgeVars
  OBVIOUS
<1> DEFINE left == SubSeq(buffer, pix, Len(buffer))
<1>1. buffer \in Seq(Policies \cup {NULL}) /\ pix \in Nat \ {0}
  BY DEF Inv, TypeOK
<1>2. pc' \notin Late /\ pc' # "policy_exit"
  BY DEF Between, SkipPolicy, BeginPolicy, PolicyEnterReturns, ReturnToPolicy, EndPolicy,
     BufferDone, ShouldStopReturns, Late
<1>3. LastTold' = Promise!Nothing
  BY <1>2 DEF LastTold, Promise!Nothing, History, VerdictPending, ActionEvents
<1>4. pc # "policy_done" => LastTold = Promise!Nothing
  <2>1. pc # "policy_done" => pc \notin Late
    BY DEF Between, SkipPolicy, BeginPolicy, PolicyEnterReturns, ReturnToPolicy, EndPolicy,
       BufferDone, ShouldStopReturns, Late
  <2> QED BY <2>1, ToldNothing
<1>5. pix <= Len(buffer) =>
        left # << >> /\ Head(left) = buffer[pix] /\ Tail(left) = SubSeq(buffer, pix + 1, Len(buffer))
  BY <1>1, LeftOver
<1>6. CASE SkipPolicy
  <2>1. Promise!PassOver
    BY <1>3, <1>4, <1>5, <1>6 DEF SkipPolicy, walkVars, Promise!PassOver, Phase
  <2> QED BY <2>1 DEF Promise!JudgeNext
<1>7. CASE BeginPolicy \/ PolicyEnterReturns
  <2>1. /\ Phase = "judging" /\ Phase' = "judging" /\ pc # "policy_done"
        /\ buffer' = buffer /\ pix' = pix /\ stopFn' = stopFn
    BY <1>7 DEF BeginPolicy, PolicyEnterReturns, evalVars, Phase
  <2> QED BY <1>3, <1>4, <2>1, Stutter
<1>8. CASE ReturnToPolicy
  <2>1. /\ Phase = "judging" /\ Phase' = "acting"
        /\ buffer' = buffer /\ pix' = pix /\ stopFn' = stopFn
        /\ verdict' \in Outcomes
        /\ pc \in WalkPlaces /\ pc \in PolicyPlaces
    BY <1>8 DEF ReturnToPolicy, evalVars, Phase, Inv, TypeOK, WalkPlaces, PolicyPlaces
  <2>2. /\ pix \in 1 .. Len(buffer) /\ buffer[pix] \in Policies
        /\ Policy[buffer[pix]].rules # NULL
    BY <2>1 DEF Inv, Located, Acting, Prepared
  <2>3. buffer[pix] # NULL
    BY <2>2, TreeAssumption
  <2>4. Promise!Judge
    BY <1>3, <1>4, <1>5, <1>8, <2>1, <2>2, <2>3 DEF ReturnToPolicy, Promise!Judge, Promise!Current
  <2> QED BY <2>4 DEF Promise!JudgeNext
<1>9. CASE EndPolicy
  <2>1. pix \in 1 .. Len(buffer)
    BY <1>9 DEF EndPolicy, Inv, Located, PolicyPlaces
  <2>2. /\ Phase = "acting" /\ Phase' = IF stopFn THEN "asked" ELSE "judging"
        /\ buffer' = buffer /\ pix' = pix + 1 /\ stopFn' = stopFn
    BY <1>9 DEF EndPolicy, Phase, Inv, TypeOK
  <2>3. Promise!Finish
    BY <1>3, <1>5, <2>1, <2>2, SMTT(30) DEF Promise!Finish
  <2> QED BY <2>3 DEF Promise!JudgeNext
<1>10. CASE BufferDone
  <2>1. left = << >>
    BY <1>1, <1>10, SubSeqEmpty DEF BufferDone
  <2>2. SubSeq(buffer', pix', Len(buffer')) = << >>
    BY <1>10, SubSeqEmpty, NothingInEmpty DEF BufferDone, Forget
  <2>3. Promise!End
    BY <1>3, <1>4, <1>10, <2>1, <2>2 DEF BufferDone, Forget, Promise!End, Phase
  <2> QED BY <2>3 DEF Promise!JudgeNext
<1>11. ASSUME NEW b \in BOOLEAN, ShouldStopReturns(b) PROVE [Promise!JudgeNext]_Promise!judgeVars
  <2>1. CASE b
    <3>1. SubSeq(buffer', pix', Len(buffer')) = << >>
      BY <1>11, <2>1, SubSeqEmpty, NothingInEmpty DEF ShouldStopReturns, Forget
    <3>2. Promise!End
      BY <1>3, <1>4, <1>11, <2>1, <3>1 DEF ShouldStopReturns, Forget, Promise!End, Phase
    <3> QED BY <3>2 DEF Promise!JudgeNext
  <2>2. CASE ~b
    <3>1. Promise!GoOn
      BY <1>3, <1>4, <1>11, <2>2 DEF ShouldStopReturns, Promise!GoOn, Phase
    <3> QED BY <3>1 DEF Promise!JudgeNext
  <2> QED BY <2>1, <2>2
<1> QED BY <1>6, <1>7, <1>8, <1>9, <1>10, <1>11 DEF Between

LEMMA CallPromise ==
  ASSUME History, History', Acting, NEW b \in Buffers \cup {NULL}, NEW s \in BOOLEAN,
         EvaluateBuffer(b, s)
  PROVE  [Promise!JudgeNext]_Promise!judgeVars
<1>1. /\ pc = "idle" /\ pc \notin Late /\ Phase = "idle"
      /\ pc' \in {"idle", "policies"} /\ pc' \notin Late
  BY DEF EvaluateBuffer, Late, Phase
<1>2. LastTold = Promise!Nothing
  BY <1>1, ToldNothing
<1>3. LastTold' = Promise!Nothing
  BY <1>1 DEF LastTold, Promise!Nothing, History, VerdictPending, ActionEvents
<1>4. CASE b = NULL
  <2>1. Phase' = "idle" /\ buffer' = buffer /\ pix' = pix /\ stopFn' = stopFn
    BY <1>1, <1>4 DEF EvaluateBuffer, Phase
  <2> QED BY <1>1, <1>2, <1>3, <2>1, Stutter
<1>5. CASE b # NULL
  <2>1. Phase' = "judging" /\ buffer' = b /\ pix' = 1 /\ stopFn' = s
    BY <1>1, <1>5 DEF EvaluateBuffer, Phase
  <2>2. b \in Buffers /\ SubSeq(b, 1, Len(b)) = b
    BY <1>5, TreeAssumption, SubSeqFull
  <2>3. Promise!Begin
    BY <1>1, <1>2, <1>3, <2>1, <2>2 DEF Promise!Begin
  <2> QED BY <2>3 DEF Promise!JudgeNext
<1> QED BY <1>4, <1>5

\* A policy without rules is judged at once.
LEMMA EvaluateRootPromise ==
  Inv /\ History /\ History' /\ EvaluateRoot => [Promise!JudgeNext]_Promise!judgeVars
<1> SUFFICES ASSUME Inv, History, History', EvaluateRoot
             PROVE  [Promise!JudgeNext]_Promise!judgeVars
  OBVIOUS
<1>1. /\ pc = "root" /\ pc \notin Late /\ Phase = "judging"
      /\ pc' \in {"verdict", "rules"} /\ pc' \notin Late
      /\ buffer' = buffer /\ pix' = pix /\ stopFn' = stopFn
  BY DEF EvaluateRoot, Late, Phase, evalVars
<1>2. LastTold = Promise!Nothing
  BY <1>1, ToldNothing
<1>3. LastTold' = Promise!Nothing
  BY <1>1 DEF LastTold, Promise!Nothing, History, VerdictPending, ActionEvents
<1>4. CASE pc' = "rules"
  <2>1. Phase' = "judging"
    BY <1>4 DEF Phase
  <2> QED BY <1>1, <1>2, <1>3, <2>1, Stutter
<1>5. CASE pc' = "verdict"
  <2>1. pix \in 1 .. Len(buffer) /\ buffer[pix] \in Policies /\ buffer \in Seq(Policies \cup {NULL})
    BY <1>1 DEF Inv, Located, PolicyPlaces, TypeOK
  <2>2. /\ SubSeq(buffer, pix, Len(buffer)) # << >>
        /\ Head(SubSeq(buffer, pix, Len(buffer))) = buffer[pix]
        /\ buffer[pix] # NULL
    BY <2>1, LeftOver, TreeAssumption
  <2>3. /\ Phase' = "acting" /\ verdict' = "ABSTAIN" /\ Policy[buffer[pix]].rules = NULL
    BY <1>5 DEF EvaluateRoot, Phase
  <2>4. Promise!Judge
    BY <1>1, <1>2, <1>3, <2>2, <2>3 DEF Promise!Judge, Promise!Current
  <2> QED BY <2>4 DEF Promise!JudgeNext
<1> QED BY <1>1, <1>4, <1>5

\* Reporting the result, and what perform_actions does around the handlers.
LEMMA AroundActionsPromise ==
  ASSUME Inv, Acting,
         ReportVerdict \/ PolicyExitReturns \/ SkipAction \/ AbortActions \/ CallAction \/ ActionsDone
  PROVE  UNCHANGED Promise!judgeVars
<1>1. /\ Phase = "acting" /\ Phase' = "acting" /\ verdict' = verdict
      /\ buffer' = buffer /\ pix' = pix /\ stopFn' = stopFn
  BY DEF ReportVerdict, PolicyExitReturns, SkipAction, AbortActions, CallAction, ActionsDone,
     evalVars, walkVars, Phase
<1>2. Calm
  <2>1. CASE trace' = trace
    BY <2>1, SilentIsCalm
  <2>2. CASE trace' # trace
    <3> DEFINE e == [Event("policy_exit") EXCEPT !.obs = Watching, !.res = verdict]
    <3>1. Log(e)
      BY <2>2 DEF ReportVerdict, PolicyExitReturns, SkipAction, AbortActions, CallAction, ActionsDone
    <3>2. "policy_exit" \in EventNames /\ Watching \in Observers \cup {NULL} /\ verdict \in Outcomes
      BY DEF EventNames, CallbackNames, Inv, TypeOK, Watching
    <3>3. e \in Events
      BY <3>2, EventTypes
    <3>4. e.ev = "policy_exit"
      BY DEF Event
    <3> HIDE DEF e
    <3> QED BY <3>1, <3>3, <3>4, LogIsCalm
  <2> QED BY <2>1, <2>2
<1> QED BY <1>1, <1>2, LastToldKept, Stutter DEF Acting

LEMMA ActionReturnsPromise ==
  ASSUME Inv, History, Acting, NEW rc \in HostErrors, ActionReturns(rc)
  PROVE  Promise!Act
<1> DEFINE e == [Event("action") EXCEPT !.ix = aix, !.res = HandedResult, !.rc = rc]
           n == Len(trace)
<1>1. /\ pc = "handler" /\ pc' = "actions" /\ Log(e) /\ pc \in PolicyPlaces
      /\ Phase = "acting" /\ Phase' = "acting" /\ verdict' = verdict
      /\ buffer' = buffer /\ pix' = pix /\ stopFn' = stopFn
  BY DEF ActionReturns, evalVars, walkVars, PolicyPlaces, Phase
<1>2. /\ aix \in Nat \ {0} /\ DOMAIN Actions = 1 .. Len(Actions) /\ Len(Actions) \in Nat
      /\ aix <= Len(Actions) /\ ~Actions[aix].oversized
  BY <1>1, IndexTypes DEF Acting, Prepared
<1>3. e \in Events /\ e.ev = "action" /\ e.ix = aix /\ e.res = verdict
  <2>1. rc \in Errors /\ aix \in Nat /\ HandedResult \in Outcomes
    BY <1>2, HostAssumption DEF Inv, TypeOK, HandedResult
  <2>2. "action" \in EventNames
    BY DEF EventNames
  <2>3. e \in Events
    BY <2>1, <2>2, EventTypes
  <2>4. e.ev = "action" /\ e.ix = aix /\ e.res = verdict
    BY DEF Event, HandedResult
  <2> QED BY <2>3, <2>4
<1> HIDE DEF e
<1>4. /\ n \in Nat /\ DOMAIN trace = 1 .. n /\ DOMAIN trace' = 1 .. n + 1
      /\ trace'[n + 1] = e
  BY <1>1, <1>3, LogAppends
<1> HIDE DEF n
<1>5. LastTold' = [action |-> aix, result |-> verdict]
  <2> DEFINE c == CHOOSE i \in ActionEvents' : \A j \in ActionEvents' : j <= i
  <2>1. n + 1 \in 1 .. n + 1 /\ \A j \in 1 .. n + 1 : j <= n + 1 /\ j \in Int
    BY <1>4
  <2>2. n + 1 \in ActionEvents' /\ \A j \in ActionEvents' : j <= n + 1 /\ j \in Int
    BY <1>3, <1>4, <2>1 DEF ActionEvents
  <2>3. c \in ActionEvents' /\ \A j \in ActionEvents' : j <= c
    BY <2>2
  <2> HIDE DEF c
  <2>4. c = n + 1
    BY <1>4, <2>2, <2>3
  <2>5. LastTold' = [action |-> trace'[c].ix, result |-> trace'[c].res]
    BY <2>2 DEF LastTold, c
  <2> QED BY <1>3, <1>4, <2>4, <2>5
<1>6. LastTold.action \in Nat /\ LastTold.action < aix
  <2>1. CASE ActionEvents = {}
    BY <1>2, <2>1 DEF LastTold
  <2>2. CASE ActionEvents # {}
    <3> DEFINE c == CHOOSE i \in ActionEvents : \A j \in ActionEvents : j <= i
    <3>1. c \in ActionEvents
      BY <2>2 DEF Acting, Ordered
    <3> HIDE DEF c
    <3>2. trace \in Seq(Events) /\ c \in DOMAIN trace
      BY <3>1 DEF Inv, TypeOK, ActionEvents
    <3>3. trace[c] \in Events
      BY <3>2
    <3>4. LastTold = [action |-> trace[c].ix, result |-> trace[c].res]
      BY <2>2 DEF LastTold, c
    <3> QED BY <3>1, <3>3, <3>4 DEF Acting, Ordered, Events
  <2> QED BY <2>1, <2>2
<1>7. /\ Head(SubSeq(buffer, pix, Len(buffer))) = buffer[pix]
  <2>1. pix \in 1 .. Len(buffer) /\ buffer \in Seq(Policies \cup {NULL})
    BY <1>1 DEF Inv, Located, TypeOK
  <2> QED BY <2>1, LeftOver
<1>8. aix \in LastTold.action + 1 .. Len(Actions)
  BY <1>2, <1>6
<1> QED BY <1>1, <1>2, <1>5, <1>7, <1>8 DEF Promise!Act, Promise!Current, Actions

\* Whatever the host calls, it changes nothing of what it was promised.
LEMMA HostPromise ==
  ASSUME Inv, Acting, NEW c \in Contexts, HostCall(c)
  PROVE  UNCHANGED Promise!judgeVars
<1> DEFINE e == [Event("call") EXCEPT !.rc = c.error]
<1>1. /\ pc' = pc /\ buffer' = buffer /\ pix' = pix /\ stopFn' = stopFn /\ verdict' = verdict
      /\ Phase' = Phase
  BY DEF HostCall, evalVars, walkVars, Phase
<1>2. c.error \in Errors
  BY DEF Contexts
<1>3. e \in Events /\ e.ev = "call"
  BY <1>2, CallEventFacts
<1>4. Log(e) \/ trace' = trace
  BY DEF HostCall
<1> HIDE DEF e
<1>5. Calm
  BY <1>3, <1>4, SilentIsCalm, LogIsCalm
<1> QED BY <1>1, <1>5, LastToldKept, Stutter DEF Acting

-----------------------------------------------------------------------------
LEMMA InitPromise == Init => Promise!JudgeInit
<1> SUFFICES ASSUME Init PROVE Promise!JudgeInit
  OBVIOUS
<1>1. pc = "idle" /\ pc \notin Late /\ buffer = << >> /\ pix = 1 /\ stopFn = FALSE
  BY DEF Init, Late
<1>2. LastTold = Promise!Nothing
  BY <1>1, InitHistory, ToldNothing
<1>3. SubSeq(buffer, pix, Len(buffer)) = << >>
  BY <1>1, SubSeqEmpty, NothingInEmpty
<1> QED BY <1>1, <1>2, <1>3 DEF Promise!JudgeInit, Phase

LEMMA NextPromise ==
  Inv /\ History /\ History' /\ Acting /\ [Next]_vars => [Promise!JudgeNext]_Promise!judgeVars
<1> SUFFICES ASSUME Inv, History, History', Acting, [Next]_vars
             PROVE  [Promise!JudgeNext]_Promise!judgeVars
  OBVIOUS
<1>1. CASE Call
  BY <1>1, CallPromise DEF Call
<1>2. CASE Engine
  BY <1>2, WalkPromise, BetweenPromise, EvaluateRootPromise, AroundActionsPromise
     DEF Engine, Walk, Between
<1>3. CASE CallbackReturns
  <2>1. ASSUME NEW rc \in HostErrors, ActionReturns(rc) PROVE Promise!JudgeNext
    BY <2>1, ActionReturnsPromise DEF Promise!JudgeNext
  <2> QED BY <1>3, <2>1, WalkPromise, BetweenPromise, AroundActionsPromise
          DEF CallbackReturns, Walk, Between
<1>4. CASE Host
  BY <1>4, HostContexts, HostPromise DEF Inv
<1>5. CASE UNCHANGED vars
  <2>1. /\ buffer' = buffer /\ pix' = pix /\ stopFn' = stopFn /\ verdict' = verdict
        /\ Phase' = Phase /\ LastTold' = LastTold
    BY <1>5 DEF vars, evalVars, walkVars, Phase, LastTold, ActionEvents
  <2> QED BY <2>1, Stutter
<1> QED BY <1>1, <1>2, <1>3, <1>4, <1>5 DEF Next

\* The engine implements PolicyJudge in every host: each policy of the buffer is
\* judged once, in turn, its actions run after that, in order, each with the
\* policy's own result, and nothing is judged any more once the host said stop.
THEOREM JudgeImplemented == Spec => ImplementsJudge
<1>1. Spec => [](Inv /\ History /\ Acting)
  BY ActingInvariance
<1>2. Init => Promise!JudgeInit
  BY InitPromise
<1>3. Inv /\ History /\ History' /\ Acting /\ [Next]_vars
        => [Promise!JudgeNext]_Promise!judgeVars
  BY NextPromise
<1> QED BY <1>1, <1>2, <1>3, PTL DEF Spec, ImplementsJudge, Promise!JudgeSpec
=============================================================================
