------------------------------- MODULE EvalCtx -------------------------------
(***************************************************************************)
(* The evaluation context: the static `ctx` of eval_ctx.c, one record with *)
(* a field per table, and one operator per API function from a context to  *)
(* the context after the call.  A call the code rejects returns its        *)
(* argument.  The engine and the host act on the same context, so every    *)
(* module that has either works with these operators.                      *)
(***************************************************************************)
EXTENDS Absent, Integers

CONSTANTS
  StrIds,     \* ids of string evaluators, the range PLCS_STR_EVAL__COUNT closes
  NumIds,     \* ids of numeric evaluators, signed and unsigned alike
  ActionIds,  \* ids of actions, the range PLCS_ACTIONS__COUNT closes
  HostFns,    \* evaluator functions the host may register
  Handlers,   \* action functions the host may register
  Observers,  \* observers the host may install
  Params,     \* values an evaluator's parameter can hold
  NumNotSet   \* LONG_MAX and ULONG_MAX, the parameter that counts as absent

ASSUME NullAssumption ==
  /\ NULL \notin HostFns \cup Handlers \cup Observers
  /\ NULL \notin StrIds \cup NumIds \cup ActionIds
ASSUME ParamAssumption == {NULL, NumNotSet, Zero} \subseteq Params

ESUCCESS == 0
\* Mutant: a negative code, as the documentation writes them.
NegativeOverflow == -2
EIX_OVERFLOW == 2
EINITIALIZED == 4
ENO_DATA == 5
EACTIONS_EVAL == 7
EUNKNOWN_CMP == 8

\* plcs_errors: the enumeration of error_codes.h.
Errors == 0 .. 8

Kinds == {"str", "num", "unum"}

(***************************************************************************)
(* The context has a table of evaluators for each kind.  Signed and        *)
(* unsigned evaluators share the ids and nothing else.                     *)
(***************************************************************************)
Entries == ({"str"} \X StrIds) \cup ({"num", "unum"} \X NumIds)

NotSet(kind) == IF kind = "str" THEN NULL ELSE NumNotSet

Contexts ==
  [evaluator   : [Entries -> HostFns \cup {NULL}],
   param       : [Entries -> Params],
   evalError   : [Entries -> Errors],
   handler     : [ActionIds -> Handlers \cup {NULL}],
   actionError : [ActionIds -> Errors],
   observer    : Observers \cup {NULL},
   error       : Errors,
   initialized : BOOLEAN]

-----------------------------------------------------------------------------
\* The context after plcs_eval_ctx_reset.
Reset(c) ==
  [evaluator   |-> [e \in Entries |-> NULL],
   param       |-> [e \in Entries |-> NotSet(e[1])],
   evalError   |-> [e \in Entries |-> ESUCCESS],
   handler     |-> [a \in ActionIds |-> NULL],
   actionError |-> [a \in ActionIds |-> ESUCCESS],
   observer    |-> NULL,
   error       |-> ESUCCESS,
   initialized |-> c.initialized]

\* Static storage before anyone called plcs_eval_ctx_init: every byte zero, so
\* a numeric parameter holds 0 and not the value that means "not set".
ZeroedCtx ==
  [evaluator   |-> [e \in Entries |-> NULL],
   param       |-> [e \in Entries |-> IF e[1] = "str" THEN NULL ELSE Zero],
   evalError   |-> [e \in Entries |-> ESUCCESS],
   handler     |-> [a \in ActionIds |-> NULL],
   actionError |-> [a \in ActionIds |-> ESUCCESS],
   observer    |-> NULL,
   error       |-> ESUCCESS,
   initialized |-> FALSE]

\* Only the first call resets; later ones return PLCS_EINITIZLIED.
InitCtx(c) ==
  IF c.initialized THEN c ELSE [Reset(c) EXCEPT !.initialized = TRUE]

-----------------------------------------------------------------------------
\* The three register functions: NULL and ids out of range are rejected.
RegisterEvaluator(c, e, f) ==
  IF f = NULL \/ e \notin Entries THEN c ELSE [c EXCEPT !.evaluator[e] = f]

SetParam(c, e, v) == IF e \notin Entries THEN c ELSE [c EXCEPT !.param[e] = v]

\* A NULL function is accepted here: it removes the action.
RegisterAction(c, a, h) ==
  IF a \notin ActionIds THEN c ELSE [c EXCEPT !.handler[a] = h]

SetObserver(c, o) == [c EXCEPT !.observer = o]

SetError(c, err) == [c EXCEPT !.error = err]

\* Reading the error takes it away.
GetLastError(c) == [c EXCEPT !.error = ESUCCESS]

SetActionError(c, a, err) ==
  IF a \notin ActionIds THEN c ELSE [c EXCEPT !.actionError[a] = err]

SetEvalError(c, e, err) ==
  IF e \notin Entries THEN c ELSE [c EXCEPT !.evalError[e] = err]

-----------------------------------------------------------------------------
\* What reading an entry does to the context: an id out of range is reported
\* through the context-wide error, which nothing but a caller resets.
ReadEntry(c, e) == IF e \in Entries THEN c ELSE [c EXCEPT !.error = EIX_OVERFLOW]

GetParam(c, e) == IF e \in Entries THEN c.param[e] ELSE NotSet(e[1])

GetEvaluator(c, e) == IF e \in Entries THEN c.evaluator[e] ELSE NULL

GetAction(c, a) == IF a \in ActionIds THEN c.handler[a] ELSE NULL
=============================================================================
