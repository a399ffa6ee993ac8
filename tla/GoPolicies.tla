----------------------------- MODULE GoPolicies -----------------------------
(***************************************************************************)
(* ParsePolicies of dd_wls.go, as far as policies and their actions go: a  *)
(* document is decoded policy by policy, a policy's actions and their      *)
(* values one by one into its Outcome, and a policy that does not decode   *)
(* is skipped.                                                             *)
(***************************************************************************)
EXTENDS Integers, Sequences

CONSTANTS
  Documents,   \* sequences of policies
  Names,       \* of environment variables and of languages
  Texts,       \* what may follow the '=' of a value
  Profiling,   \* "DD_PROFILING_ENABLED"
  True         \* "true"

Injects == {"INJECT_ALLOW", "INJECT_DENY"}
Valued == {"ENABLE_SDK", "SET_ENVAR"}
Handled == Injects \cup Valued \cup {"ENABLE_PROFILER"}

(***************************************************************************)
(* A value is well-formed if it has a '=' that something precedes.  There  *)
(* are `tooMany' values if there are 255 or more.  A policy may be no      *)
(* object of the right shape at all.                                       *)
(***************************************************************************)
ValueRecords == [name : Names, text : Texts, wellFormed : BOOLEAN]
ActionRecords ==
  [action : Handled \cup {"other"}, values : Seq(ValueRecords), tooMany : BOOLEAN]
PolicyRecords == [parses : BOOLEAN, actions : Seq(ActionRecords)]

ASSUME DocumentAssumption == Documents \subseteq Seq(PolicyRecords)
ASSUME NameAssumption == Profiling \in Names /\ True \in Texts

VARIABLES
  doc,
  i,         \* the policy that is decoded
  a,         \* its next action
  v,         \* the next value of this action
  outcome,   \* `out` of decodeActions
  out,       \* the policies decoded, each with its place in the document
  skipped    \* the policies skipped, by their place

vars == <<doc, i, a, v, outcome, out, skipped>>

NoOutcome == [injectSet |-> FALSE, inject |-> FALSE, versions |-> << >>, configs |-> << >>]

-----------------------------------------------------------------------------
EnvVar(n, t) == [name |-> n, text |-> t]

\* Mutant: a variable that is set twice is there twice.
AppendEnvVar(configs, n, t) == Append(configs, EnvVar(n, t))

\* A later value takes the place of an earlier one, the first with this name.
upsertEnvVar(configs, n, t) ==
  LET Sets(k) == configs[k].name = n
      First(k) == Sets(k) /\ \A j \in DOMAIN configs : j < k => ~Sets(j)
  IN  IF \E k \in DOMAIN configs : Sets(k)
        THEN [configs EXCEPT ![CHOOSE k \in DOMAIN configs : First(k)] = EnvVar(n, t)]
        ELSE Append(configs, EnvVar(n, t))

SetVersion(versions, n, t) ==
  [m \in DOMAIN versions \cup {n} |-> IF m = n THEN t ELSE versions[m]]

\* Mutant: an action that is not handled counts as well.
TooManyOfAny(x) == x.tooMany
\* An action that is not handled may have any number of values.
TooMany(x) == x.tooMany /\ x.action \in Handled

-----------------------------------------------------------------------------
Actions == doc[i].actions
Decoding == i <= Len(doc) /\ doc[i].parses /\ a <= Len(Actions)
Action == Actions[a]
Value == Action.values[v]

NextPolicy == i' = i + 1 /\ a' = 1 /\ v' = 1 /\ outcome' = NoOutcome /\ UNCHANGED doc
NextAction == a' = a + 1 /\ v' = 1 /\ UNCHANGED <<doc, i, out, skipped>>

Keep == out' = Append(out, [place |-> i, outcome |-> outcome]) /\ UNCHANGED skipped /\ NextPolicy

\* Mutant: the error ends the loop over the policies.
ReturnError == /\ skipped' = Append(skipped, i) /\ i' = Len(doc) + 1
               /\ UNCHANGED <<doc, a, v, outcome, out>>
Skip == skipped' = Append(skipped, i) /\ UNCHANGED out /\ NextPolicy

SkipUnparsable ==
  /\ i <= Len(doc)
  /\ ~doc[i].parses
  /\ Skip

IgnoreAction ==
  /\ Decoding
  /\ Action.action \notin Handled
  /\ ~TooMany(Action)
  /\ NextAction
  /\ UNCHANGED outcome

\* The remaining actions are lost, this one among them, and the policy is kept.
StopAtAction ==
  /\ Decoding
  /\ TooMany(Action)
  /\ Keep

Inject ==
  /\ Decoding
  /\ Action.action \in Injects
  /\ ~TooMany(Action)
  /\ outcome' = [outcome EXCEPT !.inject = (Action.action = "INJECT_ALLOW"), !.injectSet = TRUE]
  /\ NextAction

EnableProfiler ==
  /\ Decoding
  /\ Action.action = "ENABLE_PROFILER"
  /\ ~TooMany(Action)
  /\ outcome' = [outcome EXCEPT !.configs = upsertEnvVar(@, Profiling, True)]
  /\ NextAction

\* The values of an action are decoded, and this one is left.
AtValue ==
  /\ Decoding
  /\ Action.action \in Valued
  /\ ~TooMany(Action)
  /\ v <= Len(Action.values)

SetValue ==
  /\ AtValue
  /\ Value.wellFormed
  /\ outcome' = IF Action.action = "ENABLE_SDK"
                  THEN [outcome EXCEPT !.versions = SetVersion(@, Value.name, Value.text)]
                  ELSE [outcome EXCEPT !.configs = upsertEnvVar(@, Value.name, Value.text)]
  /\ v' = v + 1
  /\ UNCHANGED <<doc, i, a, out, skipped>>

\* What the earlier actions, and earlier values, did is gone with the policy.
SkipMalformed ==
  /\ AtValue
  /\ ~Value.wellFormed
  /\ Skip

ValuesDone ==
  /\ Decoding
  /\ Action.action \in Valued
  /\ ~TooMany(Action)
  /\ v > Len(Action.values)
  /\ NextAction
  /\ UNCHANGED outcome

KeepPolicy ==
  /\ i <= Len(doc)
  /\ doc[i].parses
  /\ a > Len(Actions)
  /\ Keep

Init ==
  /\ doc \in Documents
  /\ i = 1 /\ a = 1 /\ v = 1 /\ outcome = NoOutcome /\ out = << >> /\ skipped = << >>

Next ==
  \/ SkipUnparsable \/ IgnoreAction \/ StopAtAction \/ Inject \/ EnableProfiler
  \/ SetValue \/ SkipMalformed \/ ValuesDone \/ KeepPolicy

Spec == Init /\ [][Next]_vars

-----------------------------------------------------------------------------
Does(p, x) == p.actions[x].action
Handles(p, x) == Does(p, x) \in Handled

\* The actions of a policy that perform_actions of the C engine runs, in a host
\* that handles what this engine handles: those before one with too many values.
ActionsRun(p) ==
  {x \in DOMAIN p.actions :
     Handles(p, x) /\ \A y \in 1 .. x : Handles(p, y) => ~p.actions[y].tooMany}

Run(p, kinds) == {x \in ActionsRun(p) : Does(p, x) \in kinds}

(***************************************************************************)
(* What actions X set, variables or versions: a setting is a pair of an    *)
(* action and one of its values.  The profiler's sets one variable.        *)
(***************************************************************************)
Count(p, x) == IF Does(p, x) = "ENABLE_PROFILER" THEN 1 ELSE Len(p.actions[x].values)
Settings(p, X) == UNION {{x} \X (1 .. Count(p, x)) : x \in X}

Earlier(s, t) == s[1] < t[1] \/ (s[1] = t[1] /\ s[2] < t[2])
NameAt(p, s) == IF Does(p, s[1]) = "ENABLE_PROFILER" THEN Profiling
                ELSE p.actions[s[1]].values[s[2]].name
TextAt(p, s) == IF Does(p, s[1]) = "ENABLE_PROFILER" THEN True
                ELSE p.actions[s[1]].values[s[2]].text

\* None of the settings that follow has the same name.
LastOf(p, s, S) == \A t \in S : NameAt(p, t) = NameAt(p, s) => ~Earlier(s, t)

Versions == {"ENABLE_SDK"}
Variables == {"SET_ENVAR", "ENABLE_PROFILER"}

\* Injection is as the last of the actions J decided.
DecidedBy(o, p, J) ==
  /\ o.injectSet <=> J # {}
  /\ o.inject <=> \E x \in J : Does(p, x) = "INJECT_ALLOW" /\ \A y \in J : y <= x

\* A name has the text that the last of the settings S gave it.
VersionsSetBy(o, p, S) ==
  /\ DOMAIN o.versions = {NameAt(p, s) : s \in S}
  /\ \A s \in S : LastOf(p, s, S) => o.versions[NameAt(p, s)] = TextAt(p, s)
VariablesSetBy(o, p, S) ==
  /\ {o.configs[k].name : k \in DOMAIN o.configs} = {NameAt(p, s) : s \in S}
  /\ \A s \in S, k \in DOMAIN o.configs :
       LastOf(p, s, S) /\ o.configs[k].name = NameAt(p, s) => o.configs[k].text = TextAt(p, s)

(***************************************************************************)
(* "so both engines produce the same outcome": a policy that was decoded   *)
(* has the effect of the actions that the C engine would run, the last one *)
(* to decide or to set a name having its way.                              *)
(***************************************************************************)
OutcomeOfActionsRun ==
  \A x \in DOMAIN out :
    LET p == doc[out[x].place]
        o == out[x].outcome
    IN  /\ DecidedBy(o, p, Run(p, Injects))
        /\ VersionsSetBy(o, p, Settings(p, Run(p, Versions)))
        /\ VariablesSetBy(o, p, Settings(p, Run(p, Variables)))

\* Each variable was set before those that follow it, and so no two are the same.
InOrder(o, p, S) ==
  \A j, k \in DOMAIN o.configs :
    j < k => \E s \in S : /\ NameAt(p, s) = o.configs[j].name
                          /\ \A t \in S : NameAt(p, t) = o.configs[k].name => Earlier(s, t)

\* "Environment variable names are unique": no variable is set twice, and each has
\* the place of the first action that set it.
ConfigsInOrder ==
  \A x \in DOMAIN out :
    LET p == doc[out[x].place] IN InOrder(out[x].outcome, p, Settings(p, Run(p, Variables)))

\* Some value of the action has no name.
Malformed(action) ==
  /\ action.action \in Valued
  /\ \E k \in DOMAIN action.values : ~action.values[k].wellFormed

AtFault(p) == ~p.parses \/ \E x \in ActionsRun(p) : Malformed(p.actions[x])

(***************************************************************************)
(* "a single malformed policy can be skipped without failing the whole     *)
(* document": once the document is decoded every policy was either kept or *)
(* skipped, both in the order of the document, and it was skipped for a    *)
(* fault of its own: its shape, or a malformed value of an action that is  *)
(* run.                                                                    *)
(***************************************************************************)
PoliciesIsolated ==
  i > Len(doc) =>
    /\ {out[x].place : x \in DOMAIN out} = {k \in DOMAIN doc : ~AtFault(doc[k])}
    /\ {skipped[x] : x \in DOMAIN skipped} = {k \in DOMAIN doc : AtFault(doc[k])}
    /\ \A x, y \in DOMAIN out : x < y => out[x].place < out[y].place
    /\ \A x, y \in DOMAIN skipped : x < y => skipped[x] < skipped[y]
=============================================================================
