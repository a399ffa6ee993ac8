-------------------------- MODULE PolicyProperties --------------------------
(***************************************************************************)
(* What the engine promises of a policy's walk, stated against definitions *)
(* that share nothing with its fold: strong Kleene logic over the whole    *)
(* tree, the bracket structure of the observer's calls, and the list of    *)
(* actions.                                                                *)
(***************************************************************************)
EXTENDS PolicyEngine, SequencesExt

Root == Policy[buffer[pix]].rules
Kids(n) == ToSet(Tree[n].children)

Judged == pc \in {"verdict", "policy_exit", "actions", "handler", "policy_done"}

(***************************************************************************)
(* What the walk evaluated.  A table of the buffer may be the child of     *)
(* several others and is then evaluated once for each path to it, so a     *)
(* value belongs to a node at a depth, a place in the unfolded tree.       *)
(***************************************************************************)
ValueEvents == {i \in DOMAIN trace : trace[i].ev = "value"}
Place(e) == <<e.node, e.depth>>
Reached == {Place(trace[i]) : i \in ValueEvents}
Record == [s \in Reached |-> trace[CHOOSE i \in ValueEvents : Place(trace[i]) = s].res]

\* No place had two answers, nor one that is no value (an uninitialised result).
OneAnswer ==
  \A i, j \in ValueEvents :
    /\ trace[i].res \in Results
    /\ Place(trace[i]) = Place(trace[j]) => trace[i].res = trace[j].res

(***************************************************************************)
(* Strong Kleene logic over the places that were reached.  What does not   *)
(* follow from the children is taken from the record: leaves, nodes beyond *)
(* the cap, and an operator outside the enumeration.  What a place that    *)
(* was never reached would have been is taken from a guess.                *)
(***************************************************************************)
Given(s) == Tree[s[1]].kind # "comp" \/ Tree[s[1]].op = "BEYOND" \/ s[2] > MaxEvalDepth
Children(s) == {<<k, s[2] + 1>> : k \in Kids(s[1])}
Unreached == (UNION {Children(s) : s \in {r \in Reached : ~Given(r)}}) \ Reached

Strong(n, kids) ==
  CASE n.op = "AND" -> IF "FALSE" \in kids THEN "FALSE"
                       ELSE IF kids \subseteq {"TRUE"} THEN "TRUE" ELSE "ABSTAIN"
    [] n.op = "OR" -> IF "TRUE" \in kids THEN "TRUE"
                      ELSE IF kids \subseteq {"FALSE"} THEN "FALSE" ELSE "ABSTAIN"
    [] n.op = "NOT" -> IF Len(n.children) # 1 THEN "ABSTAIN"
                       ELSE IF kids = {"TRUE"} THEN "FALSE"
                       ELSE IF kids = {"FALSE"} THEN "TRUE" ELSE "ABSTAIN"
    [] OTHER -> "ABSTAIN"

Kleene(guess) ==
  LET value[s \in Reached] ==
        IF Given(s) THEN Record[s]
        ELSE Strong(Tree[s[1]],
                    {IF k \in Reached THEN value[k] ELSE guess[k] : k \in Children(s)})
  IN  value

\* The result of a policy is the Kleene value of its tree, whatever the values of
\* the nodes that a short circuit never reached: stopping early never changes an
\* answer.
VerdictSound ==
  pc = "verdict" /\ Root # NULL /\ OneAnswer =>
    \A guess \in [Unreached -> Results] : Kleene(guess)[<<Root, 0>>] = verdict

\* "Nodes the evaluation never reached, because a parent short-circuited, are not
\* entered": what was evaluated below the root was evaluated after its elder
\* siblings, all of them, and only if none of them had already decided a parent.
Deciding(op) == IF op = "OR" THEN {"TRUE"} ELSE IF op = "AND" THEN {"FALSE"} ELSE {}
InTurn(i, p, j) ==
  /\ Tree[p].children[j] = trace[i].node
  /\ \A k \in 1 .. j - 1 : \E m \in ValueEvents :
       /\ m < i
       /\ Place(trace[m]) = <<Tree[p].children[k], trace[i].depth>>
       /\ trace[m].res \notin Deciding(Tree[p].op)
StopsWhenDecided ==
  pc = "verdict" =>
    \A i \in ValueEvents :
      trace[i].depth # 0 =>
        \E s \in Reached :
          /\ trace[i].depth = s[2] + 1
          /\ \E j \in DOMAIN Tree[s[1]].children : InTurn(i, s[1], j)

(***************************************************************************)
(* The node callbacks as brackets.  An exit closes an enter of the same    *)
(* node, depth and handle when all that happened between them was deeper.  *)
(***************************************************************************)
Mark(e) == <<e.node, e.depth, e.handle>>
Enters == {i \in DOMAIN trace : trace[i].ev = "node_enter"}
Exits == {i \in DOMAIN trace : trace[i].ev = "node_exit"}
DeeperBetween(i, j) ==
  \A m \in Enters \cup Exits : i < m /\ m < j => trace[m].depth > trace[i].depth
Closes(x, e) == e < x /\ Mark(trace[x]) = Mark(trace[e]) /\ DeeperBetween(e, x)

\* "node_enter always has a matching node_exit and a node is entered before the
\* children it is built from": each exit closes an enter, with its handle; a node
\* is entered inside the bracket of a parent, one level down; and nothing is open
\* once the policy has its result.
WellFramed ==
  watcher # NULL /\ {"node_enter", "node_exit"} \subseteq Callbacks[watcher] =>
    /\ \A x \in Exits : \E e \in Enters : Closes(x, e)
    /\ \A e \in Enters :
         trace[e].depth # 0 =>
           \E p \in Enters :
             /\ p < e /\ trace[e].depth = trace[p].depth + 1
             /\ trace[e].node \in Kids(trace[p].node)
             /\ DeeperBetween(p, e)
    /\ Judged => \A e \in Enters : \E x \in Exits : Closes(x, e)

\* Whatever the host does with its handlers meanwhile, the actions of a policy run
\* in the order of the list, each at most once, and never one with too many values.
\* Unless the host intervenes, they are all those that have a handler, whatever the
\* handlers before returned; only an oversized one that has a handler stops those
\* that follow it.
Undisturbed == \A i \in DOMAIN trace : trace[i].ev # "call"
Handled(i) == GetAction(ctx, Actions[i].id) # NULL
Expected ==
  {i \in DOMAIN Actions : Handled(i) /\
     \A j \in 1 .. i : Handled(j) => ~Actions[j].oversized}
ActionEvents == {i \in DOMAIN trace : trace[i].ev = "action"}
NoActionLost ==
  pc = "policy_done" =>
    /\ \A i, j \in ActionEvents : i < j => trace[i].ix < trace[j].ix
    /\ \A i \in ActionEvents :
         trace[i].ix \in DOMAIN Actions /\ ~Actions[trace[i].ix].oversized
    /\ Undisturbed => {trace[i].ix : i \in ActionEvents} = Expected

\* "Returns the total number of errors encountered during evaluation": a policy
\* with an action that failed does not report success.
FailuresReported ==
  pc = "policy_done" /\ actRes = ESUCCESS =>
    \A i \in DOMAIN trace : trace[i].ev = "action" => trace[i].rc = ESUCCESS

\* The engine "abstains on it rather than treating it as any operator": a node
\* whose operator this version does not know has no result but ABSTAIN.
UnknownOperatorAbstains ==
  \A i \in ValueEvents :
    Tree[trace[i].node].op \in {"UNKNOWN", "BEYOND"} /\ Tree[trace[i].node].kind = "comp"
      => trace[i].res = "ABSTAIN"

\* A buffer that is handed to the engine is done with some time: the walk, the
\* actions and the loop over the policies all end, whatever the callbacks do.
Termination == pc # "idle" ~> pc = "idle"
=============================================================================
