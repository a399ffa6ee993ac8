---------------------------- MODULE MCConformance ----------------------------
(***************************************************************************)
(* A node is a document in prefix notation, a sequence of names: a leaf,   *)
(* an operator and two leaves, or an operator, a NOT over one leaf and     *)
(* another leaf.  The leaves are one for each case that either engine      *)
(* tells apart.                                                            *)
(***************************************************************************)
EXTENDS Conformance, TLC

CONSTANT None

Str(i, c, v) ==
  [type |-> "eval", op |-> "AND", children |-> << >>, eval |-> "str", id |-> i, cmp |-> c, value |-> v]
Num(k, c, v) == [Str("heap", c, v) EXCEPT !.eval = k]

MCLeaf ==
  "true" :> Str("ALWAYS_TRUE", "UNKNOWN", Omitted) @@
  "false" :> Str("ALWAYS_FALSE", "UNKNOWN", Omitted) @@
  "abstain" :> Str("ALWAYS_ABSTAIN", "UNKNOWN", Omitted) @@
  "newer id" :> Str("COUNT", "EXACT", "x") @@
  "newer cmp" :> Str("name", "UNKNOWN", "x") @@
  "name" :> Str("name", "EXACT", "x") @@
  "no value" :> Str("name", "PREFIX", Omitted) @@
  "label" :> Str("label", "EXACT", "k=x") @@
  "exists" :> Str("label", "PREFIX", "k=") @@
  "no key" :> Str("label", "PREFIX", "x") @@
  "label cmp" :> Str("label", "UNKNOWN", "k=x") @@
  "argv" :> Str("argv", "EXACT", "x") @@
  "heap" :> Num("num", "EQ", Omitted) @@
  "null" :> Num("num", "EQ", None) @@
  "uheap" :> Num("unum", "GT", "one")

\* Operators of a newer schema, with too many or too few children, or with none:
\* those that are not over two leaves.
MCShape ==
  "empty and" :> <<"AND", << >>>> @@ "empty or" :> <<"OR", << >>>> @@
  "null and" :> <<"AND", None>> @@ "pair not" :> <<"NOT", <<<<"true">>, <<"false">>>>>> @@
  "unknown" :> <<"UNKNOWN", <<<<"true">>>>>> @@ "beyond" :> <<"BEYOND", <<<<"true">>>>>> @@
  "empty beyond" :> <<"BEYOND", << >>>> @@
  "deep" :> <<"OR", <<<<"AND", "NOT", "newer cmp", "true">>, <<"NOT", "name">>>>>> @@
  "deeper" :> <<"AND", <<<<"deep">>, <<"unknown">>>>>>

Names == DOMAIN MCLeaf
Ops == {"AND", "OR"}
Numbers == {"zero", "one", "top", "max"}
MCNumeric == {<<k, c, v>> : k \in {"num", "unum"}, c \in NumCmps, v \in Numbers}
MCNodes ==
  {<<l>> : l \in Names \cup DOMAIN MCShape} \cup {<<"NOT", l>> : l \in Names} \cup
  {<<o, l, r>> : o \in Ops, l \in Names, r \in Names} \cup MCNumeric \cup
  {<<o, "NOT", l, r>> : o \in Ops, l \in Names, r \in Names}

Comp(o, kids) == [Str("none", "UNKNOWN", None) EXCEPT !.type = "comp", !.op = o, !.children = kids]

MCDoc ==
  [n \in MCNodes |->
     CASE Len(n) = 1 /\ n[1] \in Names -> MCLeaf[n[1]]
       [] Len(n) = 1 /\ n[1] \notin Names -> Comp(MCShape[n[1]][1], MCShape[n[1]][2])
       [] Len(n) = 2 -> Comp("NOT", <<<<n[2]>>>>)
       [] n \in MCNumeric -> Num(n[1], n[2], n[3])
       [] Len(n) = 3 /\ n[1] \in Ops -> Comp(n[1], <<<<n[2]>>, <<n[3]>>>>)
       [] Len(n) = 4 -> Comp(n[1], <<<<"NOT", n[3]>>, <<n[4]>>>>)]

NoFacts == << >>
MCFacts ==
  {[strings |-> NoFacts, labels |-> NoFacts, numbers |-> NoFacts, unumbers |-> NoFacts,
    lists |-> NoFacts],
   [strings |-> "name" :> "x", labels |-> "label" :> ("k" :> "x"), numbers |-> "heap" :> "zero",
    unumbers |-> "heap" :> "zero", lists |-> NoFacts],
   [strings |-> "name" :> "y" @@ "argv" :> "x", labels |-> "label" :> ("k" :> "y"),
    numbers |-> "heap" :> "one", unumbers |-> "heap" :> "one", lists |-> NoFacts],
   [strings |-> "name" :> "", labels |-> "label" :> NoFacts, numbers |-> "heap" :> "max",
    unumbers |-> "heap" :> "max", lists |-> NoFacts]}

NumericFacts(v) ==
  [strings |-> NoFacts, labels |-> NoFacts, numbers |-> "heap" :> v, unumbers |-> "heap" :> v,
   lists |-> NoFacts]

\* Every document with every choice of facts, every leaf after a vector that left
\* facts, and an error, in the context, and every comparison of two numbers.
Vector(n, f) == [root |-> n, facts |-> f]
MCCorpora ==
  {<<Vector(n, f)>> : n \in MCNodes, f \in MCFacts} \cup
  {<<Vector(n, NumericFacts(v))>> : n \in MCNumeric, v \in Numbers} \cup
  {<<Vector(<<"newer id">>, f), Vector(<<l>>, g)>> : l \in Names, f \in MCFacts, g \in MCFacts}

MCCut ==
  "k=x" :> [key |-> "k", value |-> "x", found |-> TRUE] @@
  "k=" :> [key |-> "k", value |-> "", found |-> TRUE] @@
  [v \in {"x", "y", ""} |-> [key |-> v, value |-> "", found |-> FALSE]]

MCValues == {None, Omitted, "x", "y", "", "k=x", "k=", "zero", "one", "top", "max"}
MCStrCompare(c, p, v) == p = v \/ (c = "PREFIX" /\ p = "")

\* Numbers of three bits: "top" is the one with only the sign bit.
MCNumber(k, v) ==
  CASE v = "zero" -> 0
    [] v = "one"  -> 1
    [] v = "top"  -> IF k = "num" THEN -4 ELSE 4
    [] v = "max"  -> IF k = "num" THEN 3 ELSE 7
=============================================================================
