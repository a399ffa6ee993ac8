---------------------------- MODULE MCGoPolicies ----------------------------
(***************************************************************************)
(* One policy with up to three actions, of every kind that is told apart,  *)
(* and documents of up to three policies with one action each.             *)
(***************************************************************************)
EXTENDS GoPolicies

Setting(n, t) == [name |-> n, text |-> t, wellFormed |-> TRUE]
Bad == [Setting("A", "1") EXCEPT !.wellFormed = FALSE]
Gives(x, values) == [action |-> x, values |-> values, tooMany |-> FALSE]
Floods(x) == [action |-> x, values |-> << >>, tooMany |-> TRUE]

MCActions ==
  {Gives("INJECT_ALLOW", << >>), Gives("INJECT_DENY", << >>), Floods("INJECT_DENY"),
   Gives("ENABLE_SDK", <<Setting("A", "1")>>), Gives("ENABLE_SDK", <<Setting("B", "1"), Setting("A", "2")>>),
   Gives("ENABLE_SDK", <<Setting("A", "2"), Bad>>),
   Gives("ENABLE_PROFILER", << >>), Floods("ENABLE_PROFILER"),
   Gives("SET_ENVAR", <<Setting("A", "1")>>), Gives("SET_ENVAR", <<Setting("P", "2"), Setting("A", "2")>>),
   Gives("SET_ENVAR", <<Bad>>), Floods("SET_ENVAR"),
   Gives("other", <<Bad>>), Floods("other")}

Parses(actions) == [parses |-> TRUE, actions |-> actions]
Shapeless == [parses |-> FALSE, actions |-> << >>]

Bounded == INSTANCE SequencesExt
Short == {Parses(s) : s \in Bounded!BoundedSeq({Gives("INJECT_ALLOW", << >>), Gives("SET_ENVAR", <<Bad>>)}, 2)}
           \cup {Shapeless, Parses(<<Floods("SET_ENVAR"), Gives("SET_ENVAR", <<Bad>>)>>)}

MCDocuments ==
  {<<Parses(s)>> : s \in Bounded!BoundedSeq(MCActions, 3)} \cup Bounded!BoundedSeq(Short, 3)
=============================================================================
