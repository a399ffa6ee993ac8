------------------------ MODULE ReaderProperties_proofs ------------------------
(***************************************************************************)
(* The verifier passes exactly the files whose every table can be read,    *)
(* and so the engine is started on these and on no others.                 *)
(*                                                                         *)
(* Both the document and the verifier are recursive functions.  The        *)
(* recursion over a document ends because no node is below itself, that    *)
(* of the verifier is solved by the largest set of tables that vouch for   *)
(* each other, and one solution is as good as another: what is verified    *)
(* at the root is verified along the path to the one table that may be     *)
(* damaged.                                                                *)
(***************************************************************************)
EXTENDS ReaderProperties, FiniteSetTheorems, SequenceTheorems, WellFoundedInduction, TLAPS

-----------------------------------------------------------------------------
(* Documents *)

\* A set of nodes that has the children of its members.
Upheld(S) == \A n \in S : ChildrenOf(Doc[n]) \subseteq S

\* The nodes that can be reached from a node.
Reached(n) == {m \in DocNodes : \A S \in SUBSET DocNodes : n \in S /\ Upheld(S) => m \in S}

\* The children of a node are nodes.
LEMMA Children ==
  ASSUME NEW n \in DocNodes
  PROVE  ChildrenOf(Doc[n]) \subseteq DocNodes
<1>1. CASE Doc[n].type = "CompositeNode" /\ Doc[n].children # NULL
  <2>1. Doc[n].children \in Seq(DocNodes)
    BY <1>1, DocumentsAssumption
  <2> QED BY <1>1, <2>1 DEF ChildrenOf, Range
<1>2. CASE ~(Doc[n].type = "CompositeNode" /\ Doc[n].children # NULL)
  BY <1>2 DEF ChildrenOf
<1> QED BY <1>1, <1>2

\* What can be reached is the node and what can be reached from its children.
LEMMA ReachedEquation ==
  ASSUME NEW n \in DocNodes
  PROVE  Reached(n) = {n} \cup UNION {Reached(c) : c \in ChildrenOf(Doc[n])}
<1>1. PICK U : U = {n} \cup UNION {Reached(c) : c \in ChildrenOf(Doc[n])}
  OBVIOUS
<1>2. U \in SUBSET DocNodes
  BY <1>1 DEF Reached
<1>3. n \in U /\ \A c \in ChildrenOf(Doc[n]) : Reached(c) \subseteq U
  BY <1>1
<1>4. \A c \in DocNodes : c \in Reached(c)
  BY DEF Reached
<1>5. \A c \in DocNodes : Upheld(Reached(c))
  <2> SUFFICES ASSUME NEW c \in DocNodes, NEW m \in Reached(c), NEW k \in ChildrenOf(Doc[m])
               PROVE  k \in Reached(c)
    BY DEF Upheld
  <2>1. m \in DocNodes /\ k \in DocNodes
    BY Children DEF Reached
  <2>2. ASSUME NEW S \in SUBSET DocNodes, c \in S, Upheld(S) PROVE k \in S
    <3>1. m \in S
      BY <2>2 DEF Reached
    <3> QED BY <2>2, <3>1 DEF Upheld
  <2> QED BY <2>1, <2>2 DEF Reached
<1>6. Upheld(U)
  <2> SUFFICES ASSUME NEW m \in U PROVE ChildrenOf(Doc[m]) \subseteq U
    BY DEF Upheld
  <2>1. CASE m = n
    BY <1>3, <1>4, <2>1, Children
  <2>2. CASE m # n
    <3>1. PICK c \in ChildrenOf(Doc[n]) : m \in Reached(c)
      BY <1>1, <2>2
    <3>2. ChildrenOf(Doc[m]) \subseteq Reached(c)
      BY <1>5, <3>1, Children DEF Upheld
    <3> QED BY <1>3, <3>2
  <2> QED BY <2>1, <2>2
<1>7. Reached(n) \subseteq U
  BY <1>2, <1>3, <1>6 DEF Reached
<1>8. U \subseteq Reached(n)
  <2>1. n \in Reached(n)
    BY <1>4
  <2>2. ASSUME NEW c \in ChildrenOf(Doc[n]), NEW m \in Reached(c) PROVE m \in Reached(n)
    <3>1. m \in DocNodes
      BY DEF Reached
    <3>2. ASSUME NEW S \in SUBSET DocNodes, n \in S, Upheld(S) PROVE m \in S
      <4>1. c \in S
        BY <3>2 DEF Upheld
      <4> QED BY <3>2, <4>1 DEF Reached
    <3> QED BY <3>1, <3>2 DEF Reached
  <2> QED BY <1>1, <2>1, <2>2
<1> QED BY <1>1, <1>7, <1>8

\* Below is a solution of its recursion.
LEMMA BelowEquation ==
  \A n \in DocNodes : Below[n] = {n} \cup UNION {Below[c] : c \in ChildrenOf(Doc[n])}
<1> DEFINE P(f) == f = [n \in DocNodes |-> {n} \cup UNION {f[c] : c \in ChildrenOf(Doc[n])}]
<1>1. PICK f : f = CHOOSE g : P(g)
  OBVIOUS
<1>2. Below = f
  BY <1>1 DEF Below
<1>3. P([n \in DocNodes |-> Reached(n)])
  <2>1. PICK g : g = [n \in DocNodes |-> Reached(n)]
    OBVIOUS
  <2>2. ASSUME NEW n \in DocNodes
        PROVE  g[n] = {n} \cup UNION {g[c] : c \in ChildrenOf(Doc[n])}
    <3>1. \A c \in ChildrenOf(Doc[n]) : g[c] = Reached(c)
      BY <2>1, Children
    <3>2. {g[c] : c \in ChildrenOf(Doc[n])} = {Reached(c) : c \in ChildrenOf(Doc[n])}
      BY <3>1
    <3>3. g[n] = Reached(n)
      BY <2>1
    <3> QED BY <3>2, <3>3, ReachedEquation
  <2>3. g = [n \in DocNodes |-> {n} \cup UNION {g[c] : c \in ChildrenOf(Doc[n])}]
    BY ONLY <2>1, <2>2, Zenon
  <2> QED BY ONLY <2>1, <2>3
<1> HIDE DEF P
<1>4. P(f)
  BY <1>1, <1>3
<1>5. f = [n \in DocNodes |-> {n} \cup UNION {f[c] : c \in ChildrenOf(Doc[n])}]
  BY ONLY <1>4 DEF P
<1>6. PICK h : h = [n \in DocNodes |-> {n} \cup UNION {f[c] : c \in ChildrenOf(Doc[n])}]
  OBVIOUS
<1>7. \A n \in DocNodes : h[n] = {n} \cup UNION {f[c] : c \in ChildrenOf(Doc[n])}
  BY ONLY <1>6
<1>8. Below = h
  BY ONLY <1>2, <1>5, <1>6
<1>9. f = Below
  BY ONLY <1>2
<1> QED BY ONLY <1>7, <1>8, <1>9

\* Below holds nodes only, a node is not below its children, and what is below
\* these is less.
LEMMA BelowShrinks ==
  ASSUME NEW n \in DocNodes
  PROVE  /\ n \in Below[n]
         /\ \A c \in ChildrenOf(Doc[n]) : c \in DocNodes /\ Below[c] \subseteq Below[n] /\ n \notin Below[c]
         /\ \A m \in Below[n] \ {n} : \E c \in ChildrenOf(Doc[n]) : m \in Below[c]
<1>1. Below[n] = {n} \cup UNION {Below[c] : c \in ChildrenOf(Doc[n])}
  BY BelowEquation
<1>2. \A c \in ChildrenOf(Doc[n]) : c \in DocNodes /\ n \notin Below[c]
  BY Children, DocumentsAssumption
<1> QED BY <1>1, <1>2

\* Of some nodes one is lowest.
LEMMA LowestNode ==
  ASSUME NEW S \in SUBSET DocNodes, S # {}
  PROVE  \E n \in S : \A c \in ChildrenOf(Doc[n]) : c \notin S
<1> DEFINE Size(n) == Cardinality(Below[n] \cap DocNodes)
<1>1. IsFiniteSet(DocNodes)
  BY DocumentsAssumption
<1>2. \A n : Size(n) \in Nat
  <2>1. \A n : IsFiniteSet(Below[n] \cap DocNodes)
    BY <1>1, FS_Subset
  <2> QED BY <2>1, FS_CardinalityType
<1>3. \A n \in DocNodes : \A c \in ChildrenOf(Doc[n]) : Size(c) < Size(n)
  <2> SUFFICES ASSUME NEW n \in DocNodes, NEW c \in ChildrenOf(Doc[n]) PROVE Size(c) < Size(n)
    OBVIOUS
  <2>1. PICK A : A = Below[c] \cap DocNodes
    OBVIOUS
  <2>2. PICK B : B = Below[n] \cap DocNodes
    OBVIOUS
  <2>3. A \subseteq B /\ n \in B /\ n \notin A /\ IsFiniteSet(B)
    BY <1>1, <2>1, <2>2, BelowShrinks, FS_Subset
  <2>4. Cardinality(A) <= Cardinality(B) /\ Cardinality(A) # Cardinality(B)
    BY <2>3, FS_Subset
  <2>5. Size(c) = Cardinality(A) /\ Size(n) = Cardinality(B)
    BY <2>1, <2>2
  <2> QED BY <1>2, <2>4, <2>5
<1> HIDE DEF Size
<1>4. PICK M \in SUBSET Nat : M = {Size(n) : n \in S}
  BY <1>2
<1>5. PICK k \in M : \A l \in M : ~(<<l, k>> \in OpToRel(<, Nat))
  <2>1. M # {}
    BY <1>4
  <2> QED BY <2>1, NatLessThanWellFounded, WFMin
<1>6. PICK n \in S : Size(n) = k
  BY <1>4
<1>7. ASSUME NEW c \in ChildrenOf(Doc[n]), c \in S PROVE FALSE
  <2>1. Size(c) \in M /\ Size(c) < k
    BY <1>3, <1>4, <1>6, <1>7
  <2> QED BY <1>5, <2>1 DEF OpToRel
<1> QED BY <1>7

\* Below holds nodes, with their children.
LEMMA BelowNodes ==
  ASSUME NEW r \in DocNodes
  PROVE  /\ Below[r] \subseteq DocNodes
         /\ \A n \in Below[r] : ChildrenOf(Doc[n]) \subseteq Below[r]
<1>1. ASSUME NEW n \in Below[r], n \notin DocNodes PROVE FALSE
  <2>1. PICK S \in SUBSET DocNodes : S = {m \in DocNodes : n \in Below[m]}
    OBVIOUS
  <2>2. PICK m \in S : \A c \in ChildrenOf(Doc[m]) : c \notin S
    BY <1>1, <2>1, LowestNode
  <2>3. n \in Below[m] \ {m}
    BY <1>1, <2>1
  <2> QED BY <2>1, <2>2, <2>3, BelowShrinks
<1>2. ASSUME NEW n \in Below[r], NEW c \in ChildrenOf(Doc[n]), c \notin Below[r] PROVE FALSE
  <2>1. PICK S \in SUBSET DocNodes : S = {m \in DocNodes : n \in Below[m] /\ c \notin Below[m]}
    OBVIOUS
  <2>2. PICK m \in S : \A k \in ChildrenOf(Doc[m]) : k \notin S
    BY <1>2, <2>1, LowestNode
  <2>3. m # n
    BY <1>2, <2>1, <2>2, BelowShrinks
  <2>4. PICK k \in ChildrenOf(Doc[m]) : n \in Below[k] /\ k \in DocNodes /\ Below[k] \subseteq Below[m]
    BY <2>1, <2>3, BelowShrinks
  <2> QED BY <2>1, <2>2, <2>4
<1> QED BY <1>1, <1>2

-----------------------------------------------------------------------------
(* Tables *)

\* The fields of a table.
LEMMA FieldsOf ==
  /\ Fields(<< >>) = [i \in {} |-> NULL]
  /\ \A a : DOMAIN Fields(<<a>>) = {0} /\ Fields(<<a>>)[0] = a
  /\ \A a, b : DOMAIN Fields(<<a, b>>) = {0, 1} /\ Fields(<<a, b>>)[0] = a /\ Fields(<<a, b>>)[1] = b
  /\ \A a, b, c : /\ DOMAIN Fields(<<a, b, c>>) = {0, 1, 2}
                  /\ Fields(<<a, b, c>>)[0] = a /\ Fields(<<a, b, c>>)[1] = b
                  /\ Fields(<<a, b, c>>)[2] = c
  /\ \A a, b, c, d, e : /\ DOMAIN Fields(<<a, b, c, d, e>>) = {0, 1, 2, 3, 4}
                        /\ Fields(<<a, b, c, d, e>>)[1] = b /\ Fields(<<a, b, c, d, e>>)[2] = c
<1>1. \A n \in Nat : 0 .. n - 1 = {i \in Nat : i < n}
  OBVIOUS
<1>2. Fields(<< >>) = [i \in {} |-> NULL]
  <2>1. 0 .. Len(<< >>) - 1 = {}
    OBVIOUS
  <2> QED BY <2>1 DEF Fields
<1>3. \A a : DOMAIN Fields(<<a>>) = {0} /\ Fields(<<a>>)[0] = a
  BY DEF Fields
<1>4. \A a, b : DOMAIN Fields(<<a, b>>) = {0, 1} /\ Fields(<<a, b>>)[0] = a /\ Fields(<<a, b>>)[1] = b
  BY DEF Fields
<1>5. \A a, b, c : /\ DOMAIN Fields(<<a, b, c>>) = {0, 1, 2}
                   /\ Fields(<<a, b, c>>)[0] = a /\ Fields(<<a, b, c>>)[1] = b
                   /\ Fields(<<a, b, c>>)[2] = c
  BY DEF Fields
<1>6. \A a, b, c, d, e : /\ DOMAIN Fields(<<a, b, c, d, e>>) = {0, 1, 2, 3, 4}
                         /\ Fields(<<a, b, c, d, e>>)[1] = b /\ Fields(<<a, b, c, d, e>>)[2] = c
  BY DEF Fields
<1> QED BY <1>2, <1>3, <1>4, <1>5, <1>6

\* The numbers of the variants: 0 is NONE, and a new one's is beyond the others'.
LEMMA VariantNumbers ==
  /\ Range(NodeType) = {"NONE", "EvaluatorNode", "CompositeNode"}
  /\ Range(EvaluatorType) = {"NONE", "StrEvaluator", "NumEvaluator", "UNumEvaluator"}
  /\ Len(NodeType) = 3 /\ Len(EvaluatorType) = 4
  /\ \A x : /\ UnionNumber(NodeType, x) \in Nat
            /\ UnionNumber(NodeType, x) = 0 <=> x = "NONE"
            /\ UnionNumber(NodeType, x) <= 2 <=> x \in Range(NodeType)
  /\ \A x : /\ UnionNumber(EvaluatorType, x) \in Nat
            /\ UnionNumber(EvaluatorType, x) = 0 <=> x = "NONE"
            /\ UnionNumber(EvaluatorType, x) <= 3 <=> x \in Range(EvaluatorType)
<1>1. Range(NodeType) = {"NONE", "EvaluatorNode", "CompositeNode"} /\ Len(NodeType) = 3
  BY DEF Range, NodeType
<1>2. Range(EvaluatorType) = {"NONE", "StrEvaluator", "NumEvaluator", "UNumEvaluator"} /\ Len(EvaluatorType) = 4
  BY DEF Range, EvaluatorType
<1>3. /\ NodeType[1] = "NONE" /\ NodeType[2] = "EvaluatorNode" /\ NodeType[3] = "CompositeNode"
      /\ EvaluatorType[1] = "NONE" /\ EvaluatorType[2] = "StrEvaluator" /\ EvaluatorType[3] = "NumEvaluator"
      /\ EvaluatorType[4] = "UNumEvaluator"
  BY DEF NodeType, EvaluatorType
<1>4. /\ NumberOf(NodeType, "NONE") = 0
      /\ NumberOf(NodeType, "EvaluatorNode") = 1
      /\ NumberOf(NodeType, "CompositeNode") = 2
  BY <1>1, <1>3 DEF NumberOf
<1>5. /\ NumberOf(EvaluatorType, "NONE") = 0
      /\ NumberOf(EvaluatorType, "StrEvaluator") = 1
      /\ NumberOf(EvaluatorType, "NumEvaluator") = 2
      /\ NumberOf(EvaluatorType, "UNumEvaluator") = 3
  BY <1>2, <1>3 DEF NumberOf
<1>6. \A x : /\ UnionNumber(NodeType, x) \in Nat
             /\ UnionNumber(NodeType, x) = 0 <=> x = "NONE"
             /\ UnionNumber(NodeType, x) <= 2 <=> x \in Range(NodeType)
  BY <1>1, <1>4 DEF UnionNumber
<1>7. \A x : /\ UnionNumber(EvaluatorType, x) \in Nat
             /\ UnionNumber(EvaluatorType, x) = 0 <=> x = "NONE"
             /\ UnionNumber(EvaluatorType, x) <= 3 <=> x \in Range(EvaluatorType)
  BY <1>2, <1>5 DEF UnionNumber
<1> QED BY <1>1, <1>2, <1>6, <1>7

\* What the compiler writes for a table.
Intact(f, t) == Compiled(File[f].schema, t[1], t[2])

\* What the compiler writes, by the kind of table.
LEMMA CompiledPolicies ==
  ASSUME NEW schema, NEW at
  PROVE  Compiled(schema, "Policies", at) = Fields(<<Refs("Policy", at)>>)
BY DEF Compiled

LEMMA CompiledPolicy ==
  ASSUME NEW schema, NEW at
  PROVE  Compiled(schema, "Policy", at) = PolicyTable(at, DocPolicy[at])
BY DEF Compiled

LEMMA CompiledAction ==
  ASSUME NEW schema, NEW at
  PROVE  Compiled(schema, "Action", at) = ActionTable(schema, at, DocPolicy[at[1]].actions[at[2]])
BY DEF Compiled

LEMMA CompiledNode ==
  ASSUME NEW schema, NEW role, NEW at, role \notin {"Policies", "Policy", "Action"}
  PROVE  Compiled(schema, role, at) = NodeTable(schema, role, at, Doc[at])
BY DEF Compiled

\* The nodes of a file are nodes, with their children, and each is below the rules of
\* a policy of the file.
LEMMA NodesInFile ==
  ASSUME NEW f \in Files
  PROVE  /\ Range(File[f].doc) \subseteq DocPolicies
         /\ NodesOf(File[f]) \subseteq DocNodes
         /\ \A p \in Range(File[f].doc) :
              DocPolicy[p].rules # NULL => DocPolicy[p].rules \in NodesOf(File[f])
         /\ \A n \in NodesOf(File[f]) : ChildrenOf(Doc[n]) \subseteq NodesOf(File[f])
         /\ \A n \in NodesOf(File[f]) : \E p \in Range(File[f].doc) :
              DocPolicy[p].rules \in DocNodes /\ DocPolicy[p].rules # NULL /\ n \in Below[DocPolicy[p].rules]
<1>1. PICK P : P = Range(File[f].doc)
  OBVIOUS
<1>2. P \subseteq DocPolicies
  BY <1>1, FilesAssumption DEF Range
<1>3. \A p \in P : DocPolicy[p].rules # NULL => DocPolicy[p].rules \in DocNodes
  BY <1>2, DocumentsAssumption
<1>4. PICK Q : Q = {q \in P : DocPolicy[q].rules # NULL}
  OBVIOUS
<1>5. NodesOf(File[f]) = UNION {Below[DocPolicy[p].rules] : p \in Q}
  BY <1>1, <1>4 DEF NodesOf
<1>6. \A p \in Q : /\ DocPolicy[p].rules \in DocNodes
                   /\ DocPolicy[p].rules \in Below[DocPolicy[p].rules]
                   /\ Below[DocPolicy[p].rules] \subseteq DocNodes
                   /\ \A n \in Below[DocPolicy[p].rules] : ChildrenOf(Doc[n]) \subseteq Below[DocPolicy[p].rules]
  BY <1>3, <1>4, BelowShrinks, BelowNodes
<1>7. NodesOf(File[f]) \subseteq DocNodes
  BY <1>5, <1>6
<1>8. \A p \in P : DocPolicy[p].rules # NULL => DocPolicy[p].rules \in NodesOf(File[f])
  BY <1>4, <1>5, <1>6
<1>9. ASSUME NEW n \in NodesOf(File[f])
      PROVE  /\ ChildrenOf(Doc[n]) \subseteq NodesOf(File[f])
             /\ \E p \in P : DocPolicy[p].rules \in DocNodes /\ DocPolicy[p].rules # NULL /\ n \in Below[DocPolicy[p].rules]
  <2>1. PICK p \in Q : n \in Below[DocPolicy[p].rules]
    BY <1>5
  <2>2. ChildrenOf(Doc[n]) \subseteq Below[DocPolicy[p].rules]
    BY <1>6, <2>1
  <2>3. Below[DocPolicy[p].rules] \subseteq NodesOf(File[f])
    BY <1>5
  <2> QED BY <1>4, <1>6, <2>1, <2>2, <2>3
<1> QED BY <1>1, <1>2, <1>7, <1>8, <1>9

\* The tables of a file, by their kind.
LEMMA TableKinds ==
  ASSUME NEW f \in Files, NEW t \in Tables(File[f])
  PROVE  /\ t = <<t[1], t[2]>>
         /\ t[1] = "Policies" => t = Root(File[f])
         /\ t[1] = "Policy" => t[2] \in Range(File[f].doc)
         /\ t[1] = "Action" => \E p \in Range(File[f].doc) : \E i \in DOMAIN DocPolicy[p].actions : t[2] = <<p, i>>
         /\ t[1] = "NodeTypeWrapper" => t[2] \in NodesOf(File[f])
         /\ t[1] = "CompositeNode" => t[2] \in NodesOf(File[f]) /\ Doc[t[2]].type = "CompositeNode"
         /\ t[1] = "EvaluatorNode" => t[2] \in NodesOf(File[f]) /\ Doc[t[2]].type = "EvaluatorNode"
         /\ t[1] \in {"StrEvaluator", "NumEvaluator", "UNumEvaluator"} =>
              t[2] \in NodesOf(File[f]) /\ Doc[t[2]].type = "EvaluatorNode" /\ Doc[t[2]].eval = t[1]
<1> DEFINE Kinded ==
     /\ t = <<t[1], t[2]>>
     /\ t[1] = "Policies" => t = Root(File[f])
     /\ t[1] = "Policy" => t[2] \in Range(File[f].doc)
     /\ t[1] = "Action" => \E p \in Range(File[f].doc) : \E i \in DOMAIN DocPolicy[p].actions : t[2] = <<p, i>>
     /\ t[1] = "NodeTypeWrapper" => t[2] \in NodesOf(File[f])
     /\ t[1] = "CompositeNode" => t[2] \in NodesOf(File[f]) /\ Doc[t[2]].type = "CompositeNode"
     /\ t[1] = "EvaluatorNode" => t[2] \in NodesOf(File[f]) /\ Doc[t[2]].type = "EvaluatorNode"
     /\ t[1] \in {"StrEvaluator", "NumEvaluator", "UNumEvaluator"} =>
          t[2] \in NodesOf(File[f]) /\ Doc[t[2]].type = "EvaluatorNode" /\ Doc[t[2]].eval = t[1]
<1>1. ASSUME t = Root(File[f]) PROVE Kinded
  BY <1>1 DEF Root
<1>2. ASSUME \E p \in Range(File[f].doc) : t = <<"Policy", p>> PROVE Kinded
  BY <1>2
<1>3. ASSUME \E p \in Range(File[f].doc) : \E i \in DOMAIN DocPolicy[p].actions : t = <<"Action", <<p, i>>>>
      PROVE  Kinded
  BY <1>3
<1>4. ASSUME NEW n \in NodesOf(File[f]), t \in {<<"NodeTypeWrapper", n>>, <<Doc[n].type, n>>, <<Doc[n].eval, n>>}
      PROVE  Kinded
  <2>1. n \in DocNodes
    BY NodesInFile
  <2>2. /\ Doc[n].type \notin Roles \ Range(NodeType)
        /\ Doc[n].eval \notin Roles \ Range(EvaluatorType)
        /\ Doc[n].type # "EvaluatorNode" => Doc[n].eval = "NONE"
    BY <2>1, DocumentsAssumption
  <2>3. /\ Doc[n].type \notin Roles \ {"EvaluatorNode", "CompositeNode"}
        /\ Doc[n].eval \notin Roles \ {"StrEvaluator", "NumEvaluator", "UNumEvaluator"}
    BY <2>2, VariantNumbers DEF Roles
  <2>4. CASE t = <<"NodeTypeWrapper", n>>
    BY <2>4
  <2>5. CASE t = <<Doc[n].type, n>>
    BY <2>3, <2>5 DEF Roles
  <2>6. CASE t = <<Doc[n].eval, n>>
    BY <2>2, <2>3, <2>6 DEF Roles
  <2> QED BY <1>4, <2>4, <2>5, <2>6
<1>5. \/ t = Root(File[f])
      \/ \E p \in Range(File[f].doc) : t = <<"Policy", p>>
      \/ \E p \in Range(File[f].doc) : \E i \in DOMAIN DocPolicy[p].actions : t = <<"Action", <<p, i>>>>
      \/ \E n \in NodesOf(File[f]) : t \in {<<"NodeTypeWrapper", n>>, <<Doc[n].type, n>>, <<Doc[n].eval, n>>}
  BY DEF Tables
<1> HIDE DEF Kinded
<1>6. Kinded
  BY <1>1, <1>2, <1>3, <1>4, <1>5
<1> QED BY <1>6 DEF Kinded

-----------------------------------------------------------------------------
(* What is in a file *)

\* The fields of a table of a file.
Stored(f, t) == Bytes[f][t]

\* A file has the tables that were compiled, with their fields, and of one at most a
\* field is another than the compiler's.
Hurt(f, t) ==
  \E i \in DOMAIN Intact(f, t) : \E x \in {NULL, Dangling} :
    /\ Intact(f, t)[i] # NULL
    /\ Stored(f, t) = [Intact(f, t) EXCEPT ![i] = x]

LEMMA StoredTables ==
  ASSUME NEW f \in Files
  PROVE  /\ DOMAIN Bytes[f] = Tables(File[f])
         /\ \/ \A t \in Tables(File[f]) : Stored(f, t) = Intact(f, t)
            \/ \E h \in Tables(File[f]) : Hurt(f, h) /\ \A t \in Tables(File[f]) \ {h} : Stored(f, t) = Intact(f, t)
<1>1. Bytes[f] = Contents(File[f])
  BY BytesAssumption DEF FileBytes
<1>2. DOMAIN Bytes[f] = Tables(File[f])
  BY <1>1 DEF Contents
<1>3. \A t \in Tables(File[f]) : Stored(f, t) = Damaged(File[f].flaw, t, Intact(f, t))
  BY <1>1 DEF Contents, Stored, Intact
<1>4. PICK flaw : flaw = File[f].flaw
  OBVIOUS
<1>5. CASE flaw = NULL
  BY <1>2, <1>3, <1>4, <1>5 DEF Damaged
<1>6. CASE flaw # NULL
  <2>1. flaw \in Flaws(File[f])
    BY <1>4, <1>6, FilesAssumption
  <2>2. PICK h \in Tables(File[f]) : flaw \in [table : {h}, field : Present(Intact(f, h)), lost : BOOLEAN]
    BY <2>1 DEF Flaws, Intact
  <2>3. flaw.table = h /\ flaw.field \in Present(Intact(f, h))
    BY <2>2
  <2>4. \A t \in Tables(File[f]) \ {h} : Stored(f, t) = Intact(f, t)
    BY <1>3, <1>4, <2>3 DEF Damaged
  <2>5. PICK x \in {NULL, Dangling} : x = IF flaw.lost THEN NULL ELSE Dangling
    OBVIOUS
  <2>6. Stored(f, h) = [Intact(f, h) EXCEPT ![flaw.field] = x]
    BY <1>3, <1>4, <1>6, <2>3, <2>5 DEF Damaged
  <2>7. Hurt(f, h)
    BY <2>3, <2>6 DEF Hurt, Present
  <2> QED BY <1>2, <2>4, <2>7
<1> QED BY <1>5, <1>6

\* A field is what was compiled, or lost, or leads nowhere.
LEMMA StoredFields ==
  ASSUME NEW f \in Files, NEW t \in Tables(File[f])
  PROVE  /\ DOMAIN Stored(f, t) = DOMAIN Intact(f, t)
         /\ \A i \in DOMAIN Stored(f, t) : Stored(f, t)[i] \in {Intact(f, t)[i], NULL, Dangling}
<1>1. CASE Stored(f, t) = Intact(f, t)
  BY <1>1
<1>2. CASE Hurt(f, t)
  <2>1. PICK i \in DOMAIN Intact(f, t), x \in {NULL, Dangling} : Stored(f, t) = [Intact(f, t) EXCEPT ![i] = x]
    BY <1>2 DEF Hurt
  <2>2. PICK F : F = Intact(f, t)
    OBVIOUS
  <2>3. Stored(f, t) = [F EXCEPT ![i] = x]
    BY <2>1, <2>2
  <2>4. DOMAIN Stored(f, t) = DOMAIN F /\ \A j \in DOMAIN F : Stored(f, t)[j] \in {F[j], x}
    BY <2>3
  <2> QED BY <2>1, <2>2, <2>4
<1> QED BY <1>1, <1>2, StoredTables

\* The tables that the parts of a document were compiled to.
LEMMA TablesOf ==
  ASSUME NEW f \in Files
  PROVE  /\ Root(File[f]) \in Tables(File[f])
         /\ \A p \in Range(File[f].doc) : <<"Policy", p>> \in Tables(File[f])
         /\ \A p \in Range(File[f].doc) : \A i \in DOMAIN DocPolicy[p].actions :
              <<"Action", <<p, i>>>> \in Tables(File[f])
         /\ \A n \in NodesOf(File[f]) : /\ <<"NodeTypeWrapper", n>> \in Tables(File[f])
                                        /\ <<Doc[n].type, n>> \in Tables(File[f])
                                        /\ <<Doc[n].eval, n>> \in Tables(File[f])
BY DEF Tables

\* What refers to tables is not NULL, and no number is.
LEMMA Solid ==
  /\ \A n \in Nat : n # NULL
  /\ \A n \in DocNodes : n # NULL
  /\ \A f \in Files : /\ File[f].doc # NULL
                      /\ \A t \in Tables(File[f]) : t # NULL
                      /\ \A s \in Seq(Tables(File[f])) : s # NULL
<1>1. \A f \in Files : File[f].doc \in Seq(DocPolicies)
  BY FilesAssumption
<1> QED BY <1>1, OffsetsAssumption

\* The fields of the compiler's tables that lead to others.
LEMMA IntactPolicies ==
  ASSUME NEW f \in Files, NEW t \in Tables(File[f]), t[1] = "Policies"
  PROVE  /\ DOMAIN Intact(f, t) = {0}
         /\ Intact(f, t)[0] # NULL
         /\ \A u : u \in Range(Intact(f, t)[0]) <=> \E p \in Range(File[f].doc) : u = <<"Policy", p>>
<1>1. t[2] = File[f].doc
  BY TableKinds DEF Root
<1>2. File[f].doc \in Seq(DocPolicies) /\ File[f].doc # NULL
  BY FilesAssumption, Solid
<1>3. PICK doc \in Seq(DocPolicies) : doc = File[f].doc
  BY <1>2
<1>4. PICK refs : refs = [i \in DOMAIN doc |-> <<"Policy", doc[i]>>]
  OBVIOUS
<1>5. Refs("Policy", doc) = refs
  BY <1>2, <1>3, <1>4 DEF Refs
<1>6. DOMAIN Intact(f, t) = {0} /\ Intact(f, t)[0] = refs
  <2>1. Intact(f, t) = Fields(<<refs>>)
    BY <1>1, <1>3, <1>5, CompiledPolicies DEF Intact
  <2> QED BY <2>1, FieldsOf
<1>7. \A i \in DOMAIN doc : refs[i] = <<"Policy", doc[i]>> /\ doc[i] \in Range(doc)
  BY <1>4 DEF Range
<1>8. refs \in Seq(Tables(File[f]))
  <2>1. Len(doc) \in Nat /\ DOMAIN doc = 1 .. Len(doc)
    OBVIOUS
  <2>2. \A i \in 1 .. Len(doc) : <<"Policy", doc[i]>> \in Tables(File[f])
    BY <1>3, <1>7, <2>1, TablesOf
  <2> QED BY <1>4, <2>1, <2>2
<1>9. \A u : u \in Range(refs) <=> \E p \in Range(doc) : u = <<"Policy", p>>
  BY <1>4 DEF Range
<1> QED BY <1>3, <1>6, <1>8, <1>9, Solid

LEMMA IntactPolicy ==
  ASSUME NEW f \in Files, NEW t \in Tables(File[f]), t[1] = "Policy"
  PROVE  /\ DOMAIN Intact(f, t) = {0, 1, 2, 3, 4}
         /\ Intact(f, t)[1] = IF DocPolicy[t[2]].rules = NULL THEN NULL
                              ELSE <<"NodeTypeWrapper", DocPolicy[t[2]].rules>>
         /\ Intact(f, t)[2] # NULL
         /\ \A i \in DOMAIN DocPolicy[t[2]].actions : <<"Action", <<t[2], i>>>> \in Range(Intact(f, t)[2])
         /\ \A u \in Range(Intact(f, t)[2]) :
              \E i \in DOMAIN DocPolicy[t[2]].actions : u = <<"Action", <<t[2], i>>>>
<1>1. PICK p \in Range(File[f].doc) : p = t[2]
  BY TableKinds
<1>2. p \in DocPolicies
  BY NodesInFile
<1>3. PICK actions : actions = DocPolicy[p].actions
  OBVIOUS
<1>4. actions \in Seq(Range(actions))
  BY <1>2, <1>3, DocumentsAssumption
<1>5. Len(actions) \in Nat /\ DOMAIN actions = 1 .. Len(actions)
  BY <1>4
<1>6. PICK ats : ats = [i \in DOMAIN actions |-> <<p, i>>]
  OBVIOUS
<1>7. ats # NULL
  <2>1. ats \in Seq(DocPolicies \X Nat)
    BY <1>2, <1>5, <1>6
  <2> QED BY <2>1, OffsetsAssumption
<1>8. PICK refs : refs = [i \in DOMAIN actions |-> <<"Action", <<p, i>>>>]
  OBVIOUS
<1>9. Refs("Action", ats) = refs
  BY <1>6, <1>7, <1>8 DEF Refs
<1>10. /\ DOMAIN Intact(f, t) = {0, 1, 2, 3, 4}
       /\ Intact(f, t)[1] = Ref("NodeTypeWrapper", DocPolicy[p].rules)
       /\ Intact(f, t)[2] = refs
  <2>1. Intact(f, t) = PolicyTable(p, DocPolicy[p])
    BY <1>1, CompiledPolicy DEF Intact
  <2>2. PICK rules : rules = Ref("NodeTypeWrapper", DocPolicy[p].rules)
    OBVIOUS
  <2>3. Intact(f, t) = Fields(<<p, rules, refs, p, p>>)
    BY <1>3, <1>6, <1>9, <2>1, <2>2 DEF PolicyTable
  <2> QED BY <2>2, <2>3, FieldsOf
<1>11. refs \in Seq(Tables(File[f]))
  <2>1. \A i \in 1 .. Len(actions) : <<"Action", <<p, i>>>> \in Tables(File[f])
    BY <1>3, <1>5, TablesOf
  <2> QED BY <1>5, <1>8, <2>1
<1>12. /\ \A i \in DOMAIN actions : <<"Action", <<p, i>>>> \in Range(refs)
       /\ \A u \in Range(refs) : \E i \in DOMAIN actions : u = <<"Action", <<p, i>>>>
  BY <1>8 DEF Range
<1>13. Ref("NodeTypeWrapper", DocPolicy[p].rules) =
         IF DocPolicy[p].rules = NULL THEN NULL ELSE <<"NodeTypeWrapper", DocPolicy[p].rules>>
  BY DEF Ref
<1> QED BY <1>1, <1>3, <1>10, <1>11, <1>12, <1>13, Solid

LEMMA IntactWrapper ==
  ASSUME NEW f \in Files, NEW t \in Tables(File[f]), t[1] = "NodeTypeWrapper"
  PROVE  /\ DOMAIN Intact(f, t) = {0, 1}
         /\ Doc[t[2]].type = "NONE" => Intact(f, t)[0] = NULL /\ Intact(f, t)[1] = NULL
         /\ Doc[t[2]].type # "NONE" =>
              /\ Intact(f, t)[0] \in Nat /\ Intact(f, t)[0] # NULL /\ Intact(f, t)[1] # NULL
              /\ Intact(f, t)[0] <= 2 => Doc[t[2]].type \in {"EvaluatorNode", "CompositeNode"}
              /\ Doc[t[2]].type \in {"EvaluatorNode", "CompositeNode"} => Intact(f, t)[0] <= 2
              /\ Intact(f, t)[1] = <<Doc[t[2]].type, t[2]>>
<1>1. PICK n \in NodesOf(File[f]) : n = t[2]
  BY TableKinds
<1>2. PICK number : number = UnionNumber(NodeType, Doc[n].type)
  OBVIOUS
<1>3. /\ DOMAIN Intact(f, t) = {0, 1}
      /\ Intact(f, t)[0] = Scalar(number)
      /\ Intact(f, t)[1] = Ref(Doc[n].type, n)
  <2>1. Intact(f, t) = NodeTable(File[f].schema, "NodeTypeWrapper", n, Doc[n])
    BY <1>1, CompiledNode DEF Intact
  <2>2. Intact(f, t) = Fields(<<Scalar(number), Ref(Doc[n].type, n)>>)
    BY <1>2, <2>1 DEF NodeTable
  <2> QED BY <2>2, FieldsOf
<1>4. number \in Nat /\ (number = 0 <=> Doc[n].type = "NONE")
  BY <1>2, VariantNumbers
<1>5. number <= 2 => Doc[n].type \in {"NONE", "EvaluatorNode", "CompositeNode"}
  BY <1>2, VariantNumbers
<1>6. Doc[n].type \in {"EvaluatorNode", "CompositeNode"} => number <= 2
  BY <1>2, VariantNumbers
<1>7. n # NULL /\ <<Doc[n].type, n>> # NULL /\ number # NULL
  BY <1>4, NodesInFile, TablesOf, Solid
<1> QED BY <1>1, <1>3, <1>4, <1>5, <1>6, <1>7 DEF Scalar, Ref

LEMMA IntactComposite ==
  ASSUME NEW f \in Files, NEW t \in Tables(File[f]), t[1] = "CompositeNode"
  PROVE  /\ DOMAIN Intact(f, t) = {0, 1, 2}
         /\ Intact(f, t)[2] = NULL => ChildrenOf(Doc[t[2]]) = {}
         /\ Intact(f, t)[2] # NULL =>
              \A u : u \in Range(Intact(f, t)[2]) <=>
                \E c \in ChildrenOf(Doc[t[2]]) : u = <<"NodeTypeWrapper", c>>
<1>1. PICK n \in NodesOf(File[f]) : n = t[2] /\ Doc[n].type = "CompositeNode"
  BY TableKinds
<1>2. n \in DocNodes
  BY NodesInFile
<1>3. /\ DOMAIN Intact(f, t) = {0, 1, 2}
      /\ Intact(f, t)[2] = Refs("NodeTypeWrapper", Doc[n].children)
  <2>1. Intact(f, t) = NodeTable(File[f].schema, "CompositeNode", n, Doc[n])
    BY <1>1, CompiledNode DEF Intact
  <2>2. PICK op : Intact(f, t) = Fields(<<n, op, Refs("NodeTypeWrapper", Doc[n].children)>>)
    BY <2>1 DEF NodeTable
  <2> QED BY <2>2, FieldsOf
<1>4. CASE Doc[n].children = NULL
  <2>1. Intact(f, t)[2] = NULL /\ ChildrenOf(Doc[n]) = {}
    BY <1>3, <1>4 DEF Refs, ChildrenOf
  <2> QED BY <1>1, <1>3, <2>1
<1>5. CASE Doc[n].children # NULL
  <2>1. PICK kids \in Seq(DocNodes) : kids = Doc[n].children
    BY <1>2, <1>5, DocumentsAssumption
  <2>2. ChildrenOf(Doc[n]) = Range(kids)
    BY <1>1, <1>5, <2>1 DEF ChildrenOf
  <2>3. PICK refs : refs = [i \in DOMAIN kids |-> <<"NodeTypeWrapper", kids[i]>>]
    OBVIOUS
  <2>4. Intact(f, t)[2] = refs
    BY <1>3, <1>5, <2>1, <2>3 DEF Refs
  <2>5. \A u : u \in Range(refs) <=> \E c \in Range(kids) : u = <<"NodeTypeWrapper", c>>
    BY <2>3 DEF Range
  <2>6. refs \in Seq(Tables(File[f]))
    <3>1. Len(kids) \in Nat /\ DOMAIN kids = 1 .. Len(kids)
      OBVIOUS
    <3>2. \A i \in 1 .. Len(kids) : kids[i] \in ChildrenOf(Doc[n])
      BY <2>2, <3>1 DEF Range
    <3>3. \A i \in 1 .. Len(kids) : <<"NodeTypeWrapper", kids[i]>> \in Tables(File[f])
      BY <3>2, NodesInFile, TablesOf
    <3> QED BY <2>3, <3>1, <3>3
  <2>7. refs # NULL
    BY <2>6, Solid
  <2> QED BY <1>1, <1>3, <2>2, <2>4, <2>5, <2>7
<1> QED BY <1>4, <1>5

LEMMA IntactEvaluatorNode ==
  ASSUME NEW f \in Files, NEW t \in Tables(File[f]), t[1] = "EvaluatorNode"
  PROVE  /\ DOMAIN Intact(f, t) = {0, 1, 2}
         /\ Doc[t[2]].eval = "NONE" => Intact(f, t)[1] = NULL /\ Intact(f, t)[2] = NULL
         /\ Doc[t[2]].eval # "NONE" =>
              /\ Intact(f, t)[1] \in Nat /\ Intact(f, t)[1] # NULL /\ Intact(f, t)[2] # NULL
              /\ Intact(f, t)[1] <= 3 => Doc[t[2]].eval \in {"StrEvaluator", "NumEvaluator", "UNumEvaluator"}
              /\ Doc[t[2]].eval \in {"StrEvaluator", "NumEvaluator", "UNumEvaluator"} => Intact(f, t)[1] <= 3
              /\ Intact(f, t)[2] = <<Doc[t[2]].eval, t[2]>>
<1>1. PICK n \in NodesOf(File[f]) : n = t[2]
  BY TableKinds
<1>2. PICK number : number = UnionNumber(EvaluatorType, Doc[n].eval)
  OBVIOUS
<1>3. /\ DOMAIN Intact(f, t) = {0, 1, 2}
      /\ Intact(f, t)[1] = Scalar(number)
      /\ Intact(f, t)[2] = Ref(Doc[n].eval, n)
  <2>1. Intact(f, t) = NodeTable(File[f].schema, "EvaluatorNode", n, Doc[n])
    BY <1>1, CompiledNode DEF Intact
  <2>2. Intact(f, t) = Fields(<<n, Scalar(number), Ref(Doc[n].eval, n)>>)
    BY <1>2, <2>1 DEF NodeTable
  <2> QED BY <2>2, FieldsOf
<1>4. number \in Nat /\ (number = 0 <=> Doc[n].eval = "NONE")
  BY <1>2, VariantNumbers
<1>5. number <= 3 => Doc[n].eval \in {"NONE", "StrEvaluator", "NumEvaluator", "UNumEvaluator"}
  BY <1>2, VariantNumbers
<1>6. Doc[n].eval \in {"StrEvaluator", "NumEvaluator", "UNumEvaluator"} => number <= 3
  BY <1>2, VariantNumbers
<1>7. n # NULL /\ <<Doc[n].eval, n>> # NULL /\ number # NULL
  BY <1>4, NodesInFile, TablesOf, Solid
<1> QED BY <1>1, <1>3, <1>4, <1>5, <1>6, <1>7 DEF Scalar, Ref

\* The tables that lead to no others have three fields, and those of a newer schema,
\* as far as this one is concerned, none.
LEMMA IntactOther ==
  ASSUME NEW f \in Files, NEW t \in Tables(File[f])
  PROVE  /\ t[1] \in {"Action", "StrEvaluator", "NumEvaluator", "UNumEvaluator"} =>
              DOMAIN Intact(f, t) = {0, 1, 2}
         /\ t[1] \notin Roles => DOMAIN Intact(f, t) = {}
<1>1. PICK schema : schema = File[f].schema
  OBVIOUS
<1>2. ASSUME t[1] = "Action" PROVE DOMAIN Intact(f, t) = {0, 1, 2}
  <2>1. PICK x, y, z : Intact(f, t) = Fields(<<x, y, z>>)
    <3>1. PICK action : action = DocPolicy[t[2][1]].actions[t[2][2]]
      OBVIOUS
    <3>2. Intact(f, t) = ActionTable(schema, t[2], action)
      BY <1>1, <1>2, <3>1, CompiledAction DEF Intact
    <3> QED BY <3>2 DEF ActionTable
  <2> QED BY <2>1, FieldsOf
<1>3. ASSUME t[1] = "StrEvaluator" PROVE DOMAIN Intact(f, t) = {0, 1, 2}
  <2>1. PICK x, y, z : Intact(f, t) = Fields(<<x, y, z>>)
    <3>1. Intact(f, t) = NodeTable(schema, "StrEvaluator", t[2], Doc[t[2]])
      BY <1>1, <1>3, CompiledNode DEF Intact
    <3> QED BY <3>1 DEF NodeTable, EvaluatorTable
  <2> QED BY <2>1, FieldsOf
<1>4. ASSUME t[1] \in {"NumEvaluator", "UNumEvaluator"} PROVE DOMAIN Intact(f, t) = {0, 1, 2}
  <2>1. PICK x, y, z : Intact(f, t) = Fields(<<x, y, z>>)
    <3>1. Intact(f, t) = NodeTable(schema, t[1], t[2], Doc[t[2]])
      BY <1>1, <1>4, CompiledNode DEF Intact
    <3> QED BY <1>4, <3>1 DEF NodeTable, EvaluatorTable
  <2> QED BY <2>1, FieldsOf
<1>5. ASSUME t[1] \notin Roles PROVE DOMAIN Intact(f, t) = {}
  <2>1. Intact(f, t) = NodeTable(schema, t[1], t[2], Doc[t[2]])
    BY <1>1, <1>5, CompiledNode DEF Intact, Roles
  <2>2. Intact(f, t) = << >>
    BY <1>5, <2>1 DEF NodeTable, Roles
  <2>3. DOMAIN << >> = {}
    OBVIOUS
  <2> QED BY <2>2, <2>3
<1> QED BY <1>2, <1>3, <1>4, <1>5

-----------------------------------------------------------------------------
(* What the verifier asks of a table, with a set of tables that are verified *)

Passes(F, v, S) ==
  /\ F[v.field] # Dangling
  /\ v.how = "table" /\ F[v.field] # NULL => F[v.field] \in S
  /\ v.how = "vector" /\ F[v.field] # NULL => \A t \in Range(F[v.field]) : t \in S
  /\ v.how = "union" =>
       /\ F[v.field] = NULL <=> F[v.field - 1] = NULL
       /\ F[v.field] # NULL =>
            F[v.field - 1] # Dangling /\ (F[v.field - 1] <= v.variants => F[v.field] \in S)

Vouched(role, F, S) == \A v \in Verifies(role) : Passes(F, v, S)

\* The same, kind of field by kind.
LEMMA PassesKinds ==
  ASSUME NEW F, NEW S, NEW i \in Nat
  PROVE  /\ Passes(F, InlineField(i), S) <=> F[i] # Dangling
         /\ Passes(F, StringField(i), S) <=> F[i] # Dangling
         /\ Passes(F, StringsField(i), S) <=> F[i] # Dangling
         /\ Passes(F, TableField(i), S) <=> F[i] # Dangling /\ (F[i] # NULL => F[i] \in S)
         /\ Passes(F, VectorField(i), S) <=>
              F[i] # Dangling /\ (F[i] # NULL => \A t \in Range(F[i]) : t \in S)
         /\ \A names : Passes(F, UnionField(i, names), S) <=>
              /\ F[i] # Dangling /\ (F[i] = NULL <=> F[i - 1] = NULL)
              /\ F[i] # NULL => F[i - 1] # Dangling /\ (F[i - 1] <= Len(names) - 1 => F[i] \in S)
<1>1. ASSUME NEW how \in {"inline", "string", "strings"}, NEW v, v = [field |-> i, how |-> how, variants |-> 0]
      PROVE  Passes(F, v, S) <=> F[i] # Dangling
  <2>1. v.field = i /\ v.how \notin {"table", "vector", "union"}
    BY <1>1
  <2> QED BY <2>1 DEF Passes
<1>2. ASSUME NEW v, v = [field |-> i, how |-> "table", variants |-> 0]
      PROVE  Passes(F, v, S) <=> F[i] # Dangling /\ (F[i] # NULL => F[i] \in S)
  <2>1. v.field = i /\ v.how = "table"
    BY <1>2
  <2> QED BY <2>1 DEF Passes
<1>3. ASSUME NEW v, v = [field |-> i, how |-> "vector", variants |-> 0]
      PROVE  Passes(F, v, S) <=> F[i] # Dangling /\ (F[i] # NULL => \A t \in Range(F[i]) : t \in S)
  <2>1. v.field = i /\ v.how = "vector"
    BY <1>3
  <2> QED BY <2>1 DEF Passes
<1>4. ASSUME NEW n, NEW v, v = [field |-> i, how |-> "union", variants |-> n]
      PROVE  Passes(F, v, S) <=>
               /\ F[i] # Dangling /\ (F[i] = NULL <=> F[i - 1] = NULL)
               /\ F[i] # NULL => F[i - 1] # Dangling /\ (F[i - 1] <= n => F[i] \in S)
  <2>1. v.field = i /\ v.how = "union" /\ v.variants = n
    BY <1>4
  <2> QED BY <2>1 DEF Passes
<1>5. /\ Passes(F, InlineField(i), S) <=> F[i] # Dangling
      /\ Passes(F, StringField(i), S) <=> F[i] # Dangling
      /\ Passes(F, StringsField(i), S) <=> F[i] # Dangling
  BY <1>1 DEF InlineField, StringField, StringsField
<1>6. Passes(F, TableField(i), S) <=> F[i] # Dangling /\ (F[i] # NULL => F[i] \in S)
  BY <1>2 DEF TableField
<1>7. Passes(F, VectorField(i), S) <=>
        F[i] # Dangling /\ (F[i] # NULL => \A t \in Range(F[i]) : t \in S)
  BY <1>3 DEF VectorField
<1>8. \A names : Passes(F, UnionField(i, names), S) <=>
        /\ F[i] # Dangling /\ (F[i] = NULL <=> F[i - 1] = NULL)
        /\ F[i] # NULL => F[i - 1] # Dangling /\ (F[i - 1] <= Len(names) - 1 => F[i] \in S)
  BY <1>4 DEF UnionField
<1> QED BY <1>5, <1>6, <1>7, <1>8

\* The same, kind of table by kind.
LEMMA VouchedRoles ==
  ASSUME NEW F, NEW S
  PROVE  /\ Vouched("Policies", F, S) <=>
              F[0] # Dangling /\ (F[0] # NULL => \A t \in Range(F[0]) : t \in S)
         /\ Vouched("Policy", F, S) <=>
              /\ \A i \in {0, 1, 2, 3, 4} : F[i] # Dangling
              /\ F[1] # NULL => F[1] \in S
              /\ F[2] # NULL => \A t \in Range(F[2]) : t \in S
         /\ Vouched("Action", F, S) <=> \A i \in {0, 1, 2} : F[i] # Dangling
         /\ Vouched("NodeTypeWrapper", F, S) <=>
              /\ F[1] # Dangling /\ (F[1] = NULL <=> F[0] = NULL)
              /\ F[1] # NULL => F[0] # Dangling /\ (F[0] <= 2 => F[1] \in S)
         /\ Vouched("CompositeNode", F, S) <=>
              /\ \A i \in {0, 1, 2} : F[i] # Dangling
              /\ F[2] # NULL => \A t \in Range(F[2]) : t \in S
         /\ Vouched("EvaluatorNode", F, S) <=>
              /\ F[0] # Dangling /\ F[2] # Dangling /\ (F[2] = NULL <=> F[1] = NULL)
              /\ F[2] # NULL => F[1] # Dangling /\ (F[1] <= 3 => F[2] \in S)
         /\ \A role \in {"StrEvaluator", "NumEvaluator", "UNumEvaluator"} :
              Vouched(role, F, S) <=> \A i \in {0, 1, 2} : F[i] # Dangling
         /\ \A role : role \notin Roles => Vouched(role, F, S)
<1>1. /\ Verifies("Policies") = {VectorField(0)}
      /\ Verifies("Policy") = {StringField(0), TableField(1), VectorField(2), InlineField(3), InlineField(4)}
      /\ Verifies("Action") = {InlineField(0), StringField(1), StringsField(2)}
      /\ Verifies("NodeTypeWrapper") = {UnionField(1, NodeType)}
      /\ Verifies("CompositeNode") = {StringField(0), InlineField(1), VectorField(2)}
      /\ Verifies("EvaluatorNode") = {StringField(0), UnionField(2, EvaluatorType)}
      /\ Verifies("StrEvaluator") = {InlineField(0), InlineField(1), StringField(2)}
      /\ Verifies("NumEvaluator") = {InlineField(0), InlineField(1), InlineField(2)}
      /\ Verifies("UNumEvaluator") = {InlineField(0), InlineField(1), InlineField(2)}
  BY DEF Verifies, PolicyFields, EvaluatorFields, NumericFields
<1>2. \A role : role \notin Roles => Verifies(role) = {}
  BY DEF Verifies, Roles
<1>3. Vouched("Policies", F, S) <=> F[0] # Dangling /\ (F[0] # NULL => \A t \in Range(F[0]) : t \in S)
  BY <1>1, PassesKinds DEF Vouched
<1>4. Vouched("Policy", F, S) <=>
        /\ \A i \in {0, 1, 2, 3, 4} : F[i] # Dangling
        /\ F[1] # NULL => F[1] \in S
        /\ F[2] # NULL => \A t \in Range(F[2]) : t \in S
  <2>1. Vouched("Policy", F, S) <=>
          /\ Passes(F, StringField(0), S) /\ Passes(F, TableField(1), S) /\ Passes(F, VectorField(2), S)
          /\ Passes(F, InlineField(3), S) /\ Passes(F, InlineField(4), S)
    BY <1>1 DEF Vouched
  <2> QED BY <2>1, PassesKinds
<1>5. Vouched("Action", F, S) <=> \A i \in {0, 1, 2} : F[i] # Dangling
  <2>1. Vouched("Action", F, S) <=>
          Passes(F, InlineField(0), S) /\ Passes(F, StringField(1), S) /\ Passes(F, StringsField(2), S)
    BY <1>1 DEF Vouched
  <2> QED BY <2>1, PassesKinds
<1>6. Vouched("NodeTypeWrapper", F, S) <=>
        /\ F[1] # Dangling /\ (F[1] = NULL <=> F[0] = NULL)
        /\ F[1] # NULL => F[0] # Dangling /\ (F[0] <= 2 => F[1] \in S)
  <2>1. Vouched("NodeTypeWrapper", F, S) <=> Passes(F, UnionField(1, NodeType), S)
    BY <1>1 DEF Vouched
  <2>2. Len(NodeType) - 1 = 2 /\ 1 - 1 = 0
    BY VariantNumbers
  <2>3. Passes(F, UnionField(1, NodeType), S) <=>
          /\ F[1] # Dangling /\ (F[1] = NULL <=> F[1 - 1] = NULL)
          /\ F[1] # NULL => F[1 - 1] # Dangling /\ (F[1 - 1] <= Len(NodeType) - 1 => F[1] \in S)
    BY PassesKinds
  <2> QED BY <2>1, <2>2, <2>3
<1>7. Vouched("CompositeNode", F, S) <=>
        /\ \A i \in {0, 1, 2} : F[i] # Dangling
        /\ F[2] # NULL => \A t \in Range(F[2]) : t \in S
  <2>1. Vouched("CompositeNode", F, S) <=>
          Passes(F, StringField(0), S) /\ Passes(F, InlineField(1), S) /\ Passes(F, VectorField(2), S)
    BY <1>1 DEF Vouched
  <2> QED BY <2>1, PassesKinds
<1>8. Vouched("EvaluatorNode", F, S) <=>
        /\ F[0] # Dangling /\ F[2] # Dangling /\ (F[2] = NULL <=> F[1] = NULL)
        /\ F[2] # NULL => F[1] # Dangling /\ (F[1] <= 3 => F[2] \in S)
  <2>1. Vouched("EvaluatorNode", F, S) <=>
          Passes(F, StringField(0), S) /\ Passes(F, UnionField(2, EvaluatorType), S)
    BY <1>1 DEF Vouched
  <2>2. Len(EvaluatorType) - 1 = 3 /\ 2 - 1 = 1
    BY VariantNumbers
  <2>3. Passes(F, UnionField(2, EvaluatorType), S) <=>
          /\ F[2] # Dangling /\ (F[2] = NULL <=> F[2 - 1] = NULL)
          /\ F[2] # NULL => F[2 - 1] # Dangling /\ (F[2 - 1] <= Len(EvaluatorType) - 1 => F[2] \in S)
    BY PassesKinds
  <2>4. Passes(F, StringField(0), S) <=> F[0] # Dangling
    BY PassesKinds
  <2> QED BY <2>1, <2>2, <2>3, <2>4
<1>9. \A role \in {"StrEvaluator", "NumEvaluator", "UNumEvaluator"} :
        Vouched(role, F, S) <=> \A i \in {0, 1, 2} : F[i] # Dangling
  <2>1. Vouched("StrEvaluator", F, S) <=>
          Passes(F, InlineField(0), S) /\ Passes(F, InlineField(1), S) /\ Passes(F, StringField(2), S)
    BY <1>1 DEF Vouched
  <2>2. \A role \in {"NumEvaluator", "UNumEvaluator"} :
          Vouched(role, F, S) <=>
            Passes(F, InlineField(0), S) /\ Passes(F, InlineField(1), S) /\ Passes(F, InlineField(2), S)
    BY <1>1 DEF Vouched
  <2> QED BY <2>1, <2>2, PassesKinds
<1>10. \A role : role \notin Roles => Vouched(role, F, S)
  BY <1>2 DEF Vouched
<1> QED BY <1>3, <1>4, <1>5, <1>6, <1>7, <1>8, <1>9, <1>10

\* A field that leads anywhere leads to tables of a set.
Hows == {"inline", "string", "strings", "table", "vector", "union"}
Leads(F, v, D) ==
  F[v.field] # Dangling /\ F[v.field] # NULL =>
    /\ v.how \in {"table", "union"} => F[v.field] \in D
    /\ v.how = "vector" => \A u \in Range(F[v.field]) : u \in D

\* For such a field a function to the booleans is as good as a set.
LEMMA FieldPasses ==
  ASSUME NEW F, NEW D, NEW v, NEW S \in SUBSET D, NEW g, Leads(F, v, D), v.how \in Hows,
         \A u \in D : g[u] <=> u \in S
  PROVE  FieldVerified(F, v, g) <=> Passes(F, v, S)
<1>1. CASE F[v.field] = Dangling
  BY <1>1 DEF FieldVerified, Passes
<1>2. CASE F[v.field] # Dangling /\ v.how \in {"inline", "string", "strings"}
  BY <1>2 DEF FieldVerified, Passes
<1>3. CASE F[v.field] # Dangling /\ v.how = "table"
  BY <1>3 DEF FieldVerified, Passes, Leads
<1>4. CASE F[v.field] # Dangling /\ v.how = "vector"
  <2>1. FieldVerified(F, v, g) <=> (F[v.field] # NULL => \A t \in Range(F[v.field]) : g[t])
    BY <1>4 DEF FieldVerified
  <2>2. Passes(F, v, S) <=> (F[v.field] # NULL => \A t \in Range(F[v.field]) : t \in S)
    BY <1>4 DEF Passes
  <2> QED BY <1>4, <2>1, <2>2 DEF Leads
<1>5. CASE F[v.field] # Dangling /\ v.how = "union"
  <2>1. FieldVerified(F, v, g) <=>
          /\ F[v.field] = NULL <=> F[v.field - 1] = NULL
          /\ F[v.field] # NULL =>
               F[v.field - 1] # Dangling /\ (F[v.field - 1] <= v.variants => g[F[v.field]])
    BY <1>5 DEF FieldVerified
  <2>2. Passes(F, v, S) <=>
          /\ F[v.field] = NULL <=> F[v.field - 1] = NULL
          /\ F[v.field] # NULL =>
               F[v.field - 1] # Dangling /\ (F[v.field - 1] <= v.variants => F[v.field] \in S)
    BY <1>5 DEF Passes
  <2> QED BY <1>5, <2>1, <2>2 DEF Leads
<1> QED BY <1>1, <1>2, <1>3, <1>4, <1>5 DEF Hows

\* What leads to a set leads to no less when it is lost, or leads nowhere.
LEMMA LeadsStored ==
  ASSUME NEW f \in Files, NEW t \in Tables(File[f]), NEW v, NEW D,
         v.field \in DOMAIN Intact(f, t), Leads(Intact(f, t), v, D)
  PROVE  Leads(Stored(f, t), v, D)
<1>1. Stored(f, t)[v.field] \in {Intact(f, t)[v.field], NULL, Dangling}
  BY StoredFields
<1> QED BY <1>1 DEF Leads

\* Every field of a file's tables leads to its tables.
LEMMA LeadsWithin ==
  ASSUME NEW f \in Files, NEW t \in Tables(File[f]), NEW v \in Verifies(t[1])
  PROVE  v.how \in Hows /\ Leads(Stored(f, t), v, Tables(File[f]))
<1> DEFINE D == Tables(File[f])
<1>1. \A i \in Nat : \A w \in {InlineField(i), StringField(i), StringsField(i)} :
        w.how \in Hows /\ \A F : Leads(F, w, D)
  BY DEF InlineField, StringField, StringsField, Hows, Leads
<1>2. \A i \in Nat : /\ TableField(i).how = "table" /\ TableField(i).field = i
                     /\ VectorField(i).how = "vector" /\ VectorField(i).field = i
                     /\ \A names : UnionField(i, names).how = "union" /\ UnionField(i, names).field = i
  BY DEF TableField, VectorField, UnionField
<1>3. ASSUME t[1] = "Policies" PROVE v.how \in Hows /\ Leads(Stored(f, t), v, D)
  <2>1. v = VectorField(0)
    BY <1>3 DEF Verifies
  <2>2. 0 \in DOMAIN Intact(f, t) /\ \A u \in Range(Intact(f, t)[0]) : u \in D
    BY <1>3, IntactPolicies, TablesOf
  <2>3. Leads(Intact(f, t), v, D)
    BY <1>2, <2>1, <2>2 DEF Leads
  <2> QED BY <1>2, <2>1, <2>2, <2>3, LeadsStored DEF Hows
<1>4. ASSUME t[1] = "Policy" PROVE v.how \in Hows /\ Leads(Stored(f, t), v, D)
  <2>1. v \in {StringField(0), TableField(1), VectorField(2), InlineField(3), InlineField(4)}
    BY <1>4 DEF Verifies, PolicyFields
  <2>2. t[2] \in Range(File[f].doc)
    BY <1>4, TableKinds
  <2>3. DOMAIN Intact(f, t) = {0, 1, 2, 3, 4} /\ \A u \in Range(Intact(f, t)[2]) : u \in D
    <3>1. \A i \in DOMAIN DocPolicy[t[2]].actions : <<"Action", <<t[2], i>>>> \in D
      BY <2>2, TablesOf
    <3>2. \A u \in Range(Intact(f, t)[2]) :
            \E i \in DOMAIN DocPolicy[t[2]].actions : u = <<"Action", <<t[2], i>>>>
      BY <1>4, IntactPolicy
    <3>3. DOMAIN Intact(f, t) = {0, 1, 2, 3, 4}
      BY <1>4, IntactPolicy
    <3> QED BY <3>1, <3>2, <3>3
  <2>4. Intact(f, t)[1] # NULL => Intact(f, t)[1] \in D
    <3>1. DocPolicy[t[2]].rules # NULL => <<"NodeTypeWrapper", DocPolicy[t[2]].rules>> \in D
      BY <2>2, NodesInFile, TablesOf
    <3> QED BY <1>4, <3>1, IntactPolicy
  <2>5. CASE v \in {StringField(0), InlineField(3), InlineField(4)}
    BY <1>1, <2>5
  <2>6. CASE v = TableField(1)
    <3>1. Leads(Intact(f, t), v, D)
      BY <1>2, <2>4, <2>6 DEF Leads
    <3> QED BY <1>2, <2>3, <2>6, <3>1, LeadsStored DEF Hows
  <2>7. CASE v = VectorField(2)
    <3>1. Leads(Intact(f, t), v, D)
      BY <1>2, <2>3, <2>7 DEF Leads
    <3> QED BY <1>2, <2>3, <2>7, <3>1, LeadsStored DEF Hows
  <2> QED BY <2>1, <2>5, <2>6, <2>7
<1>5. ASSUME t[1] \in {"Action", "StrEvaluator", "NumEvaluator", "UNumEvaluator"}
      PROVE  v.how \in Hows /\ Leads(Stored(f, t), v, D)
  <2>1. v \in {InlineField(0), InlineField(1), InlineField(2), StringField(1), StringField(2), StringsField(2)}
    BY <1>5 DEF Verifies, EvaluatorFields, NumericFields
  <2> QED BY <1>1, <2>1
<1>6. ASSUME t[1] = "NodeTypeWrapper" PROVE v.how \in Hows /\ Leads(Stored(f, t), v, D)
  <2>1. v = UnionField(1, NodeType)
    BY <1>6 DEF Verifies
  <2>2. <<Doc[t[2]].type, t[2]>> \in D
    BY <1>6, TableKinds, TablesOf
  <2>3. 1 \in DOMAIN Intact(f, t) /\ (Intact(f, t)[1] # NULL => Intact(f, t)[1] \in D)
    BY <1>6, <2>2, IntactWrapper
  <2>4. Leads(Intact(f, t), v, D)
    BY <1>2, <2>1, <2>3 DEF Leads
  <2> QED BY <1>2, <2>1, <2>3, <2>4, LeadsStored DEF Hows
<1>7. ASSUME t[1] = "CompositeNode" PROVE v.how \in Hows /\ Leads(Stored(f, t), v, D)
  <2>1. v \in {StringField(0), InlineField(1), VectorField(2)}
    BY <1>7 DEF Verifies
  <2>2. \A c \in ChildrenOf(Doc[t[2]]) : <<"NodeTypeWrapper", c>> \in D
    BY <1>7, TableKinds, NodesInFile, TablesOf
  <2>3. 2 \in DOMAIN Intact(f, t) /\ (Intact(f, t)[2] # NULL => \A u \in Range(Intact(f, t)[2]) : u \in D)
    BY <1>7, <2>2, IntactComposite
  <2>4. CASE v \in {StringField(0), InlineField(1)}
    BY <1>1, <2>4
  <2>5. CASE v = VectorField(2)
    <3>1. Leads(Intact(f, t), v, D)
      BY <1>2, <2>3, <2>5 DEF Leads
    <3> QED BY <1>2, <2>3, <2>5, <3>1, LeadsStored DEF Hows
  <2> QED BY <2>1, <2>4, <2>5
<1>8. ASSUME t[1] = "EvaluatorNode" PROVE v.how \in Hows /\ Leads(Stored(f, t), v, D)
  <2>1. v \in {StringField(0), UnionField(2, EvaluatorType)}
    BY <1>8 DEF Verifies
  <2>2. <<Doc[t[2]].eval, t[2]>> \in D
    BY <1>8, TableKinds, TablesOf
  <2>3. 2 \in DOMAIN Intact(f, t) /\ (Intact(f, t)[2] # NULL => Intact(f, t)[2] \in D)
    BY <1>8, <2>2, IntactEvaluatorNode
  <2>4. CASE v = StringField(0)
    BY <1>1, <2>4
  <2>5. CASE v = UnionField(2, EvaluatorType)
    <3>1. Leads(Intact(f, t), v, D)
      BY <1>2, <2>3, <2>5 DEF Leads
    <3> QED BY <1>2, <2>3, <2>5, <3>1, LeadsStored DEF Hows
  <2> QED BY <2>1, <2>4, <2>5
<1>9. t[1] \in Roles
  BY DEF Verifies, Roles
<1> QED BY <1>3, <1>4, <1>5, <1>6, <1>7, <1>8, <1>9 DEF Roles

\* What a set vouches for, more do.
LEMMA VouchedMonotone ==
  ASSUME NEW F, NEW role, NEW S, NEW T, S \subseteq T, Vouched(role, F, S)
  PROVE  Vouched(role, F, T)
<1> SUFFICES ASSUME NEW v \in Verifies(role) PROVE Passes(F, v, T)
  BY DEF Vouched
<1>1. Passes(F, v, S)
  BY DEF Vouched
<1> QED BY <1>1 DEF Passes

\* A table that is verified is one that the tables verified vouch for, and the other way round.
Stable(f, W) ==
  \A t \in Tables(File[f]) : t \in W <=> Vouched(t[1], Stored(f, t), W)

\* There are sets like that: the largest of those whose members vouch for each other.
LEMMA StableSet ==
  ASSUME NEW f \in Files
  PROVE  \E W \in SUBSET Tables(File[f]) : Stable(f, W)
<1> DEFINE Good(S) == \A t \in S : Vouched(t[1], Stored(f, t), S)
<1>1. PICK W \in SUBSET Tables(File[f]) : W = UNION {S \in SUBSET Tables(File[f]) : Good(S)}
  OBVIOUS
<1> HIDE DEF Good
<1>2. ASSUME NEW t \in W PROVE Vouched(t[1], Stored(f, t), W)
  <2>1. PICK S \in SUBSET Tables(File[f]) : Good(S) /\ t \in S
    BY <1>1
  <2>2. S \subseteq W
    BY <1>1, <2>1
  <2> QED BY <2>1, <2>2, VouchedMonotone DEF Good
<1>3. ASSUME NEW t \in Tables(File[f]), Vouched(t[1], Stored(f, t), W) PROVE t \in W
  <2>1. PICK S \in SUBSET Tables(File[f]) : S = W \cup {t}
    OBVIOUS
  <2>2. \A u \in S : Vouched(u[1], Stored(f, u), W)
    BY <1>2, <1>3, <2>1
  <2>3. Good(S)
    BY <2>1, <2>2, VouchedMonotone DEF Good
  <2> QED BY <1>1, <2>1, <2>3
<1> QED BY <1>2, <1>3 DEF Stable

\* The recursion of the verifier, and what stands for a table in it.
Solves(f, g) ==
  g = [t \in DOMAIN Bytes[f] |-> \A v \in Verifies(t[1]) : FieldVerified(Bytes[f][t], v, g)]

LEMMA SolvesStable ==
  ASSUME NEW f \in Files, NEW W \in SUBSET Tables(File[f]), NEW g,
         \A t \in Tables(File[f]) : g[t] <=> t \in W
  PROVE  \A t \in Tables(File[f]) :
           Vouched(t[1], Stored(f, t), W) <=> \A v \in Verifies(t[1]) : FieldVerified(Bytes[f][t], v, g)
<1> SUFFICES ASSUME NEW t \in Tables(File[f]), NEW v \in Verifies(t[1])
             PROVE  Passes(Stored(f, t), v, W) <=> FieldVerified(Bytes[f][t], v, g)
  BY DEF Vouched
<1>1. v.how \in Hows /\ Leads(Stored(f, t), v, Tables(File[f]))
  BY LeadsWithin
<1>2. FieldVerified(Stored(f, t), v, g) <=> Passes(Stored(f, t), v, W)
  BY <1>1, FieldPasses
<1> QED BY <1>2 DEF Stored

\* The verifier passes a file if the root is in a set like that.
LEMMA VerifiedRoot ==
  ASSUME NEW f \in Files
  PROVE  \E W \in SUBSET Tables(File[f]) : Stable(f, W) /\ (VerifyAsRoot(f) <=> Root(File[f]) \in W)
<1>1. DOMAIN Bytes[f] = Tables(File[f])
  BY StoredTables
<1>2. PICK W \in SUBSET Tables(File[f]) : Stable(f, W)
  BY StableSet
<1>3. \E g : Solves(f, g)
  <2>1. PICK g : g = [t \in Tables(File[f]) |-> t \in W]
    OBVIOUS
  <2>2. \A t \in Tables(File[f]) : g[t] <=> t \in W
    BY <2>1
  <2>3. \A t \in Tables(File[f]) :
          Vouched(t[1], Stored(f, t), W) <=> \A v \in Verifies(t[1]) : FieldVerified(Bytes[f][t], v, g)
    BY <2>2, SolvesStable
  <2>4. PICK h : h = [t \in Tables(File[f]) |-> \A v \in Verifies(t[1]) : FieldVerified(Bytes[f][t], v, g)]
    OBVIOUS
  <2>5. \A t \in Tables(File[f]) :
          h[t] \in BOOLEAN /\ (h[t] <=> \A v \in Verifies(t[1]) : FieldVerified(Bytes[f][t], v, g))
    <3>1. \A t \in Tables(File[f]) : h[t] = \A v \in Verifies(t[1]) : FieldVerified(Bytes[f][t], v, g)
      BY ONLY <2>4, Zenon
    <3> QED BY ONLY <3>1, Zenon
  <2>6. \A t \in Tables(File[f]) : g[t] \in BOOLEAN /\ (g[t] <=> h[t])
    <3>1. \A t \in Tables(File[f]) : t \in W <=> Vouched(t[1], Stored(f, t), W)
      BY ONLY <1>2, Zenon DEF Stable
    <3>2. \A t \in Tables(File[f]) : g[t] \in BOOLEAN
      BY ONLY <2>1
    <3> QED BY ONLY <2>2, <2>3, <2>5, <3>1, <3>2, Zenon
  <2>7. g = h
    <3>1. \A t \in Tables(File[f]) : g[t] = h[t]
      BY <2>5, <2>6
    <3> QED BY <2>1, <2>4, <3>1
  <2> QED BY <1>1, <2>4, <2>7 DEF Solves
<1>4. PICK h : h = CHOOSE g : Solves(f, g)
  OBVIOUS
<1>5. Solves(f, h)
  BY <1>3, <1>4
<1>6. VerifyAsRoot(f) = h[Root(File[f])]
  BY <1>4 DEF VerifyAsRoot, Solves
<1>7. PICK V \in SUBSET Tables(File[f]) : V = {t \in Tables(File[f]) : h[t]}
  OBVIOUS
<1>8. \A t \in Tables(File[f]) : h[t] <=> t \in V
  BY <1>7
<1>9. \A t \in Tables(File[f]) :
        Vouched(t[1], Stored(f, t), V) <=> \A v \in Verifies(t[1]) : FieldVerified(Bytes[f][t], v, h)
  BY <1>8, SolvesStable
<1>10. \A t \in Tables(File[f]) : h[t] <=> \A v \in Verifies(t[1]) : FieldVerified(Bytes[f][t], v, h)
  BY <1>1, <1>5 DEF Solves
<1>11. Stable(f, V)
  BY <1>8, <1>9, <1>10 DEF Stable
<1>12. Root(File[f]) \in Tables(File[f])
  BY TablesOf
<1> QED BY <1>6, <1>8, <1>11, <1>12

-----------------------------------------------------------------------------
(* The verifier passes the files that can be read *)

\* A table that is vouched for can be read, and so can one that is not damaged.
LEMMA VouchedReadable ==
  ASSUME NEW f \in Files, NEW t \in Tables(File[f]), NEW S, Vouched(t[1], Stored(f, t), S)
  PROVE  TableReadable(t[1], Stored(f, t))
<1>1. PICK F : F = Stored(f, t)
  OBVIOUS
<1>2. DOMAIN F = DOMAIN Intact(f, t) /\ Vouched(t[1], F, S)
  BY <1>1, StoredFields
<1>3. CASE t[1] = "Policies"
  <2>1. DOMAIN F = {0} /\ F[0] # Dangling
    BY <1>2, <1>3, IntactPolicies, VouchedRoles
  <2> QED BY <1>1, <1>3, <2>1 DEF TableReadable
<1>4. CASE t[1] = "Policy"
  <2>1. DOMAIN F = {0, 1, 2, 3, 4}
    BY <1>2, <1>4, IntactPolicy
  <2>2. \A i \in {0, 1, 2, 3, 4} : F[i] # Dangling
    BY <1>2, <1>4, VouchedRoles
  <2> QED BY <1>1, <1>4, <2>1, <2>2 DEF TableReadable
<1>5. CASE t[1] \in {"Action", "StrEvaluator", "NumEvaluator", "UNumEvaluator"}
  <2>1. DOMAIN F = {0, 1, 2}
    BY <1>2, <1>5, IntactOther
  <2>2. \A i \in {0, 1, 2} : F[i] # Dangling
    BY <1>2, <1>5, VouchedRoles
  <2> QED BY <1>1, <1>5, <2>1, <2>2 DEF TableReadable
<1>6. CASE t[1] = "NodeTypeWrapper"
  <2>1. DOMAIN F = {0, 1}
    BY <1>2, <1>6, IntactWrapper
  <2>2. F[1] # Dangling /\ (F[1] = NULL <=> F[0] = NULL) /\ (F[1] # NULL => F[0] # Dangling)
    BY <1>2, <1>6, VouchedRoles
  <2> QED BY <1>1, <1>6, <2>1, <2>2 DEF TableReadable
<1>7. CASE t[1] = "CompositeNode"
  <2>1. DOMAIN F = {0, 1, 2}
    BY <1>2, <1>7, IntactComposite
  <2>2. \A i \in {0, 1, 2} : F[i] # Dangling
    BY <1>2, <1>7, VouchedRoles
  <2> QED BY <1>1, <1>7, <2>1, <2>2 DEF TableReadable
<1>8. CASE t[1] = "EvaluatorNode"
  <2>1. DOMAIN F = {0, 1, 2}
    BY <1>2, <1>8, IntactEvaluatorNode
  <2>2. /\ F[0] # Dangling /\ F[2] # Dangling /\ (F[2] = NULL <=> F[1] = NULL)
        /\ F[2] # NULL => F[1] # Dangling
    BY <1>2, <1>8, VouchedRoles
  <2> QED BY <1>1, <1>8, <2>1, <2>2 DEF TableReadable
<1>9. CASE t[1] \notin Roles
  <2>1. DOMAIN F = {} /\ t[1] \notin {"NodeTypeWrapper", "EvaluatorNode"}
    BY <1>2, <1>9, IntactOther DEF Roles
  <2> QED BY <1>1, <2>1 DEF TableReadable
<1> QED BY <1>3, <1>4, <1>5, <1>6, <1>7, <1>8, <1>9 DEF Roles

LEMMA IntactReadable ==
  ASSUME NEW f \in Files, NEW t \in Tables(File[f]), Stored(f, t) = Intact(f, t)
  PROVE  TableReadable(t[1], Stored(f, t))
<1>1. Dangling \notin Range(Intact(f, t))
  BY OffsetsAssumption DEF Intact
<1>2. \A i \in DOMAIN Intact(f, t) : Intact(f, t)[i] # Dangling
  BY <1>1 DEF Range
<1>3. t[1] = "NodeTypeWrapper" => (Intact(f, t)[0] = NULL <=> Intact(f, t)[1] = NULL)
  BY IntactWrapper
<1>4. t[1] = "EvaluatorNode" => (Intact(f, t)[1] = NULL <=> Intact(f, t)[2] = NULL)
  BY IntactEvaluatorNode
<1> QED BY <1>2, <1>3, <1>4 DEF TableReadable

\* Where every table that is verified is as the compiler left it, the verifier gets to
\* them all.
LEMMA IntactReached ==
  ASSUME NEW f \in Files, NEW W \in SUBSET Tables(File[f]), Stable(f, W), Root(File[f]) \in W,
         \A t \in W : Stored(f, t) = Intact(f, t),
         NEW t \in Tables(File[f]), t[1] \in Roles
  PROVE  t \in W
<1> DEFINE Wrapped(n) == <<"NodeTypeWrapper", n>> \in W
<1>1. \A u \in W : u \in Tables(File[f]) /\ Vouched(u[1], Intact(f, u), W)
  BY DEF Stable
<1>2. \A p \in Range(File[f].doc) : <<"Policy", p>> \in W
  <2>1. PICK u \in W : u = Root(File[f])
    OBVIOUS
  <2>2. u[1] = "Policies"
    BY <2>1 DEF Root
  <2>3. Intact(f, u)[0] # NULL => \A x \in Range(Intact(f, u)[0]) : x \in W
    BY <1>1, <2>2, VouchedRoles
  <2> QED BY <1>1, <2>2, <2>3, IntactPolicies
<1>3. ASSUME NEW p \in Range(File[f].doc)
      PROVE  /\ \A i \in DOMAIN DocPolicy[p].actions : <<"Action", <<p, i>>>> \in W
             /\ DocPolicy[p].rules # NULL => Wrapped(DocPolicy[p].rules)
  <2>1. PICK u \in W : u = <<"Policy", p>>
    BY <1>2
  <2>2. u \in Tables(File[f]) /\ u[1] = "Policy" /\ u[2] = p
    BY <1>1, <2>1
  <2>3. PICK F : F = Intact(f, u)
    OBVIOUS
  <2>4. Vouched("Policy", F, W)
    BY <1>1, <2>2, <2>3
  <2>5. (F[1] # NULL => F[1] \in W) /\ (F[2] # NULL => \A x \in Range(F[2]) : x \in W)
    BY <2>4, VouchedRoles
  <2>6. /\ F[2] # NULL /\ \A i \in DOMAIN DocPolicy[p].actions : <<"Action", <<p, i>>>> \in Range(F[2])
        /\ DocPolicy[p].rules # NULL => F[1] = <<"NodeTypeWrapper", DocPolicy[p].rules>>
    BY <2>2, <2>3, IntactPolicy
  <2>7. DocPolicy[p].rules # NULL => F[1] # NULL
    <3>1. ASSUME DocPolicy[p].rules # NULL PROVE <<"NodeTypeWrapper", DocPolicy[p].rules>> # NULL
      BY <3>1, NodesInFile, TablesOf, Solid
    <3> QED BY <2>6, <3>1
  <2> QED BY <2>5, <2>6, <2>7
<1>4. ASSUME NEW n \in NodesOf(File[f]), Wrapped(n), Doc[n].type \in {"EvaluatorNode", "CompositeNode"}
      PROVE  <<Doc[n].type, n>> \in W
  <2>1. PICK u \in W : u = <<"NodeTypeWrapper", n>>
    BY <1>4
  <2>2. u \in Tables(File[f]) /\ u[1] = "NodeTypeWrapper" /\ u[2] = n
    BY <1>1, <2>1
  <2>3. PICK F : F = Intact(f, u)
    OBVIOUS
  <2>4. Vouched("NodeTypeWrapper", F, W)
    BY <1>1, <2>2, <2>3
  <2>5. F[1] # NULL /\ F[0] <= 2 => F[1] \in W
    BY <2>4, VouchedRoles
  <2>6. F[1] # NULL /\ F[0] <= 2 /\ F[1] = <<Doc[n].type, n>>
    BY <1>4, <2>2, <2>3, IntactWrapper
  <2> QED BY <2>5, <2>6
<1>5. ASSUME NEW n \in NodesOf(File[f]), Wrapped(n), NEW c \in ChildrenOf(Doc[n]) PROVE Wrapped(c)
  <2>1. Doc[n].type = "CompositeNode"
    BY <1>5 DEF ChildrenOf
  <2>2. PICK u \in W : u = <<"CompositeNode", n>>
    BY <1>4, <1>5, <2>1
  <2>3. u \in Tables(File[f]) /\ u[1] = "CompositeNode" /\ u[2] = n
    BY <1>1, <2>2
  <2>4. PICK F : F = Intact(f, u)
    OBVIOUS
  <2>5. Vouched("CompositeNode", F, W)
    BY <1>1, <2>3, <2>4
  <2>6. F[2] # NULL => \A x \in Range(F[2]) : x \in W
    BY <2>5, VouchedRoles
  <2>7. F[2] # NULL /\ <<"NodeTypeWrapper", c>> \in Range(F[2])
    BY <2>3, <2>4, IntactComposite
  <2> QED BY <2>6, <2>7
<1>6. ASSUME NEW n \in NodesOf(File[f]) PROVE Wrapped(n)
  <2>1. PICK p \in Range(File[f].doc) :
          DocPolicy[p].rules \in DocNodes /\ DocPolicy[p].rules # NULL /\ n \in Below[DocPolicy[p].rules]
    BY NodesInFile
  <2>2. PICK S \in SUBSET DocNodes : S = {m \in NodesOf(File[f]) : Wrapped(m) /\ n \in Below[m]}
    BY NodesInFile
  <2>3. DocPolicy[p].rules \in S
    BY <1>3, <2>1, <2>2, NodesInFile
  <2>4. PICK m \in S : \A c \in ChildrenOf(Doc[m]) : c \notin S
    BY <2>3, LowestNode
  <2>5. m \in NodesOf(File[f]) /\ Wrapped(m) /\ n \in Below[m]
    BY <2>2
  <2>6. CASE m # n
    <3>1. PICK c \in ChildrenOf(Doc[m]) : n \in Below[c]
      BY <2>5, <2>6, BelowShrinks
    <3>2. c \in NodesOf(File[f])
      BY <2>5, NodesInFile
    <3> QED BY <1>5, <2>2, <2>4, <2>5, <3>1, <3>2
  <2> QED BY <2>5, <2>6
<1>7. ASSUME NEW n \in NodesOf(File[f]), Doc[n].type = "EvaluatorNode",
             Doc[n].eval \in {"StrEvaluator", "NumEvaluator", "UNumEvaluator"}
      PROVE  <<Doc[n].eval, n>> \in W
  <2>1. PICK u \in W : u = <<"EvaluatorNode", n>>
    BY <1>4, <1>6, <1>7
  <2>2. u \in Tables(File[f]) /\ u[1] = "EvaluatorNode" /\ u[2] = n
    BY <1>1, <2>1
  <2>3. PICK F : F = Intact(f, u)
    OBVIOUS
  <2>4. Vouched("EvaluatorNode", F, W)
    BY <1>1, <2>2, <2>3
  <2>5. F[2] # NULL /\ F[1] <= 3 => F[2] \in W
    BY <2>4, VouchedRoles
  <2>6. F[2] # NULL /\ F[1] <= 3 /\ F[2] = <<Doc[n].eval, n>>
    BY <1>7, <2>2, <2>3, IntactEvaluatorNode
  <2> QED BY <2>5, <2>6
<1> HIDE DEF Wrapped
<1>8. t = <<t[1], t[2]>>
  BY TableKinds
<1>9. CASE t[1] = "Policies"
  BY <1>9, TableKinds
<1>10. CASE t[1] = "Policy"
  BY <1>2, <1>8, <1>10, TableKinds
<1>11. CASE t[1] = "Action"
  BY <1>3, <1>8, <1>11, TableKinds
<1>12. CASE t[1] = "NodeTypeWrapper"
  BY <1>6, <1>8, <1>12, TableKinds DEF Wrapped
<1>13. CASE t[1] \in {"EvaluatorNode", "CompositeNode"}
  <2>1. t[2] \in NodesOf(File[f]) /\ Doc[t[2]].type = t[1]
    BY <1>13, TableKinds
  <2> QED BY <1>4, <1>6, <1>8, <1>13, <2>1
<1>14. CASE t[1] \in {"StrEvaluator", "NumEvaluator", "UNumEvaluator"}
  <2>1. t[2] \in NodesOf(File[f]) /\ Doc[t[2]].type = "EvaluatorNode" /\ Doc[t[2]].eval = t[1]
    BY <1>14, TableKinds
  <2> QED BY <1>7, <1>8, <1>14, <2>1
<1> QED BY <1>9, <1>10, <1>11, <1>12, <1>13, <1>14 DEF Roles

\* A file that the verifier passes can be read: the table that is damaged is verified,
\* or all that lead to it are intact and it is verified after all.
LEMMA VerifiedReadable ==
  ASSUME NEW f \in Files, VerifyAsRoot(f)
  PROVE  f \in ReadableFiles
<1>1. PICK W \in SUBSET Tables(File[f]) : Stable(f, W) /\ Root(File[f]) \in W
  BY VerifiedRoot
<1>2. \A t \in W : TableReadable(t[1], Stored(f, t))
  BY <1>1, VouchedReadable DEF Stable
<1>3. CASE \A t \in Tables(File[f]) : Stored(f, t) = Intact(f, t)
  <2>1. \A t \in Tables(File[f]) : TableReadable(t[1], Stored(f, t))
    BY <1>3, IntactReadable
  <2> QED BY <2>1, StoredTables DEF ReadableFiles, Readable, Stored
<1>4. ASSUME NEW h \in Tables(File[f]), Hurt(f, h), \A t \in Tables(File[f]) \ {h} : Stored(f, t) = Intact(f, t)
      PROVE  f \in ReadableFiles
  <2>1. h[1] \in Roles
    <3>1. DOMAIN Intact(f, h) # {}
      BY <1>4 DEF Hurt
    <3> QED BY <3>1, IntactOther
  <2>2. h \in W
    <3>1. SUFFICES ASSUME h \notin W PROVE FALSE
      OBVIOUS
    <3>2. \A t \in W : Stored(f, t) = Intact(f, t)
      BY <1>4, <3>1
    <3> QED BY <1>1, <2>1, <3>1, <3>2, IntactReached
  <2>3. \A t \in Tables(File[f]) : TableReadable(t[1], Stored(f, t))
    BY <1>2, <1>4, <2>2, IntactReadable
  <2> QED BY <2>3, StoredTables DEF ReadableFiles, Readable, Stored
<1> QED BY <1>3, <1>4, StoredTables

\* A file that can be read passes: its leaves are verified, and each other table once
\* those it leads to are.
LEMMA ReadableVerified ==
  ASSUME NEW f \in ReadableFiles
  PROVE  VerifyAsRoot(f)
<1> DEFINE Wrapped(n, W) == <<"NodeTypeWrapper", n>> \in W
<1>1. f \in Files
  BY DEF ReadableFiles
<1>2. PICK W \in SUBSET Tables(File[f]) : Stable(f, W) /\ (VerifyAsRoot(f) <=> Root(File[f]) \in W)
  BY <1>1, VerifiedRoot
<1>3. ASSUME NEW t \in Tables(File[f])
      PROVE  /\ Vouched(t[1], Stored(f, t), W) <=> t \in W
             /\ TableReadable(t[1], Stored(f, t))
             /\ \A i \in DOMAIN Intact(f, t) :
                  Stored(f, t)[i] # Dangling /\ Stored(f, t)[i] \in {Intact(f, t)[i], NULL}
  <2>1. TableReadable(t[1], Stored(f, t))
    BY <1>1, StoredTables DEF ReadableFiles, Readable, Stored
  <2>2. \A i \in DOMAIN Intact(f, t) : Stored(f, t)[i] # Dangling
    BY <1>1, <2>1, StoredFields DEF TableReadable
  <2>3. \A i \in DOMAIN Intact(f, t) : Stored(f, t)[i] \in {Intact(f, t)[i], NULL}
    BY <1>1, <2>2, StoredFields
  <2> QED BY <1>2, <2>1, <2>2, <2>3 DEF Stable
<1>4. ASSUME NEW t \in Tables(File[f]), t[1] \in {"Action", "StrEvaluator", "NumEvaluator", "UNumEvaluator"}
      PROVE  t \in W
  <2>1. \A i \in {0, 1, 2} : Stored(f, t)[i] # Dangling
    BY <1>1, <1>3, <1>4, IntactOther
  <2>2. Vouched(t[1], Stored(f, t), W)
    BY <1>4, <2>1, VouchedRoles
  <2> QED BY <1>3, <2>2
<1>5. ASSUME NEW t \in Tables(File[f]), t[1] = "EvaluatorNode" PROVE t \in W
  <2>1. PICK F : F = Stored(f, t)
    OBVIOUS
  <2>2. PICK G : G = Intact(f, t)
    OBVIOUS
  <2>3. PICK n : n = t[2]
    OBVIOUS
  <2>4. n \in NodesOf(File[f]) /\ Doc[n].type = "EvaluatorNode"
    BY <1>1, <1>5, <2>3, TableKinds
  <2>5. DOMAIN G = {0, 1, 2}
    BY <1>1, <1>5, <2>2, IntactEvaluatorNode
  <2>6. \A i \in {0, 1, 2} : F[i] # Dangling /\ F[i] \in {G[i], NULL}
    BY <1>3, <2>1, <2>2, <2>5
  <2>7. F[1] = NULL <=> F[2] = NULL
    BY <1>3, <1>5, <2>1 DEF TableReadable
  <2>8. ASSUME F[2] # NULL, F[1] <= 3 PROVE F[2] \in W
    <3>1. F[2] = G[2] /\ F[1] = G[1] /\ G[2] # NULL
      BY <2>6, <2>7, <2>8
    <3>2. Doc[n].eval # "NONE"
      BY <1>1, <1>5, <2>2, <2>3, <3>1, IntactEvaluatorNode
    <3>3. G[2] = <<Doc[n].eval, n>> /\ Doc[n].eval \in {"StrEvaluator", "NumEvaluator", "UNumEvaluator"}
      BY <1>1, <1>5, <2>2, <2>3, <2>8, <3>1, <3>2, IntactEvaluatorNode
    <3> QED BY <1>1, <1>4, <2>4, <3>1, <3>3, TablesOf
  <2>9. Vouched("EvaluatorNode", F, W)
    BY <2>6, <2>7, <2>8, VouchedRoles
  <2> QED BY <1>3, <1>5, <2>1, <2>9
<1>6. ASSUME NEW n \in NodesOf(File[f]), \A c \in ChildrenOf(Doc[n]) : Wrapped(c, W) PROVE Wrapped(n, W)
  <2>1. ASSUME NEW t \in Tables(File[f]), t = <<"CompositeNode", n>> PROVE t \in W
    <3>1. t[1] = "CompositeNode" /\ t[2] = n
      BY <2>1
    <3>2. PICK F : F = Stored(f, t)
      OBVIOUS
    <3>3. PICK G : G = Intact(f, t)
      OBVIOUS
    <3>4. DOMAIN G = {0, 1, 2}
      BY <1>1, <3>1, <3>3, IntactComposite
    <3>5. \A i \in {0, 1, 2} : F[i] # Dangling /\ F[i] \in {G[i], NULL}
      BY <1>3, <3>2, <3>3, <3>4
    <3>6. ASSUME F[2] # NULL, NEW x \in Range(F[2]) PROVE x \in W
      <4>1. G[2] # NULL /\ F[2] = G[2]
        BY <3>5, <3>6
      <4>2. PICK c \in ChildrenOf(Doc[n]) : x = <<"NodeTypeWrapper", c>>
        BY <1>1, <3>1, <3>3, <3>6, <4>1, IntactComposite
      <4> QED BY <1>6, <4>2
    <3>7. Vouched("CompositeNode", F, W)
      BY <3>5, <3>6, VouchedRoles
    <3> QED BY <1>3, <3>1, <3>2, <3>7
  <2>2. PICK t \in Tables(File[f]) : t = <<"NodeTypeWrapper", n>>
    BY <1>1, TablesOf
  <2>3. t[1] = "NodeTypeWrapper" /\ t[2] = n
    BY <2>2
  <2>4. PICK F : F = Stored(f, t)
    OBVIOUS
  <2>5. PICK G : G = Intact(f, t)
    OBVIOUS
  <2>6. DOMAIN G = {0, 1}
    BY <1>1, <2>3, <2>5, IntactWrapper
  <2>7. \A i \in {0, 1} : F[i] # Dangling /\ F[i] \in {G[i], NULL}
    BY <1>3, <2>4, <2>5, <2>6
  <2>8. F[0] = NULL <=> F[1] = NULL
    BY <1>3, <2>3, <2>4 DEF TableReadable
  <2>9. ASSUME F[1] # NULL, F[0] <= 2 PROVE F[1] \in W
    <3>1. F[1] = G[1] /\ F[0] = G[0] /\ G[1] # NULL
      BY <2>7, <2>8, <2>9
    <3>2. Doc[n].type # "NONE"
      BY <1>1, <2>3, <2>5, <3>1, IntactWrapper
    <3>3. G[1] = <<Doc[n].type, n>> /\ Doc[n].type \in {"EvaluatorNode", "CompositeNode"}
      BY <1>1, <2>3, <2>5, <2>9, <3>1, <3>2, IntactWrapper
    <3>4. PICK u \in Tables(File[f]) : u = <<Doc[n].type, n>>
      BY <1>1, TablesOf
    <3>5. u[1] = Doc[n].type /\ u \in W
      BY <1>5, <2>1, <3>3, <3>4
    <3> QED BY <3>1, <3>3, <3>4, <3>5
  <2>10. Vouched("NodeTypeWrapper", F, W)
    BY <2>7, <2>8, <2>9, VouchedRoles
  <2> QED BY <1>3, <2>2, <2>3, <2>4, <2>10
<1>7. \A n \in NodesOf(File[f]) : Wrapped(n, W)
  <2>1. PICK S \in SUBSET DocNodes : S = {n \in NodesOf(File[f]) : ~Wrapped(n, W)}
    BY <1>1, NodesInFile
  <2>2. ASSUME S # {} PROVE FALSE
    <3>1. PICK n \in S : \A c \in ChildrenOf(Doc[n]) : c \notin S
      BY <2>2, LowestNode
    <3>2. n \in NodesOf(File[f]) /\ ~Wrapped(n, W)
      BY <2>1
    <3>3. \A c \in ChildrenOf(Doc[n]) : Wrapped(c, W)
      BY <1>1, <2>1, <3>1, <3>2, NodesInFile
    <3> QED BY <1>6, <3>2, <3>3
  <2> QED BY <2>1, <2>2
<1>8. ASSUME NEW t \in Tables(File[f]), t[1] = "Policy" PROVE t \in W
  <2>1. PICK F : F = Stored(f, t)
    OBVIOUS
  <2>2. PICK G : G = Intact(f, t)
    OBVIOUS
  <2>3. PICK p : p = t[2]
    OBVIOUS
  <2>4. p \in Range(File[f].doc)
    BY <1>1, <1>8, <2>3, TableKinds
  <2>5. DOMAIN G = {0, 1, 2, 3, 4}
    BY <1>1, <1>8, <2>2, IntactPolicy
  <2>6. \A i \in {0, 1, 2, 3, 4} : F[i] # Dangling /\ F[i] \in {G[i], NULL}
    BY <1>3, <2>1, <2>2, <2>5
  <2>7. G[1] # NULL => G[1] \in W
    <3>1. G[1] = IF DocPolicy[p].rules = NULL THEN NULL ELSE <<"NodeTypeWrapper", DocPolicy[p].rules>>
      BY <1>1, <1>8, <2>2, <2>3, IntactPolicy
    <3> QED BY <1>1, <1>7, <2>4, <3>1, NodesInFile
  <2>8. \A x \in Range(G[2]) : x \in W
    <3>1. ASSUME NEW x \in Range(G[2]) PROVE x \in W
      <4>1. PICK i \in DOMAIN DocPolicy[p].actions : x = <<"Action", <<p, i>>>>
        BY <1>1, <1>8, <2>2, <2>3, <3>1, IntactPolicy
      <4>2. x \in Tables(File[f]) /\ x[1] = "Action"
        BY <1>1, <2>4, <4>1, TablesOf
      <4> QED BY <1>4, <4>2
    <3> QED BY <3>1
  <2>9. (F[1] # NULL => F[1] \in W) /\ (F[2] # NULL => \A x \in Range(F[2]) : x \in W)
    BY <2>6, <2>7, <2>8
  <2>10. Vouched("Policy", F, W)
    BY <2>6, <2>9, VouchedRoles
  <2> QED BY <1>3, <1>8, <2>1, <2>10
<1>9. Root(File[f]) \in W
  <2>1. PICK t \in Tables(File[f]) : t = Root(File[f])
    BY <1>1, TablesOf
  <2>2. t[1] = "Policies"
    BY <2>1 DEF Root
  <2>3. PICK F : F = Stored(f, t)
    OBVIOUS
  <2>4. PICK G : G = Intact(f, t)
    OBVIOUS
  <2>5. 0 \in DOMAIN G
    BY <1>1, <2>2, <2>4, IntactPolicies
  <2>6. F[0] # Dangling /\ F[0] \in {G[0], NULL}
    BY <1>3, <2>3, <2>4, <2>5
  <2>7. ASSUME NEW x \in Range(G[0]) PROVE x \in W
    <3>1. PICK p \in Range(File[f].doc) : x = <<"Policy", p>>
      BY <1>1, <2>2, <2>4, <2>7, IntactPolicies
    <3>2. x \in Tables(File[f]) /\ x[1] = "Policy"
      BY <1>1, <3>1, TablesOf
    <3> QED BY <1>8, <3>2
  <2>8. Vouched("Policies", F, W)
    BY <2>6, <2>7, VouchedRoles
  <2> QED BY <1>3, <2>1, <2>2, <2>3, <2>8
<1> QED BY <1>2, <1>9

\* plcs_get_policies hands out the policies of a file exactly when every table of the
\* file can be read: no damage gets past the verifier, and no file of a newer schema is
\* refused for what this schema does not know.  (Of files within the nesting limit of
\* the FlatBuffers runtime.)
THEOREM VerifierCorrect == \A f \in Files : VerifyAsRoot(f) <=> f \in ReadableFiles
BY VerifiedReadable, ReadableVerified

-----------------------------------------------------------------------------
(* The programs *)

\* The vector of policies of a file, and whether one of them makes the engine fail.
Given(f) == Policies_policies(<<f, Root(File[f])>>)
Overfull == \E p \in Range(Given(opened)) : TooManyValues(p)

Reporting == {"policy_exit", "actions", "handler"}

\* What the programs and the engine have made of the file so far.
Opening ==
  /\ status = "start" => opened = NULL
  /\ status \in {"ready", "prepared", "running"} => opened \in Files
  /\ pc # "idle" => status = "running"
  /\ status = "success" /\ reader # Cmdline => opened \in Files /\ VerifyAsRoot(opened)
  /\ status = "failure" /\ opened # NULL =>
       ~VerifyAsRoot(opened) \/ Given(opened) = NULL \/ Overfull
  /\ status = "failure" /\ opened # NULL => opened \in Files

Evaluating ==
  /\ pc # "idle" => /\ VerifyAsRoot(opened)
                    /\ Given(opened) # NULL
                    /\ buffer = Given(opened)
  /\ pc \in PolicyPlaces => pix \in 1 .. Len(buffer)
  /\ pix \in Nat \ {0} /\ aix \in Nat \ {0}
  /\ total \in Nat
  /\ status = "running" => (total = 0 => VerifyAsRoot(opened))
  /\ status = "running" => (total # 0 => ~VerifyAsRoot(opened) \/ Given(opened) = NULL \/ Overfull)
  /\ pc \in Reporting => actRes = 0
  /\ pc = "policy_done" => actRes \in Nat /\ (actRes # 0 => Overfull)

Installed == "handler" \in DOMAIN ctx

Course == Opening /\ Evaluating /\ Installed

\* What is handed to the engine are policies of the file.
LEMMA GivenPolicies ==
  ASSUME NEW f \in Files, VerifyAsRoot(f), Given(f) # NULL
  PROVE  Given(f) \in Seq(Policies)
<1>1. f \in ReadableFiles
  BY VerifierCorrect
<1>2. PICK t \in Tables(File[f]) : t = Root(File[f])
  BY TablesOf
<1>3. t[1] = "Policies"
  BY <1>2 DEF Root
<1>4. PICK refs : refs = Stored(f, t)[0]
  OBVIOUS
<1>5. TableReadable(t[1], Stored(f, t))
  BY <1>1, StoredTables DEF ReadableFiles, Readable, Stored
<1>6. 0 \in DOMAIN Stored(f, t)
  BY <1>3, IntactPolicies, StoredFields
<1>7. refs # Dangling /\ refs \in {Intact(f, t)[0], NULL, Dangling}
  BY <1>4, <1>5, <1>6, StoredFields DEF TableReadable
<1>8. Given(f) = IF refs = NULL THEN NULL ELSE [i \in DOMAIN refs |-> <<f, refs[i]>>]
  BY <1>2, <1>4 DEF Given, Policies_policies, VectorOf, AllIn, Table, Stored
<1>9. refs = Intact(f, t)[0]
  BY <1>7, <1>8
<1>10. Intact(f, t)[0] = Refs("Policy", File[f].doc)
  <2>1. t[2] = File[f].doc
    BY <1>2 DEF Root
  <2>2. Intact(f, t) = Fields(<<Refs("Policy", File[f].doc)>>)
    BY <1>3, <2>1, CompiledPolicies DEF Intact
  <2> QED BY <2>2, FieldsOf
<1>11. PICK doc \in Seq(DocPolicies) : doc = File[f].doc
  BY FilesAssumption
<1>12. refs = [i \in DOMAIN doc |-> <<"Policy", doc[i]>>]
  BY <1>9, <1>10, <1>11, Solid DEF Refs
<1>13. Len(doc) \in Nat /\ DOMAIN doc = 1 .. Len(doc)
  OBVIOUS
<1>14. \A i \in 1 .. Len(doc) : <<f, refs[i]>> \in Policies
  <2>1. SUFFICES ASSUME NEW i \in 1 .. Len(doc) PROVE <<f, refs[i]>> \in Policies
    OBVIOUS
  <2>2. refs[i] = <<"Policy", doc[i]>> /\ doc[i] \in Range(doc)
    BY <1>12, <1>13 DEF Range
  <2>3. PICK u \in Tables(File[f]) : u = refs[i] /\ u[1] = "Policy"
    BY <1>11, <2>2, TablesOf
  <2>4. <<f, u>> \in InRole("Policy")
    BY <1>1, <2>3 DEF InRole
  <2> QED BY <2>3, <2>4, TablesAssumption DEF BufferPolicy
<1>15. Given(f) = [i \in 1 .. Len(doc) |-> <<f, refs[i]>>]
  BY <1>8, <1>12, <1>13
<1> QED BY <1>13, <1>14, <1>15

\* The context calls of the engine leave the handlers.
KeepsHandlers == "handler" \in DOMAIN ctx' /\ ctx'.handler = ctx.handler

LEMMA ErrorsKeepHandlers ==
  ASSUME NEW c, "handler" \in DOMAIN c, NEW x, NEW y
  PROVE  \A d \in {SetError(c, x), ReadEntry(c, x), SetEvalError(c, x, y), SetActionError(c, x, y)} :
           "handler" \in DOMAIN d /\ d.handler = c.handler
<1>1. SetError(c, x) = [c EXCEPT !.error = x]
  BY DEF SetError
<1>2. ReadEntry(c, x) \in {c, [c EXCEPT !.error = EIX_OVERFLOW]}
  BY DEF ReadEntry
<1>3. SetEvalError(c, x, y) \in {c, [c EXCEPT !.evalError[x] = y]}
  BY DEF SetEvalError
<1>4. SetActionError(c, x, y) \in {c, [c EXCEPT !.actionError[x] = y]}
  BY DEF SetActionError
<1>5. \A d \in {c, [c EXCEPT !.error = x], [c EXCEPT !.error = EIX_OVERFLOW],
                [c EXCEPT !.evalError[x] = y], [c EXCEPT !.actionError[x] = y]} :
        "handler" \in DOMAIN d /\ d.handler = c.handler
  OBVIOUS
<1> QED BY <1>1, <1>2, <1>3, <1>4, <1>5

\* A step within an evaluation.
LEMMA StepCourse ==
  ASSUME Course, KeepsHandlers, UNCHANGED <<reader, opened, status, buffer>>,
         pc # "idle",
         pc' \in PolicyPlaces => pix' \in 1 .. Len(buffer),
         pix' \in Nat \ {0}, aix' \in Nat \ {0},
         total' \in Nat, total = 0 /\ total' # 0 => Overfull,
         pc' \in Reporting => actRes' = 0,
         pc' = "policy_done" => actRes' \in Nat /\ (actRes' # 0 => Overfull)
  PROVE  Course'
<1>1. status = "running" /\ opened \in Files /\ VerifyAsRoot(opened) /\ Given(opened) # NULL
      /\ buffer = Given(opened)
  BY DEF Course, Opening, Evaluating
<1>2. Overfull' <=> Overfull
  <2>1. opened' = opened /\ ctx'.handler = ctx.handler
    BY DEF KeepsHandlers
  <2>2. \A p : TooManyValues(p)' <=> TooManyValues(p)
    BY <2>1 DEF TooManyValues, GetAction
  <2> QED BY <2>1, <2>2 DEF Overfull
<1>3. total' # 0 => Overfull
  BY <1>1 DEF Course, Evaluating
<1>4. Opening'
  BY <1>1 DEF Opening
<1>5. Evaluating'
  BY <1>1, <1>2, <1>3 DEF Evaluating
<1>6. Installed'
  BY DEF Installed, KeepsHandlers
<1> QED BY <1>4, <1>5, <1>6 DEF Course

\* The steps of the walk, up to the result of the policy.
LEMMA WalkCourse ==
  ASSUME Course, KeepsHandlers, UNCHANGED <<reader, opened, status>>, UNCHANGED evalVars, UNCHANGED actVars,
         pc \in PolicyPlaces, pc' \notin Reporting \cup {"policy_done"}
  PROVE  Course'
<1>1. pc # "idle"
  BY DEF PolicyPlaces, WalkPlaces
<1> QED BY <1>1, StepCourse DEF Course, Evaluating, evalVars, actVars

\* The steps of the engine within the walk, where nothing but the error of the context
\* or of an entry changes that matters here.
Walks ==
  \/ EvaluateRoot \/ CutNode \/ EnterNode \/ LeaveNode
  \/ EvaluateUnknown \/ LeafAbstains \/ CallDefaultEvaluator \/ CallHostEvaluator
  \/ BeginNot \/ BeginComposite \/ NextChild \/ ChildrenDone
  \/ ReturnToNot \/ ReturnToComposite \/ ReturnToPolicy

LEMMA WalksCourse ==
  ASSUME Course, Walks, UNCHANGED <<reader, opened, status>>
  PROVE  Course'
<1>1. /\ UNCHANGED ctx => KeepsHandlers
      /\ \A x : ctx' = ReadEntry(ctx, x) => KeepsHandlers
      /\ \A x, y : ctx' = SetEvalError(ctx, x, y) => KeepsHandlers
  BY ErrorsKeepHandlers DEF KeepsHandlers, Course, Installed
<1>2. KeepsHandlers
  <2>1. CASE LeaveNode
    BY <1>1, <2>1 DEF LeaveNode, DescribeNode
  <2>2. CASE LeafAbstains
    BY <1>1, <2>2 DEF LeafAbstains
  <2>3. CASE CallDefaultEvaluator
    BY <1>1, <2>3 DEF CallDefaultEvaluator, DefaultError
  <2>4. CASE ~(LeaveNode \/ LeafAbstains \/ CallDefaultEvaluator)
    <3>1. UNCHANGED ctx
      BY <2>4 DEF Walks, EvaluateRoot, CutNode, EnterNode, EvaluateUnknown, CallHostEvaluator, BeginNot,
                  BeginComposite, NextChild, ChildrenDone, ReturnToNot, ReturnToComposite, ReturnToPolicy
    <3> QED BY <1>1, <3>1
  <2> QED BY <2>1, <2>2, <2>3, <2>4
<1>3. UNCHANGED evalVars /\ UNCHANGED actVars
  BY DEF Walks, EvaluateRoot, CutNode, EnterNode, LeaveNode, EvaluateUnknown, LeafAbstains,
         CallDefaultEvaluator, CallHostEvaluator, BeginNot, BeginComposite, NextChild, ChildrenDone,
         ReturnToNot, ReturnToComposite, ReturnToPolicy
<1>4. pc \in {"root"} \cup WalkPlaces
  BY DEF WalkPlaces, Walks, EvaluateRoot, CutNode, EnterNode, LeaveNode, EvaluateUnknown, LeafAbstains,
         CallDefaultEvaluator, CallHostEvaluator, BeginNot, BeginComposite, NextChild, ChildrenDone,
         ReturnToNot, ReturnToComposite, ReturnToPolicy
<1>5. pc' \in {"verdict"} \cup WalkPlaces
  BY DEF WalkPlaces, Walks, EvaluateRoot, CutNode, EnterNode, LeaveNode, EvaluateUnknown, LeafAbstains,
         CallDefaultEvaluator, CallHostEvaluator, BeginNot, BeginComposite, NextChild, ChildrenDone,
         ReturnToNot, ReturnToComposite, ReturnToPolicy
<1>6. pc \in PolicyPlaces /\ pc' \notin Reporting \cup {"policy_done"}
  BY <1>4, <1>5 DEF PolicyPlaces, WalkPlaces, Reporting
<1> QED BY <1>2, <1>3, <1>6, WalkCourse

LEMMA SequenceDomain ==
  ASSUME NEW S, NEW s \in Seq(S)
  PROVE  Len(s) \in Nat /\ DOMAIN s = 1 .. Len(s)
OBVIOUS

\* The actions of the policy at work are a sequence.
LEMMA ActionsInTurn ==
  ASSUME Course, pc \in PolicyPlaces, aix <= Len(Actions)
  PROVE  aix \in DOMAIN Actions /\ buffer[pix] \in Range(Given(opened))
<1>1. pc # "idle"
  BY DEF PolicyPlaces, WalkPlaces
<1>2. /\ opened \in Files /\ VerifyAsRoot(opened) /\ Given(opened) # NULL
      /\ buffer = Given(opened) /\ pix \in 1 .. Len(buffer) /\ aix \in Nat \ {0}
  BY <1>1 DEF Course, Opening, Evaluating
<1>3. PICK b \in Seq(Policies) : b = buffer
  BY <1>2, GivenPolicies
<1>4. b[pix] \in Policies /\ pix \in DOMAIN b
  BY <1>2, <1>3
<1>5. Policy[b[pix]] \in [rules : Nodes \cup {NULL}, actions : Seq(ActionRecords)]
  BY <1>4, TreeAssumption
<1>6. PICK as \in Seq(ActionRecords) : as = Actions
  BY <1>3, <1>5 DEF Actions
<1>7. Len(as) \in Nat /\ DOMAIN as = 1 .. Len(as)
  BY <1>6, SequenceDomain
<1>8. aix \in DOMAIN as
  BY <1>2, <1>6, <1>7
<1> QED BY <1>2, <1>3, <1>4, <1>6, <1>8 DEF Range

\* The engine's own steps.
LEMMA EngineCourse ==
  ASSUME Course, Engine, UNCHANGED <<reader, opened, status>>
  PROVE  Course'
<1>1. UNCHANGED ctx => KeepsHandlers
  BY DEF KeepsHandlers, Course, Installed
<1>2. /\ pix \in Nat \ {0} /\ aix \in Nat \ {0} /\ total \in Nat
      /\ pc \in PolicyPlaces => pix \in 1 .. Len(buffer)
      /\ pc \in Reporting => actRes = 0
      /\ pc = "policy_done" => actRes \in Nat /\ (actRes # 0 => Overfull)
  BY DEF Course, Evaluating
<1>3. /\ \A x \in {"policy_enter", "root", "verdict", "policy_exit", "actions", "handler", "policy_done"} :
           x \in PolicyPlaces
      /\ \A x \in {"idle", "policies", "stop"} : x \notin PolicyPlaces \cup Reporting \cup {"policy_done"}
      /\ Reporting = {"policy_exit", "actions", "handler"}
  BY DEF PolicyPlaces, WalkPlaces, Reporting
<1>4. CASE SkipPolicy
  BY <1>1, <1>2, <1>3, <1>4, StepCourse DEF SkipPolicy, actVars
<1>5. CASE BeginPolicy
  <2>1. KeepsHandlers
    BY <1>5, ErrorsKeepHandlers DEF BeginPolicy, ForgetError, KeepsHandlers, Course, Installed
  <2>2. pc = "policies" /\ pix <= Len(buffer) /\ UNCHANGED evalVars /\ UNCHANGED actVars
    BY <1>5 DEF BeginPolicy
  <2>3. pc' \in {"policy_enter", "root"}
    BY <1>5 DEF BeginPolicy
  <2>4. pix \in 1 .. Len(buffer)
    <3>1. opened \in Files /\ VerifyAsRoot(opened) /\ Given(opened) # NULL /\ buffer = Given(opened)
      BY <2>2 DEF Course, Opening, Evaluating
    <3>2. buffer \in Seq(Policies)
      BY <3>1, GivenPolicies
    <3>3. Len(buffer) \in Nat
      BY <3>2
    <3> QED BY <1>2, <2>2, <3>3
  <2> QED BY <1>2, <1>3, <2>1, <2>2, <2>3, <2>4, StepCourse DEF evalVars, actVars
<1>6. CASE ReportVerdict
  <2>1. KeepsHandlers /\ UNCHANGED evalVars /\ aix' = 1 /\ actRes' = 0 /\ pc = "verdict"
    BY <1>1, <1>6 DEF ReportVerdict, ESUCCESS
  <2>2. pc' \in {"policy_exit", "actions"}
    BY <1>6 DEF ReportVerdict
  <2> QED BY <1>2, <1>3, <2>1, <2>2, StepCourse DEF evalVars
<1>7. CASE EndPolicy
  <2>1. /\ KeepsHandlers /\ UNCHANGED <<buffer, stopFn>> /\ UNCHANGED actVars /\ pc = "policy_done"
        /\ total' = total + actRes /\ pix' = pix + 1
    BY <1>1, <1>7 DEF EndPolicy
  <2>2. pc' \in {"stop", "policies"}
    BY <1>7 DEF EndPolicy
  <2>3. total' \in Nat /\ (total = 0 /\ total' # 0 => Overfull)
    BY <1>2, <2>1
  <2> QED BY <1>2, <1>3, <2>1, <2>2, <2>3, StepCourse DEF actVars
<1>8. CASE BufferDone
  <2>1. /\ pc = "policies" /\ pc' = "idle" /\ UNCHANGED <<ctx, total>> /\ UNCHANGED actVars
        /\ pix' = 1
    BY <1>8 DEF BufferDone, Forget
  <2>2. status = "running"
    BY <2>1 DEF Course, Opening
  <2>3. Overfull' <=> Overfull
    BY <2>1 DEF Overfull, TooManyValues, GetAction
  <2>4. Opening'
    BY <2>1, <2>2 DEF Course, Opening
  <2>5. Evaluating'
    BY <1>3, <2>1, <2>2, <2>3 DEF Course, Evaluating, actVars
  <2> QED BY <2>1, <2>4, <2>5 DEF Course, Installed
<1>9. CASE Walks
  BY <1>9, WalksCourse
<1>10. CASE SkipAction
  <2>1. KeepsHandlers /\ UNCHANGED evalVars /\ aix' = aix + 1 /\ actRes' = actRes /\ pc = "actions" /\ pc' = "actions"
    BY <1>1, <1>10 DEF SkipAction, ContinueAt
  <2> QED BY <1>2, <1>3, <2>1, StepCourse DEF evalVars
<1>11. CASE AbortActions
  <2>1. /\ KeepsHandlers /\ UNCHANGED evalVars /\ aix' = aix /\ actRes' = EIX_OVERFLOW
        /\ pc = "actions" /\ pc' = "policy_done" /\ aix <= Len(Actions)
        /\ GetAction(ctx, Actions[aix].id) # NULL /\ Actions[aix].oversized
    BY <1>1, <1>11 DEF AbortActions
  <2>2. aix \in DOMAIN Actions /\ buffer[pix] \in Range(Given(opened))
    BY <1>3, <2>1, ActionsInTurn
  <2>3. Overfull
    BY <2>1, <2>2 DEF Overfull, TooManyValues, Actions
  <2>4. actRes' \in Nat
    BY <2>1 DEF EIX_OVERFLOW
  <2> QED BY <1>2, <1>3, <2>1, <2>3, <2>4, StepCourse DEF evalVars
<1>12. CASE CallAction
  <2>1. KeepsHandlers /\ UNCHANGED evalVars /\ UNCHANGED actVars /\ pc = "actions" /\ pc' = "handler"
    BY <1>1, <1>12 DEF CallAction
  <2> QED BY <1>2, <1>3, <2>1, StepCourse DEF evalVars, actVars
<1>13. CASE ActionsDone
  <2>1. KeepsHandlers /\ UNCHANGED evalVars /\ UNCHANGED actVars /\ pc = "actions" /\ pc' = "policy_done"
    BY <1>1, <1>13 DEF ActionsDone
  <2>2. actRes' = 0
    BY <1>2, <1>3, <2>1 DEF actVars
  <2> QED BY <1>2, <1>3, <2>1, <2>2, StepCourse DEF evalVars, actVars
<1> QED BY <1>4, <1>5, <1>6, <1>7, <1>8, <1>9, <1>10, <1>11, <1>12, <1>13 DEF Engine, Walks

\* A callback of the observer, an evaluator or a handler returns.
LEMMA ReturnsCourse ==
  ASSUME Course,
         \/ PolicyEnterReturns \/ (\E h : NodeEnterReturns(h)) \/ NodeExitReturns \/ PolicyExitReturns
         \/ (\E r : EvaluatorReturns(r)) \/ ActionReturns(0),
         UNCHANGED <<reader, opened, status>>
  PROVE  Course'
<1>1. UNCHANGED ctx => KeepsHandlers
  BY DEF KeepsHandlers, Course, Installed
<1>2. pix \in Nat \ {0} /\ aix \in Nat \ {0} /\ total \in Nat
  BY DEF Course, Evaluating
<1>3. CASE PolicyEnterReturns \/ (\E h : NodeEnterReturns(h)) \/ NodeExitReturns \/ (\E r : EvaluatorReturns(r))
  <2>1. UNCHANGED ctx /\ UNCHANGED evalVars /\ UNCHANGED actVars
    BY <1>3 DEF PolicyEnterReturns, NodeEnterReturns, NodeExitReturns, EvaluatorReturns
  <2>2. pc \in {"policy_enter", "node_enter", "node_exit", "evaluator"} /\ pc' \in {"root", "node", "return", "leave"}
    BY <1>3 DEF PolicyEnterReturns, NodeEnterReturns, NodeExitReturns, EvaluatorReturns
  <2>3. pc \in PolicyPlaces /\ pc' \notin Reporting \cup {"policy_done"}
    BY <2>2 DEF PolicyPlaces, WalkPlaces, Reporting
  <2> QED BY <1>1, <2>1, <2>3, WalkCourse
<1>4. CASE PolicyExitReturns
  <2>1. /\ UNCHANGED ctx /\ UNCHANGED evalVars /\ UNCHANGED actVars
        /\ pc = "policy_exit" /\ pc' = "actions"
    BY <1>4 DEF PolicyExitReturns
  <2>2. actRes = 0 /\ pix \in 1 .. Len(buffer)
    BY <2>1 DEF Course, Evaluating, Reporting, PolicyPlaces
  <2> QED BY <1>1, <1>2, <2>1, <2>2, StepCourse DEF evalVars, actVars
<1>5. CASE ActionReturns(0)
  <2>1. /\ UNCHANGED evalVars /\ aix' = aix + 1 /\ actRes' = 0
        /\ pc = "handler" /\ pc' = "actions"
    BY <1>5 DEF ActionReturns
  <2>2. KeepsHandlers
    BY <1>5, ErrorsKeepHandlers DEF ActionReturns, KeepsHandlers, Course, Installed
  <2>3. pix \in 1 .. Len(buffer)
    BY <2>1 DEF Course, Evaluating, PolicyPlaces
  <2> QED BY <1>2, <2>1, <2>2, <2>3, StepCourse DEF evalVars
<1> QED BY <1>3, <1>4, <1>5

\* The engine is called on what plcs_get_policies makes of the file.
LEMMA CalledCourse ==
  ASSUME Course, EvaluateBuffer(plcs_get_policies(opened), FALSE), status \in {"ready", "prepared"},
         status' = "running", UNCHANGED <<reader, opened>>
  PROVE  Course'
<1>1. opened \in Files /\ opened' = opened /\ ctx' = ctx /\ aix' = aix /\ pc = "idle"
  BY DEF Course, Opening, EvaluateBuffer, actVars
<1>2. plcs_get_policies(opened) = IF ~VerifyAsRoot(opened) THEN NULL ELSE Given(opened)
  BY DEF plcs_get_policies, Given
<1>3. CASE plcs_get_policies(opened) = NULL
  <2>1. total' = 5 /\ pc' = "idle" /\ pix' = pix /\ buffer' = buffer
    BY <1>1, <1>3 DEF EvaluateBuffer, ENO_DATA
  <2>2. ~VerifyAsRoot(opened) \/ Given(opened) = NULL
    BY <1>2, <1>3
  <2>3. pc' \notin PolicyPlaces \cup Reporting \cup {"policy_done"}
    BY <2>1 DEF PolicyPlaces, WalkPlaces, Reporting
  <2>4. Opening'
    BY <1>1, <2>1 DEF Course, Opening
  <2>5. Evaluating'
    BY <1>1, <2>1, <2>2, <2>3 DEF Course, Evaluating
  <2> QED BY <1>1, <2>4, <2>5 DEF Course, Installed
<1>4. CASE plcs_get_policies(opened) # NULL
  <2>1. total' = 0 /\ pc' = "policies" /\ pix' = 1 /\ buffer' = plcs_get_policies(opened)
    BY <1>1, <1>4 DEF EvaluateBuffer, ESUCCESS
  <2>2. VerifyAsRoot(opened) /\ Given(opened) # NULL /\ buffer' = Given(opened)
    BY <1>2, <1>4, <2>1
  <2>3. pc' \notin PolicyPlaces \cup Reporting \cup {"policy_done"}
    BY <2>1 DEF PolicyPlaces, WalkPlaces, Reporting
  <2>4. Opening'
    BY <1>1, <2>1 DEF Course, Opening
  <2>5. Evaluating'
    BY <1>1, <2>1, <2>2, <2>3 DEF Course, Evaluating
  <2> QED BY <1>1, <2>4, <2>5 DEF Course, Installed
<1> QED BY <1>3, <1>4

\* Nothing runs while a program prepares the context, or once it is done.
LEMMA IdleCourse ==
  ASSUME Course, pc = "idle", UNCHANGED <<pc, pix, aix, total>>, "handler" \in DOMAIN ctx',
         status' # "running", Opening'
  PROVE  Course'
<1>1. pc' \notin PolicyPlaces \cup Reporting \cup {"policy_done"}
  BY DEF PolicyPlaces, WalkPlaces, Reporting
<1>2. Evaluating'
  BY <1>1 DEF Course, Evaluating
<1> QED BY <1>2 DEF Course, Installed

\* What the programs make of the context has handlers.
LEMMA ContextCallsInstalled ==
  ASSUME NEW c, "handler" \in DOMAIN c
  PROVE  /\ \A e, g : "handler" \in DOMAIN RegisterEvaluator(c, e, g)
         /\ \A e, v : "handler" \in DOMAIN SetParam(c, e, v)
         /\ \A a, h : "handler" \in DOMAIN RegisterAction(c, a, h)
         /\ \A o : "handler" \in DOMAIN SetObserver(c, o)
         /\ "handler" \in DOMAIN InitCtx(c)
         /\ "handler" \in DOMAIN Reset(c)
<1>1. \A e, g : "handler" \in DOMAIN RegisterEvaluator(c, e, g)
  BY DEF RegisterEvaluator
<1>2. \A e, v : "handler" \in DOMAIN SetParam(c, e, v)
  BY DEF SetParam
<1>3. \A a, h : "handler" \in DOMAIN RegisterAction(c, a, h)
  BY DEF RegisterAction
<1>4. \A o : "handler" \in DOMAIN SetObserver(c, o)
  BY DEF SetObserver
<1>5. "handler" \in DOMAIN Reset(c)
  BY DEF Reset
<1>6. "handler" \in DOMAIN InitCtx(c)
  BY <1>5 DEF InitCtx
<1> QED BY <1>1, <1>2, <1>3, <1>4, <1>5, <1>6

LEMMA PreparedInstalled ==
  ASSUME Installed, NEW r
  PROVE  "handler" \in DOMAIN Prepared(ctx, r)
BY ContextCallsInstalled DEF Prepared, Installed

LEMMA InitializedInstalled ==
  ASSUME Installed
  PROVE  "handler" \in DOMAIN Initialized(ctx)
BY ContextCallsInstalled DEF Initialized, Installed

\* No program has opened anything yet.
LEMMA InitCourse == ExamplesInit => Course
<1>1. SUFFICES ASSUME ExamplesInit PROVE Course
  OBVIOUS
<1>2. /\ ctx = ZeroedCtx /\ opened = NULL /\ status = "start"
      /\ pc = "idle" /\ pix = 1 /\ total = 0 /\ aix = 1
  BY <1>1 DEF ExamplesInit, ProgramInit, Init, ESUCCESS
<1>3. "handler" \in DOMAIN ctx
  BY <1>2 DEF ZeroedCtx
<1>4. pc \notin PolicyPlaces \cup Reporting \cup {"policy_done"}
  BY <1>2 DEF PolicyPlaces, WalkPlaces, Reporting
<1>5. Opening
  BY <1>2 DEF Opening
<1>6. Evaluating
  BY <1>2, <1>4 DEF Evaluating
<1> QED BY <1>3, <1>5, <1>6 DEF Course, Installed

\* Whatever the file is, the context and the engine stay as they are.
LEMMA QuietCourse ==
  ASSUME Course, UNCHANGED vars, pc = "idle", status' # "running", Opening'
  PROVE  Course'
<1>1. ctx' = ctx /\ pc' = pc /\ pix' = pix /\ aix' = aix /\ total' = total
  BY DEF vars, evalVars, actVars
<1>2. "handler" \in DOMAIN ctx'
  BY <1>1 DEF Course, Installed
<1> QED BY <1>1, <1>2, IdleCourse

\* A file is opened or not; nothing has run.
LEMMA OpensCourse ==
  ASSUME Course, status = "start",
         \/ \E r : CannotRead(r)
         \/ \E r \in Readers, f \in Files : Prepare(r, f)
         \/ \E f \in Files : ReadPolicies(f)
  PROVE  Course'
<1>1. pc = "idle" /\ opened = NULL
  BY DEF Course, Opening
<1>2. CASE \E r : CannotRead(r)
  <2>1. UNCHANGED vars /\ status' = "failure" /\ opened' = NULL /\ pc' = "idle"
    BY <1>1, <1>2 DEF CannotRead, vars
  <2>2. Opening'
    BY <2>1 DEF Opening
  <2> QED BY <1>1, <2>1, <2>2, QuietCourse
<1>3. CASE \E r \in Readers, f \in Files : Prepare(r, f)
  <2>1. PICK r \in Readers, f \in Files : Prepare(r, f)
    BY <1>3
  <2>2. /\ opened' \in Files /\ status' = "ready" /\ ctx' = Prepared(ctx, r)
        /\ UNCHANGED <<pc, pix, aix, total>>
    BY <2>1 DEF Prepare, engineIdle, evalVars, actVars
  <2>3. Opening'
    BY <1>1, <2>2 DEF Opening
  <2>4. "handler" \in DOMAIN ctx'
    BY <2>2, PreparedInstalled DEF Course
  <2> QED BY <1>1, <2>2, <2>3, <2>4, IdleCourse
<1>4. CASE \E f \in Files : ReadPolicies(f)
  <2>1. UNCHANGED vars /\ status' = "ready" /\ opened' \in Files /\ pc' = "idle"
    BY <1>1, <1>4 DEF ReadPolicies, vars
  <2>2. Opening'
    BY <2>1 DEF Opening
  <2> QED BY <1>1, <2>1, <2>2, QuietCourse
<1> QED BY <1>2, <1>3, <1>4

\* The exit status says whether the evaluation went well.
LEMMA ExitCourse ==
  ASSUME Course, Exit
  PROVE  Course'
<1>1. /\ UNCHANGED vars /\ UNCHANGED <<reader, opened>> /\ pc = "idle" /\ status = "running"
      /\ status' = IF total = 0 THEN "success" ELSE "failure"
  BY DEF Exit
<1>2. pc' = "idle" /\ ctx' = ctx /\ opened' = opened
  BY <1>1 DEF vars
<1>3. opened \in Files
      /\ (total = 0 => VerifyAsRoot(opened))
      /\ (total # 0 => ~VerifyAsRoot(opened) \/ Given(opened) = NULL \/ Overfull)
  BY <1>1 DEF Course, Opening, Evaluating
<1>4. Overfull' <=> Overfull
  BY <1>2 DEF Overfull, TooManyValues, GetAction
<1>5. CASE total = 0
  <2>1. status' = "success"
    BY <1>1, <1>5
  <2>2. Opening'
    BY <1>2, <1>3, <1>5, <2>1 DEF Opening
  <2> QED BY <1>1, <2>1, <2>2, QuietCourse
<1>6. CASE total # 0
  <2>1. status' = "failure"
    BY <1>1, <1>6
  <2>2. Opening'
    BY <1>2, <1>3, <1>4, <1>6, <2>1 DEF Opening
  <2> QED BY <1>1, <2>1, <2>2, QuietCourse
<1> QED BY <1>5, <1>6

\* basic-reader and the readers that have no observer.
LEMMA ProgramCourse ==
  ASSUME Course, ProgramNext
  PROVE  Course'
<1>1. CASE (\E r \in Readers : CannotRead(r)) \/ (\E r \in Readers, f \in Files : Prepare(r, f))
  <2>1. status = "start"
    BY <1>1 DEF CannotRead, Prepare
  <2> QED BY <1>1, <2>1, OpensCourse
<1>2. CASE Evaluate
  BY <1>2, CalledCourse DEF Evaluate
<1>3. CASE PolicyEntered \/ NodeEntered \/ NodeExited \/ PolicyExited
  <2>1. UNCHANGED <<reader, opened, status>>
    BY <1>3 DEF PolicyEntered, NodeEntered, NodeExited, PolicyExited
  <2>2. PolicyEnterReturns \/ (\E h : NodeEnterReturns(h)) \/ NodeExitReturns \/ PolicyExitReturns
    BY <1>3 DEF PolicyEntered, NodeEntered, NodeExited, PolicyExited
  <2> QED BY <2>1, <2>2, ReturnsCourse
<1>4. CASE Walk
  <2>1. UNCHANGED <<reader, opened, status>>
    BY <1>4 DEF Walk, readerVars
  <2>2. Engine \/ EvaluatorReturns("TRUE") \/ ActionReturns(0)
    BY <1>4 DEF Walk, AnswerReturns
  <2> QED BY <2>1, <2>2, EngineCourse, ReturnsCourse
<1>5. CASE Exit
  BY <1>5, ExitCourse
<1> QED BY <1>1, <1>2, <1>3, <1>4, <1>5 DEF ProgramNext

\* The program that evaluates one file for a list of processes.
LEMMA CmdlineCourse ==
  ASSUME Course, reader = Cmdline, CmdlineStep
  PROVE  Course'
<1>1. CASE BeginTest
  <2>1. /\ status = "ready" /\ status' = "prepared" /\ UNCHANGED <<reader, opened>>
        /\ UNCHANGED <<pc, pix, aix, total>>
    BY <1>1 DEF BeginTest, engineIdle, evalVars, actVars
  <2>2. pc = "idle" /\ opened \in Files
    BY <2>1 DEF Course, Opening
  <2>3. "handler" \in DOMAIN ctx'
    BY <1>1, ContextCallsInstalled, InitializedInstalled
       DEF BeginTest, REGISTER_STR_EVAL_PARAM, Course
  <2>4. Opening'
    BY <2>1, <2>2 DEF Opening
  <2> QED BY <2>1, <2>2, <2>3, <2>4, IdleCourse
<1>2. CASE EvaluateTest
  BY <1>2, CalledCourse DEF EvaluateTest
<1>3. CASE EndTest
  <2>1. /\ status = "running" /\ pc = "idle" /\ status' = "ready" /\ opened' = opened /\ UNCHANGED vars
        /\ pc' = "idle"
    BY <1>3 DEF EndTest, vars
  <2>2. Opening'
    BY <2>1 DEF Course, Opening
  <2> QED BY <2>1, <2>2, QuietCourse
<1>4. CASE TestsDone
  <2>1. status = "ready" /\ status' = "success" /\ reader' = Cmdline /\ UNCHANGED vars
    BY <1>4 DEF TestsDone
  <2>2. pc = "idle" /\ pc' = "idle"
    BY <2>1 DEF Course, Opening, vars
  <2>3. Opening'
    BY <2>1, <2>2 DEF Opening
  <2> QED BY <2>1, <2>2, <2>3, QuietCourse
<1>5. CASE EngineStep
  BY <1>5, EngineCourse DEF EngineStep, readerVars
<1>6. CASE EvaluatorAnswers
  <2>1. /\ pc = "evaluator" /\ pc' = "leave" /\ UNCHANGED <<reader, opened, status>>
        /\ UNCHANGED evalVars /\ UNCHANGED actVars
        /\ ctx' \in {ctx, SetEvalError(ctx, Entry, EUNKNOWN_CMP)}
    BY <1>6 DEF EvaluatorAnswers, readerVars, DefaultError
  <2>2. KeepsHandlers
    BY <2>1, ErrorsKeepHandlers DEF KeepsHandlers, Course, Installed
  <2>3. pc \in PolicyPlaces /\ pc' \notin Reporting \cup {"policy_done"}
    BY <2>1 DEF PolicyPlaces, WalkPlaces, Reporting
  <2> QED BY <2>1, <2>2, <2>3, WalkCourse
<1>7. CASE HandlerReturns
  BY <1>7, ReturnsCourse DEF HandlerReturns, readerVars, ESUCCESS
<1> QED BY <1>1, <1>2, <1>3, <1>4, <1>5, <1>6, <1>7 DEF CmdlineStep

\* Every step of the example programs keeps to the course.
LEMMA NextCourse == Course /\ [ExamplesNext]_exampleVars => Course'
<1>1. SUFFICES ASSUME Course, [ExamplesNext]_exampleVars PROVE Course'
  OBVIOUS
<1>2. CASE reader # Cmdline /\ ProgramNext
  BY <1>1, <1>2, ProgramCourse
<1>3. CASE CmdlineCannotRead \/ \E f \in Files : ReadPolicies(f)
  <2>1. status = "start" /\ ((\E r : CannotRead(r)) \/ \E f \in Files : ReadPolicies(f))
    BY <1>3 DEF CmdlineCannotRead, CannotRead, ReadPolicies
  <2> QED BY <1>1, <2>1, OpensCourse
<1>4. CASE reader = Cmdline /\ CmdlineStep
  BY <1>1, <1>4, CmdlineCourse
<1>5. CASE UNCHANGED exampleVars
  <2>1. /\ UNCHANGED <<ctx, pc, buffer, pix, total, aix, actRes>>
        /\ UNCHANGED <<reader, opened, status>>
    BY <1>5 DEF exampleVars, programVars, readerVars, vars, evalVars, actVars
  <2>2. Overfull' <=> Overfull
    BY <2>1 DEF Overfull, TooManyValues, GetAction
  <2>3. Opening' /\ Evaluating' /\ Installed'
    BY <1>1, <2>1, <2>2 DEF Course, Opening, Evaluating, Installed
  <2> QED BY <2>3 DEF Course
<1> QED BY <1>1, <1>2, <1>3, <1>4, <1>5 DEF ExamplesNext

LEMMA CourseReadable == Course => OnlyReadableEvaluated
<1>1. SUFFICES ASSUME Course PROVE OnlyReadableEvaluated
  OBVIOUS
<1>2. pc # "idle" => opened \in ReadableFiles
  BY <1>1, VerifierCorrect DEF Course, Opening, Evaluating
<1>3. status = "success" /\ reader # Cmdline => opened \in ReadableFiles
  BY <1>1, VerifierCorrect DEF Course, Opening
<1>4. status = "failure" /\ opened # NULL =>
        opened \notin ReadableFiles \/ Given(opened) = NULL \/ Overfull
  BY <1>1, VerifierCorrect DEF Course, Opening
<1>5. status = "failure" /\ opened # NULL =>
        \/ opened \notin ReadableFiles
        \/ Policies_policies(<<opened, Root(File[opened])>>) = NULL
        \/ \E p \in Range(Policies_policies(<<opened, Root(File[opened])>>)) : TooManyValues(p)
  BY <1>4 DEF Given, Overfull
<1> QED BY <1>2, <1>3, <1>5 DEF OnlyReadableEvaluated

\* The engine is started only on a file that can be read to the last table, whatever
\* the file and the program, a reader that succeeds has evaluated such a file, and one
\* that fails was given a file that cannot be read, has no vector of policies or hands
\* an action that it handles too many values.
THEOREM ReadersEvaluateReadable == ExamplesSpec => []OnlyReadableEvaluated
<1>1. ExamplesSpec => []Course
  BY InitCourse, NextCourse, PTL DEF ExamplesSpec
<1> QED BY <1>1, CourseReadable, PTL
=============================================================================
