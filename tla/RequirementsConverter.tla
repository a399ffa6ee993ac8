------------------------ MODULE RequirementsConverter ------------------------
(***************************************************************************)
(* dd-requirements-converter: from the rules of a requirements file to a   *)
(* policy for each, evaluated here by the Go engine, GoEngine.             *)
(*                                                                         *)
(* A pattern, an executable, an argument and a variable of the environment *)
(* are sequences of characters, every other value is atomic.  The builder  *)
(* is not modelled: an offset is the tree that was built there.            *)
(***************************************************************************)
EXTENDS GoEngine, FiniteSets, SequencesExt

CONSTANTS
  Inputs,  \* what the input file may hold: NULL for what json.Unmarshal rejects
  Error    \* what a conversion returns that fails

\* A character is a string of one, be it one with a meaning or any other.
Chars == {"*", "?", "="} \cup STRING
Text == Seq(Chars)

\* What json.Unmarshal makes of an input that it accepts.
JSONlibc == [arch : STRING, supported : BOOLEAN, min : {NULL} \cup Seq(Nat)]
ArgumentList == [args : Seq(Text), position : {NULL} \cup Int]
IsDeny(d) ==
  /\ d.os \in STRING /\ d.cmds \in Seq(Text) /\ d.args \in Seq(ArgumentList)
  /\ IsFiniteSet(DOMAIN d.envs)
  /\ \A key \in DOMAIN d.envs : key \in Text /\ d.envs[key] \in {NULL} \cup Text
ASSUME InputsAssumption ==
  \A r \in Inputs \ {NULL} :
    /\ r.deny \in Seq(Range(r.deny)) /\ \A d \in Range(r.deny) : IsDeny(d)
    /\ r.glibc \in Seq(JSONlibc) /\ r.musl \in Seq(JSONlibc)
    \* hasMajorMinor
    /\ \A l \in Range(r.glibc) \cup Range(r.musl) : l.min # NULL => Len(l.min) >= 2

VARIABLES
  requirements,  \* the input
  converted,     \* how many of its rules are converted
  policies,      \* the rule tree of each policy so far
  output,        \* what is in the output file: "nothing", "part" or "all" of it
  exit           \* the exit status, "none" before the end

converterVars == <<requirements, converted, policies, output, exit>>

-----------------------------------------------------------------------------
(* Trees *)

StrEvaluator(i, text, c) == [type |-> "eval", eval |-> "str", id |-> i, value |-> text, cmp |-> c]
NumEvaluator(i, n, c) == [type |-> "eval", eval |-> "num", id |-> i, value |-> n, cmp |-> c]
CompositeNode(o, nodes) == [type |-> "comp", op |-> o, children |-> nodes]

\* A single node needs no composite.
Combined(o, nodes) == IF Len(nodes) = 1 THEN nodes[1] ELSE CompositeNode(o, nodes)

\* A node of a tree is named by the path to it, together with what is there.
Kids(node) ==
  IF node[2].type = "comp"
    THEN [i \in DOMAIN node[2].children |-> <<Append(node[1], i), node[2].children[i]>>]
    ELSE << >>

\* The nodes of a tree: none has more than four levels.
WithKids(nodes) == nodes \cup UNION {Range(Kids(node)) : node \in nodes}
RootOf(tree) == << << >>, tree>>
NodesOf(tree) == WithKids(WithKids(WithKids({RootOf(tree)})))

Document(tree) ==
  [node \in NodesOf(tree) |->
     IF node[2].type = "comp" THEN [node[2] EXCEPT !.children = Kids(node)] ELSE node[2]]

-----------------------------------------------------------------------------
(* commands.go, arguments.go *)

Matcher(text) == IF \E i \in DOMAIN text : text[i] \in {"*", "?"} THEN "WILDCARD" ELSE "EXACT"
Matching(i, text) == StrEvaluator(i, text, Matcher(text))

ConvertCmd(pattern) == Matching("PROCESS_EXE_FULL_PATH", pattern)

ArgvIds ==
  LET ids == <<"PROCESS_ARGV_N_6", "PROCESS_ARGV_N_5", "PROCESS_ARGV_N_4",
               "PROCESS_ARGV_N_3", "PROCESS_ARGV_N_2", "PROCESS_ARGV_N",
               "PROCESS_ARGV_0", "PROCESS_ARGV_1", "PROCESS_ARGV_2",
               "PROCESS_ARGV_3", "PROCESS_ARGV_4", "PROCESS_ARGV_5">>
  IN  [k \in -6 .. 5 |-> ids[k + 7]]
getArgvEvaluatorForPosition(position) ==
  IF position \in DOMAIN ArgvIds THEN ArgvIds[position] ELSE "PROCESS_ARGV"

Matchable(argument) == argument \notin {<< >>, <<"*">>, <<"?">>}

\* Mutant: the position of the first argument is advanced too.
PositionAfterEach(list, i) ==
  IF list.position = NULL THEN NULL
  ELSE list.position + Cardinality({j \in 1 .. i : list.args[j] # << >>})

\* The position when the loop comes to the i-th argument: each argument but an
\* empty one, and the first, moves it on.
PositionAt(list, i) ==
  IF list.position = NULL THEN NULL
  ELSE list.position + Cardinality({j \in 2 .. i : list.args[j] # << >>})

ArgumentNode(list, i) ==
  Matching(getArgvEvaluatorForPosition(PositionAt(list, i)), list.args[i])

\* The nodes after each turn of the loop over the arguments.
ArgumentNodes(list) ==
  LET nodes[i \in 0 .. Len(list.args)] ==
        IF i = 0 THEN << >>
        ELSE IF Matchable(list.args[i]) THEN Append(nodes[i - 1], ArgumentNode(list, i))
        ELSE nodes[i - 1]
  IN  nodes[Len(list.args)]

ConvertArguments(list) ==
  IF ArgumentNodes(list) = << >> THEN Error ELSE Combined("AND", ArgumentNodes(list))

-----------------------------------------------------------------------------
(* deny.go *)

\* Mutant: an operating system that is not known is passed on.
anyOS(os) == IF os = "darwin" THEN "macos" ELSE os
normalizeOS(os) ==
  IF os \in {"windows", "linux"} THEN os
  ELSE IF os \in {"darwin", "macos"} THEN "macos" ELSE NULL

\* A variable without a value has to be there, and not to be empty.
EnvPattern(key, value) == key \o <<"=">> \o IF value = NULL THEN <<"*", "?">> ELSE value

Group(o, nodes) == IF nodes = << >> THEN << >> ELSE <<Combined(o, nodes)>>

\* The policies of a rule, here one.  The variables are in a map: their order is any.
ConvertDeny(d, keys) ==
  LET os == IF d.os = "" THEN << >> ELSE <<StrEvaluator("OS", normalizeOS(d.os), "EXACT")>>
      cmds == [i \in DOMAIN d.cmds |-> ConvertCmd(d.cmds[i])]
      args == [i \in DOMAIN d.args |-> ConvertArguments(d.args[i])]
      envs == [i \in DOMAIN keys |-> Matching("PROCESS_ENVAR", EnvPattern(keys[i], d.envs[keys[i]]))]
      nodes == os \o Group("OR", cmds) \o Group("AND", args) \o Group("AND", envs)
      failed == \/ nodes = << >>
                \/ d.os # "" /\ normalizeOS(d.os) = NULL
                \/ Error \in Range(args)
  IN  IF failed THEN Error ELSE <<Combined("AND", nodes)>>

-----------------------------------------------------------------------------
(* libc.go *)

MachineArchitectures ==
  [name \in {"aarch64", "arm64", "x86_64", "x64", "amd64", "arm", "x86"} |->
     IF name = "arm64" THEN "aarch64" ELSE IF name \in {"x64", "amd64"} THEN "x86_64" ELSE name]

\* The policy's number stands before the comparator, the process's behind it.
VersionTree(v, differs, patch) ==
  LET Major(c) == NumEvaluator("LIBC_VERSION_MAJOR", v[1], c)
      Minor(c) == NumEvaluator("LIBC_VERSION_MINOR", v[2], c)
      Patch(c) == NumEvaluator("LIBC_VERSION_PATCH", IF Len(v) > 2 THEN v[3] ELSE 0, c)
  IN  CompositeNode("OR",
        <<Major(differs),
          CompositeNode("AND", <<Major("EQ"), Minor(differs)>>),
          CompositeNode("AND", <<Major("EQ"), Minor("EQ"), Patch(patch)>>)>>)

\* Mutant: the same version is left out.
buildVersionLessThan(v) == VersionTree(v, "LT", "LT")
buildVersionLessThanOrEqual(v) == VersionTree(v, "LT", "LTE")
buildVersionGreaterThan(v) == VersionTree(v, "GT", "GT")

VersionNodes(l) ==
  IF l.min = NULL THEN << >>
  ELSE IF l.supported THEN <<buildVersionGreaterThan(l.min)>>
  ELSE <<buildVersionLessThanOrEqual(l.min)>>

\* Where all versions are supported there is no policy.
ConvertLibc(l, flavor) ==
  IF l.supported /\ l.min = NULL THEN << >>
  ELSE IF l.arch \notin DOMAIN MachineArchitectures THEN Error
  ELSE LET same == <<StrEvaluator("MACHINE_ARCHITECTURE", MachineArchitectures[l.arch], "EXACT"),
                     StrEvaluator("LIBC_FLAVOR", flavor, "EXACT")>>
       IN  <<CompositeNode("AND", same \o VersionNodes(l))>>

-----------------------------------------------------------------------------
(* requirements.go, main.go *)

Denies == Len(requirements.deny)
Libcs ==
  [i \in DOMAIN requirements.glibc |-> <<requirements.glibc[i], "glibc">>] \o
  [i \in DOMAIN requirements.musl |-> <<requirements.musl[i], "musl">>]

ConverterInit ==
  /\ requirements \in Inputs
  /\ converted = 0
  /\ policies = << >>
  /\ output = "nothing"
  /\ exit = "none"

Acceptable == requirements # NULL /\ requirements.version = 1

RejectInput ==
  /\ exit = "none"
  /\ ~Acceptable
  /\ exit' = "failure"
  /\ UNCHANGED <<requirements, converted, policies, output>>

\* The conversion of the next rule ended with these trees, or failed.
Converts(trees) ==
  /\ IF trees = Error
       THEN exit' = "failure" /\ UNCHANGED <<converted, policies>>
       ELSE /\ converted' = converted + 1
            /\ policies' = policies \o trees
            /\ UNCHANGED exit
  /\ UNCHANGED <<requirements, output>>

ConvertDenyRule ==
  /\ exit = "none"
  /\ Acceptable
  /\ converted < Denies
  /\ LET d == requirements.deny[converted + 1] IN
       \E keys \in SetToSeqs(DOMAIN d.envs) : Converts(ConvertDeny(d, keys))

ConvertLibcRule ==
  /\ exit = "none"
  /\ Acceptable
  /\ converted \in Denies .. Denies + Len(Libcs) - 1
  /\ LET l == Libcs[converted - Denies + 1] IN Converts(ConvertLibc(l[1], l[2]))

\* os.WriteFile truncates the file before it writes to it, and may fail to close it
\* when everything is written.
WriteOutput ==
  /\ exit = "none"
  /\ Acceptable
  /\ converted = Denies + Len(Libcs)
  /\ \/ output' = "all" /\ exit' = "success"
     \/ output' \in {"nothing", "part", "all"} /\ exit' = "failure"
  /\ UNCHANGED <<requirements, converted, policies>>

ConverterNext == RejectInput \/ ConvertDenyRule \/ ConvertLibcRule \/ WriteOutput

ConverterSpec == ConverterInit /\ [][ConverterNext]_converterVars
=============================================================================
