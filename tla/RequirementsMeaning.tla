------------------------- MODULE RequirementsMeaning -------------------------
(***************************************************************************)
(* What the rules of a requirements file say of a process, without any     *)
(* tree, and whether the policies say the same.                            *)
(***************************************************************************)
EXTENDS RequirementsConverter

CONSTANT Processes  \* the processes that the policies are evaluated for

-----------------------------------------------------------------------------
(* What a host knows of a process *)

StringIds ==
  {"OS", "PROCESS_EXE_FULL_PATH", "LIBC_FLAVOR", "MACHINE_ARCHITECTURE"} \cup {ArgvIds[k] : k \in -6 .. 5}

\* The places that there are in a list of arguments, from the start and from the end.
ArgvFacts(argv) ==
  [i \in {ArgvIds[k] : k \in (-6 .. 5) \cap (-Len(argv) .. Len(argv) - 1)} |->
     LET k == CHOOSE k \in -6 .. 5 : ArgvIds[k] = i
     IN  argv[IF k < 0 THEN Len(argv) + k + 1 ELSE k + 1]]

StringFacts(p) ==
  LET named == [OS |-> p.os, PROCESS_EXE_FULL_PATH |-> p.exe, LIBC_FLAVOR |-> p.libc,
                MACHINE_ARCHITECTURE |-> p.arch]
      argv == ArgvFacts(p.argv)
  IN  [i \in DOMAIN named \cup DOMAIN argv |-> IF i \in DOMAIN named THEN named[i] ELSE argv[i]]

EnvText(variable) == variable.key \o <<"=">> \o variable.value

Context(p) ==
  [strings |-> StringFacts(p),
   lists |-> [PROCESS_ARGV |-> p.argv,
              PROCESS_ENVAR |-> [i \in DOMAIN p.envs |-> EnvText(p.envs[i])]],
   labels |-> << >>,
   numbers |-> [LIBC_VERSION_MAJOR |-> p.version[1], LIBC_VERSION_MINOR |-> p.version[2],
                LIBC_VERSION_PATCH |-> p.version[3]],
   unumbers |-> << >>]

\* A host knows the version of its libc, and no variable has "=" in its name.
ASSUME ProcessesAssumption ==
  \A p \in Processes :
    /\ p.exe \in Text /\ p.argv \in Seq(Text) /\ p.envs \in Seq([key : Text, value : Text])
    /\ \A i \in DOMAIN p.envs : "=" \notin Range(p.envs[i].key)
    /\ p.version \in [1 .. 3 -> Int] /\ NumNotSet \notin Range(p.version)

Denied(tree, p) == Evaluate(Document(tree), RootOf(tree), Context(p)) = "TRUE"

-----------------------------------------------------------------------------
(* The trees of the policies, which have up to four levels *)

Names == {"windows", "linux", "macos", "aarch64", "x86_64", "arm", "x86", "glibc", "musl"}
Values == Text \cup Names \cup Int
ListNames == {"PROCESS_ARGV", "PROCESS_ENVAR"}
VersionIds == <<"LIBC_VERSION_MAJOR", "LIBC_VERSION_MINOR", "LIBC_VERSION_PATCH">>
Leaves ==
  [type : {"eval"}, eval : {"str", "num"}, id : StringIds \cup ListNames \cup Range(VersionIds),
   value : Values, cmp : {"EXACT", "WILDCARD", "EQ", "LT", "LTE", "GT"}]
Composites(S) == [type : {"comp"}, op : {"AND", "OR"}, children : Seq(S)]
Flat == Leaves \cup Composites(Leaves)
Low == Flat \cup Composites(Flat)
Trees == Low \cup Composites(Low)

ASSUME AbsentAssumption ==
  /\ NULL \notin Values /\ NULL \notin Seq(Seq(Nat) \X Trees)
  /\ Omitted \notin Values

\* The engine evaluates trees as deep as these, and knows their ids and comparators.
ASSUME DepthAssumption == MaxEvalDepth \in Nat /\ MaxEvalDepth >= 3
ASSUME IdsAssumption ==
  /\ ListNames \subseteq ListIds /\ StringIds \cap ListIds = {}
  /\ (StringIds \cup ListNames) \cap LabelIds = {}
  /\ {"EXACT", "WILDCARD"} \subseteq StrCmps /\ {"EQ", "LT", "LTE", "GT"} \subseteq NumCmps

-----------------------------------------------------------------------------
(* What the comparators do with the values that these rules and processes have *)

\* The pattern is cut into characters, a "*" standing for any number of characters
\* of the text, "?" for one and any other for itself: the i-th ends at ends[i].
Glob(pattern, text) ==
  \E ends \in [0 .. Len(pattern) -> 0 .. Len(text)] :
    /\ ends[0] = 0 /\ ends[Len(pattern)] = Len(text)
    /\ \A i \in 1 .. Len(pattern) :
         IF pattern[i] = "*" THEN ends[i - 1] <= ends[i]
         ELSE ends[i] = ends[i - 1] + 1 /\ pattern[i] \in {"?", text[ends[i]]}

DenyRules == UNION {Range(r.deny) : r \in Inputs \ {NULL}}
LibcRules == UNION {Range(r.glibc) \cup Range(r.musl) : r \in Inputs \ {NULL}}

EnvPatternsOf(d) ==
  {EnvPattern(key, d.envs[key]) : key \in DOMAIN d.envs} \cup (Range(d.envs) \ {NULL})
PatternsOf(d) ==
  Range(d.cmds) \cup EnvPatternsOf(d) \cup UNION {Range(list.args) : list \in Range(d.args)}
TextsOf(p) ==
  {p.exe} \cup Range(p.argv) \cup
  UNION {{EnvText(variable), variable.value} : variable \in Range(p.envs)}

\* A text that has a star is not always matched as a glob would match it.
ASSUME TextsAssumption ==
  \A pattern \in UNION {PatternsOf(d) : d \in DenyRules}, text \in UNION {TextsOf(p) : p \in Processes} :
    /\ StrCompare("EXACT", pattern, text) <=> pattern = text
    /\ StrCompare("WILDCARD", pattern, text) <=> Glob(pattern, text)
ASSUME NamesAssumption ==
  \A name \in Names : \A p \in Processes : \A fact \in {p.os, p.arch, p.libc} :
    StrCompare("EXACT", name, fact) <=> name = fact
ASSUME NumbersAssumption ==
  \A n \in {0} \cup (UNION {Range(p.version) : p \in Processes})
               \cup UNION {Range(l.min) : l \in {l \in LibcRules : l.min # NULL}} :
    Number("num", n) = n

-----------------------------------------------------------------------------
(* What the rules say *)

\* A pattern without a star or a question mark is a glob that only itself matches.
Fits(pattern, text) == StrCompare("WILDCARD", pattern, text)

\* "A pattern that is only "*" or "?" matches any value" (arguments.go), whether
\* there is one or not.
FitsIn(argument, places, argv) ==
  Matchable(argument) => \E j \in places \cap DOMAIN argv : Fits(argument, argv[j])

\* Where the argument of a list's i-th pattern is: from the first position on, or
\* back from the end, and anywhere when there is no evaluator for that position.
Places(list, i, argv) ==
  IF list.position = NULL THEN DOMAIN argv
  ELSE LET k == list.position + i - 1 IN
    IF k \notin -6 .. 5 THEN DOMAIN argv
    ELSE {IF list.position < 0 THEN Len(argv) + k + 1 ELSE k + 1}

ListHolds(list, argv) ==
  \A i \in DOMAIN list.args : FitsIn(list.args[i], Places(list, i, argv), argv)

EnvHolds(key, value, envs) ==
  \E i \in DOMAIN envs :
    /\ envs[i].key = key
    /\ IF value = NULL THEN envs[i].value # << >> ELSE Fits(value, envs[i].value)

DenyHolds(d, p) ==
  /\ d.os # "" => p.os = IF d.os = "darwin" THEN "macos" ELSE d.os
  /\ d.cmds # << >> => \E i \in DOMAIN d.cmds : Fits(d.cmds[i], p.exe)
  /\ \A i \in DOMAIN d.args : ListHolds(d.args[i], p.argv)
  /\ \A key \in DOMAIN d.envs : EnvHolds(key, d.envs[key], p.envs)

\* Empty patterns, of which only one in the first place has a position, and lists
\* that start before the end and go on behind it, where -1 is followed by 0.
Odd(list) ==
  list.position # NULL /\
    \/ << >> \in Range(list.args)
    \/ list.position < 0 /\ list.position + Len(list.args) > 0

\* A variable's name is not taken for a pattern.
PlainName(key) == Range(key) \cap {"*", "?", "="} = {}

\* Each deny rule denies the processes that have its operating system, one of its
\* commands, all of its lists of arguments, each pattern of one at its own place,
\* and all of its variables (deny.go, arguments.go): a place that is one off, or a
\* group that is joined with the wrong operator, would show only on some processes.
DeniesWhatRulesSay ==
  output = "all" =>
    \A i \in 1 .. Denies :
      LET d == requirements.deny[i] IN
        (\A j \in DOMAIN d.args : ~Odd(d.args[j])) /\ (\A key \in DOMAIN d.envs : PlainName(key)) =>
          \A p \in Processes : Denied(policies[i], p) <=> DenyHolds(d, p)

-----------------------------------------------------------------------------
\* Versions in lexicographic order, a missing component being 0.
Component(v, k) == IF k <= Len(v) THEN v[k] ELSE 0
Precedes(v, w) ==
  \E k \in 1 .. 3 : /\ Component(v, k) < Component(w, k)
                    /\ \A j \in 1 .. k - 1 : Component(v, j) = Component(w, j)

\* An architecture with several names is known under one of them.
SameArchitecture(name, arch) ==
  arch = IF name = "arm64" THEN "aarch64" ELSE IF name \in {"x64", "amd64"} THEN "x86_64" ELSE name

LibcHolds(l, flavor, p) ==
  /\ SameArchitecture(l.arch, p.arch)
  /\ p.libc = flavor
  /\ IF l.min = NULL THEN ~l.supported ELSE l.supported <=> Precedes(p.version, l.min)

(***************************************************************************)
(* The libc rules together deny the processes with an architecture and     *)
(* flavor of theirs and a version that is not supported: "supported: true  *)
(* + version -> DENY if version < min" (libc.go:110), "supported: false +  *)
(* version -> DENY if version >= min" (libc.go:117).  Other comments there *)
(* say otherwise, and a converter that followed them would violate this:   *)
(* line 120, "(major == minMajor AND minor >= minMinor)", denies 2.30.4    *)
(* where the minimum is 2.30.5; lines 131 and 151 say "<" of the builder   *)
(* that compares with LTE, and 168 and 188 ">=" of the one with GT, which  *)
(* differs at the minimum itself.                                          *)
(***************************************************************************)
DeniesUnsupportedLibc ==
  output = "all" =>
    \A p \in Processes :
      (\E k \in Denies + 1 .. Len(policies) : Denied(policies[k], p)) <=>
      (\E i \in DOMAIN Libcs : LibcHolds(Libcs[i][1], Libcs[i][2], p))

-----------------------------------------------------------------------------
DenyConvertible(d) ==
  /\ d.os # "" \/ d.cmds # << >> \/ d.args # << >> \/ DOMAIN d.envs # {}
  /\ d.os \in {"", "windows", "linux", "darwin", "macos"}
  /\ \A i \in DOMAIN d.args : \E j \in DOMAIN d.args[i].args : Matchable(d.args[i].args[j])
LibcConvertible(l) ==
  \/ l.supported /\ l.min = NULL
  \/ \E arch \in {"aarch64", "x86_64", "arm", "x86"} : SameArchitecture(l.arch, arch)

\* A file is touched, and success reported, only when every rule of an input of
\* version 1 could be converted: no rule is dropped in silence (requirements.go).
AllOrNothing ==
  output # "nothing" \/ exit = "success" =>
    /\ requirements.version = 1
    /\ \A i \in 1 .. Denies : DenyConvertible(requirements.deny[i])
    /\ \A i \in DOMAIN Libcs : LibcConvertible(Libcs[i][1])
=============================================================================
