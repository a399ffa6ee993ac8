--------------------------- MODULE MCRequirements ---------------------------
(***************************************************************************)
(* Requirements files: every list of up to three patterns at every kind of *)
(* position; the conditions of a deny rule in every combination; libc      *)
(* rules around one version; several rules, of which one cannot be         *)
(* converted.  The processes differ in what those rules look at.           *)
(***************************************************************************)
EXTENDS RequirementsMeaning

CONSTANTS None, Lost, Failed, Unset

a == <<"a">>
b == <<"b">>
ab == <<"a", "b">>

\* What the comparators mean, for texts without a star.
RECURSIVE MCGlob(_, _)
MCGlob(p, t) ==
  IF p = << >> THEN t = << >>
  ELSE IF Head(p) = "*" THEN MCGlob(Tail(p), t) \/ (t # << >> /\ MCGlob(p, Tail(t)))
  ELSE t # << >> /\ Head(p) \in {"?", Head(t)} /\ MCGlob(Tail(p), Tail(t))
MCStrCompare(c, p, v) == IF c = "WILDCARD" THEN MCGlob(p, v) ELSE p = v

MCNumber(k, v) == v

-----------------------------------------------------------------------------
NoCondition == [os |-> "", cmds |-> << >>, args |-> << >>, envs |-> << >>]
File(deny, glibc, musl) == [version |-> 1, deny |-> deny, glibc |-> glibc, musl |-> musl]
DenyFile(d) == File(<<d>>, << >>, << >>)

Patterns == {<< >>, <<"*">>, <<"?">>, a, <<"b", "?">>, <<"*", "b">>}
List(args, position) == [args |-> args, position |-> position]
Positions == {None, -7, -6, -2, -1, 0, 1, 4, 5}
Lists ==
  {List(args, at) : args \in UNION {[1 .. n -> Patterns] : n \in 0 .. 2}, at \in Positions} \cup
  {List(args, at) : args \in [1 .. 3 -> Patterns \ {<<"?">>, <<"b", "?">>}], at \in Positions}
ArgumentFiles == {DenyFile([NoCondition EXCEPT !.args = <<l>>]) : l \in Lists}

Combinations ==
  [os   : {"", "linux", "darwin", "solaris"},
   cmds : {<< >>, <<ab>>, <<b, <<"a", "*">>>>},
   args : {<< >>, <<List(<<a>>, 0)>>, <<List(<<a>>, None), List(<<b>>, -1)>>},
   envs : {<< >>, a :> b, a :> None, a :> <<"*">> @@ b :> a}]
DenyFiles == {DenyFile(d) : d \in Combinations}

Libc(arch, supported, min) == [arch |-> arch, supported |-> supported, min |-> min]
Digits == 1 .. 3
LibcLines ==
  {Libc(arch, supported, min) : arch \in {"arm64", "x64", "sparc"}, supported \in BOOLEAN,
                                min \in {None, <<2, 2>>, <<2, 2, 2>>}}
LibcFiles ==
  {File(<< >>, <<l>>, <<m>>) : l \in LibcLines, m \in LibcLines} \cup
  {File(<< >>, <<Libc("aarch64", s, v)>>, << >>) : s \in BOOLEAN, v \in Digits \X Digits \X Digits}

Rules == {[NoCondition EXCEPT !.os = os] : os \in {"", "linux", "beos"}}
MixedFiles ==
  {[File(deny, <<Libc(arch, FALSE, None)>>, << >>) EXCEPT !.version = v] :
     deny \in [1 .. 2 -> Rules], arch \in {"arm", "sparc"}, v \in 0 .. 2}

MCInputs == {None} \cup ArgumentFiles \cup DenyFiles \cup LibcFiles \cup MixedFiles

-----------------------------------------------------------------------------
Var(key, value) == [key |-> key, value |-> value]
Plain ==
  [os |-> "linux", exe |-> ab, argv |-> <<a, b>>, envs |-> <<Var(b, a), Var(a, b)>>, arch |-> "aarch64",
   libc |-> "glibc", version |-> <<2, 2, 2>>]
Argvs ==
  (UNION {[1 .. n -> {a, b, <<"b", "b">>}] : n \in 0 .. 2}) \cup [1 .. 3 -> {a, b}] \cup
  {[i \in 1 .. n |-> IF i % 3 = k THEN a ELSE b] : n \in 5 .. 8, k \in 0 .. 2}
MCProcesses ==
  {[Plain EXCEPT !.argv = v] : v \in Argvs} \cup
  {[Plain EXCEPT !.os = os, !.exe = exe, !.envs = envs] :
     os \in {"linux", "macos"}, exe \in {ab, b, <<"b", "a">>},
     envs \in {<< >>, <<Var(a, << >>)>>, <<Var(a, b)>>, <<Var(b, a), Var(a, a)>>}} \cup
  {[Plain EXCEPT !.version = v] : v \in Digits \X Digits \X Digits} \cup
  {[Plain EXCEPT !.arch = arch, !.libc = libc, !.version[2] = n] :
     arch \in {"aarch64", "x86_64", "arm"}, libc \in {"glibc", "musl"}, n \in Digits}
=============================================================================
