----------------------------- MODULE WireSchema -----------------------------
(***************************************************************************)
(* The enumerations of a policy buffer, twice: as the schema compiler      *)
(* wrote them down in schema/*_reader.h, whose numbers are in the buffers, *)
(* and as the public headers list them, whose numbers hosts register with. *)
(* The engine casts the one to the other; wire/*.h, used for printing      *)
(* only, goes by the names.  An assertion compares how many there are.     *)
(*                                                                         *)
(* An enumeration is the sequence of its names, numbered from 0.           *)
(***************************************************************************)
EXTENDS Integers, Sequences

NumberOf(names, name) == CHOOSE i \in 0 .. Len(names) - 1 : names[i + 1] = name
NameOf(names, i) == names[i + 1]

-----------------------------------------------------------------------------
(* Schema: the last member counts the others *)

StringEvaluators ==
  <<"STRING_EVAL_UNKNOWN", "COMPONENT", "PROCESS_EXE", "PROCESS_EXE_FULL_PATH",
    "PROCESS_BASEDIR_PATH", "PROCESS_ARGV", "PROCESS_CWD", "RUNTIME_LANGUAGE",
    "RUNTIME_ENTRY_POINT_FILE", "RUNTIME_ENTRY_POINT_JAR", "RUNTIME_ENTRY_POINT_CLASS",
    "RUNTIME_ENTRY_POINT_PACKAGE", "RUNTIME_ENTRY_POINT_MODULE",
    "RUNTIME_ENTRY_POINT_SOURCE", "RUNTIME_DOPTION", "RUNTIME_VERSION", "LIBC_FLAVOR",
    "LIBC_VERSION", "MACHINE_ARCHITECTURE", "HOST_NAME", "HOST_IP", "OS", "OS_DISTRO",
    "OS_DISTRO_VERSION", "OS_DISTRO_CODENAME", "OS_KERNEL_VERSION", "OS_KERNEL_NAME",
    "OS_USER", "OS_USER_GROUP", "CONTAINER_IMAGE", "CONTAINER_ID", "ALWAYS_TRUE",
    "ALWAYS_FALSE", "ALWAYS_ABSTAIN", "IIS_APPLICATION_POOL", "PROCESS_ARGV_0",
    "PROCESS_ARGV_1", "PROCESS_ARGV_2", "PROCESS_ARGV_3", "PROCESS_ARGV_4",
    "PROCESS_ARGV_5", "PROCESS_ARGV_N", "PROCESS_ARGV_N_2", "PROCESS_ARGV_N_3",
    "PROCESS_ARGV_N_4", "PROCESS_ARGV_N_5", "PROCESS_ARGV_N_6", "PROCESS_ENVAR",
    "CONTAINER_IMAGE_TAG", "CONTAINER_IMAGE_DIGEST", "CONTAINER_NAME", "CONTAINER_LABEL",
    "NAMESPACE_NAME", "NAMESPACE_LABEL", "POD_LABEL", "POD_ANNOTATION", "STR_EVAL_COUNT">>

NumericEvaluators ==
  <<"NUMERIC_EVAL_UNKNOWN", "JAVA_HEAP", "RUNTIME_VERSION_MAJOR", "RUNTIME_VERSION_MINOR",
    "RUNTIME_VERSION_PATCH", "OS_DISTRO_VERSION_MAJOR", "OS_DISTRO_VERSION_MINOR",
    "OS_DISTRO_VERSION_PATCH", "OS_KERNEL_VERSION_MAJOR", "OS_KERNEL_VERSION_MINOR",
    "OS_KERNEL_VERSION_PATCH", "LIBC_VERSION_MAJOR", "LIBC_VERSION_MINOR",
    "LIBC_VERSION_PATCH", "NUM_EVAL_COUNT">>

CmpTypeSTR ==
  <<"CMP_STR_UNKNOWN", "CMP_PREFIX", "CMP_SUFFIX", "CMP_CONTAINS", "CMP_EXACT", "CMP_WILDCARD",
    "CMP_COUNT">>

CmpTypeNUM ==
  <<"CMP_NUM_UNKNOWN", "CMP_EQ", "CMP_GT", "CMP_GTE", "CMP_LT", "CMP_LTE", "CMP_COUNT">>

BoolOperation == <<"BOOL_UNKNOWN", "BOOL_AND", "BOOL_NOT", "BOOL_OR", "BOOL_COUNT">>

ActionId ==
  <<"ACTION_UNKNOWN", "INJECT_DENY", "INJECT_ALLOW", "ENABLE_SDK", "ENABLE_PROFILER",
    "SET_ENVAR", "REEXEC", "ACTIONS_COUNT">>

\* The unions: 0 is NONE.
NodeType == <<"NONE", "EvaluatorNode", "CompositeNode">>
EvaluatorType == <<"NONE", "StrEvaluator", "NumEvaluator", "UNumEvaluator">>

\* The _name functions: the empty name for a number that is no member.
WireName(names, i) == IF i \in 0 .. Len(names) - 1 THEN NameOf(names, i) ELSE ""

-----------------------------------------------------------------------------
(* The public headers *)

PLCS_STR_EVAL ==
  <<"STRING_EVAL_UNKNOWN", "COMPONENT", "PROCESS_EXE", "PROCESS_EXE_FULL_PATH",
    "PROCESS_BASEDIR_PATH", "PROCESS_ARGV", "PROCESS_CWD", "RUNTIME_LANGUAGE",
    "RUNTIME_ENTRY_POINT_FILE", "RUNTIME_ENTRY_POINT_JAR", "RUNTIME_ENTRY_POINT_CLASS",
    "RUNTIME_ENTRY_POINT_PACKAGE", "RUNTIME_ENTRY_POINT_MODULE",
    "RUNTIME_ENTRY_POINT_SOURCE", "RUNTIME_DOPTION", "RUNTIME_VERSION", "LIBC_FLAVOR",
    "LIBC_VERSION", "MACHINE_ARCHITECTURE", "HOST_NAME", "HOST_IP", "OS", "OS_DISTRO",
    "OS_DISTRO_VERSION", "OS_DISTRO_CODENAME", "OS_KERNEL_VERSION", "OS_KERNEL_NAME",
    "OS_USER", "OS_USER_GROUP", "CONTAINER_IMAGE", "CONTAINER_ID", "ALWAYS_TRUE",
    "ALWAYS_FALSE", "ALWAYS_ABSTAIN", "IIS_APPLICATION_POOL", "PROCESS_ARGV_0",
    "PROCESS_ARGV_1", "PROCESS_ARGV_2", "PROCESS_ARGV_3", "PROCESS_ARGV_4",
    "PROCESS_ARGV_5", "PROCESS_ARGV_N", "PROCESS_ARGV_N_2", "PROCESS_ARGV_N_3",
    "PROCESS_ARGV_N_4", "PROCESS_ARGV_N_5", "PROCESS_ARGV_N_6", "PROCESS_ENVAR",
    "CONTAINER_IMAGE_TAG", "CONTAINER_IMAGE_DIGEST", "CONTAINER_NAME", "CONTAINER_LABEL",
    "NAMESPACE_NAME", "NAMESPACE_LABEL", "POD_LABEL", "POD_ANNOTATION">>

PLCS_NUM_EVAL ==
  <<"NUMERIC_EVAL_UNKNOWN", "JAVA_HEAP", "RUNTIME_VERSION_MAJOR", "RUNTIME_VERSION_MINOR",
    "RUNTIME_VERSION_PATCH", "OS_DISTRO_VERSION_MAJOR", "OS_DISTRO_VERSION_MINOR",
    "OS_DISTRO_VERSION_PATCH", "OS_KERNEL_VERSION_MAJOR", "OS_KERNEL_VERSION_MINOR",
    "OS_KERNEL_VERSION_PATCH", "LIBC_VERSION_MAJOR", "LIBC_VERSION_MINOR",
    "LIBC_VERSION_PATCH">>

\* Mutant: two comparators of the public list in each other's place.
SwappedComparators == <<"STR_UNKNOWN", "PREFIX", "CONTAINS", "SUFFIX", "EXACT", "WILDCARD">>
PLCS_STR_CMP == <<"STR_UNKNOWN", "PREFIX", "SUFFIX", "CONTAINS", "EXACT", "WILDCARD">>

PLCS_NUM_CMP == <<"NUM_UNKNOWN", "EQ", "GT", "GTE", "LT", "LTE">>

PLCS_ACTION ==
  <<"ACTION_UNKNOWN", "INJECT_DENY", "INJECT_ALLOW", "ENABLE_SDK", "ENABLE_PROFILER",
    "SET_ENVAR", "REEXEC">>

\* The macros that paste the names of the comparators after CMP_.
CmpName(name) == "CMP_" \o name

\* dd_*_to_wire: the number the schema gives the name, -1 for one out of range.
ToWire(public, wire, i) ==
  IF i \in 0 .. Len(public) - 1 THEN NumberOf(wire, NameOf(public, i)) ELSE -1
CmpToWire(public, wire, i) ==
  IF i \in 0 .. Len(public) - 1 THEN NumberOf(wire, CmpName(NameOf(public, i))) ELSE -1

\* plcs_*_to_string.
plcs_string_evaluators_to_string(i) ==
  WireName(StringEvaluators, ToWire(PLCS_STR_EVAL, StringEvaluators, i))
plcs_numeric_evaluators_to_string(i) ==
  WireName(NumericEvaluators, ToWire(PLCS_NUM_EVAL, NumericEvaluators, i))
plcs_string_comparator_to_string(i) ==
  WireName(CmpTypeSTR, CmpToWire(PLCS_STR_CMP, CmpTypeSTR, i))
plcs_numeric_comparator_to_string(i) ==
  WireName(CmpTypeNUM, CmpToWire(PLCS_NUM_CMP, CmpTypeNUM, i))
=============================================================================
