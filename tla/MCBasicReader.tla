---------------------------- MODULE MCBasicReader ----------------------------
(***************************************************************************)
(* The example programs on the files of MCReaderFiles.                     *)
(***************************************************************************)
EXTENDS MCReaderFiles, ReaderProperties

CONSTANTS Unset, Lost

\* Behind a LET as in MCReaderFiles.
MCBytes == LET v == FileBytes IN v
MCNodes == LET v == DOMAIN BufferTree IN v
MCTree == LET v == BufferTree IN v
MCPolicies == LET v == DOMAIN BufferPolicy IN v
MCPolicy == LET v == BufferPolicy IN v

MCStrIds == 0 .. Len(PLCS_STR_EVAL) - 1
MCNumIds == 0 .. Len(PLCS_NUM_EVAL) - 1
MCActionIds == 0 .. Len(PLCS_ACTION) - 1
MCCmps == (Range(PLCS_STR_CMP) \cup Range(PLCS_NUM_CMP)) \ {"STR_UNKNOWN", "NUM_UNKNOWN"}
MCCallbacks == [o \in {"demo"} |-> CallbackNames]
MCHandles == 0 .. MaxRecords
MCSetups == {ZeroedCtx}

MCParams ==
  {None, Unset, Nil, "jvm", "/some/path/to/runtime", "n", "2^63", "linux"} \cup
  {Tests[i].runtime : i \in DOMAIN Tests} \cup {Tests[i].entry : i \in DOMAIN Tests}
\* The number with only the highest bit, and the largest of each kind.
MCNumber(k, v) ==
  CASE v = "2^63" /\ k = "num" -> "-2^63"
    [] v = Unset -> IF k = "num" THEN "LONG_MAX" ELSE "ULONG_MAX"
    [] OTHER -> v
MCCompare(k, cmp, p, v) == IF p = v THEN "TRUE" ELSE "FALSE"
=============================================================================
