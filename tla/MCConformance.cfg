SPECIFICATION Spec
CONSTANTS
  NULL = None
  None = None
  Omitted = Omitted
  Nodes <- MCNodes
  Doc <- MCDoc
  Corpora <- MCCorpora
  MaxEvalDepth = 2
  StrIds = {"ALWAYS_TRUE", "ALWAYS_FALSE", "ALWAYS_ABSTAIN", "name", "label", "argv"}
  NumIds = {"heap"}
  LabelIds = {"label"}
  ListIds = {"argv"}
  StrCmps = {"EXACT", "PREFIX"}
  NumCmps = {"EQ", "GT", "GTE", "LT", "LTE"}
  StrCompare <- MCStrCompare
  Number <- MCNumber
  Values <- MCValues
  Cut <- MCCut
  Empty = ""
  Zero = "zero"
  NumNotSet = "max"
INVARIANTS
  EnginesAgree
  NewerDecidesNothing
CHECK_DEADLOCK FALSE
