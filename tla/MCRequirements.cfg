SPECIFICATION ConverterSpec
CONSTANTS
  NULL = None
  None = None
  Omitted = Lost
  Lost = Lost
  Error = Failed
  Failed = Failed
  NumNotSet = Unset
  Unset = Unset
  MaxEvalDepth = 64
  LabelIds = {}
  ListIds = {"PROCESS_ARGV", "PROCESS_ENVAR"}
  StrCmps = {"EXACT", "WILDCARD"}
  NumCmps = {"EQ", "GT", "GTE", "LT", "LTE"}
  StrCompare <- MCStrCompare
  Number <- MCNumber
  Cut = {}
  Empty = ""
  Zero = 0
  Inputs <- MCInputs
  Processes <- MCProcesses
INVARIANTS
  DeniesWhatRulesSay
  DeniesUnsupportedLibc
  AllOrNothing
CHECK_DEADLOCK FALSE
