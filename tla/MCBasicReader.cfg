SPECIFICATION ExamplesSpec
CONSTANTS
  NULL = None
  None = None
  NumNotSet = Unset
  Unset = Unset
  Zero = Nil
  Nil = Nil
  Dangling = Lost
  Lost = Lost
  DocNodes <- MCDocNodes
  Doc <- MCDoc
  DocPolicies <- MCDocPolicies
  DocPolicy <- MCDocPolicy
  Files <- MCFiles
  Bytes <- MCBytes
  File <- MCFile
  StrIds <- MCStrIds
  NumIds <- MCNumIds
  ActionIds <- MCActionIds
  HostFns = {"EVALUATOR_RUNTIME_LANGUAGE"}
  Handlers = {"ACTION_INJECT_DENY", "ACTION_INJECT_ALLOW"}
  Observers = {"demo"}
  Params <- MCParams
  Nodes <- MCNodes
  Tree <- MCTree
  Cmps <- MCCmps
  Compare <- MCCompare
  Number <- MCNumber
  Policies <- MCPolicies
  Policy <- MCPolicy
  Buffers = {}
  Callbacks <- MCCallbacks
  Handles <- MCHandles
  HostErrors = {0}
  Setups <- MCSetups
  MaxEvalDepth = 3
  MaxHostCalls = 0
  MaxRecords = 3
  MaxString = 8
  MaxActionValues = 2
INVARIANTS
  NamesSurvive
  RecordsInTreeOrder
  ParenthesesEncloseDescendants
  DumpCoversTrace
  OnlyReadableEvaluated
  DecidedByItsOwnFacts
CHECK_DEADLOCK FALSE
