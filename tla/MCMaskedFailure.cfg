SPECIFICATION Spec
CONSTANTS
  NULL = None
  None = None
  NumNotSet = Unset
  Unset = Unset
  Zero = "zero"
  StrIds = {"s"}
  NumIds = {"n"}
  ActionIds = {"allow", "deny"}
  HostFns = {"f"}
  Handlers = {"h"}
  Observers = {"full", "exits"}
  Params <- MCParams
  Nodes <- MCNodes
  Tree <- MCTree
  Cmps = {"EQ"}
  Compare <- MCCompare
  Policies <- MCPolicies
  Policy <- MCPolicy
  Buffers <- MCBuffers
  Callbacks <- MCCallbacks
  Handles = {1}
  HostErrors = {0, 3}
  Setups <- MCSetups
  MaxEvalDepth = 2
  MaxHostCalls = 2
INVARIANTS
  FailuresReported
