SPECIFICATION FairSpec
CONSTANTS
  NULL = None
  None = None
  NumNotSet = Unset
  Unset = Unset
  Zero = "x"
  StrIds = {"s"}
  NumIds = {}
  ActionIds = {"allow"}
  HostFns = {"f"}
  Handlers = {"h"}
  Observers = {"o"}
  Params <- MCParams
  Nodes <- MCNodes
  Tree <- MCTree
  Cmps = {"EQ"}
  Compare <- MCCompare
  Policies <- MCPolicies
  Policy <- MCPolicy
  Buffers <- MCBuffers
  Callbacks <- MCCallbacks
  Handles = {1, 2}
  HostErrors = {0}
  Setups <- MCSetups
  MaxEvalDepth = 3
  MaxHostCalls = 0
INVARIANTS
  StackBound
  VerdictSound
  StopsWhenDecided
  WellFramed
PROPERTIES
  Termination
  ImplementsJudge
