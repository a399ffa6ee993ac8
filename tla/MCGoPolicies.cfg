SPECIFICATION Spec
CONSTANTS
  Documents <- MCDocuments
  Names = {"A", "B", "P"}
  Texts = {"1", "2", "true"}
  Profiling = "P"
  True = "true"
INVARIANTS
  OutcomeOfActionsRun
  ConfigsInOrder
  PoliciesIsolated
CHECK_DEADLOCK FALSE
