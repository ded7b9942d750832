\* Three configs, one edit by an administrator at any moment.
CONSTANTS
  Configs = {c1, c2, c3}
  Settings <- SomeRows
  Requests <- SomeRequests
  MaxEdits = 1
  NULL = NULL
SPECIFICATION Spec
SYMMETRY IdSymmetry
INVARIANTS BestFirst AllTried OneAnswer KillSwitchUntilFailover
