CONSTANTS
  Peers = {p1, p2, p3, p4}
  Own = {}
  A_arrayUsersThreshold = 4
  A_arrayNewUsersThreshold = 2
  A_TimeOutUser = 1
  IpCheckPeriod = 0
  MallocFails = FALSE
  LoadMisses = FALSE
  Lively = {}
  NULL = NULL
SPECIFICATION Spec
SYMMETRY Symmetry
INVARIANTS
  SweepRemovesOverdue
