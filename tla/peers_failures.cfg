CONSTANTS
  Peers = {p1, p2, p3}
  Own = {o1}
  A_arrayUsersThreshold = 2
  A_arrayNewUsersThreshold = 2
  A_TimeOutUser = 1
  IpCheckPeriod = 0
  MallocFails = TRUE
  LoadMisses = TRUE
  Lively = {}
  NULL = NULL
SPECIFICATION Spec
SYMMETRY Symmetry
\* The program may crash.
CHECK_DEADLOCK FALSE
INVARIANTS
  TypeOK
  NoDuplicateUsers
  NoDuplicateWaiting
