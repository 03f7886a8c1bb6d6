CONSTANTS
  Peers = {p1, p2, p3}
  Own = {o1}
  A_arrayUsersThreshold = 2
  A_arrayNewUsersThreshold = 2
  A_TimeOutUser = 1
  IpCheckPeriod = 0
  MallocFails = FALSE
  LoadMisses = FALSE
  Lively = {p1}
  NULL = NULL
SPECIFICATION FairSpec
INVARIANTS
  OwnNeverAdmitted
PROPERTIES
  ImplementsPresence
  LivelyJoin
  DeadLeave
