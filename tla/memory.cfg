SPECIFICATION Spec
CONSTANTS
  Blocks = {b1, b2, b3}
  Records = {r1, r2, r3}
  NULL = NULL
  JUNK = JUNK
  A_arrayUsersThreshold = 2
  UPDATEUSERNAME = 1
  MallocFails = TRUE
SYMMETRY Addresses
INVARIANTS MemoryTypeOK ArrayIntact NothingLeaks BadReadsNeedARace ChangesAreTold MainNeverWaitsForItself
\* The program may misuse memory, and it may end.
CHECK_DEADLOCK FALSE
