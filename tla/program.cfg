SPECIFICATION ProgSpec
CONSTANTS
  Threads = {t1, t2, t3}
  NONE = NONE
  DeviceErrors = TRUE
  ErrorEnds = {"broken", "done"}
  CreateFails = TRUE
  MayFail = TRUE
INVARIANTS OneWorker NoUseAfterFree CreateAllOrNothing LossIsFinal JoinsSocketThread
PROPERTIES StopLeavesNothing StopReturns DestroyReturns
\* The program may crash.
CHECK_DEADLOCK FALSE
