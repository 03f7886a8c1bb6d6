SPECIFICATION Spec
CONSTANTS
  Threads = {t1, t2}
  NONE = NONE
  DeviceErrors = TRUE
  ErrorEnds = {"done"}
  CreateFails = FALSE
PROPERTIES OKMeansRunning
