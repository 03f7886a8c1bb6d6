SPECIFICATION Spec
CONSTANTS
  NUMBER_BUFFERS = 3
  MaxPeriods = 7
INVARIANTS RingsSeparated PeriodsInOrder ObjectsDestroyed
\* Both threads may end.
CHECK_DEADLOCK FALSE
