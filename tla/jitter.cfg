CONSTANTS
  P_CountAudioBuf = 3
  ResetGap = 2
  MaxCount = 5
  MaxUseBuf = 5
  Counts <- MCCounts
  Data = {d1, d2}
  Silence = Silence
SPECIFICATION MCSpec
INVARIANTS
  TypeOK
  PendingAreFresh
  TallyCoversSlots
PROPERTIES
  PlaysInOrder
  GoesBackOnlyOnRestart
  ImplementsQueue
  PendingDrains
  FullIsReleased
