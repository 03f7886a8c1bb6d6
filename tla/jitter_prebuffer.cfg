CONSTANTS
  P_CountAudioBuf = 3
  ResetGap = 2
  MaxCount = 5
  MaxUseBuf = 5
  Counts <- MCCounts
  Data = {d1}
  Silence = Silence
SPECIFICATION MCSpec
PROPERTIES
  UnblocksOnlyWhenFilled
