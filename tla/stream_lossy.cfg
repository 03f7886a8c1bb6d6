CONSTANTS
  P_CountAudioBuf = 4
  ResetGap = 3
  MaxCount = 7
  MaxEpoch = 0
  MaxInFlight = 3
  MaxLag = 3
  Lossy = TRUE
  Paced = FALSE
  Counts <- MCCounts
  Data <- MCData
  Silence = Silence
SPECIFICATION StreamSpec
PROPERTIES
  NoFalseRestart
