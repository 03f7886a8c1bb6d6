CONSTANTS
  P_CountAudioBuf = 4
  ResetGap = 6
  MaxCount = 12
  MaxEpoch = 1
  MaxInFlight = 1
  MaxLag = 0
  Lossy = FALSE
  Paced = TRUE
  Counts <- MCCounts
  Data <- MCData
  Silence = Silence
SPECIFICATION StreamSpec
PROPERTIES
  Gapless
  EventuallyHeard
  Resyncs
