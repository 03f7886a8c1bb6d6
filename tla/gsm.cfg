SPECIFICATION GsmSpec
CONSTANTS
  P_CountFrameDataInPocket = 2
  P_CountAudioBuf = 2
  ResetGap = 0
  MaxPackets = 3
  Signals <- MCSignals
  Strange <- MCStrange
INVARIANTS OffsetInRange DecoderFollowsCoder FrameRoundTrip CodecAsserts
\* The model records a bounded number of packets.
CHECK_DEADLOCK FALSE
