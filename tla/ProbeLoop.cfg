CONSTANTS
  ProbeInterval = 1
  MaxRTO = 4
  MaxOutstanding = 5
  ProbeAckUp = 3
  SeqSpace = 6
  MaxAge = 6
  DownEvery = 5
SPECIFICATION LoopSpec
INVARIANTS OutstandingIsSuffix UpIsEarned SilenceIsNoticed
PROPERTIES PathRecovers
