CONSTANTS
  SeqSpace = 8
  ByteMod = 16
  Starts = {0, 6}
  MaxSent = 3
  MaxReports = 3
  MaxRestarts = 1
SPECIFICATION Spec
INVARIANTS CleanIsNotLossy LossCountedOnce BytesCreditedOnce
CHECK_DEADLOCK FALSE
