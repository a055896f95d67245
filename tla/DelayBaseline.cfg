CONSTANTS
  Mod = 8
  Delays = {0, 2, 3}
  Offsets = {0, 2, 6}
  Half = 1
  MaxGap = 1
SPECIFICATION DelaySpec
INVARIANTS BaselineCovers BaselineForgets QueueIsReal
