CONSTANTS
  Size = 3
  SeqSpace = 30
  ResetThreshold = 2
  MinHold = 1
  MaxHold = 1
  DefaultHold = 1
  MaxAge = 1
SPECIFICATION Spec
INVARIANTS WindowInv NothingStranded LoopsAgree
PROPERTIES DuplicateIsCopy Resequences
