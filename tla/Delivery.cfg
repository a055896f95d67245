CONSTANTS
  Slabs = {s1, s2, s3, s4}
  Readers = {r1, r2}
  None = None
  QueueLen = 2
  MaxOpens = 2
SPECIFICATION DeliverySpec
INVARIANTS SlabInOnePlace
PROPERTIES NoSendOnClosed SlabsComeBack
CHECK_DEADLOCK FALSE
