CONSTANTS
  Paths = {p1, p2, p3}
  Senders = {s1, s2}
  Bulk = Bulk
  Realtime = Realtime
  Interactive = Interactive
  None = None
  Scores = {0, 1, 2}
  Weights = {0, 1, 9}
  Unit = 6
  FloorInv = 4
SPECIFICATION Spec
SYMMETRY Symmetry
INVARIANTS CreditsBalanced NoStarvation NoPhantomNumber PairIsBest
