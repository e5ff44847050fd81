\* A personal group of b that a sets up with one of its two devices; the queues
\* outlive one tick of the clock.
CONSTANTS
  a = a
  b = b
  Identity = {a, b}
  Leaf <- MCLeaf
  Founders <- MCFounders
  Owner = b
  Digest = {g1, g2, g3}
  Retention = 2
  MaxSeq = 3
  MaxEpoch = 3
SYMMETRY MCSymmetry
SPECIFICATION HubSpec
INVARIANTS ClockRunsIffQueued HeadsAreOnTheirWay HeldBehindWelcome
PROPERTIES NobodyIsLeftOut FeedsAreKept
CHECK_DEADLOCK FALSE
