SPECIFICATION Spec
CONSTANTS
  Id = {1, 2, 3, 4}
  maxQueueBytes = 3
  maxMessageBytes = 3
  priority = "newest"
  tieBreaker = "newest"
  qosExpires <- MCExpires
  Arrivals <- MCArrivals
  MaxTime = 1
INVARIANTS
  SizeBounded
PROPERTIES
  KeepsTheHighest
  ImplementsBuffer
