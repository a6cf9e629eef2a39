SPECIFICATION FairSpec
CONSTANTS
  m1 = m1
  m2 = m2
  None = None
  Msg = {m1, m2}
  qosOf <- MCqosOf
  sizeOf <- MCsizeOf
  optMaxQueueBytes = 0
  optMaxMessageBytes = 3
  DefaultMaxQueueBytes = 4
  optPriority = "newest"
  MaxStarts = 2
  MaxFails = 3
INVARIANTS
  NoSendOnClosed
  DeliveredOnce
  
  OnlyOvertakenAreLost
PROPERTIES
  CallersAndServiceEnd
  DeliveredInTheEnd
CHECK_DEADLOCK FALSE
