SPECIFICATION AdapterLiveSpec
CONSTANTS
  n1 = n1
  Name = {n1}
  MaxStarts = 2
  MaxExts = 2
INVARIANTS
  OneReceiver
  MapIsNewest
PROPERTIES
  StopReturnsUnlessUnheard
  GoneIsUnsubscribed
CHECK_DEADLOCK FALSE
