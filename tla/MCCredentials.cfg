SPECIFICATION LiveSpec
CONSTANTS
  t1 = t1
  t2 = t2
  x1 = x1
  w1 = w1
  None = None
  Torn = Torn
  blank = {}
  Token = {t1, t2}
  Waiter = {w1}
  Caller = {x1}
  hasFS = TRUE
  MaxCrashes = 1
INVARIANTS
  NoDoubleClose
  NoLostWakeup
  LoadedWasIssued
  StoppedIsStored
PROPERTIES
  StopReturnsUnlessAbandoned
  WaitersComeAway
CHECK_DEADLOCK FALSE
