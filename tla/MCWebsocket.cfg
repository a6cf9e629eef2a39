SPECIFICATION WsLiveSpec
CONSTANTS
  s1 = s1
  s2 = s2
  Sender = {s1, s2}
  once = FALSE
  withIPv4 = FALSE
  withIPv6 = TRUE
INVARIANTS
  MonitoredRead
PROPERTIES
  CleanDial
  ClosedIsDropped
  
CHECK_DEADLOCK FALSE
