SPECIFICATION FairSpec
CONSTANTS
  named = named
  late = late
  toService = toService
  toEvent = toEvent
  bad = bad
  None = None
  self = "mac:self"
  routeOf <- MCrouteOf
  message <- MCmessage
  Listener = {named, late}
  initially = {named}
  Pub = {toService, toEvent, bad}
INVARIANTS
  EveryListenerIsCalled
  ResultIsFounded
PROPERTIES
  NobodyStaysBlocked
CHECK_DEADLOCK FALSE
