CONSTANTS
    Writer = {w1}
    Timeout = {t1}
    none = none
    MaxIn = 1
    MaxOut = 1
SPECIFICATION FairSpec
INVARIANT BuffersOwned
PROPERTY ImplementsWire CloseUnblocks
CHECK_DEADLOCK FALSE
