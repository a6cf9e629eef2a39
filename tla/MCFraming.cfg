CONSTANTS
    Writer = {w1, w2}
    none = none
    Chunk = {3, 126, 65536}
    Emit = {0, 6}
    FlushEmit = {3, 7}
    MaxFlush = 5
    ReadBuf = {3, 65533}
    Limit <- MCLimit
    BufLen = 4096
    WindowLen = 32768
    MaxMessages = 2
    MaxChunks = 2
    MaxWire = 1
    MaxExtras = 2
SPECIFICATION Spec
INVARIANT  WindowsAgree LimitIsExact
SYMMETRY WriterSymmetry
CHECK_DEADLOCK FALSE
