CONSTANTS
    r1 = r1
    r2 = r2
    Request = {r1, r2}
    Local = {r2}
    partners = {"comcast"}
    Parameter <- MCParameter
    access <- MCaccess
    Message <- MCMessage
    Level = {"info", "debug"}
    original = "info"
SPECIFICATION FairSpec
INVARIANT SetIsWhole
PROPERTY IsAnswered LevelIsRestored
CHECK_DEADLOCK FALSE
