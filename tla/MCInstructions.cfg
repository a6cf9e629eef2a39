CONSTANTS
    Fetcher = {f1, f2}
    Signed <- MCSigned
    Record <- MCRecord
    backUpURL = "backup"
    none = none
    MaxTime = 3
SPECIFICATION TxtSpec
INVARIANT ReturnedWasValid ReassemblesTheText
