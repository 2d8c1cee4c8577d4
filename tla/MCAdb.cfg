\* Two jobs after one another, on both sides of Android 9.
SPECIFICATION FairAdbSpec
CONSTANTS
    Jobs = {j1, j2}
    Sdks = {27, 28}
    None = None
    MaxMoves = 1
INVARIANTS
    AdbTypeOK
    OverIsClean
PROPERTIES
    NotReplaced
    SentToTheRightPanel
    CallsReturn
