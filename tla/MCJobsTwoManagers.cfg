\* Two managers on one file, one job: restarts, stale memories, fencing.
SPECIFICATION Spec
CONSTANTS
    Managers = {m1, m2}
    JobIds = {j1}
    Plans <- OnePlan
    RootModes = {rootless}
    EntryIds = {e1}
    None = None
    MaxAttempts = 2
    MaxRevision = 16
    MaxActive = 1
    MaxTerminal = 1
    SteadyClock = TRUE
INVARIANTS
    StoreStaysReadable
    ClaimsAreFenced
    CancelHonoured
PROPERTIES
    ProgressIsStamped
    AmbiguousNeverReplayed
    KeepsPromise
