\* One job under every fault, and it ends: failing store and custody, crashes,
\* late answers.
SPECIFICATION FairExecSpec
CONSTANTS
    Managers = {ha}
    Ha = ha
    Resumer = resumer
    DiskFaults = TRUE
    HangUps = TRUE
    JobIds = {j1}
    Plans <- OnePlan
    RootModes = {rootless}
    EntryIds = {e1}
    None = None
    MaxAttempts = 2
    MaxRevision = 18
    MaxActive = 1
    MaxTerminal = 1
    SteadyClock = TRUE
INVARIANTS
    NothingLeftBehind
    StrandedForCause
PROPERTIES
    MutationOnce
    TasksEnd
