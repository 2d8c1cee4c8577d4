\* One call of another caller is cancelled, and a resume takes the artifact of
\* a live worker; no file ever fails.
SPECIFICATION ExecSpec
CONSTANTS
    Managers = {ha}
    Ha = ha
    Resumer = resumer
    DiskFaults = FALSE
    HangUps = TRUE
    JobIds = {j1}
    Plans <- OnePlan
    RootModes = {rootless}
    EntryIds = {e1}
    None = None
    MaxAttempts = 2
    MaxRevision = 18
    MaxActive = 1
    MaxTerminal = 1
    SteadyClock = TRUE
INVARIANTS
    LiveArtifactKept
