\* Two jobs on one panel under two names, with a store and a custody that do
\* not fail, and a clock that may be set back.
SPECIFICATION ExecSpec
CONSTANTS
    Managers = {ha}
    Ha = ha
    Resumer = resumer
    DiskFaults = FALSE
    HangUps = FALSE
    JobIds = {j1, j2}
    Plans <- TwoNames
    RootModes = {rootless}
    EntryIds = {e1}
    None = None
    MaxAttempts = 1
    MaxRevision = 18
    MaxActive = 2
    MaxTerminal = 1
    SteadyClock = FALSE
SYMMETRY JobSymmetry
VIEW Outlines
INVARIANTS
    DocumentBounded
    LiveArtifactKept
    OneHandPerPanel
