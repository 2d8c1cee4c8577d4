\* Clients hang up and the process dies; one submit of a flow at a time.
SPECIFICATION FairFinSpec
CONSTANTS
    Jobs = {j1}
    Flows = {f1, f2}
    Submits = {s1}
    Entries = {e1}
    None = None
    StoreFaults = TRUE
    Interruptions = TRUE
    MaxReleaseFaults = 1
INVARIANTS
    NoOrphanLease
PROPERTIES
    RemovedLetsGo
