\* Two flows and two entries over one healthy receipt, a failing release, and
\* the handoff that follows when nobody is cancelled.
SPECIFICATION FairFinSpec
CONSTANTS
    Jobs = {j1}
    Flows = {f1, f2}
    Submits = {s1}
    Entries = {e1, e2}
    None = None
    StoreFaults = FALSE
    Interruptions = FALSE
    MaxReleaseFaults = 1
CHECK_DEADLOCK FALSE
INVARIANTS
    OneFinalizer
    ProvenUnderLease
    AddressUnique
PROPERTIES
    Handoff
