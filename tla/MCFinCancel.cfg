\* One flow whose client hangs up.
SPECIFICATION FinSpec
CONSTANTS
    Jobs = {j1}
    Flows = {f1}
    Submits = {s1, s2}
    Entries = {e1}
    None = None
    StoreFaults = TRUE
    Interruptions = TRUE
    MaxReleaseFaults = 0
INVARIANTS
    ProvenUnderLease
