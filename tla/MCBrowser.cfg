\* Two requests of two users at a time on a failing disk, a stop and crashes.
SPECIFICATION FairBrowserSpec
CONSTANTS
    Requests = {r1, r2}
    Stopper = stopper
    Bundles = {1, 2, 3}
    Users = {u1, u2}
    Tags = {stable}
    None = None
    DiskFaults = TRUE
INVARIANTS
    BrowserTypeOK
    LeasedStays
    NothingUnowned
PROPERTIES
    ServiceLetsGo
