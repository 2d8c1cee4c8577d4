\* One job, two calls on a failing disk and a pool that shuts down.
SPECIFICATION ArtSpec
CONSTANTS
    Jobs = {j1}
    Callers = {c1, c2}
    Slots = {1, 2, 3}
    Files = {1, 2, 3}
    None = None
    DiskFaults = TRUE
    MaxAborts = 1
SYMMETRY CallerSymmetry
INVARIANTS
    ReadyIsWhole
    PartialAccounted
    DescriptorsOwned
    CancelHeard
PROPERTIES
    CustodyKept
