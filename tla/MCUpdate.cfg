\* Two internal builds and a stable one, two calls, with and without a feed.
SPECIFICATION FairUpdSpec
CONSTANTS
    Builds = {1, 2, 3}
    Stable = {3}
    Installs = {i1, i2}
    MaxAccepted = 1
    None = None
INVARIANTS
    CodeMatchesKey
    OneDelivery
PROPERTIES
    ShownEventually
    LatchReleased
