\* Two callers and three keys: two generations that come to nothing, and one.
SPECIFICATION FairCredSpec
CONSTANTS
    Callers = {c1, c2}
    Keys = {k1, k2, k3}
    None = None
INVARIANTS
    OneIdentity
    GivenIsDurable
PROPERTIES
    CallsEnd
