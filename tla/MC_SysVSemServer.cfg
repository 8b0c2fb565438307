\* Three connections served at the same time, one key.
CONSTANTS
    Clients = {c1, c2}
    Conns = {h1, h2, h3}
    Names <- MCOneKeyNames
    Keys <- MCOneKey
    None = None
    SEMVMX = 2
    RetryUnlock = FALSE
SYMMETRY Symmetry
SPECIFICATION Spec
INVARIANTS MutualExclusion NoLockLeaked
PROPERTIES ImplementsLockService
