CONSTANTS
    Clients = {c1, c2}
    Conns = {h1, h2}
    Names <- MCOneKeyNames
    Keys <- MCOneKey
    None = None
    SEMVMX = 2
    RetryUnlock = TRUE
SPECIFICATION Spec
INVARIANTS MutualExclusion
