CONSTANTS
    Clients = {c1}
    Conns = {h1, h2}
    Names <- MCAllNames
    Keys <- MCKeys
    None = None
    SEMVMX = 2
    RetryUnlock = FALSE
    Handlers = {b1, b2}
    max_process_cnt = 1
    max_server_cnt = 1
    ByteMax = 2
    ForkWrap = 1
    MaxKills = 1
SYMMETRY Symmetry
SPECIFICATION SharedSpec
INVARIANTS HeadIntact StatusTruthful CountKept
CHECK_DEADLOCK FALSE
