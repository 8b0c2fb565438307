CONSTANTS
    Clients = {c1, c2, c3}
    Conns = {h1, h2}
    Keys = {k1}
    None = None
    MaxValue = 2
    UnlockServed = TRUE
    Starts = {s1, s2}
    OneHandler = {h1}
    MaxTry = 1
    SupKills = 3
    max_process_cnt = 1
    max_server_cnt = 3
    ByteMax = 2
    ForkWrap = 4
    BypassKills = 1
SPECIFICATION DaemonsSpec
INVARIANTS NoLockLeaked OneSurvives EveryServerTried
PROPERTIES ImplementsLockService AnsweredWhereServed ServiceRestored
CHECK_DEADLOCK FALSE
