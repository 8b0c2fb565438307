CONSTANTS
    Clients = {c1, c2}
    Conns = {h1, h2}
    SemNames <- MCSemNames
    ShmNames <- MCShmNames
    sem_key <- MCSemKeys
    shm_key <- MCShmKeys
    None = None
SPECIFICATION FairSpec
INVARIANTS DoubleGrantOnlyByStaleCheck StatusTruthful CriticalSection UndoRight
PROPERTIES NeverStuck
