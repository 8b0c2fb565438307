CONSTANTS
    Clients = {c1, c2}
    Conns = {h1, h2}
    SemNames <- MCOneSemName
    ShmNames <- MCOneShmName
    sem_key <- MCOneSemKey
    shm_key <- MCShmKeys
    None = None
SPECIFICATION Spec
INVARIANTS NoDoubleGrant
