CONSTANTS
    Logs = {1, 2}
    Comment = 0
    Absent = Absent
    InitCfgs <- PlainOrOneLog
    Messages = {1, 2}
    FirstInode = 0
    IntHalf = 8
    MaxSize = 3
    MaxRotations = 1
    MaxFaults = 2
    Files = {f1, f2}
    NSites = 3
    MaxNames = 3
    MaxErrors = 1
    MaxDelivered = 3
SPECIFICATION FilesSpec
INVARIANTS CopyExists PositionsKept RowsTellTheTruth
PROPERTIES CallsReturn
CHECK_DEADLOCK FALSE
