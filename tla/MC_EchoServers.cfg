CONSTANTS
    MaxFd = 3
    Backlog = 1
    RecvBuf = 1
    Clients = {c1, c2}
    EpollFds = 2
    MaxEvents = 2
    RecvMax = 1
    EpollConns = 3
    EpollSends = 2
SPECIFICATION EchoSpec
INVARIANTS CountsTheRest NothingOverlooked
PROPERTIES DataServed TurnComes
CHECK_DEADLOCK FALSE
