\* A socket that was reopened
SPECIFICATION HearSpec
CONSTANTS
    People <- Caller
    Ignored <- Agents
    Targets <- Anyone
    Sockets <- Socks
    QueueSize = 2
    MaxFrames = 3
    MaxHeard = 1
    MAX_RECONNECT = 2
INVARIANTS
    InUseIsOpen
CHECK_DEADLOCK FALSE
