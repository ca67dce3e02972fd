\* The queue is full when the call ends.
SPECIFICATION HearSpec
CONSTANTS
    People <- Caller
    Ignored <- Agents
    Targets <- Anyone
    Sockets <- Socks
    QueueSize = 2
    MaxFrames = 3
    MaxHeard = 1
    MAX_RECONNECT = 2
PROPERTIES
    CloseReturns
CHECK_DEADLOCK FALSE
