\* One tick at a time, Twilio origination, no fault; a phone call and a browser room,
\* three transcript events each; and one caller heard over two sockets, with a queue
\* that overflows.
SPECIFICATION SpeechSpec
CONSTANTS
    c1 = c1  c2 = c2  c3 = c3  c4 = c4  t1 = t1
    NumLeads = 3
    Undialable <- LastLead
    Calls <- FourCalls
    Ticks <- OneTick
    MaxConcurrent = 2
    MaxAttempts = 2
    HasRetryConfig = TRUE
    RetryOn <- AnyOutcome
    RetryOnVoicemail = TRUE
    Outcomes <- Answered
    Paths <- Twilio
    BusinessHours = TRUE
    Faults <- NoFaults
    Phones = {TRUE, FALSE}
    MaxEvents = 3
    TTS_MAX_ATTEMPTS = 2
    People <- Caller
    Ignored <- Agents
    Targets <- Anyone
    Sockets <- Socks
    QueueSize = 2
    MaxFrames = 3
    MaxHeard = 1
    MAX_RECONNECT = 2
INVARIANTS
    OneLiveCall VoiceKeepsOrder HearsInOrder
PROPERTIES
    ImplementsLifecycle DialledMeansCompleted TurnEnds DeadSocketNoticed
CHECK_DEADLOCK FALSE
