\* Every call originates over the LiveKit SIP trunk and none falls back.
SPECIFICATION FairSpec
CONSTANTS
    c1 = c1  c2 = c2  c3 = c3  c4 = c4  t1 = t1
    NumLeads = 1
    Undialable <- NoLead
    Calls <- TwoCalls
    Ticks <- OneTick
    MaxConcurrent = 1
    MaxAttempts = 2
    HasRetryConfig = TRUE
    RetryOn <- AnyOutcome
    RetryOnVoicemail = TRUE
    Outcomes <- Answered
    Paths <- LiveKit
    BusinessHours = FALSE
    Faults <- NoFaults
PROPERTY
    RunningIsReconciled
CHECK_DEADLOCK FALSE
