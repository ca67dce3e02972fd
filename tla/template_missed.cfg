\* A lead's walk through the Qualification template, dialing enabled or not.
SPECIFICATION Spec
CONSTANTS
    MaxAttempts = 2
    HasRetryConfig = TRUE
    RetryOn <- AnyOutcome
    RetryOnVoicemail = TRUE
    Candidates <- OneTemplate
    MaxVersions = 1
    Outcomes <- Answers
    Polled = FALSE
    Hooked = FALSE
    MaxCrashes = 0
INVARIANT MissedCallMailOnlyIfMissed
CHECK_DEADLOCK FALSE
