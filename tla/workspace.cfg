\* Up to three requests of two users, and one call; and a lead's walk with replies,
\* IMAP, one worker crash and one graph edit.
SPECIFICATION WorkspaceSpec
CONSTANTS
    u1 = u1  u2 = u2  b1 = b1  b2 = b2
    Users <- TwoUsers
    Phones <- ThreePhones
    Names <- TwoCases
    Lower <- OneName
    Files <- FiveFiles
    MaxRequests = 3
    Editors <- TwoUsers
    Books <- TwoBooks
    Keys = {"k1"}
    Calls = {"c1"}
    MaxEdits = 3
    MaxAttempts = 2
    HasRetryConfig = TRUE
    RetryOn <- AnyOutcome
    RetryOnVoicemail = TRUE
    Candidates <- Graphs
    MaxVersions = 2
    Outcomes <- Answers
    Polled = TRUE
    Hooked = TRUE
    MaxCrashes = 1
    MAX_STEPS = 5
INVARIANTS
    TrailIsAWalk MailRepeatsOnlyAfterCrash SharedCallBudget NeverStranded
    CallsRunWhatWasPublished
PROPERTIES
    AloneLosesNothing RequestsEnd WalksEnd
CHECK_DEADLOCK FALSE
