\* Every fault, both origination paths, and more dialable leads than the cap allows.
\* And two API processes and the scheduler activate a campaign at the same time,
\* while users edit, pause, resume and archive it.  And the dashboards,
\* while workers write, with lists cut off at one row.
SPECIFICATION PipelineSpec
CONSTANTS
    c1 = c1  c2 = c2  c3 = c3  c4 = c4  t1 = t1
    NumLeads = 3
    Undialable <- NoLead
    Calls <- TwoCalls
    Ticks <- OneTick
    MaxConcurrent = 2
    MaxAttempts = 2
    HasRetryConfig = TRUE
    RetryOn <- AnyOutcome
    RetryOnVoicemail = TRUE
    Outcomes <- Answered
    Paths <- BothPaths
    BusinessHours = FALSE
    Faults <- AllFaults
    l1 = l1
    one = one  two = two  beat = beat
    Leads <- OneLead
    MaxWorkflows = 2
    ActivateIn <- Careful
    EditIn <- Anytime
    PatchTo <- Archive
    ByHand = TRUE
    Sessions <- TwoUsers
    Beat = beat
    Campaigns <- TwoCampaigns
    Contacts <- TwoContacts
    CallOutcomes <- Booked
    Activities <- Shown
    Kinds <- AllKinds
    days = 1
    MostUsed = 1
    MonitorLimit = 1
    MaxDay = 2
    MaxWrites = 3
SYMMETRY Alike
INVARIANTS
    TypeOK ConcurrencyCap RetryWakeable ActivatesOnce RepliesAddUp
PROPERTY
    ActivatesAsIfAlone
CHECK_DEADLOCK FALSE
