\* A campaign whose users activate drafts and edit the workflow before pausing, never
\* while paused; three leads paced at two an hour of four ticks, retries coming after
\* the quarter of an hour that is the default; and one call under every setup, status
\* callbacks coming up to twice and in any order.
SPECIFICATION CallsSpec
CONSTANTS
    l1 = l1  l2 = l2
    Leads <- TwoLeads
    MaxWorkflows = 2
    ActivateIn <- Careful
    EditIn <- Careful
    PatchTo <- Archive
    ByHand = TRUE
    Setups <- AllSetups
    MaxDeliveries = 2
    EarlyCallbacks = FALSE
    UserActs = TRUE
    NumLeads = 3
    CallsPerHour = 2
    MaxConcurrent = 2
    HourTicks = 4
    MaxAttempts = 2
    RetryInterval = 1
    Exponential = FALSE
INVARIANTS
    CompletedMeansDone PlayedMeansVoicemail HumanKeepsAgent 
PROPERTIES
    OutcomeArrives EveryLeadSettles LeadsSettle
CHECK_DEADLOCK FALSE
