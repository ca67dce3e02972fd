\* Three leads paced at two an hour of four ticks, with the retries of the default
\* retry_config: a quarter of an hour after the attempt they repeat.
SPECIFICATION CallsSpec
CONSTANTS
    l1 = l1  l2 = l2
    Leads <- TwoLeads
    MaxWorkflows = 2
    ActivateIn <- Careful
    EditIn <- Careful
    PatchTo <- Archive
    ByHand = TRUE
    Setups <- Undetected
    MaxDeliveries = 1
    EarlyCallbacks = FALSE
    UserActs = FALSE
    NumLeads = 3
    CallsPerHour = 2
    MaxConcurrent = 2
    HourTicks = 4
    MaxAttempts = 2
    RetryInterval = 1
    Exponential = FALSE
INVARIANT
    RollingHourCap
CHECK_DEADLOCK FALSE
