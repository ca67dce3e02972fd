\* Three turns of a call, two attempts each, with and without a playbook; and two
\* calls that compete for the two half hours of a day, Redis failing once; a
\* calendar connected up to three times and used meanwhile; and three letters of a
\* lead in four deliveries, in a thread of two turns; and two requests at a time about
\* the members of an organization; and the table of calls with its webhooks, redials
\* and recordings.
SPECIFICATION AgentSpec
CONSTANTS
    budget = budget  need = need
    Fields <- TwoFields
    Rules <- ThreeRules
    Playbooks = {"none", "fields", "bare"}
    MaxTurns = 3
    AI_TURN_MAX_ATTEMPTS = 2
    AI_MEMORY_MAX_TURNS = 2
    a = a
    b = b
    Calls = {a, b}
    LeadEmail <- NoneAndBad
    Horizon = 3
    DayLength = 3
    Open = 1
    Close = 3
    Duration = 1
    Wishes = {1}
    MaxNow = 1
    OwnerTakes = {2}
    KeyKnown = TRUE
    MaxLost = 1
    Accounts = {"g1", "g2"}
    Flows = {1, 2, 3}
    UserOf <- AnnTwice
    Uses = {1, 2}
    MaxRows = 2
    max_turns = 2
    MaxLetters = 3
    MaxDeliveries = 4
    ann = ann  bob = bob
    Persons = {ann, bob}
    Orgs = {"o1", "o2"}
    Founding <- OwnerAndMember
    Referenced = {ann}
    Requests = {1, 2}
    KindsOf <- AnyAndOneOf
    MaxMembers = 3
    NewRoles = {"owner", "member"}
    Deletable = {"o2"}
    SigningIn = {bob}
    Outbound <- Dialled
    Inbound <- Inward
    Deliveries = {1, 2}
    TWILIO_MAX_RETRIES = 1
    RECORDING_DELETE_FROM_TWILIO = TRUE
    MaxActs = 1
INVARIANTS
    OnceIsOnce AnsweredIsKept BookingAgrees LinkIsOneAccount LoneFlowConnects
    ReplyFitsItsLetter OptOutHeeded
    MembershipsHold OneAgentPerLeg RecordingKept
PROPERTIES
    NoReplyAfterOptOut ClosedForGood
CHECK_DEADLOCK FALSE
