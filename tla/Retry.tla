------------------------------- MODULE Retry -------------------------------
(***************************************************************************)
(* The retry engine (campaign/retry.py): which call outcomes are dialled   *)
(* again, and how one outcome rewrites an executions row in place.         *)
(* A row keeps the columns the dialing pipeline reads or writes back.      *)
(* Timestamps are abstracted to what the scheduler's SQL compares:         *)
(* next_retry_at is NULL, still ahead of the clock, or already reached.    *)
(***************************************************************************)
EXTENDS Integers

CONSTANTS
    MaxAttempts,        \* retry_config.max_attempts, after max(1, ...)
    HasRetryConfig,     \* the campaign has a retry_config
    RetryOn,            \* retry_config.retry_on (all outcomes when omitted)
    RetryOnVoicemail    \* voicemail_config.retry_on_voicemail (TRUE with no config)

ASSUME RetryAssumption ==
    /\ MaxAttempts \in Nat \ {0}
    /\ HasRetryConfig \in BOOLEAN
    /\ RetryOnVoicemail \in BOOLEAN

RETRYABLE_OUTCOMES == {"no_answer", "busy", "voicemail", "failed", "temporary_error"}

NON_RETRYABLE_OUTCOMES ==
    {"qualified", "meeting_booked", "completed", "opted_out", "do_not_call"}

Outcome == RETRYABLE_OUTCOMES \cup NON_RETRYABLE_OUTCOMES

ExecStatus  == {"queued", "running", "completed", "failed"}
RetryStatus == {"pending", "scheduled", "exhausted", "completed", "none"}
NextRetryAt == {"none", "later", "due"}

\* The allow-list narrows the global retryable set and the campaign's voicemail
\* policy narrows it again, for the voicemail outcome only.
IsRetryable(outcome) ==
    /\ outcome \in RETRYABLE_OUTCOMES
    /\ outcome \in RetryOn
    /\ outcome = "voicemail" => RetryOnVoicemail

AttemptsLeftInclusive(row) == row.attempt_number <= MaxAttempts
AttemptsLeftEarly(row)     == row.attempt_number + 1 < MaxAttempts

\* The attempt an outcome belongs to, and whether another one is allowed.
AttemptThatRan(row) == row.attempt_number
AttemptsLeft(row)   == row.attempt_number < MaxAttempts

\* calculate_next_retry and attempt_number + 1 happen for this outcome.
Again(row, outcome) == IsRetryable(outcome) /\ HasRetryConfig /\ AttemptsLeft(row)

\* Slip: an exhausted row stays parked.
RetryStatusNeverExhausted(row, outcome) ==
    IF ~IsRetryable(outcome) THEN "completed"
    ELSE IF ~HasRetryConfig  THEN "none"
    ELSE "scheduled"

\* The decision table of process_outcome for the retry_status column.
RetryStatusAfter(row, outcome) ==
    IF ~IsRetryable(outcome)    THEN "completed"
    ELSE IF ~HasRetryConfig     THEN "none"
    ELSE IF Again(row, outcome) THEN "scheduled"
    ELSE "exhausted"

\* process_outcome before its commit: every column it assigns.  The attempt
\* that just ran is appended to context.retry_history, kept here as the set of
\* attempt numbers that have a record.
ProcessOutcome(row, outcome) ==
    [row EXCEPT
      !.status         = IF IsRetryable(outcome) THEN "failed" ELSE "completed",
      !.retry_status   = RetryStatusAfter(row, outcome),
      !.attempt_number = IF Again(row, outcome) THEN @ + 1 ELSE @,
      !.next_retry_at  = IF Again(row, outcome) THEN "later" ELSE "none",
      !.context.retry_history = @ \cup {AttemptThatRan(row)}]

\* A row that will never be dialled again: the scheduler's completion test
\* counts it neither as queued, nor as running, nor as a scheduled retry.
Settled(row) ==
    /\ row.status \in {"completed", "failed"}
    /\ row.retry_status # "scheduled"
=============================================================================
