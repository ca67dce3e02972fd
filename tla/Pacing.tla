------------------------------- MODULE Pacing -------------------------------
(***************************************************************************)
(* The hourly pacing of an active campaign.  Nothing counts dispatches:    *)
(* the scheduler infers "what already went out" from rows that are not     *)
(* queued and whose updated_at falls within the last hour, while calls     *)
(* end, retries are parked and requeued, and every such write moves        *)
(* updated_at.  Time is counted in scheduler ticks; a tick runs alone and  *)
(* inside the calling window (module Dialing has the interleavings).       *)
(***************************************************************************)
EXTENDS Scheduling

CONSTANTS
    NumLeads,       \* executions, numbered by created_at
    CallsPerHour,   \* campaigns.calls_per_hour
    MaxConcurrent,  \* campaigns.max_concurrent_calls
    HourTicks,      \* scheduler ticks in an hour
    MaxAttempts,    \* retry_config.max_attempts
    RetryInterval,  \* retry_config.retry_interval_minutes, in ticks
    Exponential     \* retry_config.backoff_strategy = "exponential"

ASSUME PacingAssumption ==
    /\ NumLeads \in Nat \ {0}
    /\ CallsPerHour \in Nat
    /\ MaxConcurrent \in Nat
    /\ HourTicks \in Nat \ {0}
    /\ MaxAttempts \in Nat \ {0}
    /\ RetryInterval \in Nat
    /\ Exponential \in BOOLEAN

VARIABLES
    rows,       \* executions
    dials       \* history: how long ago each attempt was dispatched

pacingVars == <<rows, dials>>

Executions == 1..NumLeads
Attempts   == 1..MaxAttempts

\* Ages are in ticks and stop growing once they are over an hour.
Old      == HourTicks + 1
Older(a) == IF a = Old THEN Old ELSE a + 1

\* backoff_delay_minutes
BackoffDelay(attempt) ==
    IF Exponential THEN RetryInterval * 2 ^ (attempt - 1) ELSE RetryInterval

\* The columns of a row; wait is compared with 0 and counted down.
IsRow(r) ==
    /\ r = [status |-> r.status, attempt_number |-> r.attempt_number,
            updated |-> r.updated, wait |-> r.wait]
    /\ r.status \in {"queued", "running", "parked", "done"}
    /\ r.attempt_number \in Attempts /\ r.updated \in 0..Old

PacingTypeOK ==
    /\ rows = [e \in Executions |-> rows[e]] /\ \A e \in Executions : IsRow(rows[e])
    /\ dials \in [Executions \X Attempts -> 0..Old]

PacingInit ==
    /\ rows = [e \in Executions |-> [status |-> "queued", attempt_number |-> 1,
                                     updated |-> 0, wait |-> 0]]
    /\ dials = [d \in Executions \X Attempts |-> Old]

-----------------------------------------------------------------------------

\* A minute passes; requeue_due_retries then rewrites the rows that are due.
Waited(row) == [row EXCEPT !.updated = Older(@), !.wait = IF @ = 0 THEN 0 ELSE @ - 1]

Requeued(row) ==
    IF row.status = "parked" /\ row.wait = 0
    THEN [row EXCEPT !.status = "queued", !.updated = 0]
    ELSE row

Running(rs) == {e \in Executions : rs[e].status = "running"}
Queued(rs)  == {e \in Executions : rs[e].status = "queued"}

\* Slip: only the calls still up are looked at.
DispatchedRunning(rs) ==
    {e \in Executions : rs[e].status = "running" /\ rs[e].updated <= HourTicks}

\* count_dispatched_since(now - 1 hour), as the set of rows it counts.
DispatchedSince(rs) ==
    {e \in Executions : rs[e].status # "queued" /\ rs[e].updated <= HourTicks}

Allowance(rs) ==
    PacingAllowance(CallsPerHour, MaxConcurrent, HourTicks,
                    Cardinality(Running(rs)), Cardinality(DispatchedSince(rs)))

Dispatched(row) == [row EXCEPT !.status = "running", !.updated = 0]

PacedTick ==
    LET rs == [e \in Executions |-> Requeued(Waited(rows[e]))]
    IN  \E b \in SUBSET Queued(rs) :
          /\ FirstOf(Queued(rs), Allowance(rs), b)
          /\ rows' = [e \in Executions |-> IF e \in b THEN Dispatched(rs[e]) ELSE rs[e]]
          /\ dials' = [d \in Executions \X Attempts |->
                         IF d[1] \in b /\ d[2] = rs[d[1]].attempt_number THEN 0
                         ELSE Older(dials[d])]

AttemptsLeft(row)          == row.attempt_number < MaxAttempts

\* The terminal callback: process_outcome parks the row for another attempt, or
\* settles it.
CallEnds(e) ==
    /\ rows[e].status = "running"
    /\ \/ /\ AttemptsLeft(rows[e])
          /\ rows' = [rows EXCEPT ![e] =
                [status |-> "parked", attempt_number |-> rows[e].attempt_number + 1,
                 updated |-> 0, wait |-> BackoffDelay(rows[e].attempt_number)]]
       \/ rows' = [rows EXCEPT ![e] = [@ EXCEPT !.status = "done", !.updated = 0]]
    /\ UNCHANGED dials

PacingNext == PacedTick \/ \E e \in Executions : CallEnds(e)

PacingSpec == PacingInit /\ [][PacingNext]_pacingVars

\* Beat keeps ticking and every call ends.
PacingFairness == WF_pacingVars(PacedTick) /\ \A e \in Executions : WF_pacingVars(CallEnds(e))

PacedFairly == PacingSpec /\ PacingFairness

-----------------------------------------------------------------------------
(* Properties. *)

\* The dispatches of the last hour, counting a lead once per attempt.
DialsInHour == {d \in Executions \X Attempts : dials[d] < HourTicks}

\* The leads that were called for the first time within the last hour.
NewInHour == {e \in Executions : dials[<<e, 1>>] < HourTicks}

\* calls_per_hour bounds the leads that are taken up in every rolling hour, however
\* soon retries come: a requeued row is not counted as dispatched any more, but it
\* is older than every lead not called yet and goes before it.
NewLeadsCapped == CallsPerHour > 0 => Cardinality(NewInHour) <= CallsPerHour

\* calls_per_hour bounds the dispatches of every rolling hour, as pacing_allowance
\* has it: "rolling-hour cap - calls_per_hour minus what already went out".
RollingHourCap == CallsPerHour > 0 => Cardinality(DialsInHour) <= CallsPerHour

\* Pacing only delays: rounding and over-counting never stall the campaign, and
\* every lead gets settled.
EveryLeadSettles == <>(\A e \in Executions : rows[e].status = "done")
=============================================================================
