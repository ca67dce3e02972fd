-------------------------- MODULE DialingLifecycle --------------------------
(***************************************************************************)
(* The dialing pipeline implements LeadLifecycle: where a lead is follows  *)
(* from its executions row and from the calls that owe the row an outcome. *)
(***************************************************************************)
EXTENDS Dialing

ASSUME CallsAssumption == IsFiniteSet(Calls)

CallsOf(e) == {c \in Calls : calls[c].exec = e}

\* A call of this lead is on its way, up, or has an outcome to report.
Calling(e) == \E c \in CallsOf(e) : Owing(c)

PhaseOf(e) ==
    IF rows[e].status = "queued" THEN "waiting"
    ELSE IF rows[e].status = "running" /\ Calling(e) THEN "calling"
    ELSE IF rows[e].status = "running" THEN "claimed"
    ELSE IF rows[e].retry_status = "scheduled" THEN "parked"
    ELSE "settled"

Lifecycle == INSTANCE LeadLifecycle WITH
    Leads    <- Executions,
    Attempts <- MaxAttempts,
    Cap      <- MaxConcurrent,
    phase    <- [e \in Executions |-> PhaseOf(e)],
    attempt  <- [e \in Executions |-> rows[e].attempt_number],
    dials    <- [e \in Executions |-> Cardinality(CallsOf(e))],
    open     <- campaign = "active"

\* With one tick at a time and no fault, every step of the pipeline is a step of
\* a lead's life, of the campaign's end, or no step at all: no call without a
\* claim, no second call to a lead that is being called, no attempt beyond
\* max_attempts, no claim beyond max_concurrent_calls, no way back from a settled
\* row, and no end of the campaign before every lead is settled.
ImplementsLifecycle == Lifecycle!Spec
=============================================================================
