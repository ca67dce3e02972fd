------------------------------ MODULE Dialing ------------------------------
(***************************************************************************)
(* The dialing pipeline of one active campaign with flat lead executions:  *)
(*                                                                         *)
(*   scheduler tick (Celery)  --HTTP-->  API handler  --REST-->  provider  *)
(*        ^                                                        |       *)
(*        '----------  executions  <--  status webhook  <----------'       *)
(*                                                                         *)
(* A tick reads the database in several statements, marks a row running,   *)
(* refreshes it, posts the dial and writes the row back from what it had   *)
(* loaded; the API handler, the provider and the webhook act in between.   *)
(* One step is one database transaction or one message.                    *)
(***************************************************************************)
EXTENDS Retry, Scheduling

CONSTANTS
    NumLeads,           \* executions of the campaign, numbered by created_at
    Undialable,         \* leads without a phone number or playbook
    Calls,              \* supply of telephony_calls rows (bounds the model)
    Ticks,              \* tick tasks that may run at once (Celery workers)
    MaxConcurrent,      \* campaigns.max_concurrent_calls (0: unlimited)
    Outcomes,           \* terminal outcomes the provider may report
    Paths,              \* how calls are originated: "livekit_sip" when a trunk
                        \* is set and the call does without AMD, else "twilio"
    BusinessHours,      \* the campaign has a calling window
    Faults              \* which of FaultKinds the environment commits

FaultKinds == {"timeout", "crash", "early", "duplicate", "delete"}

ASSUME DialingAssumption ==
    /\ NumLeads \in Nat \ {0}
    /\ Undialable \subseteq 1..NumLeads
    /\ MaxConcurrent \in Nat
    /\ Outcomes \subseteq Outcome
    /\ Paths \subseteq {"twilio", "livekit_sip"}
    /\ BusinessHours \in BOOLEAN
    /\ Faults \subseteq FaultKinds
    \* TickDispatch processes an undialable lead on its current row; the worker
    \* does on the one list_queued returned, the same when no other tick runs.
    /\ Undialable = {} \/ \E t \in Ticks : Ticks = {t}

VARIABLES
    campaign,   \* campaigns.status
    hours,      \* is_within_business_hours(now)
    rows,       \* executions, by execution
    calls,      \* telephony_calls rows, the handlers and the legs behind them
    tick        \* the scheduler tasks and what each has read so far

vars == <<campaign, hours, rows, calls, tick>>

Executions == 1..NumLeads
NoExec     == 0
NoCall     == "no call"

-----------------------------------------------------------------------------
(* Types *)

Context == [retry_history : SUBSET (1..MaxAttempts), call_id : Calls \cup {NoCall}]

Row == [status : ExecStatus, retry_status : RetryStatus,
        attempt_number : 1..MaxAttempts, next_retry_at : NextRetryAt,
        context : Context]

\* stage: how far the API handler (and, over LiveKit, its background task) got:
\*   requested -> placed -> bound            Twilio: leg created, then sid saved
\*   requested -> refused                    Twilio rejected the call
\*   requested -> sip -> sip_live -> closed  LiveKit SIP, nothing to call back
\* http: the response of POST /telephony/calls.  leg: the PSTN leg.
\* hook: the provider's terminal status callback.
Stage == {"free", "requested", "placed", "bound", "refused", "sip", "sip_live",
          "closed", "deleted"}

Call == [exec : Executions \cup {NoExec}, stage : Stage,
         http : {"pending", "ok", "error"}, leg : {"none", "live", "ended"},
         hook : {"none", "sent", "done"}, outcome : Outcome]

TickState == [pc : {"idle", "count", "decide", "dispatch", "post", "wait"},
              hours : BOOLEAN, queued : Nat, running : Nat,
              batch : SUBSET Executions, exec : Executions \cup {NoExec},
              loaded : Row, call : Calls \cup {NoCall}]

TypeOK ==
    /\ campaign \in {"active", "completed"}
    /\ hours \in BOOLEAN
    /\ rows \in [Executions -> Row]
    /\ calls \in [Calls -> Call]
    /\ tick \in [Ticks -> TickState]

-----------------------------------------------------------------------------
(* Initial state: CampaignService._enqueue_leads has committed its rows. *)

NewRow == [status |-> "queued", retry_status |-> "pending", attempt_number |-> 1,
           next_retry_at |-> "none",
           context |-> [retry_history |-> {}, call_id |-> NoCall]]

FreeCall == [exec |-> NoExec, stage |-> "free", http |-> "pending", leg |-> "none",
             hook |-> "none", outcome |-> "failed"]

IdleTick == [pc |-> "idle", hours |-> FALSE, queued |-> 0, running |-> 0,
             batch |-> {}, exec |-> NoExec, loaded |-> NewRow, call |-> NoCall]

Init ==
    /\ campaign = "active"
    /\ hours = TRUE
    /\ rows = [e \in Executions |-> NewRow]
    /\ calls = [c \in Calls |-> FreeCall]
    /\ tick = [t \in Ticks |-> IdleTick]

-----------------------------------------------------------------------------
(* What the queries of ExecutionRepository return. *)

WithStatus(s)    == {e \in Executions : rows[e].status = s}
ScheduledRetries == {e \in Executions : rows[e].retry_status = "scheduled"}
Dispatchable     == {e \in Executions : /\ rows[e].status = "queued"
                                        /\ rows[e].next_retry_at # "later"}

\* Slip: the calls under way are forgotten.
AllowanceForgetful(running) == PacingAllowance(0, MaxConcurrent, 1, 0, 0)

\* A campaign without an hourly limit; module Pacing has one.
Allowance(running) == PacingAllowance(0, MaxConcurrent, 1, running, 0)

\* Slip: retry_status left behind.
RequeuedStillParked(row) ==
    IF row.retry_status = "scheduled" /\ row.next_retry_at = "due"
    THEN [row EXCEPT !.status = "queued", !.next_retry_at = "none"]
    ELSE row

\* requeue_due_retries: one bulk UPDATE keyed on retry_status, not on status.
Requeued(row) ==
    IF row.retry_status = "scheduled" /\ row.next_retry_at = "due"
    THEN [row EXCEPT !.status = "queued", !.retry_status = "pending",
                     !.next_retry_at = "none"]
    ELSE row

\* What a session commits for an object it loaded and then assigned: only the
\* columns whose value differs from the loaded one are in the UPDATE.  A new
\* timestamp, or a context with one more record, is never the loaded one.
Dirty(loaded, new, db) == IF new # loaded THEN new ELSE db

Flush(db, loaded, new) ==
    [status         |-> Dirty(loaded.status, new.status, db.status),
     retry_status   |-> Dirty(loaded.retry_status, new.retry_status, db.retry_status),
     attempt_number |-> Dirty(loaded.attempt_number, new.attempt_number,
                              db.attempt_number),
     next_retry_at  |-> IF new.next_retry_at = "later" THEN "later"
                        ELSE Dirty(loaded.next_retry_at, new.next_retry_at,
                                   db.next_retry_at),
     context        |-> new.context]

-----------------------------------------------------------------------------
(* The scheduler tick: CampaignScheduler._advance_active and the worker. *)

\* The campaign is among the active ones: sample the calling window and, inside
\* it, requeue the retries whose time has come.
TickStart(t) ==
    /\ tick[t].pc = "idle"
    /\ campaign = "active"
    /\ tick' = [tick EXCEPT ![t] = [IdleTick EXCEPT !.pc = "count", !.hours = hours]]
    /\ rows' = IF hours THEN [e \in Executions |-> Requeued(rows[e])] ELSE rows
    /\ UNCHANGED <<campaign, hours, calls>>

\* count_by_status: one GROUP BY query.
TickCount(t) ==
    /\ tick[t].pc = "count"
    /\ tick' = [tick EXCEPT ![t] =
          [@ EXCEPT !.pc = "decide", !.queued = Cardinality(WithStatus("queued")),
                    !.running = Cardinality(WithStatus("running"))]]
    /\ UNCHANGED <<campaign, hours, rows, calls>>

\* count_scheduled_retries is a later query than count_by_status.
NothingLeft(t) ==
    tick[t].queued = 0 /\ tick[t].running = 0 /\ ScheduledRetries = {}

TickComplete(t) ==
    /\ tick[t].pc = "decide"
    /\ NothingLeft(t)
    /\ campaign' = "completed"
    /\ tick' = [tick EXCEPT ![t] = IdleTick]
    /\ UNCHANGED <<hours, rows, calls>>

\* The batch list_queued returns, FIFO; {} for every early "continue".
IsBatch(t, b) ==
    IF tick[t].queued > 0 /\ tick[t].hours
    THEN FirstOf(Dispatchable, Allowance(tick[t].running), b)
    ELSE b = {}

TickSelect(t) ==
    /\ tick[t].pc = "decide"
    /\ ~NothingLeft(t)
    /\ \E b \in SUBSET Dispatchable :
          /\ IsBatch(t, b)
          /\ tick' = [tick EXCEPT ![t] = [IdleTick EXCEPT !.pc = "dispatch", !.batch = b]]
    /\ UNCHANGED <<campaign, hours, rows, calls>>

TickEnd(t) ==
    /\ tick[t].pc = "dispatch"
    /\ tick[t].batch = {}
    /\ tick' = [tick EXCEPT ![t] = IdleTick]
    /\ UNCHANGED <<campaign, hours, rows, calls>>

\* The slip is not to mark the row before the request is sent.
MarkedLater(row)   == row
MarkedRunning(row) == [row EXCEPT !.status = "running"]

\* _dispatch_dial_http, up to the commit of status = "running" and the refresh
\* that the next attribute access performs; a lead that cannot be dialled fails
\* at once.  The batch is not re-checked against the rows.
TickDispatch(t) ==
    /\ tick[t].pc = "dispatch"
    /\ \E e \in tick[t].batch :
          /\ \A d \in tick[t].batch : e <= d
          /\ IF e \in Undialable
             THEN /\ rows' = [rows EXCEPT ![e] = ProcessOutcome(@, "failed")]
                  /\ tick' = [tick EXCEPT ![t].batch = @ \ {e}]
             ELSE /\ rows' = [rows EXCEPT ![e] = MarkedRunning(@)]
                  /\ tick' = [tick EXCEPT ![t] =
                        [@ EXCEPT !.pc = "post", !.batch = tick[t].batch \ {e},
                                  !.exec = e, !.loaded = MarkedRunning(rows[e])]]
    /\ UNCHANGED <<campaign, hours, calls>>

\* httpx.post leaves for the API process.
TickPost(t) ==
    /\ tick[t].pc = "post"
    /\ \E c \in Calls : calls[c].stage = "free"
    /\ LET c == CHOOSE d \in Calls : calls[d].stage = "free"
       IN  /\ calls' = [calls EXCEPT ![c] = [@ EXCEPT !.stage = "requested", !.exec = tick[t].exec]]
           /\ tick' = [tick EXCEPT ![t] = [@ EXCEPT !.pc = "wait", !.call = c]]
    /\ UNCHANGED <<campaign, hours, rows>>

Resumed(t) == [tick[t] EXCEPT !.pc = "dispatch", !.exec = NoExec, !.call = NoCall,
                              !.loaded = NewRow]

\* The only column assigned after a 2xx.
WithCall(row, loaded, c) == [row EXCEPT !.context = [loaded.context EXCEPT !.call_id = c]]

\* 2xx: the context is rebuilt from the loaded copy and written back whole.
TickResponse(t) ==
    /\ tick[t].pc = "wait"
    /\ calls[tick[t].call].http = "ok"
    /\ rows' = [rows EXCEPT ![tick[t].exec] = WithCall(@, tick[t].loaded, tick[t].call)]
    /\ tick' = [tick EXCEPT ![t] = Resumed(t)]
    /\ UNCHANGED <<campaign, hours, calls>>

\* The slip is to give up on a request that is merely slow.
RequestFailed(t) ==
    \/ calls[tick[t].call].http = "error"
    \/ "timeout" \in Faults /\ calls[tick[t].call].http = "pending"

\* _fail_dial: an error response, or the client's timeout while the handler is
\* still at work.  db.get returns the loaded object.
TickFailDial(t) ==
    /\ tick[t].pc = "wait"
    /\ RequestFailed(t)
    /\ LET old == tick[t].loaded
       IN  rows' = [rows EXCEPT ![tick[t].exec] =
                        Flush(@, old, ProcessOutcome(old, "failed"))]
    /\ tick' = [tick EXCEPT ![t] = Resumed(t)]
    /\ UNCHANGED <<campaign, hours, calls>>

\* The worker process dies; its transaction in progress is rolled back.
TickCrash(t) ==
    /\ "crash" \in Faults
    /\ tick[t].pc # "idle"
    /\ tick' = [tick EXCEPT ![t] = IdleTick]
    /\ UNCHANGED <<campaign, hours, rows, calls>>

-----------------------------------------------------------------------------
(* The API handler: TelephonyService.initiate_outbound. *)

\* Twilio accepts the call: the leg exists before its sid is stored.
TwilioCreate(c) ==
    /\ calls[c].stage = "requested" /\ "twilio" \in Paths
    /\ calls' = [calls EXCEPT ![c] = [@ EXCEPT !.stage = "placed", !.leg = "live"]]
    /\ UNCHANGED <<campaign, hours, rows, tick>>

\* TelephonyError: the call row is marked failed and the request errors.
TwilioRefuse(c) ==
    /\ calls[c].stage = "requested" /\ "twilio" \in Paths
    /\ calls' = [calls EXCEPT ![c] = [@ EXCEPT !.stage = "refused", !.http = "error"]]
    /\ UNCHANGED <<campaign, hours, rows, tick>>

\* _set_sid commits; from now on a callback finds the row.
SetSid(c) ==
    /\ calls[c].stage = "placed"
    /\ calls' = [calls EXCEPT ![c] = [@ EXCEPT !.stage = "bound", !.http = "ok"]]
    /\ UNCHANGED <<campaign, hours, rows, tick>>

\* LiveKit SIP: the request returns while a background task dials.
SipStart(c) ==
    /\ calls[c].stage = "requested" /\ "livekit_sip" \in Paths
    /\ calls' = [calls EXCEPT ![c] = [@ EXCEPT !.stage = "sip", !.http = "ok"]]
    /\ UNCHANGED <<campaign, hours, rows, tick>>

\* _run_livekit_sip_call: answered, and _await_call_end waits for the hangup.
SipAnswer(c) ==
    /\ calls[c].stage = "sip"
    /\ calls' = [calls EXCEPT ![c] = [@ EXCEPT !.stage = "sip_live", !.leg = "live"]]
    /\ UNCHANGED <<campaign, hours, rows, tick>>

\* The call ended, or was never answered: the call row gets its terminal
\* status; the execution is not touched.
SipClose(c) ==
    /\ calls[c].stage \in {"sip", "sip_live"}
    /\ calls' = [calls EXCEPT ![c] =
          [@ EXCEPT !.stage = "closed",
                    !.leg = IF calls[c].leg = "live" THEN "ended" ELSE "none"]]
    /\ UNCHANGED <<campaign, hours, rows, tick>>

\* _fallback_livekit_sip_to_twilio: the trunk is down, originate over Twilio.
SipFallback(c) ==
    /\ calls[c].stage = "sip"
    /\ calls' = [calls EXCEPT ![c] = [@ EXCEPT !.stage = "placed", !.leg = "live"]]
    /\ UNCHANGED <<campaign, hours, rows, tick>>

\* delete_call on a call in flight: cancel hangs the leg up, which makes the
\* provider report it, and the row is deleted.
DeleteCall(c) ==
    /\ "delete" \in Faults
    /\ calls[c].stage = "bound"
    /\ calls' = [calls EXCEPT ![c] =
          IF @.leg = "live"
          THEN [@ EXCEPT !.stage = "deleted", !.leg = "ended", !.hook = "sent",
                         !.outcome = "completed"]
          ELSE [@ EXCEPT !.stage = "deleted"]]
    /\ UNCHANGED <<campaign, hours, rows, tick>>

-----------------------------------------------------------------------------
(* The provider and its status callback. *)

\* A leg placed by Twilio ends and its terminal callback is sent.
ProviderEnd(c) ==
    /\ calls[c].stage \in {"placed", "bound"} /\ calls[c].leg = "live"
    /\ \E o \in Outcomes :
          calls' = [calls EXCEPT ![c] =
                      [@ EXCEPT !.leg = "ended", !.hook = "sent", !.outcome = o]]
    /\ UNCHANGED <<campaign, hours, rows, tick>>

\* handle_status_webhook: no row with this sid, so the callback is dropped.
WebhookUnknown(c) ==
    /\ calls[c].hook = "sent"
    /\ \/ "early" \in Faults /\ calls[c].stage = "placed"
       \/ calls[c].stage = "deleted"
    /\ calls' = [calls EXCEPT ![c].hook = "done"]
    /\ UNCHANGED <<campaign, hours, rows, tick>>

\* handle_status_webhook and _run_execution_outcome for a known sid.  Nothing
\* compares the call with what the row is doing now; a callback delivered again
\* is processed again.
Webhook(c) ==
    /\ calls[c].hook = "sent"
    /\ calls[c].stage = "bound"
    /\ rows' = [rows EXCEPT ![calls[c].exec] = ProcessOutcome(@, calls[c].outcome)]
    /\ \/ calls' = [calls EXCEPT ![c].hook = "done"]
       \/ "duplicate" \in Faults /\ UNCHANGED calls
    /\ UNCHANGED <<campaign, hours, tick>>

-----------------------------------------------------------------------------
(* Time. *)

\* The backoff of a scheduled retry runs out.
Elapse(e) ==
    /\ rows[e].next_retry_at = "later"
    /\ rows' = [rows EXCEPT ![e].next_retry_at = "due"]
    /\ UNCHANGED <<campaign, hours, calls, tick>>

Hours ==
    /\ BusinessHours
    /\ hours' = ~hours
    /\ UNCHANGED <<campaign, rows, calls, tick>>

-----------------------------------------------------------------------------

TickStep(t) ==
    \/ TickCount(t) \/ TickComplete(t) \/ TickSelect(t) \/ TickEnd(t)
    \/ TickDispatch(t) \/ TickPost(t) \/ TickResponse(t) \/ TickFailDial(t)

HandlerStep(c) ==
    \/ TwilioCreate(c) \/ TwilioRefuse(c) \/ SetSid(c)
    \/ SipStart(c) \/ SipAnswer(c) \/ SipClose(c) \/ SipFallback(c)

Next ==
    \/ \E t \in Ticks : TickStart(t) \/ TickStep(t) \/ TickCrash(t)
    \/ \E c \in Calls : HandlerStep(c) \/ DeleteCall(c) \/ ProviderEnd(c)
                        \/ WebhookUnknown(c) \/ Webhook(c)
    \/ \E e \in Executions : Elapse(e)
    \/ Hours

Spec == Init /\ [][Next]_vars

TickedInHours == \E t \in Ticks : tick[t].pc = "count" /\ tick[t].hours

\* A tick runs to its end; the API process is up; a provider call has a maximum
\* duration and its terminal callback is delivered; clocks advance.  Beat's
\* period is a minute and a calling window lasts longer, so as long as the
\* campaign is not completed some tick starts inside the window, again and again.
\* Faults and a user's deletion are never fair.
Fairness ==
    /\ \A t \in Ticks : WF_vars(TickStep(t))
    /\ []<>(campaign = "completed" \/ TickedInHours)
    /\ \A c \in Calls : /\ WF_vars(HandlerStep(c))
                        /\ WF_vars(ProviderEnd(c))
                        /\ WF_vars(WebhookUnknown(c) \/ Webhook(c))
    /\ \A e \in Executions : WF_vars(Elapse(e))

FairSpec == Spec /\ Fairness

-----------------------------------------------------------------------------
(* Properties.  The first group needs one tick at a time and no fault. *)

\* A lead never has two calls up at once: of two live legs of one execution,
\* both are the same call (dispatch marks the row before it posts, and nothing
\* requeues a row whose call is up).
OneLiveCall ==
    \A c, d \in Calls :
        /\ calls[c].leg = "live" /\ calls[d].leg = "live"
        /\ calls[c].exec = calls[d].exec
        => c = d

\* A live leg belongs to a row the scheduler counts as running: the concurrency
\* budget and the completion test of _advance_active see every call that is up.
LiveLegCounted ==
    \A c \in Calls : calls[c].leg = "live" => rows[calls[c].exec].status = "running"

\* max_concurrent_calls is respected although the running rows are counted in
\* one transaction and the batch is dispatched in later ones.
ConcurrencyCap ==
    MaxConcurrent > 0 => Cardinality(WithStatus("running")) <= MaxConcurrent

\* A campaign is completed only when no lead is waiting, being called or parked
\* for a retry, although the test is made of two separate queries.
CompletedMeansSettled ==
    campaign = "completed" =>
        /\ \A e \in Executions : Settled(rows[e])
        /\ \A c \in Calls : calls[c].leg # "live"

\* A lead is dialled at most max_attempts times.
DialsWithinBudget ==
    \A e \in Executions :
        Cardinality({c \in Calls : calls[c].exec = e}) <= MaxAttempts

\* A call that still owes its execution an outcome.
Owing(c) ==
    \/ calls[c].stage \in {"requested", "sip", "sip_live", "closed"}
    \/ calls[c].stage \in {"placed", "bound"} /\ calls[c].hook # "done"
    \/ calls[c].stage = "refused" /\ \E t \in Ticks : tick[t].pc = "wait" /\ tick[t].call = c

\* How the fields of a call go together.
CallShape(c) ==
    /\ calls[c].stage # "deleted"
    /\ calls[c].http = "error" <=> calls[c].stage = "refused"
    /\ calls[c].stage \in {"free", "requested"} => calls[c].http = "pending"
    /\ calls[c].stage = "requested" =>
          \E t \in Ticks : tick[t].pc = "wait" /\ tick[t].call = c
    /\ calls[c].stage \in {"free", "requested", "refused", "sip", "sip_live", "closed"} =>
          calls[c].hook = "none"
    /\ calls[c].leg = "live" =>
          calls[c].stage \in {"placed", "bound", "sip_live"} /\ calls[c].hook = "none"

\* What a tick in the middle of a dispatch may rely on.
TickShape(t) ==
    /\ \A e \in tick[t].batch : rows[e].status = "queued"
    /\ tick[t].pc = "post" =>
          /\ tick[t].exec \in Executions
          /\ rows[tick[t].exec].status = "running"
          /\ \A c \in Calls : Owing(c) => calls[c].exec # tick[t].exec
    /\ tick[t].pc = "wait" =>
          /\ tick[t].call \in Calls
          /\ tick[t].exec = calls[tick[t].call].exec
          /\ calls[tick[t].call].stage # "free"
    /\ tick[t].pc \in {"post", "wait"} => tick[t].loaded.status = "running"

\* Every running row that a call answers for, and no other call does: the
\* inductive form of OneLiveCall and LiveLegCounted.
OneOwner ==
    /\ \A c \in Calls : CallShape(c)
    /\ \A c \in Calls : Owing(c) => /\ calls[c].exec \in Executions
                                   /\ rows[calls[c].exec].status = "running"
    /\ \A c, d \in Calls : Owing(c) /\ Owing(d) /\ calls[c].exec = calls[d].exec => c = d
    /\ \A t \in Ticks : TickShape(t)
    /\ \A e \in Executions :
          rows[e].status \in {"queued", "running"} => rows[e].retry_status # "scheduled"

\* What is settled stays settled: no late write by the worker, callback or bulk
\* requeue brings a finished lead back.
SettledIsFinal ==
    [][\A e \in Executions : Settled(rows[e]) => Settled(rows'[e])]_rows

\* Whatever goes wrong with one tick at a time, the writes of ticks and callbacks,
\* stale ones among them, are merged column by column into a row that never ends
\* up parked without the wake-up time by which requeue_due_retries finds it.
RetryWakeable ==
    \A e \in Executions :
        rows[e].retry_status = "scheduled" => rows[e].next_retry_at # "none"

\* Nothing writes to a row behind the back of the tick that is dialling it.
NoStaleWrite == Faults \cap {"timeout", "duplicate"} = {}

\* A lead given up on has used up its attempts.  Not so with a callback that comes
\* twice, from five attempts on, or with requests that time out, from eight attempts
\* on: callbacks of earlier calls then use up the attempts while a tick dials, and
\* its _fail_dial moves attempt_number back under a retry_status it leaves alone.
ExhaustedMeansSpent ==
    \A e \in Executions :
        rows[e].retry_status = "exhausted" => rows[e].attempt_number = MaxAttempts

\* The campaign finishes for good, every lead having been settled.
CampaignCompletes == <>[](campaign = "completed")

\* A row marked running is eventually reconciled.
RunningIsReconciled ==
    \A e \in Executions : rows[e].status = "running" ~> rows[e].status # "running"
=============================================================================
