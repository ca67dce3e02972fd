--------------------------- MODULE Dialing_proofs ---------------------------
(***************************************************************************)
(* Theorems about Dialing, for every value of its constants.               *)
(***************************************************************************)
EXTENDS Dialing, FiniteSetTheorems, TLAPS

-----------------------------------------------------------------------------
(* The operators keep rows well formed. *)

\* Rows are well formed to start with.
LEMMA NewRowType == NewRow \in Row
BY RetryAssumption DEF NewRow, Row, ExecStatus, RetryStatus, NextRetryAt, Context

\* process_outcome keeps attempt_number within max_attempts.
LEMMA ProcessOutcomeType ==
    ASSUME NEW row \in Row, NEW outcome \in Outcome
    PROVE  ProcessOutcome(row, outcome) \in Row
<1>1. /\ row.status \in ExecStatus /\ row.retry_status \in RetryStatus
      /\ row.attempt_number \in 1..MaxAttempts /\ row.next_retry_at \in NextRetryAt
      /\ row.context \in Context
  BY DEF Row
<1>2. [row.context EXCEPT !.retry_history = @ \cup {AttemptThatRan(row)}] \in Context
  BY <1>1 DEF Context, AttemptThatRan
<1>3. Again(row, outcome) => row.attempt_number + 1 \in 1..MaxAttempts
  BY <1>1, RetryAssumption DEF Again, AttemptsLeft
<1>4. RetryStatusAfter(row, outcome) \in RetryStatus
  BY DEF RetryStatusAfter, RetryStatus
<1> QED
  BY <1>1, <1>2, <1>3, <1>4 DEF ProcessOutcome, Row, ExecStatus, NextRetryAt

\* requeue_due_retries keeps a row well formed.
LEMMA RequeuedType == ASSUME NEW row \in Row PROVE Requeued(row) \in Row
BY DEF Requeued, Row, ExecStatus, RetryStatus, NextRetryAt

\* A column-wise merge of two well-formed rows is well formed.
LEMMA FlushType ==
    ASSUME NEW db \in Row, NEW loaded \in Row, NEW new \in Row
    PROVE  Flush(db, loaded, new) \in Row
BY DEF Flush, Dirty, Row, NextRetryAt

\* So is a row with the call noted down.
LEMMA WithCallType ==
    ASSUME NEW row \in Row, NEW loaded \in Row, NEW c \in Calls \cup {NoCall}
    PROVE  WithCall(row, loaded, c) \in Row
BY DEF WithCall, Row, Context

\* Noting the call leaves every other column of the row alone.
LEMMA WithCallColumns ==
    ASSUME NEW row \in Row, NEW loaded, NEW c
    PROVE  LET new == WithCall(row, loaded, c)
           IN  /\ new.status = row.status /\ new.retry_status = row.retry_status
               /\ new.attempt_number = row.attempt_number
               /\ new.next_retry_at = row.next_retry_at
BY DEF WithCall, Row

\* Sets of executions are finite, so what the scheduler counts are numbers.
LEMMA CountType == ASSUME NEW s PROVE Cardinality(WithStatus(s)) \in Nat
<1>1. IsFiniteSet(Executions)
  BY FS_Interval, DialingAssumption DEF Executions
<1>2. WithStatus(s) \subseteq Executions
  BY DEF WithStatus
<1> QED
  BY <1>1, <1>2, FS_Subset, FS_CardinalityType

-----------------------------------------------------------------------------
(* Type correctness. *)

\* A task between two ticks is well formed.
LEMMA IdleTickType == IdleTick \in TickState
BY NewRowType DEF IdleTick, TickState

\* The state after _enqueue_leads has committed is well typed.
LEMMA TypeInit == Init => TypeOK
<1>1. FreeCall \in Call
  BY DEF FreeCall, Call, Stage, Outcome, RETRYABLE_OUTCOMES
<1> QED
  BY <1>1, NewRowType, IdleTickType DEF Init, TypeOK

\* Every step of a tick, its death included, keeps the types.
LEMMA TypeTick ==
    ASSUME TypeOK, NEW t \in Ticks, TickStart(t) \/ TickStep(t) \/ TickCrash(t)
    PROVE  TypeOK'
<1> USE DEF TypeOK
<1>0. tick[t] \in TickState
  OBVIOUS
<1>1. CASE TickStart(t)
  <2>1. [IdleTick EXCEPT !.pc = "count", !.hours = hours] \in TickState
    BY IdleTickType DEF TickState
  <2> QED
    BY <1>1, <2>1, RequeuedType DEF TickStart
<1>2. CASE TickCount(t)
  <2>1. [tick[t] EXCEPT !.pc = "decide", !.queued = Cardinality(WithStatus("queued")),
                        !.running = Cardinality(WithStatus("running"))] \in TickState
    BY <1>0, CountType DEF TickState
  <2> QED
    BY <1>2, <2>1 DEF TickCount
<1>3. CASE TickComplete(t)
  BY <1>3, IdleTickType DEF TickComplete
<1>4. CASE TickSelect(t)
  <2>1. ASSUME NEW b \in SUBSET Dispatchable
        PROVE  [IdleTick EXCEPT !.pc = "dispatch", !.batch = b] \in TickState
    BY IdleTickType DEF TickState, Dispatchable
  <2> QED
    BY <1>4, <2>1 DEF TickSelect
<1>5. CASE TickEnd(t)
  BY <1>5, IdleTickType DEF TickEnd
<1>6. CASE TickDispatch(t)
  <2>1. PICK e \in tick[t].batch :
           IF e \in Undialable
           THEN /\ rows' = [rows EXCEPT ![e] = ProcessOutcome(@, "failed")]
                /\ tick' = [tick EXCEPT ![t].batch = @ \ {e}]
           ELSE /\ rows' = [rows EXCEPT ![e] = MarkedRunning(@)]
                /\ tick' = [tick EXCEPT ![t] =
                      [@ EXCEPT !.pc = "post", !.batch = tick[t].batch \ {e},
                                !.exec = e, !.loaded = MarkedRunning(rows[e])]]
    BY <1>6 DEF TickDispatch
  <2>2. /\ e \in Executions
        /\ MarkedRunning(rows[e]) \in Row
        /\ ProcessOutcome(rows[e], "failed") \in Row
    <3>1. e \in Executions
      BY <1>0 DEF TickState
    <3>2. rows[e] \in Row /\ "failed" \in Outcome
      BY <3>1 DEF Outcome, RETRYABLE_OUTCOMES
    <3>3. MarkedRunning(rows[e]) \in Row
      BY <3>2 DEF MarkedRunning, Row, ExecStatus
    <3> QED
      BY <3>1, <3>2, <3>3, ProcessOutcomeType
  <2>3. CASE e \in Undialable
    <3>1. [tick[t] EXCEPT !.batch = @ \ {e}] \in TickState
      BY <1>0 DEF TickState
    <3> QED
      BY <1>6, <2>1, <2>2, <2>3, <3>1 DEF TickDispatch
  <2>4. CASE e \notin Undialable
    <3>1. [tick[t] EXCEPT !.pc = "post", !.batch = tick[t].batch \ {e}, !.exec = e,
                          !.loaded = MarkedRunning(rows[e])] \in TickState
      BY <1>0, <2>2 DEF TickState
    <3> QED
      BY <1>6, <2>1, <2>2, <2>4, <3>1 DEF TickDispatch
  <2> QED
    BY <2>3, <2>4
<1>7. CASE TickPost(t)
  <2> DEFINE c == CHOOSE d \in Calls : calls[d].stage = "free"
  <2>1. c \in Calls
    BY <1>7 DEF TickPost
  <2> HIDE DEF c
  <2>2. [calls[c] EXCEPT !.stage = "requested", !.exec = tick[t].exec] \in Call
    <3>1. calls[c] \in Call
      BY <2>1
    <3>2. tick[t].exec \in Executions \cup {NoExec}
      BY <1>0 DEF TickState
    <3> QED
      BY <3>1, <3>2 DEF Call, Stage
  <2>3. [tick[t] EXCEPT !.pc = "wait", !.call = c] \in TickState
    BY <1>0, <2>1 DEF TickState
  <2> QED
    BY <1>7, <2>1, <2>2, <2>3 DEF TickPost, c
<1>8. CASE TickResponse(t)
  <2>1. tick[t].loaded \in Row /\ tick[t].call \in Calls \cup {NoCall}
    BY <1>0 DEF TickState
  <2>2. rows' \in [Executions -> Row]
    BY <1>8, <2>1, WithCallType DEF TickResponse
  <2>3. Resumed(t) \in TickState
    BY <1>0, NewRowType DEF Resumed, TickState
  <2> QED
    BY <1>8, <2>2, <2>3 DEF TickResponse
<1>9. CASE TickFailDial(t)
  <2> DEFINE old == tick[t].loaded
             new == ProcessOutcome(old, "failed")
  <2>1. old \in Row /\ "failed" \in Outcome
    BY <1>0 DEF TickState, Outcome, RETRYABLE_OUTCOMES
  <2>2. rows' \in [Executions -> Row]
    BY <1>9, <2>1, FlushType, ProcessOutcomeType DEF TickFailDial
  <2>3. Resumed(t) \in TickState
    BY <1>0, NewRowType DEF Resumed, TickState
  <2> QED
    BY <1>9, <2>2, <2>3 DEF TickFailDial
<1>10. CASE TickCrash(t)
  BY <1>10, IdleTickType DEF TickCrash
<1> QED
  BY <1>1, <1>2, <1>3, <1>4, <1>5, <1>6, <1>7, <1>8, <1>9, <1>10 DEF TickStep

\* The API handler writes its call's row only.
LEMMA TypeHandler ==
    ASSUME TypeOK, NEW c \in Calls, HandlerStep(c) \/ DeleteCall(c)
    PROVE  TypeOK'
<1>1. calls[c] \in Call
  BY DEF TypeOK
<1>2. calls' \in [Calls -> Call]
  <2>1. "completed" \in Outcome
    BY DEF Outcome, NON_RETRYABLE_OUTCOMES
  <2>2. /\ [calls[c] EXCEPT !.stage = "placed", !.leg = "live"] \in Call
        /\ [calls[c] EXCEPT !.stage = "refused", !.http = "error"] \in Call
        /\ [calls[c] EXCEPT !.stage = "bound", !.http = "ok"] \in Call
        /\ [calls[c] EXCEPT !.stage = "sip", !.http = "ok"] \in Call
        /\ [calls[c] EXCEPT !.stage = "sip_live", !.leg = "live"] \in Call
    BY <1>1 DEF Call, Stage
  <2>3. CASE \/ TwilioCreate(c) \/ TwilioRefuse(c) \/ SetSid(c) \/ SipStart(c)
             \/ SipAnswer(c) \/ SipFallback(c)
    BY <2>2, <2>3 DEF TypeOK, TwilioCreate, TwilioRefuse, SetSid, SipStart, SipAnswer,
                      SipFallback
  <2>4. CASE SipClose(c)
    <3>1. [calls[c] EXCEPT !.stage = "closed",
                           !.leg = IF calls[c].leg = "live" THEN "ended" ELSE "none"] \in Call
      BY <1>1 DEF Call, Stage
    <3> QED
      BY <2>4, <3>1 DEF TypeOK, SipClose
  <2>5. CASE DeleteCall(c)
    <3>1. /\ [calls[c] EXCEPT !.stage = "deleted", !.leg = "ended", !.hook = "sent",
                              !.outcome = "completed"] \in Call
          /\ [calls[c] EXCEPT !.stage = "deleted"] \in Call
      BY <2>1, <1>1 DEF Call, Stage
    <3> QED
      BY <2>5, <3>1 DEF TypeOK, DeleteCall
  <2> QED
    BY <2>3, <2>4, <2>5 DEF HandlerStep
<1>3. UNCHANGED <<campaign, hours, rows, tick>>
  BY DEF HandlerStep, TwilioCreate, TwilioRefuse, SetSid, SipStart, SipAnswer,
         SipClose, SipFallback, DeleteCall
<1> QED
  BY <1>2, <1>3 DEF TypeOK

\* A callback runs process_outcome on the row as it is.
LEMMA TypeProvider ==
    ASSUME TypeOK, NEW c \in Calls, ProviderEnd(c) \/ WebhookUnknown(c) \/ Webhook(c)
    PROVE  TypeOK'
<1>1. calls[c] \in Call
  BY DEF TypeOK
<1>2. CASE ProviderEnd(c)
  <2>1. PICK o \in Outcomes :
            calls' = [calls EXCEPT ![c] =
                        [@ EXCEPT !.leg = "ended", !.hook = "sent", !.outcome = o]]
    BY <1>2 DEF ProviderEnd
  <2>2. o \in Outcome
    BY DialingAssumption
  <2> QED
    BY <1>2, <1>1, <2>1, <2>2 DEF TypeOK, ProviderEnd, Call
<1>3. CASE WebhookUnknown(c)
  BY <1>3, <1>1 DEF TypeOK, WebhookUnknown, Call
<1>4. CASE Webhook(c)
  <2>1. calls' \in [Calls -> Call]
    BY <1>4, <1>1 DEF TypeOK, Webhook, Call
  <2>2. rows' \in [Executions -> Row]
    BY <1>4, <1>1, ProcessOutcomeType DEF TypeOK, Webhook, Call
  <2> QED
    BY <1>4, <2>1, <2>2 DEF TypeOK, Webhook
<1> QED
  BY <1>2, <1>3, <1>4

\* So do the passing of time and stuttering.
LEMMA TypeTime ==
    ASSUME TypeOK, (\E e \in Executions : Elapse(e)) \/ Hours \/ UNCHANGED vars
    PROVE  TypeOK'
<1>1. ASSUME NEW e \in Executions, Elapse(e) PROVE TypeOK'
  BY <1>1 DEF TypeOK, Elapse, Row, NextRetryAt
<1>2. CASE Hours
  BY <1>2 DEF TypeOK, Hours
<1>3. CASE UNCHANGED vars
  BY <1>3 DEF TypeOK, vars
<1> QED
  BY <1>1, <1>2, <1>3

\* Whatever the faults and however many ticks overlap, every row, call and task
\* keeps a value of its type: in particular no attempt number ever exceeds
\* max_attempts, whatever stale writes process_outcome is applied to.
THEOREM TypeCorrect == Spec => []TypeOK
<1>1. TypeOK /\ [Next]_vars => TypeOK'
  BY TypeTick, TypeHandler, TypeProvider, TypeTime DEF Next
<1> QED
  BY <1>1, TypeInit, PTL DEF Spec

-----------------------------------------------------------------------------
(***************************************************************************)
(* max_concurrent_calls.  The running rows are counted in one transaction  *)
(* and the batch is dispatched in later ones, so the cap is safe only      *)
(* because nothing else makes a row running.  One tick at a time is all    *)
(* that the argument needs: every fault of the model is allowed.           *)
(***************************************************************************)

OneTick == \A s, t \in Ticks : s = t

NumRunning == Cardinality(WithStatus("running"))

\* What a tick has counted, or has yet to dispatch, still fits under the cap.
Fits(t) ==
    /\ tick[t].pc = "decide" => NumRunning <= tick[t].running
    /\ tick[t].pc \in {"dispatch", "post", "wait"} =>
          NumRunning + Cardinality(tick[t].batch) <= MaxConcurrent

CapInv == MaxConcurrent > 0 => NumRunning <= MaxConcurrent /\ \A t \in Ticks : Fits(t)

-----------------------------------------------------------------------------
(* Counting. *)

\* The executions of a campaign are finitely many.
LEMMA FiniteExecutions == IsFiniteSet(Executions)
BY FS_Interval, DialingAssumption DEF Executions

\* So is the batch of a tick.
LEMMA BatchFinite ==
    ASSUME TypeOK, NEW t \in Ticks
    PROVE  /\ IsFiniteSet(tick[t].batch)
           /\ Cardinality(tick[t].batch) \in Nat
<1>1. tick[t].batch \subseteq Executions
  BY DEF TypeOK, TickState
<1> QED
  BY <1>1, FiniteExecutions, FS_Subset, FS_CardinalityType

\* So are the running rows.
LEMMA RunningFinite ==
    /\ IsFiniteSet(WithStatus("running"))
    /\ NumRunning \in Nat
<1>1. WithStatus("running") \subseteq Executions
  BY DEF WithStatus
<1> QED
  BY <1>1, FiniteExecutions, FS_Subset, FS_CardinalityType DEF NumRunning

\* What the pacing engine grants fits beside what it was told is running.
LEMMA AllowanceFits ==
    ASSUME NEW r \in Nat, MaxConcurrent > 0, Allowance(r) > 0
    PROVE  r + Allowance(r) <= MaxConcurrent
BY DialingAssumption DEF Allowance, PacingAllowance, Least, Greatest, Unlimited

\* The pacing engine grants a number of calls, never a negative one.
LEMMA AllowanceNat ==
    ASSUME NEW r \in Nat
    PROVE  Allowance(r) \in Nat
BY DialingAssumption DEF Allowance, PacingAllowance, Least, Greatest, Unlimited

-----------------------------------------------------------------------------
(* Only a dispatch makes a row running. *)

\* A column-wise write makes a row running only if it says so itself.
LEMMA FlushStatus ==
    ASSUME NEW db, NEW loaded, NEW new, new.status # "running" \/ new.status = loaded.status,
           Flush(db, loaded, new).status = "running"
    PROVE  db.status = "running"
BY DEF Flush, Dirty

\* The retry engine never leaves a row running.
LEMMA ProcessOutcomeStatus ==
    ASSUME NEW row \in Row, NEW outcome
    PROVE  ProcessOutcome(row, outcome).status # "running"
BY DEF ProcessOutcome, Row

\* Of all the steps only a dispatch makes a row running.
LEMMA NoNewRunning ==
    ASSUME TypeOK, [Next]_vars, \A t \in Ticks : ~TickDispatch(t)
    PROVE  \A e \in Executions : rows'[e].status = "running" => rows[e].status = "running"
<1> SUFFICES ASSUME NEW e \in Executions, rows'[e].status = "running"
             PROVE  rows[e].status = "running"
  OBVIOUS
<1>1. rows[e] \in Row /\ rows \in [Executions -> Row]
  BY DEF TypeOK
<1>2. ASSUME NEW t \in Ticks, TickStart(t) PROVE rows[e].status = "running"
  BY <1>1, <1>2 DEF TickStart, Requeued, Row
<1>3. ASSUME NEW t \in Ticks, TickResponse(t) PROVE rows[e].status = "running"
  BY <1>1, <1>3, WithCallColumns DEF TickResponse
<1>4. ASSUME NEW t \in Ticks, TickFailDial(t) PROVE rows[e].status = "running"
  <2> DEFINE old == tick[t].loaded
             new == ProcessOutcome(old, "failed")
             r   == Flush(rows[tick[t].exec], old, new)
  <2>1. rows' = [rows EXCEPT ![tick[t].exec] = r]
    BY <1>4 DEF TickFailDial
  <2>2. new.status # "running"
    BY ProcessOutcomeStatus DEF TypeOK, TickState
  <2>3. r.status = "running" => rows[tick[t].exec].status = "running"
    <3> HIDE DEF new, old
    <3> QED
      BY <2>2, FlushStatus
  <2> HIDE DEF r
  <2> QED
    BY <1>1, <2>1, <2>3
<1>5. ASSUME NEW c \in Calls, Webhook(c) PROVE rows[e].status = "running"
  <2>1. rows' = [rows EXCEPT ![calls[c].exec] =
                    ProcessOutcome(rows[calls[c].exec], calls[c].outcome)]
    BY <1>5 DEF Webhook
  <2>2. CASE e = calls[c].exec
    BY <1>1, <2>1, <2>2, ProcessOutcomeStatus
  <2>3. CASE e # calls[c].exec
    BY <1>1, <2>1, <2>3
  <2> QED
    BY <2>2, <2>3
<1>6. ASSUME NEW d \in Executions, Elapse(d) PROVE rows[e].status = "running"
  BY <1>1, <1>6 DEF Elapse, Row
<1>7. CASE UNCHANGED rows
  BY <1>7
<1> QED
  BY <1>2, <1>3, <1>4, <1>5, <1>6, <1>7
     DEF Next, vars, TickStep, TickCrash, TickCount, TickComplete, TickSelect, TickEnd,
         TickPost, HandlerStep, TwilioCreate, TwilioRefuse, SetSid, SipStart, SipAnswer,
         SipClose, SipFallback, DeleteCall, ProviderEnd, WebhookUnknown, Hours

\* So no other step raises the number of running rows.
LEMMA RunningShrinks ==
    ASSUME TypeOK, [Next]_vars, \A t \in Ticks : ~TickDispatch(t)
    PROVE  NumRunning' <= NumRunning /\ NumRunning' \in Nat
<1>1. WithStatus("running")' \subseteq WithStatus("running")
  BY NoNewRunning DEF WithStatus
<1> QED
  BY <1>1, RunningFinite, FS_Subset, FS_CardinalityType DEF NumRunning

-----------------------------------------------------------------------------
(* The cap. *)

\* Nothing runs before the first tick.
LEMMA CapInit == Init => CapInv
<1> SUFFICES ASSUME Init PROVE CapInv
  OBVIOUS
<1>1. WithStatus("running") = {}
  BY DEF Init, NewRow, WithStatus
<1>2. NumRunning = 0
  BY <1>1, FS_EmptySet DEF NumRunning
<1> QED
  BY <1>2, DialingAssumption DEF CapInv, Fits, Init, IdleTick

\* The batch a tick selects fits beside the rows that run.
LEMMA CapSelect ==
    ASSUME OneTick, TypeOK, CapInv, NEW t \in Ticks, TickSelect(t)
    PROVE  CapInv'
<1> SUFFICES ASSUME MaxConcurrent > 0
             PROVE  NumRunning' <= MaxConcurrent /\ \A s \in Ticks : Fits(s)'
  BY DEF CapInv
<1>1. PICK b \in SUBSET Dispatchable :
          /\ IsBatch(t, b)
          /\ tick' = [tick EXCEPT ![t] = [IdleTick EXCEPT !.pc = "dispatch", !.batch = b]]
  BY DEF TickSelect
<1>2. /\ tick'[t].pc = "dispatch" /\ tick'[t].batch = b
      /\ \A s \in Ticks : s = t
  BY <1>1 DEF TypeOK, IdleTick, OneTick
<1>3. NumRunning' = NumRunning
  BY DEF TickSelect, NumRunning, WithStatus
<1>4. /\ NumRunning \in Nat /\ NumRunning <= MaxConcurrent
      /\ tick[t].running \in Nat /\ NumRunning <= tick[t].running
  BY RunningFinite DEF CapInv, Fits, TickSelect, TypeOK, TickState
<1>5. NumRunning + Cardinality(b) <= MaxConcurrent
  <2>1. CASE b = {}
    BY <1>4, <2>1, FS_EmptySet
  <2>2. CASE b # {}
    <3>1. FirstOf(Dispatchable, Allowance(tick[t].running), b)
      BY <1>1, <2>2 DEF IsBatch
    <3>2. IsFiniteSet(Dispatchable) /\ IsFiniteSet(b)
      BY FiniteExecutions, FS_Subset DEF Dispatchable
    <3>3. /\ Cardinality(b) \in Nat /\ Cardinality(b) # 0
          /\ Cardinality(Dispatchable) \in Nat
      BY <2>2, <3>2, FS_EmptySet, FS_CardinalityType
    <3>4. Cardinality(b) <= Allowance(tick[t].running)
      BY <1>4, <3>1, <3>3, AllowanceNat DEF FirstOf, Least
    <3>5. Allowance(tick[t].running) > 0 /\ Allowance(tick[t].running) \in Nat
      BY <1>4, <3>3, <3>4, AllowanceNat
    <3>6. tick[t].running + Allowance(tick[t].running) <= MaxConcurrent
      BY <1>4, <3>5, AllowanceFits
    <3> QED
      BY <1>4, <3>3, <3>4, <3>5, <3>6, DialingAssumption
  <2> QED
    BY <2>1, <2>2
<1> QED
  BY <1>2, <1>3, <1>4, <1>5 DEF Fits

\* A dispatched row leaves the batch and joins the running rows.
LEMMA CapDispatch ==
    ASSUME OneTick, TypeOK, CapInv, NEW t \in Ticks, TickDispatch(t)
    PROVE  CapInv'
<1> SUFFICES ASSUME MaxConcurrent > 0
             PROVE  NumRunning' <= MaxConcurrent /\ \A s \in Ticks : Fits(s)'
  BY DEF CapInv
<1>1. PICK e \in tick[t].batch :
          IF e \in Undialable
          THEN /\ rows' = [rows EXCEPT ![e] = ProcessOutcome(@, "failed")]
               /\ tick' = [tick EXCEPT ![t].batch = @ \ {e}]
          ELSE /\ rows' = [rows EXCEPT ![e] = MarkedRunning(@)]
               /\ tick' = [tick EXCEPT ![t] =
                     [@ EXCEPT !.pc = "post", !.batch = tick[t].batch \ {e},
                               !.exec = e, !.loaded = MarkedRunning(rows[e])]]
  BY DEF TickDispatch
<1>2. /\ rows \in [Executions -> Row] /\ tick \in [Ticks -> TickState]
      /\ tick[t] \in TickState /\ tick[t].pc = "dispatch"
      /\ \A s \in Ticks : s = t
  BY DEF TypeOK, TickDispatch, OneTick
<1>3. tick'[t].pc \in {"dispatch", "post"} /\ tick'[t].batch = tick[t].batch \ {e}
  <2>1. CASE e \in Undialable
    BY <1>1, <1>2, <2>1 DEF TickState
  <2>2. CASE e \notin Undialable
    <3>1. tick'[t] = [tick[t] EXCEPT !.pc = "post", !.batch = tick[t].batch \ {e},
                                     !.exec = e, !.loaded = MarkedRunning(rows[e])]
      BY <1>1, <1>2, <2>2
    <3> HIDE DEF MarkedRunning
    <3> QED
      BY <1>2, <3>1 DEF TickState
  <2> QED
    BY <2>1, <2>2
<1>4. \A d \in Executions : d # e => rows'[d] = rows[d]
  BY <1>1, <1>2
<1>5. WithStatus("running")' \subseteq WithStatus("running") \cup {e}
  BY <1>4 DEF WithStatus
<1>6. NumRunning' <= NumRunning + 1 /\ NumRunning' \in Nat
  <2>1. /\ IsFiniteSet(WithStatus("running") \cup {e})
        /\ Cardinality(WithStatus("running") \cup {e}) <= NumRunning + 1
    BY RunningFinite, FS_AddElement DEF NumRunning
  <2>2. /\ Cardinality(WithStatus("running")')
              <= Cardinality(WithStatus("running") \cup {e})
        /\ IsFiniteSet(WithStatus("running")')
    BY <1>5, <2>1, FS_Subset
  <2>3. /\ Cardinality(WithStatus("running")') \in Nat
        /\ Cardinality(WithStatus("running") \cup {e}) \in Nat
    BY <2>1, <2>2, FS_CardinalityType
  <2> QED
    BY <2>1, <2>2, <2>3, RunningFinite DEF NumRunning
<1>7. Cardinality(tick'[t].batch) = Cardinality(tick[t].batch) - 1
  <2>1. IsFiniteSet(tick[t].batch)
    BY BatchFinite
  <2>2. Cardinality(tick[t].batch \ {e}) = Cardinality(tick[t].batch) - 1
    BY <2>1, FS_RemoveElement
  <2> QED
    BY <1>3, <2>2
<1>8. NumRunning + Cardinality(tick[t].batch) <= MaxConcurrent
  BY <1>2 DEF CapInv, Fits
<1>9. NumRunning' + Cardinality(tick'[t].batch) <= MaxConcurrent
  BY <1>6, <1>7, <1>8, RunningFinite, BatchFinite, DialingAssumption
<1>10. Cardinality(tick'[t].batch) \in Nat
  BY <1>3, BatchFinite, FS_RemoveElement, FS_CardinalityType
<1>11. NumRunning' <= MaxConcurrent
  BY <1>6, <1>9, <1>10, DialingAssumption
<1> QED
  BY <1>2, <1>3, <1>9, <1>11 DEF Fits

\* The other steps of a tick leave the batch alone or drop it.
LEMMA TickElsewhere ==
    ASSUME TypeOK, NEW t \in Ticks,
           \/ TickStart(t) \/ TickCount(t) \/ TickComplete(t) \/ TickEnd(t)
           \/ TickPost(t) \/ TickResponse(t) \/ TickFailDial(t) \/ TickCrash(t)
    PROVE  \/ tick'[t].pc \in {"idle", "count"}
           \/ /\ tick'[t].pc = "decide" /\ tick'[t].running = NumRunning
              /\ UNCHANGED rows
           \/ /\ tick[t].pc \in {"post", "wait"} /\ tick'[t].pc \in {"dispatch", "wait"}
              /\ tick'[t].batch = tick[t].batch
<1>1. tick \in [Ticks -> TickState] /\ tick[t] \in TickState
  BY DEF TypeOK
<1>2. CASE TickStart(t) \/ TickComplete(t) \/ TickEnd(t) \/ TickCrash(t)
  <2>1. PICK r \in {IdleTick, [IdleTick EXCEPT !.pc = "count", !.hours = hours]} :
            tick' = [tick EXCEPT ![t] = r]
    BY <1>2 DEF TickStart, TickComplete, TickEnd, TickCrash
  <2>2. IdleTick.pc = "idle" /\ [IdleTick EXCEPT !.pc = "count", !.hours = hours].pc = "count"
    BY DEF IdleTick
  <2>3. tick'[t] = r
    BY <1>1, <2>1
  <2> HIDE DEF IdleTick
  <2> QED
    BY <2>1, <2>2, <2>3
<1>3. CASE TickCount(t)
  <2>1. tick'[t] = [tick[t] EXCEPT !.pc = "decide",
                                   !.queued = Cardinality(WithStatus("queued")),
                                   !.running = NumRunning]
    BY <1>1, <1>3 DEF TickCount, NumRunning
  <2> HIDE DEF NumRunning
  <2>2. tick'[t].pc = "decide" /\ tick'[t].running = NumRunning
    BY <1>1, <2>1 DEF TickState
  <2> QED
    BY <1>3, <2>2 DEF TickCount
<1>4. CASE TickPost(t)
  <2>1. PICK c : tick' = [tick EXCEPT ![t] = [tick[t] EXCEPT !.pc = "wait", !.call = c]]
    BY <1>4 DEF TickPost
  <2> QED
    BY <1>1, <1>4, <2>1 DEF TickPost, TickState
<1>5. CASE TickResponse(t) \/ TickFailDial(t)
  <2>1. /\ tick[t].pc = "wait" /\ tick' = [tick EXCEPT ![t] = Resumed(t)]
    BY <1>5 DEF TickResponse, TickFailDial
  <2> QED
    BY <1>1, <2>1 DEF Resumed, TickState
<1> QED
  BY <1>2, <1>3, <1>4, <1>5

\* Every step keeps the cap and what the tick relies on.
LEMMA CapStep ==
    ASSUME OneTick, TypeOK, CapInv, [Next]_vars
    PROVE  CapInv'
<1>1. CASE \E t \in Ticks : TickSelect(t)
  BY <1>1, CapSelect
<1>2. CASE \E t \in Ticks : TickDispatch(t)
  BY <1>2, CapDispatch
<1>3. CASE \A t \in Ticks : ~TickDispatch(t) /\ ~TickSelect(t)
  <2> SUFFICES ASSUME MaxConcurrent > 0
               PROVE  NumRunning' <= MaxConcurrent /\ \A s \in Ticks : Fits(s)'
    BY DEF CapInv
  <2>1. /\ NumRunning \in Nat /\ NumRunning' \in Nat /\ NumRunning' <= NumRunning
        /\ NumRunning <= MaxConcurrent
    BY <1>3, RunningShrinks, RunningFinite DEF CapInv
  <2>2. ASSUME NEW s \in Ticks PROVE Fits(s)'
    <3>1. Fits(s) /\ tick[s].running \in Nat /\ Cardinality(tick[s].batch) \in Nat
      BY BatchFinite DEF CapInv, TypeOK, TickState
    <3>2. CASE tick' = tick
      BY <2>1, <3>1, <3>2, DialingAssumption DEF Fits
    <3>3. CASE \E t \in Ticks :
                  \/ TickStart(t) \/ TickCount(t) \/ TickComplete(t) \/ TickEnd(t)
                  \/ TickPost(t) \/ TickResponse(t) \/ TickFailDial(t) \/ TickCrash(t)
      <4>1. \/ TickStart(s) \/ TickCount(s) \/ TickComplete(s) \/ TickEnd(s)
            \/ TickPost(s) \/ TickResponse(s) \/ TickFailDial(s) \/ TickCrash(s)
        BY <3>3 DEF OneTick
      <4>2. \/ tick'[s].pc \in {"idle", "count"}
            \/ /\ tick'[s].pc = "decide" /\ tick'[s].running = NumRunning
               /\ UNCHANGED rows
            \/ /\ tick[s].pc \in {"post", "wait"} /\ tick'[s].pc \in {"dispatch", "wait"}
               /\ tick'[s].batch = tick[s].batch
        BY <4>1, TickElsewhere
      <4>3. rows' = rows => NumRunning' = NumRunning
        BY DEF NumRunning, WithStatus
      <4> QED
        BY <2>1, <3>1, <4>2, <4>3, DialingAssumption DEF Fits
    <3> QED
      BY <1>3, <3>2, <3>3
         DEF Next, vars, TickStep, HandlerStep, TwilioCreate, TwilioRefuse, SetSid,
             SipStart, SipAnswer, SipClose, SipFallback, DeleteCall, ProviderEnd,
             WebhookUnknown, Webhook, Elapse, Hours
  <2> QED
    BY <2>1, <2>2, DialingAssumption
<1> QED
  BY <1>1, <1>2, <1>3

\* max_concurrent_calls is never exceeded by the rows marked running, with any
\* of the faults: a crash, a timed-out request, a lost, late or repeated
\* callback or a deleted call never makes a second row running.
THEOREM ConcurrencyCapCorrect ==
    ASSUME OneTick
    PROVE  Spec => []ConcurrencyCap
<1>1. TypeOK /\ CapInv /\ [Next]_vars => CapInv'
  BY CapStep
<1>2. CapInv => ConcurrencyCap
  BY DEF CapInv, ConcurrencyCap, NumRunning
<1> QED
  BY <1>1, <1>2, CapInit, TypeCorrect, PTL DEF Spec

-----------------------------------------------------------------------------
(***************************************************************************)
(* The retry columns under every fault.  Between dispatch and response the *)
(* tick holds a copy of the row, which callbacks of earlier calls overtake *)
(* when a request timed out or a callback comes twice.                     *)
(***************************************************************************)

\* A parked row has a wake-up time.
Wakeable(row) == row.retry_status = "scheduled" => row.next_retry_at # "none"

\* No other row has one.  A late _fail_dial may leave a failed row that breaks this:
\* what it wrote as "later" stays under a retry_status it found unchanged.
Coherent(row) == row.retry_status # "scheduled" => row.next_retry_at = "none"

\* The rows a tick may still load, and the copy it holds, are coherent.
WakeInv ==
    /\ \A e \in Executions : Wakeable(rows[e])
    /\ \A e \in Executions : rows[e].status = "queued" => Coherent(rows[e])
    /\ \A t \in Ticks : \A e \in tick[t].batch : Coherent(rows[e])
    /\ \A t \in Ticks : tick[t].pc \in {"post", "wait"} =>
          /\ Coherent(tick[t].loaded) /\ tick[t].loaded.status = "running"
          /\ tick[t].exec \notin tick[t].batch

\* What the retry engine makes of a row is parked with a wake-up time, or neither.
LEMMA OutcomeCoherent ==
    ASSUME NEW row \in Row, NEW outcome
    PROVE  LET new == ProcessOutcome(row, outcome)
           IN  Wakeable(new) /\ Coherent(new) /\ new.status \in {"completed", "failed"}
BY DEF ProcessOutcome, Wakeable, Coherent, RetryStatusAfter, Again, Row

\* requeue_due_retries parks nothing, and what it requeues is coherent.
LEMMA RequeuedCoherent ==
    ASSUME NEW row \in Row, Wakeable(row), row.status = "queued" => Coherent(row)
    PROVE  /\ Wakeable(Requeued(row))
           /\ Requeued(row).status = "queued" => Coherent(Requeued(row))
BY DEF Requeued, Wakeable, Coherent, Row

\* The columns a late _fail_dial finds unchanged keep the row wakeable.
LEMMA FailDialWakeable ==
    ASSUME NEW db \in Row, NEW loaded \in Row, Wakeable(db), Coherent(loaded),
           loaded.status = "running"
    PROVE  LET new == Flush(db, loaded, ProcessOutcome(loaded, "failed"))
           IN  Wakeable(new) /\ new.status # "queued"
BY DEF Flush, Dirty, ProcessOutcome, Wakeable, Coherent, RetryStatusAfter, Again, Row

\* What a dispatch does to the row and the tick that takes it in hand.
LEMMA DispatchStep ==
    ASSUME TypeOK, NEW t \in Ticks, TickDispatch(t)
    PROVE  \E e \in tick[t].batch : \E r :
             /\ e \in Executions /\ tick[t].pc = "dispatch" /\ UNCHANGED calls
             /\ rows' = [rows EXCEPT ![e] = r]
             /\ tick'[t].batch = tick[t].batch \ {e}
             /\ \/ r = ProcessOutcome(rows[e], "failed") /\ tick'[t].pc = "dispatch"
                \/ /\ r = MarkedRunning(rows[e])
                   /\ tick'[t].pc = "post" /\ tick'[t].exec = e /\ tick'[t].loaded = r
<1>1. /\ tick[t] \in TickState /\ tick \in [Ticks -> TickState]
      /\ tick[t].pc = "dispatch" /\ UNCHANGED calls
  BY DEF TypeOK, TickDispatch
<1>2. PICK e \in tick[t].batch :
         IF e \in Undialable
         THEN /\ rows' = [rows EXCEPT ![e] = ProcessOutcome(@, "failed")]
              /\ tick' = [tick EXCEPT ![t].batch = @ \ {e}]
         ELSE /\ rows' = [rows EXCEPT ![e] = MarkedRunning(@)]
              /\ tick' = [tick EXCEPT ![t] =
                    [@ EXCEPT !.pc = "post", !.batch = tick[t].batch \ {e},
                              !.exec = e, !.loaded = MarkedRunning(rows[e])]]
  BY DEF TickDispatch
<1>3. e \in Executions
  BY <1>1 DEF TickState
<1>4. PICK b, m, p : /\ b = tick[t].batch \ {e} /\ m = MarkedRunning(rows[e])
                     /\ p = ProcessOutcome(rows[e], "failed")
  OBVIOUS
<1>5. \/ /\ rows' = [rows EXCEPT ![e] = p]
         /\ tick' = [tick EXCEPT ![t] = [tick[t] EXCEPT !.batch = b]]
      \/ /\ rows' = [rows EXCEPT ![e] = m]
         /\ tick' = [tick EXCEPT ![t] = [tick[t] EXCEPT !.pc = "post", !.batch = b,
                                             !.exec = e, !.loaded = m]]
  BY <1>2, <1>4
<1>6. \/ /\ rows' = [rows EXCEPT ![e] = p]
         /\ tick'[t] = [tick[t] EXCEPT !.batch = b]
      \/ /\ rows' = [rows EXCEPT ![e] = m]
         /\ tick'[t] = [tick[t] EXCEPT !.pc = "post", !.batch = b, !.exec = e, !.loaded = m]
  BY <1>1, <1>5
<1>7. /\ tick'[t].batch = b
      /\ \/ rows' = [rows EXCEPT ![e] = p] /\ tick'[t].pc = "dispatch"
         \/ /\ rows' = [rows EXCEPT ![e] = m]
            /\ tick'[t].pc = "post" /\ tick'[t].exec = e /\ tick'[t].loaded = m
  BY <1>1, <1>6 DEF TickState
<1> QED
  BY <1>1, <1>3, <1>4, <1>7

\* A tick that takes nothing in hand keeps WakeInv.
LEMMA WakeQuiet ==
    ASSUME TypeOK, WakeInv, NEW t \in Ticks, NEW r,
           tick' = [tick EXCEPT ![t] = r], UNCHANGED rows, r.pc \notin {"post", "wait"},
           \A e \in r.batch : e \in tick[t].batch \/ (e \in Executions /\ rows[e].status = "queued")
    PROVE  WakeInv'
BY DEF WakeInv, TypeOK

\* Every step of a tick keeps WakeInv.
LEMMA WakeTick ==
    ASSUME OneTick, TypeOK, WakeInv, NEW t \in Ticks,
           TickStart(t) \/ TickStep(t) \/ TickCrash(t)
    PROVE  WakeInv'
<1> USE DEF TypeOK
<1>0. /\ tick[t] \in TickState /\ \A s \in Ticks : s = t
      /\ IdleTick.pc = "idle" /\ IdleTick.batch = {}
  BY DEF OneTick, IdleTick
<1>1. CASE TickStart(t)
  <2>1. \A e \in Executions : rows'[e] = Requeued(rows[e]) \/ rows'[e] = rows[e]
    BY <1>1 DEF TickStart
  <2>2. \A e \in Executions : /\ Wakeable(rows'[e])
                              /\ rows'[e].status = "queued" => Coherent(rows'[e])
    BY <2>1, RequeuedCoherent DEF WakeInv
  <2>3. tick'[t].pc = "count" /\ tick'[t].batch = {}
    BY <1>1 DEF TickStart, IdleTick
  <2> QED
    BY <1>0, <2>2, <2>3 DEF WakeInv
<1>2. CASE TickCount(t)
  <2>1. PICK r : /\ tick' = [tick EXCEPT ![t] = r]
                 /\ r = [tick[t] EXCEPT !.pc = "decide",
                            !.queued = Cardinality(WithStatus("queued")),
                            !.running = Cardinality(WithStatus("running"))]
    BY <1>2 DEF TickCount
  <2>2. r.pc = "decide" /\ r.batch = tick[t].batch
    BY <1>0, <2>1 DEF TickState
  <2> QED
    BY <1>2, <2>1, <2>2, WakeQuiet DEF TickCount
<1>3. CASE TickComplete(t) \/ TickEnd(t) \/ TickCrash(t)
  BY <1>0, <1>3, WakeQuiet DEF TickComplete, TickEnd, TickCrash
<1>4. CASE TickSelect(t)
  <2>1. PICK b \in SUBSET Dispatchable :
            tick' = [tick EXCEPT ![t] = [IdleTick EXCEPT !.pc = "dispatch", !.batch = b]]
    BY <1>4 DEF TickSelect
  <2>2. PICK r : r = [IdleTick EXCEPT !.pc = "dispatch", !.batch = b]
    OBVIOUS
  <2>3. r.pc = "dispatch" /\ r.batch = b
    BY <2>2 DEF IdleTick
  <2>4. \A e \in b : e \in Executions /\ rows[e].status = "queued"
    BY DEF Dispatchable
  <2> QED
    BY <1>4, <2>1, <2>2, <2>3, <2>4, WakeQuiet DEF TickSelect
<1>5. CASE TickDispatch(t)
  <2>1. PICK e \in tick[t].batch : \E r :
           /\ e \in Executions /\ tick[t].pc = "dispatch" /\ UNCHANGED calls
           /\ rows' = [rows EXCEPT ![e] = r]
           /\ tick'[t].batch = tick[t].batch \ {e}
           /\ \/ r = ProcessOutcome(rows[e], "failed") /\ tick'[t].pc = "dispatch"
              \/ /\ r = MarkedRunning(rows[e])
                 /\ tick'[t].pc = "post" /\ tick'[t].exec = e /\ tick'[t].loaded = r
    BY <1>5, DispatchStep
  <2>2. PICK r :
           /\ rows' = [rows EXCEPT ![e] = r]
           /\ \/ r = ProcessOutcome(rows[e], "failed") /\ tick'[t].pc = "dispatch"
              \/ /\ r = MarkedRunning(rows[e])
                 /\ tick'[t].pc = "post" /\ tick'[t].exec = e /\ tick'[t].loaded = r
    BY <2>1
  <2>3. /\ rows[e] \in Row /\ tick[t].batch \subseteq Executions
        /\ Wakeable(rows[e]) /\ Coherent(rows[e])
    BY <1>0, <2>1 DEF TickState, WakeInv
  <2>4. Wakeable(r) /\ Coherent(r) /\ r.status # "queued"
        /\ (tick'[t].pc = "post" => r.status = "running")
    <3>1. /\ Wakeable(MarkedRunning(rows[e])) /\ Coherent(MarkedRunning(rows[e]))
          /\ MarkedRunning(rows[e]).status = "running"
      BY <2>3 DEF MarkedRunning, Wakeable, Coherent, Row
    <3> QED
      BY <2>2, <2>3, <3>1, OutcomeCoherent
  <2>5. /\ rows'[e] = r /\ \A d \in Executions : d # e => rows'[d] = rows[d]
        /\ tick'[t].pc \in {"dispatch", "post"}
    BY <2>1, <2>2
  <2> QED
    BY <1>0, <2>1, <2>2, <2>3, <2>4, <2>5 DEF WakeInv
<1>6. CASE TickPost(t)
  <2>1. /\ tick[t].pc = "post" /\ UNCHANGED rows
        /\ tick'[t].batch = tick[t].batch /\ tick'[t].exec = tick[t].exec
        /\ tick'[t].loaded = tick[t].loaded
    BY <1>0, <1>6 DEF TickPost, TickState
  <2> QED
    BY <1>0, <2>1 DEF WakeInv
<1>7. CASE TickResponse(t)
  <2>1. PICK old, c : old = tick[t].loaded /\ c = tick[t].call
    OBVIOUS
  <2>2. \A e \in Executions : rows'[e] = rows[e] \/ rows'[e] = WithCall(rows[e], old, c)
    BY <1>7, <2>1 DEF TickResponse
  <2>3. \A e \in Executions : /\ rows'[e].status = rows[e].status
                              /\ rows'[e].retry_status = rows[e].retry_status
                              /\ rows'[e].next_retry_at = rows[e].next_retry_at
    BY <2>2, WithCallColumns
  <2>4. tick'[t].pc = "dispatch" /\ tick'[t].batch = tick[t].batch
    BY <1>0, <1>7 DEF TickResponse, Resumed, TickState
  <2> QED
    BY <1>0, <2>3, <2>4 DEF WakeInv, Wakeable, Coherent, TickState
<1>8. CASE TickFailDial(t)
  <2>1. PICK x, old, r : /\ x = tick[t].exec /\ old = tick[t].loaded
                         /\ r = Flush(rows[x], old, ProcessOutcome(old, "failed"))
    OBVIOUS
  <2>2. /\ rows' = [rows EXCEPT ![x] = r] /\ tick[t].pc = "wait"
        /\ tick'[t].pc = "dispatch" /\ tick'[t].batch = tick[t].batch
    BY <1>0, <1>8, <2>1 DEF TickFailDial, Resumed, TickState
  <2>3. old \in Row /\ Coherent(old) /\ old.status = "running" /\ x \notin tick[t].batch
    BY <1>0, <2>1, <2>2 DEF WakeInv, TickState
  <2>4. x \in Executions => Wakeable(r) /\ r.status # "queued"
    BY <2>1, <2>3, FailDialWakeable DEF WakeInv
  <2>5. tick[t].batch \subseteq Executions
    BY <1>0 DEF TickState
  <2> QED
    BY <1>0, <2>2, <2>3, <2>4, <2>5 DEF WakeInv
<1> QED
  BY <1>1, <1>2, <1>3, <1>4, <1>5, <1>6, <1>7, <1>8 DEF TickStep

\* So does every other step: a callback writes all the columns at once.
LEMMA WakeOthers ==
    ASSUME TypeOK, WakeInv,
           \/ \E c \in Calls : HandlerStep(c) \/ DeleteCall(c) \/ ProviderEnd(c)
                               \/ WebhookUnknown(c) \/ Webhook(c)
           \/ \E e \in Executions : Elapse(e)
           \/ Hours \/ UNCHANGED vars
    PROVE  WakeInv'
<1>0. /\ rows \in [Executions -> Row]
      /\ \A t \in Ticks : tick[t].batch \subseteq Executions
  BY DEF TypeOK, TickState
<1>1. ASSUME NEW c \in Calls, Webhook(c) PROVE WakeInv'
  <2>1. PICK x, r : /\ x = calls[c].exec
                    /\ r = ProcessOutcome(rows[x], calls[c].outcome)
    OBVIOUS
  <2>2. rows' = [rows EXCEPT ![x] = r] /\ UNCHANGED tick
    BY <1>1, <2>1 DEF Webhook
  <2>3. x \in Executions => Wakeable(r) /\ Coherent(r)
    BY <1>0, <2>1, OutcomeCoherent
  <2> QED
    BY <1>0, <2>2, <2>3 DEF WakeInv
<1>2. ASSUME NEW e \in Executions, Elapse(e) PROVE WakeInv'
  <2>1. /\ rows[e].next_retry_at = "later" /\ UNCHANGED tick
        /\ rows' = [rows EXCEPT ![e] = [rows[e] EXCEPT !.next_retry_at = "due"]]
    BY <1>2 DEF Elapse
  <2>2. PICK r : r = [rows[e] EXCEPT !.next_retry_at = "due"]
    OBVIOUS
  <2>3. /\ rows[e] \in Row
        /\ r.status = rows[e].status /\ r.retry_status = rows[e].retry_status
        /\ r.next_retry_at = "due"
    BY <1>0, <2>2 DEF Row
  <2>4. Wakeable(r) /\ (Coherent(rows[e]) => Coherent(r))
    BY <2>1, <2>3 DEF Wakeable, Coherent
  <2>5. rows' = [rows EXCEPT ![e] = r]
    BY <2>1, <2>2
  <2> QED
    BY <1>0, <2>1, <2>3, <2>4, <2>5 DEF WakeInv
<1>3. ASSUME UNCHANGED <<rows, tick>> PROVE WakeInv'
  BY <1>3 DEF WakeInv
<1> QED
  BY <1>1, <1>2, <1>3
     DEF HandlerStep, TwilioCreate, TwilioRefuse, SetSid, SipStart, SipAnswer, SipClose,
         SipFallback, DeleteCall, ProviderEnd, WebhookUnknown, Hours, vars

\* With one tick at a time, requeue_due_retries finds every parked row again,
\* whatever requests time out, workers die and callbacks come late, twice or not
\* at all: no merge of a stale copy into a row loses its wake-up time.
THEOREM RetryWakeableCorrect ==
    ASSUME OneTick
    PROVE  Spec => []RetryWakeable
<1>1. Init => WakeInv
  BY DEF Init, WakeInv, Wakeable, Coherent, NewRow, IdleTick
<1>2. TypeOK /\ WakeInv /\ [Next]_vars => WakeInv'
  BY WakeTick, WakeOthers DEF Next
<1>3. WakeInv => RetryWakeable
  BY DEF WakeInv, Wakeable, RetryWakeable
<1> QED
  BY <1>1, <1>2, <1>3, TypeCorrect, PTL DEF Spec

-----------------------------------------------------------------------------
(***************************************************************************)
(* Without a timeout and without a callback that comes twice, the copy a   *)
(* tick would fail is the row itself, whatever crashes, callbacks that     *)
(* come too early and deletions do.                                        *)
(***************************************************************************)

\* A row given up on has no attempt left.
Spent(row) == row.retry_status = "exhausted" => row.attempt_number = MaxAttempts

\* A call whose callback may still be applied to its row.
Alive(c) ==
    \/ calls[c].stage \in {"requested", "sip", "placed"}
    \/ calls[c].stage = "bound" /\ calls[c].hook # "done"

\* The stages of a call and what has been heard of it.
Heard(c) ==
    /\ calls[c].stage \in {"free", "requested"} => calls[c].http = "pending"
    /\ calls[c].stage = "bound" => calls[c].http = "ok"
    /\ calls[c].http = "error" => calls[c].stage = "refused"
    /\ calls[c].stage \in {"free", "requested", "sip"} => calls[c].hook = "none"
    /\ calls[c].leg = "live" => calls[c].hook = "none"

\* Until it hears that its call was placed, a tick holds the row as it is, and the
\* callback of no other call can get at that row.
Holds(t) ==
    /\ \A e \in tick[t].batch : rows[e].status = "queued"
    /\ tick[t].pc = "post" =>
          /\ tick[t].exec \in Executions
          /\ rows[tick[t].exec] = tick[t].loaded /\ tick[t].loaded.status = "running"
          /\ \A c \in Calls : Alive(c) => calls[c].exec # tick[t].exec
    /\ tick[t].pc = "wait" => tick[t].call \in Calls /\ tick[t].exec \in Executions
    /\ tick[t].pc = "wait" /\ calls[tick[t].call].http # "ok" =>
          /\ rows[tick[t].exec] = tick[t].loaded /\ tick[t].loaded.status = "running"
          /\ \A c \in Calls : Alive(c) /\ calls[c].exec = tick[t].exec => c = tick[t].call

SpentInv ==
    /\ \A e \in Executions : Spent(rows[e]) /\ Coherent(rows[e])
    /\ \A e \in Executions :
          rows[e].status \in {"queued", "running"} => rows[e].retry_status # "scheduled"
    /\ \A c \in Calls : Heard(c)
    /\ \A c \in Calls : Alive(c) => /\ calls[c].exec \in Executions
                                   /\ rows[calls[c].exec].status = "running"
    /\ \A c, d \in Calls : Alive(c) /\ Alive(d) /\ calls[c].exec = calls[d].exec => c = d
    /\ \A t \in Ticks : Holds(t)

\* The retry engine gives a row up only on its last attempt, and parks no row it
\* leaves queued or running.
LEMMA OutcomeSpent ==
    ASSUME NEW row \in Row, NEW outcome
    PROVE  LET new == ProcessOutcome(row, outcome)
           IN  Spent(new) /\ new.status \notin {"queued", "running"}
<1>1. row.attempt_number \in 1..MaxAttempts
  BY DEF Row
<1>2. row.attempt_number < MaxAttempts \/ row.attempt_number = MaxAttempts
  BY <1>1, RetryAssumption
<1> QED
  BY <1>2 DEF ProcessOutcome, Spent, RetryStatusAfter, Again, AttemptsLeft, Row

\* A merge into the row the copy was taken from replaces it.
LEMMA FlushSame ==
    ASSUME NEW row \in Row, NEW outcome
    PROVE  LET new == ProcessOutcome(row, outcome)
               db  == Flush(row, row, new)
           IN  /\ db.status = new.status /\ db.retry_status = new.retry_status
               /\ db.attempt_number = new.attempt_number
               /\ db.next_retry_at = new.next_retry_at
BY DEF Flush, Dirty

\* The bulk requeue takes back no exhausted row and leaves none parked.
LEMMA RequeuedSpent ==
    ASSUME NEW row \in Row, Spent(row),
           row.status \in {"queued", "running"} => row.retry_status # "scheduled"
    PROVE  /\ Spent(Requeued(row))
           /\ Requeued(row).status \in {"queued", "running"} =>
                  Requeued(row).retry_status # "scheduled"
           /\ row.status = "running" => Requeued(row).status = "running"
BY DEF Requeued, Spent, Row

\* What the handler, the provider and a dropped callback make of a call.
Moved(old, new) ==
    \/ /\ old.stage = "requested" /\ new.stage = "placed"
       /\ new.http = old.http /\ new.hook = old.hook
    \/ /\ old.stage = "requested" /\ new.stage = "refused"
       /\ new.leg = old.leg /\ new.http = "error" /\ new.hook = old.hook
    \/ /\ old.stage = "placed" /\ new.stage = "bound"
       /\ new.leg = old.leg /\ new.http = "ok" /\ new.hook = old.hook
    \/ /\ old.stage = "requested" /\ new.stage = "sip"
       /\ new.leg = old.leg /\ new.http = "ok" /\ new.hook = old.hook
    \/ /\ old.stage = "sip" /\ new.stage \in {"sip_live", "placed"}
       /\ new.http = old.http /\ new.hook = old.hook
    \/ /\ old.stage \in {"sip", "sip_live"} /\ new.stage = "closed"
       /\ new.leg # "live" /\ new.http = old.http /\ new.hook = old.hook
    \/ /\ old.stage \in {"placed", "bound"} /\ new.stage = old.stage
       /\ old.leg = "live"
       /\ new.leg = "ended" /\ new.http = old.http /\ new.hook = "sent"
    \/ /\ old.stage = "bound" /\ new.stage = "deleted"
       /\ new.http = old.http /\ new.leg # "live"
    \/ /\ old.stage \in {"placed", "deleted"} /\ new.stage = old.stage
       /\ old.hook = "sent" /\ new.leg = old.leg
       /\ new.http = old.http /\ new.hook = "done"

\* They do nothing else.
LEMMA CallMoves ==
    ASSUME TypeOK, NEW c \in Calls,
           HandlerStep(c) \/ DeleteCall(c) \/ ProviderEnd(c) \/ WebhookUnknown(c)
    PROVE  \E r :
          /\ calls' = [calls EXCEPT ![c] = r] /\ UNCHANGED <<rows, tick>>
          /\ r.exec = calls[c].exec
          /\ Moved(calls[c], r)
<1>1. /\ calls[c] \in Call /\ calls \in [Calls -> Call] /\ UNCHANGED <<rows, tick>>
  BY DEF TypeOK, HandlerStep, ProviderEnd, TwilioCreate, TwilioRefuse, SetSid,
         SipStart, SipAnswer, SipClose, SipFallback, DeleteCall, WebhookUnknown
<1>2. CASE TwilioCreate(c) \/ SipAnswer(c) \/ SipFallback(c)
  <2>1. \E s \in {"placed", "sip_live"} :
            /\ calls' = [calls EXCEPT ![c] = [calls[c] EXCEPT !.stage = s, !.leg = "live"]]
            /\ \/ calls[c].stage = "requested" /\ s = "placed"
               \/ calls[c].stage = "sip"
    BY <1>2 DEF TwilioCreate, SipAnswer, SipFallback
  <2>4. PICK s \in {"placed", "sip_live"} :
            /\ calls' = [calls EXCEPT ![c] = [calls[c] EXCEPT !.stage = s, !.leg = "live"]]
            /\ \/ calls[c].stage = "requested" /\ s = "placed"
               \/ calls[c].stage = "sip"
    BY <2>1
  <2>2. PICK r : /\ r = [calls[c] EXCEPT !.stage = s, !.leg = "live"]
                 /\ calls' = [calls EXCEPT ![c] = r]
    BY <2>4
  <2>3. /\ r.exec = calls[c].exec /\ r.stage = s /\ r.http = calls[c].http
        /\ r.hook = calls[c].hook
    BY <1>1, <2>2 DEF Call
  <2> QED
    BY <1>1, <2>2, <2>3, <2>4 DEF Moved
<1>3. CASE TwilioRefuse(c)
  <2>1. PICK r : /\ r = [calls[c] EXCEPT !.stage = "refused", !.http = "error"]
                 /\ calls' = [calls EXCEPT ![c] = r] /\ calls[c].stage = "requested"
    BY <1>3 DEF TwilioRefuse
  <2>2. /\ r.exec = calls[c].exec /\ r.leg = calls[c].leg /\ r.hook = calls[c].hook
        /\ r.stage = "refused" /\ r.http = "error"
    BY <1>1, <2>1 DEF Call
  <2> QED
    BY <1>1, <2>1, <2>2 DEF Moved
<1>4. CASE SetSid(c)
  <2>1. PICK r : /\ r = [calls[c] EXCEPT !.stage = "bound", !.http = "ok"]
                 /\ calls' = [calls EXCEPT ![c] = r] /\ calls[c].stage = "placed"
    BY <1>4 DEF SetSid
  <2>2. /\ r.exec = calls[c].exec /\ r.leg = calls[c].leg /\ r.hook = calls[c].hook
        /\ r.stage = "bound" /\ r.http = "ok"
    BY <1>1, <2>1 DEF Call
  <2> QED
    BY <1>1, <2>1, <2>2 DEF Moved
<1>5. CASE SipStart(c)
  <2>1. PICK r : /\ r = [calls[c] EXCEPT !.stage = "sip", !.http = "ok"]
                 /\ calls' = [calls EXCEPT ![c] = r] /\ calls[c].stage = "requested"
    BY <1>5 DEF SipStart
  <2>2. /\ r.exec = calls[c].exec /\ r.leg = calls[c].leg /\ r.hook = calls[c].hook
        /\ r.stage = "sip" /\ r.http = "ok"
    BY <1>1, <2>1 DEF Call
  <2> QED
    BY <1>1, <2>1, <2>2 DEF Moved
<1>6. CASE SipClose(c)
  <2>0. PICK l \in {"ended", "none"} :
            calls' = [calls EXCEPT ![c] = [calls[c] EXCEPT !.stage = "closed", !.leg = l]]
    BY <1>6 DEF SipClose
  <2>1. PICK r :
            /\ r = [calls[c] EXCEPT !.stage = "closed", !.leg = l]
            /\ calls' = [calls EXCEPT ![c] = r]
            /\ calls[c].stage \in {"sip", "sip_live"}
    BY <1>6, <2>0 DEF SipClose
  <2>2. /\ r.exec = calls[c].exec /\ r.stage = "closed" /\ r.leg = l
        /\ r.http = calls[c].http /\ r.hook = calls[c].hook
    BY <1>1, <2>1 DEF Call
  <2> QED
    BY <1>1, <2>1, <2>2 DEF Moved
<1>7. CASE ProviderEnd(c)
  <2>0. PICK o \in Outcomes :
            calls' = [calls EXCEPT ![c] =
               [calls[c] EXCEPT !.leg = "ended", !.hook = "sent", !.outcome = o]]
    BY <1>7 DEF ProviderEnd
  <2>1. PICK r :
            /\ r = [calls[c] EXCEPT !.leg = "ended", !.hook = "sent", !.outcome = o]
            /\ calls' = [calls EXCEPT ![c] = r]
            /\ calls[c].stage \in {"placed", "bound"} /\ calls[c].leg = "live"
    BY <1>7, <2>0 DEF ProviderEnd
  <2>2. /\ r.exec = calls[c].exec /\ r.stage = calls[c].stage /\ r.leg = "ended"
        /\ r.http = calls[c].http /\ r.hook = "sent"
    BY <1>1, <2>1 DEF Call
  <2> QED
    BY <1>1, <2>1, <2>2 DEF Moved
<1>8. CASE DeleteCall(c)
  <2>1. PICK r :
            /\ \/ /\ calls[c].leg = "live"
                  /\ r = [calls[c] EXCEPT !.stage = "deleted", !.leg = "ended",
                                          !.hook = "sent", !.outcome = "completed"]
               \/ /\ calls[c].leg # "live"
                  /\ r = [calls[c] EXCEPT !.stage = "deleted"]
            /\ calls' = [calls EXCEPT ![c] = r]
            /\ calls[c].stage = "bound"
    BY <1>8 DEF DeleteCall
  <2>2. /\ r.exec = calls[c].exec /\ r.stage = "deleted" /\ r.leg # "live"
        /\ r.http = calls[c].http
    BY <1>1, <2>1 DEF Call
  <2> QED
    BY <1>1, <2>1, <2>2 DEF Moved
<1>9. CASE WebhookUnknown(c)
  <2>1. PICK r : /\ r = [calls[c] EXCEPT !.hook = "done"]
                 /\ calls' = [calls EXCEPT ![c] = r]
                 /\ calls[c].stage \in {"placed", "deleted"} /\ calls[c].hook = "sent"
    BY <1>9 DEF WebhookUnknown
  <2>2. /\ r.exec = calls[c].exec /\ r.stage = calls[c].stage /\ r.leg = calls[c].leg
        /\ r.http = calls[c].http /\ r.hook = "done"
    BY <1>1, <2>1 DEF Call
  <2> QED
    BY <1>1, <2>1, <2>2 DEF Moved
<1> QED
  BY <1>2, <1>3, <1>4, <1>5, <1>6, <1>7, <1>8, <1>9 DEF HandlerStep

\* None of these brings a callback back to life or takes an answer back.
LEMMA SpentCall ==
    ASSUME TypeOK, SpentInv, NEW c \in Calls,
           HandlerStep(c) \/ DeleteCall(c) \/ ProviderEnd(c) \/ WebhookUnknown(c)
    PROVE  SpentInv'
<1>1. Heard(c) /\ calls \in [Calls -> Call] /\ calls[c] \in Call
  BY DEF SpentInv, TypeOK
<1>2. PICK r :
          /\ calls' = [calls EXCEPT ![c] = r] /\ UNCHANGED <<rows, tick>>
          /\ r.exec = calls[c].exec
          /\ Moved(calls[c], r)
  BY CallMoves
<1>3. calls'[c] = r /\ \A d \in Calls : d # c => calls'[d] = calls[d]
  BY <1>1, <1>2
<1>4. /\ Alive(c)' => Alive(c)
      /\ r.http # "ok" => calls[c].http # "ok"
  BY <1>1, <1>2, <1>3 DEF Alive, Heard, Moved
<1>5. Heard(c)'
  BY <1>1, <1>2, <1>3 DEF Heard, Moved
<1>6. \A d \in Calls : Heard(d)'
  BY <1>3, <1>5 DEF Heard, SpentInv
<1>8. \A d \in Calls : Alive(d)' => Alive(d)
  BY <1>3, <1>4 DEF Alive
<1>9. \A d \in Calls : calls'[d].exec = calls[d].exec
  BY <1>2, <1>3
<1>10. \A d \in Calls : calls'[d].http # "ok" => calls[d].http # "ok"
  BY <1>3, <1>4
<1>7. \A t \in Ticks : Holds(t)'
  <2> SUFFICES ASSUME NEW t \in Ticks PROVE Holds(t)'
    OBVIOUS
  <2>1. Holds(t) /\ tick' = tick /\ rows' = rows
    BY <1>2 DEF SpentInv
  <2>2. tick[t].pc = "wait" => tick[t].call \in Calls
    BY <2>1 DEF Holds
  <2>3. tick[t].pc = "wait" /\ calls'[tick[t].call].http # "ok" =>
            calls[tick[t].call].http # "ok"
    BY <1>10, <2>2
  <2>4. tick[t].pc = "post" => \A d \in Calls : Alive(d)' => calls'[d].exec # tick[t].exec
    BY <1>8, <1>9, <2>1 DEF Holds
  <2>5. tick[t].pc = "wait" /\ calls'[tick[t].call].http # "ok" =>
            \A d \in Calls : Alive(d)' /\ calls'[d].exec = tick[t].exec => d = tick[t].call
    BY <1>8, <1>9, <2>1, <2>3 DEF Holds
  <2> HIDE DEF Alive
  <2> QED
    BY <2>1, <2>3, <2>4, <2>5 DEF Holds
<1>11. \A d \in Calls : Alive(d)' => /\ calls'[d].exec \in Executions
                                      /\ rows'[calls'[d].exec].status = "running"
  BY <1>2, <1>8, <1>9 DEF SpentInv
<1>12. \A d, f \in Calls : Alive(d)' /\ Alive(f)' /\ calls'[d].exec = calls'[f].exec => d = f
  BY <1>8, <1>9 DEF SpentInv
<1>13. \A e \in Executions :
           /\ Spent(rows'[e]) /\ Coherent(rows'[e])
           /\ rows'[e].status \in {"queued", "running"} => rows'[e].retry_status # "scheduled"
  BY <1>2 DEF SpentInv
<1> QED
  BY <1>6, <1>7, <1>11, <1>12, <1>13 DEF SpentInv

\* A tick that touches neither rows nor calls and takes nothing in hand.
LEMMA SpentQuiet ==
    ASSUME TypeOK, SpentInv, NEW t \in Ticks, NEW r,
           tick' = [tick EXCEPT ![t] = r], UNCHANGED <<rows, calls>>,
           r.pc \notin {"post", "wait"}, \A e \in r.batch : rows[e].status = "queued"
    PROVE  SpentInv'
<1>1. tick'[t] = r /\ \A s \in Ticks : s # t => tick'[s] = tick[s]
  BY DEF TypeOK
<1>2. \A s \in Ticks : Holds(s)'
  BY <1>1 DEF SpentInv, Holds, Alive
<1> QED
  BY <1>2 DEF SpentInv, Heard, Alive

\* A step that rewrites one row, which no callback can still reach unless it stays
\* running, and no call.
LEMMA SpentRow ==
    ASSUME TypeOK, SpentInv, NEW x \in Executions, NEW r,
           rows' = [rows EXCEPT ![x] = r], UNCHANGED calls,
           Spent(r), Coherent(r),
           r.status \in {"queued", "running"} => r.retry_status # "scheduled",
           r.status = "running" \/ \A c \in Calls : Alive(c) => calls[c].exec # x,
           \A t \in Ticks : Holds(t)'
    PROVE  SpentInv'
<1>1. rows'[x] = r /\ \A e \in Executions : e # x => rows'[e] = rows[e]
  BY DEF TypeOK
<1>2. \A c \in Calls : Alive(c)' => /\ calls'[c].exec \in Executions
                                   /\ rows'[calls'[c].exec].status = "running"
  BY <1>1 DEF SpentInv, Alive
<1>3. \A e \in Executions :
          /\ Spent(rows'[e]) /\ Coherent(rows'[e])
          /\ rows'[e].status \in {"queued", "running"} => rows'[e].retry_status # "scheduled"
  BY <1>1 DEF SpentInv
<1>4. /\ \A c \in Calls : Heard(c)'
      /\ \A c, d \in Calls : Alive(c)' /\ Alive(d)' /\ calls'[c].exec = calls'[d].exec => c = d
  BY DEF SpentInv, Heard, Alive
<1> QED
  BY <1>2, <1>3, <1>4 DEF SpentInv

\* The requeue rewrites only parked rows, and no callback reaches those.
LEMMA SpentTickStart ==
    ASSUME OneTick, TypeOK, SpentInv, NEW t \in Ticks, TickStart(t)
    PROVE  SpentInv'
<1>1. \A e \in Executions : rows'[e] = Requeued(rows[e]) \/ rows'[e] = rows[e]
  BY DEF TickStart
<1>2. \A e \in Executions : rows[e] \in Row
  BY DEF TypeOK
<1>3. \A e \in Executions :
          /\ Spent(rows'[e])
          /\ rows'[e].status \in {"queued", "running"} => rows'[e].retry_status # "scheduled"
          /\ rows[e].status = "running" => rows'[e].status = "running"
  BY <1>1, <1>2, RequeuedSpent DEF SpentInv
<1>4. \A e \in Executions : Coherent(rows'[e])
  BY <1>1, <1>2 DEF SpentInv, Coherent, Requeued, Row
<1>5. /\ tick'[t].pc = "count" /\ tick'[t].batch = {} /\ UNCHANGED calls
      /\ \A s \in Ticks : s = t
  BY DEF TickStart, TypeOK, IdleTick, OneTick
<1>6. \A s \in Ticks : Holds(s)'
  BY <1>5 DEF Holds
<1>7. \A c \in Calls : Alive(c)' => /\ calls'[c].exec \in Executions
                                   /\ rows'[calls'[c].exec].status = "running"
  BY <1>3, <1>5 DEF SpentInv, Alive
<1>8. /\ \A c \in Calls : Heard(c)'
      /\ \A c, d \in Calls : Alive(c)' /\ Alive(d)' /\ calls'[c].exec = calls'[d].exec => c = d
  BY <1>5 DEF SpentInv, Heard, Alive
<1> QED
  BY <1>3, <1>4, <1>6, <1>7, <1>8 DEF SpentInv

\* The tick takes a queued row in hand, as it is.
LEMMA SpentTickDispatch ==
    ASSUME OneTick, TypeOK, SpentInv, NEW t \in Ticks, TickDispatch(t)
    PROVE  SpentInv'
<1>1. PICK e \in tick[t].batch : \E r :
         /\ e \in Executions /\ tick[t].pc = "dispatch" /\ UNCHANGED calls
         /\ rows' = [rows EXCEPT ![e] = r]
         /\ tick'[t].batch = tick[t].batch \ {e}
         /\ \/ r = ProcessOutcome(rows[e], "failed") /\ tick'[t].pc = "dispatch"
            \/ /\ r = MarkedRunning(rows[e])
               /\ tick'[t].pc = "post" /\ tick'[t].exec = e /\ tick'[t].loaded = r
  BY DispatchStep
<1>2. PICK r :
         /\ e \in Executions /\ tick[t].pc = "dispatch" /\ UNCHANGED calls
         /\ rows' = [rows EXCEPT ![e] = r]
         /\ tick'[t].batch = tick[t].batch \ {e}
         /\ \/ r = ProcessOutcome(rows[e], "failed") /\ tick'[t].pc = "dispatch"
            \/ /\ r = MarkedRunning(rows[e])
               /\ tick'[t].pc = "post" /\ tick'[t].exec = e /\ tick'[t].loaded = r
  BY <1>1
<1>3. /\ rows[e] \in Row /\ rows[e].status = "queued" /\ tick[t].batch \subseteq Executions
      /\ \A d \in tick[t].batch : rows[d].status = "queued"
      /\ \A s \in Ticks : s = t
  BY <1>2 DEF SpentInv, Holds, TypeOK, TickState, OneTick
<1>4. rows'[e] = r /\ \A d \in Executions : d # e => rows'[d] = rows[d]
  BY <1>2 DEF TypeOK
<1>5. \A c \in Calls : Alive(c) => calls[c].exec # e
  BY <1>3 DEF SpentInv
<1>6. CASE r = ProcessOutcome(rows[e], "failed") /\ tick'[t].pc = "dispatch"
  <2>1. Spent(r) /\ Coherent(r) /\ r.status \notin {"queued", "running"}
    BY <1>3, <1>6, OutcomeSpent, OutcomeCoherent
  <2>2. \A s \in Ticks : Holds(s)'
    BY <1>2, <1>3, <1>4, <1>6 DEF Holds
  <2> QED
    BY <1>2, <1>5, <2>1, <2>2, SpentRow
<1>7. CASE /\ r = MarkedRunning(rows[e])
           /\ tick'[t].pc = "post" /\ tick'[t].exec = e /\ tick'[t].loaded = r
  <2>1. /\ r.status = "running" /\ r.retry_status = rows[e].retry_status
        /\ r.attempt_number = rows[e].attempt_number
        /\ r.next_retry_at = rows[e].next_retry_at
    BY <1>3, <1>7 DEF MarkedRunning, Row
  <2>2. Spent(r) /\ Coherent(r) /\ r.retry_status # "scheduled"
    BY <1>2, <1>3, <2>1 DEF SpentInv, Spent, Coherent
  <2>3. \A s \in Ticks : Holds(s)'
    BY <1>2, <1>3, <1>4, <1>5, <1>7, <2>1 DEF Holds, Alive
  <2> QED
    BY <1>2, <1>5, <2>1, <2>2, <2>3, SpentRow
<1> QED
  BY <1>2, <1>6, <1>7

\* The new call is the only one whose callback can reach the tick's row.
LEMMA SpentTickPost ==
    ASSUME OneTick, TypeOK, SpentInv, NEW t \in Ticks, TickPost(t)
    PROVE  SpentInv'
<1>1. PICK c \in Calls : c = CHOOSE d \in Calls : calls[d].stage = "free"
  BY DEF TickPost
<1>2. /\ calls[c].stage = "free" /\ tick[t].pc = "post" /\ UNCHANGED rows
      /\ calls' = [calls EXCEPT ![c] =
             [calls[c] EXCEPT !.stage = "requested", !.exec = tick[t].exec]]
      /\ tick' = [tick EXCEPT ![t] = [tick[t] EXCEPT !.pc = "wait", !.call = c]]
  BY <1>1 DEF TickPost
<1>3. PICK x, n : /\ x = tick[t].exec
                  /\ n = [calls[c] EXCEPT !.stage = "requested", !.exec = tick[t].exec]
  OBVIOUS
<1>4. /\ n.stage = "requested" /\ n.exec = x /\ n.http = calls[c].http
      /\ n.hook = calls[c].hook /\ n.leg = calls[c].leg
      /\ calls'[c] = n /\ \A d \in Calls : d # c => calls'[d] = calls[d]
  BY <1>2, <1>3 DEF TypeOK, Call
<1>5. /\ tick'[t].pc = "wait" /\ tick'[t].call = c /\ tick'[t].exec = x
      /\ tick'[t].batch = tick[t].batch /\ tick'[t].loaded = tick[t].loaded
      /\ \A s \in Ticks : s = t
  BY <1>2, <1>3 DEF TypeOK, TickState, OneTick
<1>6. /\ x \in Executions /\ rows[x] = tick[t].loaded /\ rows[x].status = "running"
      /\ \A d \in Calls : Alive(d) => calls[d].exec # x
      /\ \A e \in tick[t].batch : rows[e].status = "queued"
  BY <1>2, <1>3 DEF SpentInv, Holds
<1>7. \A d \in Calls : d # c => /\ Alive(d)' <=> Alive(d)
                              /\ calls'[d].exec = calls[d].exec
  BY <1>4 DEF Alive
<1>8. \A d \in Calls : Heard(d)'
  BY <1>2, <1>4 DEF SpentInv, Heard
<1>9. \A d \in Calls : Alive(d)' /\ calls'[d].exec = x => d = c
  BY <1>6, <1>7
<1>10. \A s \in Ticks : Holds(s)'
  BY <1>2, <1>5, <1>6, <1>9 DEF Holds
<1>11. \A d \in Calls : Alive(d)' => /\ calls'[d].exec \in Executions
                                    /\ rows'[calls'[d].exec].status = "running"
  <2> SUFFICES ASSUME NEW d \in Calls, Alive(d)'
               PROVE  /\ calls'[d].exec \in Executions
                      /\ rows'[calls'[d].exec].status = "running"
    OBVIOUS
  <2>1. CASE d = c
    BY <1>2, <1>4, <1>6, <2>1
  <2>2. CASE d # c
    BY <1>2, <1>7, <2>2 DEF SpentInv
  <2> QED
    BY <2>1, <2>2
<1>12. \A d, f \in Calls : Alive(d)' /\ Alive(f)' /\ calls'[d].exec = calls'[f].exec => d = f
  BY <1>4, <1>7, <1>9 DEF SpentInv
<1>13. \A e \in Executions :
           /\ Spent(rows'[e]) /\ Coherent(rows'[e])
           /\ rows'[e].status \in {"queued", "running"} => rows'[e].retry_status # "scheduled"
  BY <1>2 DEF SpentInv
<1> QED
  BY <1>8, <1>10, <1>11, <1>12, <1>13 DEF SpentInv

\* A 2xx writes the context only, a refusal fails the row the tick still holds.
LEMMA SpentTickAnswer ==
    ASSUME OneTick, NoStaleWrite, TypeOK, SpentInv, NEW t \in Ticks,
           TickResponse(t) \/ TickFailDial(t)
    PROVE  SpentInv'
<1>1. PICK x, c, old : x = tick[t].exec /\ c = tick[t].call /\ old = tick[t].loaded
  OBVIOUS
<1>2. /\ tick[t].pc = "wait" /\ UNCHANGED calls
      /\ tick'[t].pc = "dispatch" /\ tick'[t].batch = tick[t].batch
      /\ \A s \in Ticks : s = t
  <2>1. tick' = [tick EXCEPT ![t] = Resumed(t)] /\ tick[t].pc = "wait" /\ UNCHANGED calls
    BY DEF TickResponse, TickFailDial
  <2>2. Resumed(t).pc = "dispatch" /\ Resumed(t).batch = tick[t].batch
    BY DEF Resumed, TypeOK, TickState
  <2> QED
    BY <2>1, <2>2 DEF TypeOK, OneTick
<1>3. /\ x \in Executions /\ c \in Calls /\ rows[x] \in Row /\ Heard(c)
      /\ tick[t].batch \subseteq Executions
      /\ \A e \in tick[t].batch : rows[e].status = "queued"
  BY <1>1, <1>2 DEF SpentInv, Holds, TypeOK, TickState
<1>4. CASE TickResponse(t)
  <2>1. PICK r : r = WithCall(rows[x], old, c) /\ rows' = [rows EXCEPT ![x] = r]
    BY <1>1, <1>4 DEF TickResponse
  <2>2. /\ r.status = rows[x].status /\ r.retry_status = rows[x].retry_status
        /\ r.attempt_number = rows[x].attempt_number
        /\ r.next_retry_at = rows[x].next_retry_at
    BY <1>3, <2>1, WithCallColumns
  <2>3. /\ Spent(r) /\ Coherent(r)
        /\ r.status \in {"queued", "running"} => r.retry_status # "scheduled"
        /\ r.status = "running" \/ \A d \in Calls : Alive(d) => calls[d].exec # x
    BY <1>3, <2>2 DEF SpentInv, Spent, Coherent
  <2>4. \A e \in Executions : rows'[e].status = rows[e].status
    BY <2>1, <2>2 DEF TypeOK
  <2>5. \A s \in Ticks : Holds(s)'
    BY <1>2, <1>3, <2>4 DEF Holds
  <2> QED
    BY <1>2, <1>3, <2>1, <2>3, <2>5, SpentRow
<1>5. CASE TickFailDial(t)
  <2>1. calls[c].http = "error" /\ calls[c].stage = "refused"
    BY <1>1, <1>3, <1>5 DEF TickFailDial, RequestFailed, NoStaleWrite, Heard
  <2>2. /\ rows[x] = old /\ rows[x].status = "running"
        /\ \A d \in Calls : Alive(d) => calls[d].exec # x
    BY <1>1, <1>2, <2>1 DEF SpentInv, Holds, Alive
  <2>3. PICK new, r : /\ new = ProcessOutcome(old, "failed") /\ r = Flush(old, old, new)
                      /\ rows' = [rows EXCEPT ![x] = r]
    BY <1>1, <1>5, <2>2 DEF TickFailDial
  <2>4. Spent(new) /\ Coherent(new) /\ new.status \notin {"queued", "running"}
    BY <1>3, <2>2, <2>3, OutcomeSpent, OutcomeCoherent
  <2>5. /\ r.status = new.status /\ r.retry_status = new.retry_status
        /\ r.attempt_number = new.attempt_number /\ r.next_retry_at = new.next_retry_at
    BY <1>3, <2>2, <2>3, FlushSame
  <2>6. Spent(r) /\ Coherent(r) /\ r.status \notin {"queued", "running"}
    BY <2>4, <2>5 DEF Spent, Coherent
  <2>7. \A e \in tick[t].batch : rows'[e].status = "queued"
    BY <1>3, <2>2, <2>3 DEF TypeOK
  <2>8. \A s \in Ticks : Holds(s)'
    BY <1>2, <2>7 DEF Holds
  <2> QED
    BY <1>2, <1>3, <2>2, <2>3, <2>6, <2>8, SpentRow
<1> QED
  BY <1>4, <1>5

\* A callback settles or parks the row of the one call that may still reach it, and
\* that is no row a tick has in hand without having heard of the call.
LEMMA SpentWebhook ==
    ASSUME NoStaleWrite, TypeOK, SpentInv, NEW c \in Calls, Webhook(c)
    PROVE  SpentInv'
<1>1. PICK x, r : /\ x = calls[c].exec /\ r = ProcessOutcome(rows[x], calls[c].outcome)
                  /\ rows' = [rows EXCEPT ![x] = r]
  BY DEF Webhook
<1>2. /\ calls[c].hook = "sent" /\ calls[c].stage = "bound" /\ UNCHANGED tick
      /\ calls' = [calls EXCEPT ![c] = [calls[c] EXCEPT !.hook = "done"]]
  BY DEF Webhook, NoStaleWrite
<1>3. PICK n : /\ n = [calls[c] EXCEPT !.hook = "done"]
               /\ calls' = [calls EXCEPT ![c] = n]
  BY <1>2
<1>4. /\ n.stage = "bound" /\ n.hook = "done" /\ n.exec = x /\ n.http = calls[c].http
      /\ n.leg = calls[c].leg
      /\ calls'[c] = n /\ \A d \in Calls : d # c => calls'[d] = calls[d]
  BY <1>1, <1>2, <1>3 DEF TypeOK, Call
<1>5. /\ Alive(c) /\ Heard(c) /\ calls[c].http = "ok" /\ calls[c].leg # "live"
      /\ x \in Executions /\ rows[x] \in Row /\ rows[x].status = "running"
  BY <1>1, <1>2 DEF SpentInv, Alive, Heard, TypeOK
<1>6. /\ rows'[x] = r /\ \A e \in Executions : e # x => rows'[e] = rows[e]
  BY <1>1, <1>5 DEF TypeOK
<1>7. Spent(r) /\ Coherent(r) /\ r.status \notin {"queued", "running"}
  BY <1>1, <1>5, OutcomeSpent, OutcomeCoherent
<1>8. \A d \in Calls : /\ Alive(d)' => Alive(d) /\ d # c
                      /\ calls'[d].exec = calls[d].exec
  BY <1>1, <1>4 DEF Alive
<1>9. \A d \in Calls : Heard(d)'
  BY <1>4, <1>5 DEF SpentInv, Heard
<1>10. \A d \in Calls : Alive(d) /\ d # c => calls[d].exec # x
  BY <1>1, <1>5 DEF SpentInv
<1>11. \A d \in Calls : Alive(d)' => /\ calls'[d].exec \in Executions
                                    /\ rows'[calls'[d].exec].status = "running"
  <2> SUFFICES ASSUME NEW d \in Calls, Alive(d)'
               PROVE  /\ calls'[d].exec \in Executions
                      /\ rows'[calls'[d].exec].status = "running"
    OBVIOUS
  <2>1. /\ Alive(d) /\ d # c /\ calls'[d].exec = calls[d].exec /\ calls[d].exec # x
    BY <1>8, <1>10
  <2>2. calls[d].exec \in Executions /\ rows[calls[d].exec].status = "running"
    BY <2>1 DEF SpentInv
  <2> QED
    BY <1>6, <2>1, <2>2
<1>12. \A d, f \in Calls : Alive(d)' /\ Alive(f)' /\ calls'[d].exec = calls'[f].exec => d = f
  BY <1>8 DEF SpentInv
<1>13. \A t \in Ticks : Holds(t)'
  <2> SUFFICES ASSUME NEW t \in Ticks PROVE Holds(t)'
    OBVIOUS
  <2>1. /\ Holds(t) /\ tick' = tick /\ tick[t].batch \subseteq Executions
    BY <1>2 DEF SpentInv, TypeOK, TickState
  <2>2. \A e \in tick[t].batch : rows'[e].status = "queued"
    BY <1>5, <1>6, <2>1 DEF Holds
  <2>3. CASE tick[t].pc = "post"
    <3>1. /\ tick[t].exec \in Executions /\ tick[t].exec # x
          /\ rows[tick[t].exec] = tick[t].loaded /\ tick[t].loaded.status = "running"
          /\ \A d \in Calls : Alive(d) => calls[d].exec # tick[t].exec
      BY <1>1, <1>5, <2>1, <2>3 DEF Holds
    <3>2. \A d \in Calls : Alive(d)' => calls'[d].exec # tick[t].exec
      BY <1>8, <3>1
    <3> QED
      BY <1>6, <2>1, <2>2, <2>3, <3>1, <3>2 DEF Holds
  <2>4. CASE tick[t].pc = "wait"
    <3>1. tick[t].call \in Calls /\ tick[t].exec \in Executions
      BY <2>1, <2>4 DEF Holds
    <3>2. calls'[tick[t].call].http = calls[tick[t].call].http
      BY <1>4, <3>1
    <3>3. ASSUME calls[tick[t].call].http # "ok"
          PROVE  /\ tick[t].exec # x
                 /\ rows[tick[t].exec] = tick[t].loaded /\ tick[t].loaded.status = "running"
                 /\ \A d \in Calls : Alive(d) /\ calls[d].exec = tick[t].exec => d = tick[t].call
      BY <1>1, <1>5, <2>1, <2>4, <3>3 DEF Holds
    <3>4. ASSUME calls[tick[t].call].http # "ok"
          PROVE  /\ rows'[tick[t].exec] = tick[t].loaded /\ tick[t].loaded.status = "running"
                 /\ \A d \in Calls : Alive(d)' /\ calls'[d].exec = tick[t].exec => d = tick[t].call
      BY <1>6, <1>8, <3>1, <3>3, <3>4
    <3> QED
      BY <2>1, <2>2, <2>4, <3>1, <3>2, <3>4 DEF Holds
  <2>5. CASE tick[t].pc \notin {"post", "wait"}
    BY <2>1, <2>2, <2>5 DEF Holds
  <2> QED
    BY <2>3, <2>4, <2>5
<1>14. \A e \in Executions :
           /\ Spent(rows'[e]) /\ Coherent(rows'[e])
           /\ rows'[e].status \in {"queued", "running"} => rows'[e].retry_status # "scheduled"
  BY <1>6, <1>7 DEF SpentInv
<1> QED
  BY <1>9, <1>11, <1>12, <1>13, <1>14 DEF SpentInv

\* A backoff runs out on parked rows only, which no tick has in hand.
LEMMA SpentElapse ==
    ASSUME TypeOK, SpentInv, NEW e \in Executions, Elapse(e)
    PROVE  SpentInv'
<1>1. PICK r : /\ r = [rows[e] EXCEPT !.next_retry_at = "due"]
               /\ rows' = [rows EXCEPT ![e] = r]
  BY DEF Elapse
<1>2. /\ rows[e].next_retry_at = "later" /\ rows[e] \in Row /\ UNCHANGED <<calls, tick>>
      /\ rows'[e] = r /\ \A d \in Executions : d # e => rows'[d] = rows[d]
  BY <1>1 DEF Elapse, TypeOK
<1>3. /\ r.status = rows[e].status /\ r.retry_status = rows[e].retry_status
      /\ r.attempt_number = rows[e].attempt_number
  BY <1>1, <1>2 DEF Row
<1>4. rows[e].retry_status = "scheduled" /\ rows[e].status \notin {"queued", "running"}
  BY <1>2 DEF SpentInv, Coherent
<1>5. Spent(r) /\ Coherent(r)
  BY <1>3, <1>4 DEF Spent, Coherent
<1>6. \A c \in Calls : Alive(c) => calls[c].exec # e
  BY <1>4 DEF SpentInv
<1>7. \A t \in Ticks : Holds(t)'
  <2> SUFFICES ASSUME NEW t \in Ticks PROVE Holds(t)'
    OBVIOUS
  <2>1. /\ Holds(t) /\ tick' = tick /\ calls' = calls /\ tick[t].batch \subseteq Executions
    BY <1>2 DEF SpentInv, TypeOK, TickState
  <2>2. \A c \in Calls : Alive(c)' <=> Alive(c)
    BY <2>1 DEF Alive
  <2>3. \A d \in tick[t].batch : rows'[d].status = "queued"
    BY <1>2, <1>3, <2>1 DEF Holds
  <2>4. \A d \in Executions : rows[d].status = "running" => rows'[d] = rows[d]
    BY <1>2, <1>4
  <2> QED
    BY <2>1, <2>2, <2>3, <2>4 DEF Holds
<1> QED
  BY <1>1, <1>2, <1>3, <1>4, <1>5, <1>6, <1>7, SpentRow

\* The invariant survives every step.
LEMMA SpentStep ==
    ASSUME OneTick, NoStaleWrite, TypeOK, SpentInv, [Next]_vars
    PROVE  SpentInv'
<1>1. ASSUME NEW t \in Ticks, TickCount(t) PROVE SpentInv'
  <2>1. PICK r : /\ tick' = [tick EXCEPT ![t] = r]
                 /\ r = [tick[t] EXCEPT !.pc = "decide",
                            !.queued = Cardinality(WithStatus("queued")),
                            !.running = Cardinality(WithStatus("running"))]
    BY <1>1 DEF TickCount
  <2>2. r.pc = "decide" /\ r.batch = tick[t].batch
    BY <2>1 DEF TypeOK, TickState
  <2>3. \A e \in r.batch : rows[e].status = "queued"
    BY <2>2 DEF SpentInv, Holds
  <2> QED
    BY <1>1, <2>1, <2>2, <2>3, SpentQuiet DEF TickCount
<1>2. ASSUME NEW t \in Ticks, TickComplete(t) \/ TickEnd(t) \/ TickCrash(t) PROVE SpentInv'
  <2>1. IdleTick.pc = "idle" /\ IdleTick.batch = {}
    BY DEF IdleTick
  <2> QED
    BY <1>2, <2>1, SpentQuiet DEF TickComplete, TickEnd, TickCrash
<1>3. ASSUME NEW t \in Ticks, TickSelect(t) PROVE SpentInv'
  <2>1. PICK b \in SUBSET Dispatchable :
            tick' = [tick EXCEPT ![t] = [IdleTick EXCEPT !.pc = "dispatch", !.batch = b]]
    BY <1>3 DEF TickSelect
  <2>2. PICK r : /\ r = [IdleTick EXCEPT !.pc = "dispatch", !.batch = b]
                 /\ tick' = [tick EXCEPT ![t] = r]
    BY <2>1
  <2>3. r.pc = "dispatch" /\ r.batch = b
    BY <2>2 DEF IdleTick
  <2>4. \A e \in b : rows[e].status = "queued"
    BY DEF Dispatchable
  <2> QED
    BY <1>3, <2>2, <2>3, <2>4, SpentQuiet DEF TickSelect
<1>4. CASE Hours \/ UNCHANGED vars
  <2>1. UNCHANGED <<rows, calls, tick>>
    BY <1>4 DEF Hours, vars
  <2> QED
    BY <2>1 DEF SpentInv, Holds, Heard, Alive
<1>5. ASSUME NEW c \in Calls,
             HandlerStep(c) \/ DeleteCall(c) \/ ProviderEnd(c) \/ WebhookUnknown(c) \/ Webhook(c)
      PROVE  SpentInv'
  BY <1>5, SpentCall, SpentWebhook
<1>6. ASSUME NEW t \in Ticks, TickStart(t) \/ TickStep(t) \/ TickCrash(t) PROVE SpentInv'
  BY <1>1, <1>2, <1>3, <1>6, SpentTickStart, SpentTickDispatch, SpentTickPost,
     SpentTickAnswer DEF TickStep
<1>7. ASSUME NEW e \in Executions, Elapse(e) PROVE SpentInv'
  BY <1>7, SpentElapse
<1> QED
  BY <1>4, <1>5, <1>6, <1>7 DEF Next

\* With one tick at a time, and as long as no request times out and no callback
\* comes twice, a lead is given up on only after its last attempt: crashes of the
\* worker, callbacks that precede their call's sid and deleted calls leave rows
\* unfinished but never short-changed.
THEOREM ExhaustedMeansSpentCorrect ==
    ASSUME OneTick, NoStaleWrite
    PROVE  Spec => []ExhaustedMeansSpent
<1>1. Init => SpentInv
  BY DEF Init, SpentInv, Spent, Coherent, Heard, Alive, Holds, NewRow, FreeCall, IdleTick
<1>2. TypeOK /\ SpentInv /\ [Next]_vars => SpentInv'
  BY SpentStep
<1>3. SpentInv => ExhaustedMeansSpent
  BY DEF SpentInv, Spent, ExhaustedMeansSpent
<1> QED
  BY <1>1, <1>2, <1>3, TypeCorrect, PTL DEF Spec

=============================================================================
