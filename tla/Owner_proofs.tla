---------------------------- MODULE Owner_proofs ----------------------------
(***************************************************************************)
(* One tick at a time and no fault: every call under way has a running row *)
(* of its own, and the dialing pipeline implements LeadLifecycle, for any  *)
(* number of leads, calls and attempts, any pacing, any retry policy and   *)
(* both ways of originating a call.                                        *)
(***************************************************************************)
EXTENDS DialingLifecycle, Dialing_proofs

Calm == Faults = {} /\ \A s, t \in Ticks : s = t

-----------------------------------------------------------------------------
(* What single steps keep. *)

\* Nothing is owed before the first tick.
LEMMA OwnerInit == Init => OneOwner
BY DEF Init, OneOwner, CallShape, TickShape, Owing, FreeCall, IdleTick, NewRow

\* A step of one call's handler that takes on no new debt.
LEMMA CallStep ==
    ASSUME TypeOK, OneOwner, NEW c \in Calls, NEW r,
           calls' = [calls EXCEPT ![c] = r], UNCHANGED <<rows, tick>>,
           r.exec = calls[c].exec, r.stage # "free",
           Owing(c)' => Owing(c), CallShape(c)'
    PROVE  OneOwner'
<1>1. \A d \in Calls : d # c => calls'[d] = calls[d]
  BY DEF TypeOK
<1>2. calls'[c] = r
  BY DEF TypeOK
<1>3. \A d \in Calls : calls'[d].exec = calls[d].exec
  BY <1>1, <1>2
<1>4. \A d \in Calls : Owing(d)' => Owing(d)
  BY <1>1 DEF Owing
<1>5. \A d \in Calls : CallShape(d)'
  BY <1>1 DEF OneOwner, CallShape
<1>6. \A t \in Ticks : TickShape(t)'
  <2> SUFFICES ASSUME NEW t \in Ticks PROVE TickShape(t)'
    OBVIOUS
  <2>1. TickShape(t)
    BY DEF OneOwner
  <2> QED
    BY <2>1, <1>1, <1>2, <1>3, <1>4 DEF TickShape
<1> QED
  BY <1>3, <1>4, <1>5, <1>6 DEF OneOwner

\* A step of a tick that is not in the middle of a dispatch.
LEMMA QuietTick ==
    ASSUME TypeOK, OneOwner, NEW t \in Ticks, NEW r,
           tick' = [tick EXCEPT ![t] = r], UNCHANGED <<rows, calls>>,
           tick[t].pc \notin {"post", "wait"}, r.pc \notin {"post", "wait"},
           \A e \in r.batch : rows[e].status = "queued"
    PROVE  OneOwner'
<1>1. \A s \in Ticks : s # t => tick'[s] = tick[s]
  BY DEF TypeOK
<1>2. tick'[t] = r
  BY DEF TypeOK
<1>3. \A c \in Calls : Owing(c)' <=> Owing(c)
  BY <1>1, <1>2 DEF Owing
<1>4. \A c \in Calls : CallShape(c)'
  BY <1>1, <1>2 DEF OneOwner, CallShape
<1>5. \A s \in Ticks : TickShape(s)'
  BY <1>1, <1>2, <1>3 DEF OneOwner, TickShape
<1> QED
  BY <1>3, <1>4, <1>5 DEF OneOwner

-----------------------------------------------------------------------------
(* The steps of a tick. *)

\* The bulk requeue rewrites only parked rows, and no call owes those an outcome.
LEMMA OwnerTickStart ==
    ASSUME Calm, TypeOK, OneOwner, NEW t \in Ticks, TickStart(t)
    PROVE  OneOwner'
<1>1. tick'[t].pc = "count" /\ tick'[t].batch = {}
  BY DEF TickStart, TypeOK, IdleTick
<1>2. \A s \in Ticks : s = t
  BY DEF Calm
<1>3. UNCHANGED calls
  BY DEF TickStart
<1>4. \A c \in Calls : Owing(c)' <=> Owing(c)
  BY <1>1, <1>2, <1>3 DEF Owing, TickStart
<1>5. \A e \in Executions : rows[e].status = "running" => rows'[e].status = "running"
  BY DEF OneOwner, TickStart, Requeued, TypeOK
<1>6. \A c \in Calls : CallShape(c)'
  BY <1>1, <1>2, <1>3 DEF OneOwner, CallShape, TickStart
<1>7. \A s \in Ticks : TickShape(s)'
  BY <1>1, <1>2 DEF TickShape
<1>8. \A e \in Executions :
          rows'[e].status \in {"queued", "running"} => rows'[e].retry_status # "scheduled"
  <2> SUFFICES ASSUME NEW e \in Executions
               PROVE  rows'[e].status \in {"queued", "running"}
                          => rows'[e].retry_status # "scheduled"
    OBVIOUS
  <2>1. rows'[e] = Requeued(rows[e]) \/ rows'[e] = rows[e]
    BY DEF TickStart
  <2>2. rows[e] \in Row
    BY DEF TypeOK
  <2>3. rows[e].status \in {"queued", "running"} => rows[e].retry_status # "scheduled"
    BY DEF OneOwner
  <2> QED
    BY <2>1, <2>2, <2>3 DEF Requeued, Row
<1> QED
  BY <1>3, <1>4, <1>5, <1>6, <1>7, <1>8 DEF OneOwner

\* Counting, completing, selecting and ending touch neither rows nor calls.
LEMMA OwnerTickQuiet ==
    ASSUME TypeOK, OneOwner, NEW t \in Ticks,
           TickCount(t) \/ TickComplete(t) \/ TickSelect(t) \/ TickEnd(t)
    PROVE  OneOwner'
<1>1. CASE TickCount(t)
  <2> DEFINE r == [tick[t] EXCEPT !.pc = "decide",
                                  !.queued = Cardinality(WithStatus("queued")),
                                  !.running = Cardinality(WithStatus("running"))]
  <2>1. tick' = [tick EXCEPT ![t] = r] /\ UNCHANGED <<rows, calls>> /\ tick[t].pc = "count"
    BY <1>1 DEF TickCount, TypeOK
  <2>2. r.pc = "decide" /\ r.batch = tick[t].batch
    BY DEF TypeOK, TickState
  <2>3. \A e \in tick[t].batch : rows[e].status = "queued"
    BY DEF OneOwner, TickShape
  <2> HIDE DEF r
  <2> QED
    BY <2>1, <2>2, <2>3, QuietTick
<1>2. CASE TickComplete(t) \/ TickEnd(t)
  <2>1. IdleTick.pc = "idle" /\ IdleTick.batch = {}
    BY DEF IdleTick
  <2>2. /\ tick' = [tick EXCEPT ![t] = IdleTick] /\ UNCHANGED <<rows, calls>>
        /\ tick[t].pc \notin {"post", "wait"}
    BY <1>2 DEF TickComplete, TickEnd
  <2> QED
    BY <2>1, <2>2, QuietTick
<1>3. CASE TickSelect(t)
  <2>1. PICK b \in SUBSET Dispatchable :
            tick' = [tick EXCEPT ![t] = [IdleTick EXCEPT !.pc = "dispatch", !.batch = b]]
    BY <1>3 DEF TickSelect
  <2> DEFINE r == [IdleTick EXCEPT !.pc = "dispatch", !.batch = b]
  <2>2. r.pc = "dispatch" /\ r.batch = b
    BY DEF IdleTick
  <2>3. \A e \in b : rows[e].status = "queued"
    BY DEF Dispatchable
  <2>4. tick[t].pc = "decide" /\ UNCHANGED <<rows, calls>>
    BY <1>3 DEF TickSelect
  <2>5. tick' = [tick EXCEPT ![t] = r]
    BY <2>1
  <2> HIDE DEF r
  <2> QED
    BY <2>2, <2>3, <2>4, <2>5, QuietTick
<1> QED
  BY <1>1, <1>2, <1>3

\* A dispatched row has been queued, so no call answers for it yet.
LEMMA OwnerTickDispatch ==
    ASSUME Calm, TypeOK, OneOwner, NEW t \in Ticks, TickDispatch(t)
    PROVE  OneOwner'
<1>1. PICK e \in tick[t].batch :
          IF e \in Undialable
          THEN /\ rows' = [rows EXCEPT ![e] = ProcessOutcome(@, "failed")]
               /\ tick' = [tick EXCEPT ![t].batch = @ \ {e}]
          ELSE /\ rows' = [rows EXCEPT ![e] = MarkedRunning(@)]
               /\ tick' = [tick EXCEPT ![t] =
                     [@ EXCEPT !.pc = "post", !.batch = tick[t].batch \ {e},
                               !.exec = e, !.loaded = MarkedRunning(rows[e])]]
  BY DEF TickDispatch
<1>2. /\ tick[t].pc = "dispatch" /\ UNCHANGED calls
      /\ \A s \in Ticks : s = t
  BY DEF TickDispatch, Calm
<1>3. /\ e \in Executions /\ rows[e] \in Row /\ rows \in [Executions -> Row]
      /\ tick[t] \in TickState /\ tick \in [Ticks -> TickState]
  BY DEF TypeOK, TickState
<1>4. /\ \A d \in tick[t].batch : rows[d].status = "queued"
      /\ rows[e].retry_status # "scheduled"
  BY <1>3 DEF OneOwner, TickShape
<1>5. \A c \in Calls : Owing(c) => calls[c].exec # e
  BY <1>4 DEF OneOwner
<1>6. /\ tick'[t].pc \in {"dispatch", "post"}
      /\ tick'[t].batch = tick[t].batch \ {e}
      /\ tick'[t].pc = "post" => /\ tick'[t].exec = e
                                 /\ tick'[t].loaded = MarkedRunning(rows[e])
                                 /\ rows' = [rows EXCEPT ![e] = MarkedRunning(rows[e])]
  <2>1. CASE e \in Undialable
    BY <1>1, <1>2, <1>3, <2>1 DEF TickState
  <2>2. CASE e \notin Undialable
    <3>1. tick'[t] = [tick[t] EXCEPT !.pc = "post", !.batch = tick[t].batch \ {e},
                                     !.exec = e, !.loaded = MarkedRunning(rows[e])]
      BY <1>1, <1>3, <2>2
    <3>2. rows' = [rows EXCEPT ![e] = MarkedRunning(rows[e])]
      BY <1>1, <2>2
    <3> HIDE DEF MarkedRunning
    <3> QED
      BY <1>3, <3>1, <3>2 DEF TickState
  <2> QED
    BY <2>1, <2>2
<1>7. \A d \in Executions : d # e => rows'[d] = rows[d]
  BY <1>1, <1>3
<1>8. rows'[e].status \in {"queued", "running"} => rows'[e].retry_status # "scheduled"
  <2>1. CASE e \in Undialable
    <3>1. rows'[e] = ProcessOutcome(rows[e], "failed")
      BY <1>1, <1>3, <2>1
    <3> QED
      BY <1>3, <3>1 DEF ProcessOutcome, Row
  <2>2. CASE e \notin Undialable
    <3>1. rows'[e] = MarkedRunning(rows[e])
      BY <1>1, <1>3, <2>2
    <3> QED
      BY <1>3, <1>4, <3>1 DEF MarkedRunning, Row
  <2> QED
    BY <2>1, <2>2
<1>9. MarkedRunning(rows[e]).status = "running"
  BY <1>3 DEF MarkedRunning, Row
<1>10. \A c \in Calls : Owing(c)' <=> Owing(c)
  BY <1>2, <1>6 DEF Owing
<1>11. \A c \in Calls : CallShape(c)'
  BY <1>2, <1>6 DEF OneOwner, CallShape
<1>12. TickShape(t)'
  <2>1. \A d \in tick'[t].batch : rows'[d].status = "queued"
    <3>1. tick[t].batch \subseteq Executions
      BY <1>3 DEF TickState
    <3> QED
      BY <1>4, <1>6, <1>7, <3>1
  <2>2. tick'[t].pc = "post" =>
            /\ tick'[t].exec \in Executions
            /\ rows'[tick'[t].exec].status = "running"
            /\ \A c \in Calls : Owing(c)' => calls'[c].exec # tick'[t].exec
            /\ tick'[t].loaded.status = "running"
    BY <1>2, <1>3, <1>5, <1>6, <1>9, <1>10
  <2> QED
    BY <1>6, <2>1, <2>2 DEF TickShape
<1>13. \A c \in Calls : Owing(c)' => /\ calls'[c].exec \in Executions
                                    /\ rows'[calls'[c].exec].status = "running"
  BY <1>2, <1>5, <1>7, <1>10 DEF OneOwner
<1>14. \A d \in Executions :
           rows'[d].status \in {"queued", "running"} => rows'[d].retry_status # "scheduled"
  BY <1>7, <1>8 DEF OneOwner
<1> QED
  BY <1>2, <1>10, <1>11, <1>12, <1>13, <1>14 DEF OneOwner

\* The posted call is the only one that answers for the tick's row.
LEMMA OwnerTickPost ==
    ASSUME Calm, TypeOK, OneOwner, NEW t \in Ticks, TickPost(t)
    PROVE  OneOwner'
<1>1. PICK c \in Calls :
          /\ calls[c].stage = "free"
          /\ calls' = [calls EXCEPT ![c] =
                 [calls[c] EXCEPT !.stage = "requested", !.exec = tick[t].exec]]
          /\ tick' = [tick EXCEPT ![t] = [tick[t] EXCEPT !.pc = "wait", !.call = c]]
  <2> DEFINE c == CHOOSE d \in Calls : calls[d].stage = "free"
  <2>1. c \in Calls /\ calls[c].stage = "free"
    BY DEF TickPost
  <2>2. /\ calls' = [calls EXCEPT ![c] =
               [calls[c] EXCEPT !.stage = "requested", !.exec = tick[t].exec]]
        /\ tick' = [tick EXCEPT ![t] = [tick[t] EXCEPT !.pc = "wait", !.call = c]]
    BY DEF TickPost
  <2> HIDE DEF c
  <2> QED
    BY <2>1, <2>2
<1>2. UNCHANGED rows /\ tick[t].pc = "post"
  BY DEF TickPost
<1>3. /\ calls \in [Calls -> Call] /\ calls[c] \in Call
      /\ tick \in [Ticks -> TickState] /\ tick[t] \in TickState
  BY <1>1 DEF TypeOK
<1>4. /\ calls'[c].stage = "requested" /\ calls'[c].exec = tick[t].exec
      /\ calls'[c].hook = calls[c].hook /\ calls'[c].leg = calls[c].leg
      /\ calls'[c].http = calls[c].http
  BY <1>1, <1>3 DEF Call
<1>5. \A d \in Calls : d # c => calls'[d] = calls[d]
  BY <1>1, <1>3
<1>6. /\ tick'[t].pc = "wait" /\ tick'[t].call = c
      /\ tick'[t].exec = tick[t].exec /\ tick'[t].batch = tick[t].batch
      /\ tick'[t].loaded = tick[t].loaded
  BY <1>1, <1>3 DEF TickState
<1>7. \A s \in Ticks : s = t
  BY DEF Calm
<1>8. TickShape(t) /\ CallShape(c)
  BY <1>1 DEF OneOwner
<1>9. \A d \in Calls : d # c /\ Owing(d)' => Owing(d)
  BY <1>5, <1>6, <1>7 DEF Owing
<1>10. \A d \in Calls : CallShape(d)'
  <2>1. CallShape(c)'
    <3>1. /\ calls[c].http = "pending" /\ calls[c].hook = "none"
          /\ calls[c].leg # "live"
      BY <1>1, <1>8 DEF CallShape
    <3> QED
      BY <1>1, <1>4, <1>6, <3>1 DEF CallShape
  <2>2. \A d \in Calls : d # c => CallShape(d)'
    <3> SUFFICES ASSUME NEW d \in Calls, d # c PROVE CallShape(d)'
      OBVIOUS
    <3>1. CallShape(d)
      BY DEF OneOwner
    <3>2. calls[d].stage # "requested"
      BY <1>2, <1>7, <3>1 DEF CallShape
    <3> QED
      BY <1>5, <3>1, <3>2 DEF CallShape
  <2> QED
    BY <2>1, <2>2
<1>11. TickShape(t)'
  BY <1>1, <1>2, <1>4, <1>6, <1>8 DEF TickShape
<1>12. /\ tick[t].exec \in Executions /\ rows[tick[t].exec].status = "running"
       /\ \A d \in Calls : Owing(d) => calls[d].exec # tick[t].exec
  BY <1>2, <1>8 DEF TickShape
<1>13. \A d \in Calls : Owing(d)' => /\ calls'[d].exec \in Executions
                                    /\ rows'[calls'[d].exec].status = "running"
  BY <1>2, <1>4, <1>5, <1>9, <1>12 DEF OneOwner
<1>14. \A d, f \in Calls : Owing(d)' /\ Owing(f)' /\ calls'[d].exec = calls'[f].exec => d = f
  BY <1>4, <1>5, <1>9, <1>12 DEF OneOwner
<1>15. \A e \in Executions :
           rows'[e].status \in {"queued", "running"} => rows'[e].retry_status # "scheduled"
  BY <1>2 DEF OneOwner
<1> QED
  BY <1>7, <1>10, <1>11, <1>13, <1>14, <1>15 DEF OneOwner

\* The columns a late write may touch.
LEMMA FlushColumns ==
    ASSUME NEW db, NEW loaded, NEW new
    PROVE  /\ Flush(db, loaded, new).status
                 = IF new.status # loaded.status THEN new.status ELSE db.status
           /\ Flush(db, loaded, new).retry_status
                 = IF new.retry_status # loaded.retry_status
                   THEN new.retry_status ELSE db.retry_status
BY DEF Flush, Dirty

\* A tick hears from the API: the row of its call keeps the status pair of
\* columns, or leaves "running" with the call closing its debt.
LEMMA ResponseStep ==
    ASSUME Calm, TypeOK, OneOwner, NEW t \in Ticks, NEW r,
           tick[t].pc = "wait",
           rows' = [rows EXCEPT ![tick[t].exec] = r],
           tick' = [tick EXCEPT ![t] = Resumed(t)],
           UNCHANGED calls,
           calls[tick[t].call].http # "pending",
           \/ tick[t].exec \in Executions =>
                 /\ r.status = rows[tick[t].exec].status
                 /\ r.retry_status = rows[tick[t].exec].retry_status
           \/ /\ r.status \notin {"queued", "running"}
              /\ calls[tick[t].call].stage = "refused"
    PROVE  OneOwner'
<1>0. /\ tick[t].call \in Calls /\ tick[t].exec = calls[tick[t].call].exec
      /\ \A s \in Ticks : s = t
  BY DEF OneOwner, TickShape, Calm
<1>a. PICK c \in Calls, x \in {tick[t].exec} : c = tick[t].call
  BY <1>0
<1>1. /\ c = tick[t].call /\ x = tick[t].exec /\ x = calls[c].exec /\ CallShape(c)
      /\ \A s \in Ticks : s = t
  BY <1>0, <1>a DEF OneOwner
<1>2. /\ tick'[t].pc = "dispatch" /\ tick'[t].batch = tick[t].batch
      /\ tick[t].batch \subseteq Executions
  BY DEF Resumed, TypeOK, TickState
<1>3. \A d \in Calls : Owing(d)' => Owing(d)
  BY <1>1, <1>2 DEF Owing
<1>4. calls[c].stage = "refused" => Owing(c) /\ ~Owing(c)'
  BY <1>1, <1>2 DEF Owing
<1>5. \A e \in Executions : e # x => rows'[e] = rows[e]
  BY <1>1 DEF TypeOK
<1>6. x \in Executions => rows'[x] = r
  BY <1>1 DEF TypeOK
<1>7. \A d \in Calls : CallShape(d)'
  <2> SUFFICES ASSUME NEW d \in Calls PROVE CallShape(d)'
    OBVIOUS
  <2>1. CallShape(d)
    BY DEF OneOwner
  <2>2. calls[d].stage # "requested"
    BY <1>1, <2>1 DEF CallShape
  <2> QED
    BY <2>1, <2>2 DEF CallShape
<1>8. \A d \in Calls : Owing(d)' => /\ calls'[d].exec \in Executions
                                   /\ rows'[calls'[d].exec].status = "running"
  <2> SUFFICES ASSUME NEW d \in Calls, Owing(d)'
               PROVE  /\ calls'[d].exec \in Executions
                      /\ rows'[calls'[d].exec].status = "running"
    OBVIOUS
  <2>1. Owing(d) /\ calls[d].exec \in Executions /\ rows[calls[d].exec].status = "running"
    BY <1>3 DEF OneOwner
  <2>2. CASE calls[c].stage = "refused"
    <3>1. d # c /\ Owing(c)
      BY <1>4, <2>2
    <3>2. calls[d].exec # x
      BY <1>1, <2>1, <3>1 DEF OneOwner
    <3> QED
      BY <1>5, <2>1, <3>2
  <2>3. CASE calls[c].stage # "refused"
    BY <1>1, <1>5, <1>6, <2>1, <2>3
  <2> QED
    BY <2>2, <2>3
<1>9. TickShape(t)'
  <2>1. \A e \in tick[t].batch : rows[e].status = "queued"
    BY DEF OneOwner, TickShape
  <2>2. \A e \in tick[t].batch : rows'[e].status = "queued"
    <3>1. CASE calls[c].stage = "refused"
      <4>1. rows[x].status = "running"
        BY <1>1, <1>4, <3>1 DEF OneOwner
      <4> QED
        BY <1>2, <1>5, <2>1, <4>1
    <3>2. CASE calls[c].stage # "refused"
      BY <1>1, <1>2, <1>5, <1>6, <2>1, <3>2
    <3> QED
      BY <3>1, <3>2
  <2> QED
    BY <1>2, <2>2 DEF TickShape
<1>10. \A e \in Executions :
           rows'[e].status \in {"queued", "running"} => rows'[e].retry_status # "scheduled"
  BY <1>5, <1>6 DEF OneOwner
<1> QED
  BY <1>1, <1>3, <1>7, <1>8, <1>9, <1>10 DEF OneOwner

\* The write-back of a 2xx response leaves status and retry_status alone.
LEMMA OwnerTickResponse ==
    ASSUME Calm, TypeOK, OneOwner, NEW t \in Ticks, TickResponse(t)
    PROVE  OneOwner'
<1>1. PICK x, r : /\ x = tick[t].exec
                  /\ r = WithCall(rows[x], tick[t].loaded, tick[t].call)
  OBVIOUS
<1>2. /\ tick[t].pc = "wait" /\ UNCHANGED calls
      /\ calls[tick[t].call].http = "ok"
      /\ tick' = [tick EXCEPT ![t] = Resumed(t)]
      /\ rows' = [rows EXCEPT ![tick[t].exec] = r]
  BY <1>1 DEF TickResponse
<1>3. x \in Executions => r.status = rows[x].status /\ r.retry_status = rows[x].retry_status
  BY <1>1, WithCallColumns DEF TypeOK
<1> QED
  BY <1>1, <1>2, <1>3, ResponseStep

\* An error response ends the debt of the refused call and fails its row.
LEMMA OwnerTickFailDial ==
    ASSUME Calm, TypeOK, OneOwner, NEW t \in Ticks, TickFailDial(t)
    PROVE  OneOwner'
<1> DEFINE old == tick[t].loaded
           new == ProcessOutcome(old, "failed")
           r   == Flush(rows[tick[t].exec], old, new)
<1>1. /\ tick[t].pc = "wait" /\ UNCHANGED calls
      /\ calls[tick[t].call].http = "error"
      /\ tick' = [tick EXCEPT ![t] = Resumed(t)]
      /\ rows' = [rows EXCEPT ![tick[t].exec] = r]
  BY DEF TickFailDial, RequestFailed, Calm
<1>2. TickShape(t)
  BY DEF OneOwner
<1>3. calls[tick[t].call].stage = "refused"
  BY <1>1, <1>2 DEF OneOwner, TickShape, CallShape
<1>4. old.status = "running" /\ new.status \in {"failed", "completed"}
  <2>1. old.status = "running"
    BY <1>1, <1>2 DEF TickShape
  <2>2. old \in Row
    BY DEF TypeOK, TickState
  <2> HIDE DEF old
  <2> QED
    BY <2>1, <2>2 DEF ProcessOutcome, Row
<1>5. r.status \notin {"queued", "running"}
  <2> HIDE DEF new, old
  <2> QED
    BY <1>4, FlushColumns
<1> HIDE DEF r
<1> QED
  BY <1>1, <1>3, <1>5, ResponseStep

-----------------------------------------------------------------------------
(* The steps of the API, the provider and time. *)

\* The handler and the provider move a call along without a new debt.
LEMMA OwnerCall ==
    ASSUME TypeOK, OneOwner, NEW c \in Calls, HandlerStep(c) \/ ProviderEnd(c)
    PROVE  OneOwner'
<1>1. /\ calls[c] \in Call /\ calls \in [Calls -> Call]
      /\ CallShape(c) /\ UNCHANGED <<rows, tick>>
  BY DEF TypeOK, OneOwner, HandlerStep, ProviderEnd, TwilioCreate, TwilioRefuse, SetSid,
         SipStart, SipAnswer, SipClose, SipFallback
<1>2. PICK r :
          /\ calls' = [calls EXCEPT ![c] = r]
          /\ r.exec = calls[c].exec
          /\ \/ /\ calls[c].stage = "requested" /\ r.stage = "placed"
                /\ r.leg = "live" /\ r.http = calls[c].http /\ r.hook = calls[c].hook
             \/ /\ calls[c].stage = "requested" /\ r.stage = "refused"
                /\ r.leg = calls[c].leg /\ r.http = "error" /\ r.hook = calls[c].hook
             \/ /\ calls[c].stage = "placed" /\ r.stage = "bound"
                /\ r.leg = calls[c].leg /\ r.http = "ok" /\ r.hook = calls[c].hook
             \/ /\ calls[c].stage = "requested" /\ r.stage = "sip"
                /\ r.leg = calls[c].leg /\ r.http = "ok" /\ r.hook = calls[c].hook
             \/ /\ calls[c].stage = "sip" /\ r.stage = "sip_live"
                /\ r.leg = "live" /\ r.http = calls[c].http /\ r.hook = calls[c].hook
             \/ /\ calls[c].stage \in {"sip", "sip_live"} /\ r.stage = "closed"
                /\ r.leg # "live" /\ r.http = calls[c].http /\ r.hook = calls[c].hook
             \/ /\ calls[c].stage = "sip" /\ r.stage = "placed"
                /\ r.leg = "live" /\ r.http = calls[c].http /\ r.hook = calls[c].hook
             \/ /\ calls[c].stage \in {"placed", "bound"} /\ r.stage = calls[c].stage
                /\ calls[c].leg = "live"
                /\ r.leg = "ended" /\ r.http = calls[c].http /\ r.hook = "sent"
  <2>1. CASE TwilioCreate(c)
    BY <1>1, <2>1, calls' = [calls EXCEPT ![c] =
          [calls[c] EXCEPT !.stage = "placed", !.leg = "live"]]
       DEF TwilioCreate, Call
  <2>2. CASE TwilioRefuse(c)
    BY <1>1, <2>2, calls' = [calls EXCEPT ![c] =
          [calls[c] EXCEPT !.stage = "refused", !.http = "error"]]
       DEF TwilioRefuse, Call
  <2>3. CASE SetSid(c)
    BY <1>1, <2>3, calls' = [calls EXCEPT ![c] =
          [calls[c] EXCEPT !.stage = "bound", !.http = "ok"]]
       DEF SetSid, Call
  <2>4. CASE SipStart(c)
    BY <1>1, <2>4, calls' = [calls EXCEPT ![c] =
          [calls[c] EXCEPT !.stage = "sip", !.http = "ok"]]
       DEF SipStart, Call
  <2>5. CASE SipAnswer(c)
    BY <1>1, <2>5, calls' = [calls EXCEPT ![c] =
          [calls[c] EXCEPT !.stage = "sip_live", !.leg = "live"]]
       DEF SipAnswer, Call
  <2>6. CASE SipClose(c)
    <3> DEFINE r == [calls[c] EXCEPT !.stage = "closed",
                         !.leg = IF calls[c].leg = "live" THEN "ended" ELSE "none"]
    <3>1. calls' = [calls EXCEPT ![c] = r] /\ calls[c].stage \in {"sip", "sip_live"}
      BY <2>6 DEF SipClose
    <3>2. /\ r.exec = calls[c].exec /\ r.stage = "closed" /\ r.leg # "live"
          /\ r.http = calls[c].http /\ r.hook = calls[c].hook
      BY <1>1 DEF Call
    <3> HIDE DEF r
    <3> QED
      BY <3>1, <3>2
  <2>7. CASE SipFallback(c)
    BY <1>1, <2>7, calls' = [calls EXCEPT ![c] =
          [calls[c] EXCEPT !.stage = "placed", !.leg = "live"]]
       DEF SipFallback, Call
  <2>8. CASE ProviderEnd(c)
    <3>1. PICK o \in Outcomes :
              calls' = [calls EXCEPT ![c] =
                 [calls[c] EXCEPT !.leg = "ended", !.hook = "sent", !.outcome = o]]
      BY <2>8 DEF ProviderEnd
    <3> DEFINE r == [calls[c] EXCEPT !.leg = "ended", !.hook = "sent", !.outcome = o]
    <3>2. /\ r.exec = calls[c].exec /\ r.stage = calls[c].stage /\ r.leg = "ended"
          /\ r.http = calls[c].http /\ r.hook = "sent"
      BY <1>1 DEF Call
    <3>3. calls[c].stage \in {"placed", "bound"} /\ calls[c].leg = "live"
      BY <2>8 DEF ProviderEnd
    <3>4. calls' = [calls EXCEPT ![c] = r]
      BY <3>1
    <3> HIDE DEF r
    <3> QED
      BY <3>2, <3>3, <3>4
  <2> QED
    BY <2>1, <2>2, <2>3, <2>4, <2>5, <2>6, <2>7, <2>8 DEF HandlerStep
<1>3. calls'[c] = r /\ r.stage # "free"
  BY <1>1, <1>2
<1>4. Owing(c)' => Owing(c)
  BY <1>1, <1>2, <1>3 DEF Owing, CallShape
<1>5. CallShape(c)'
  BY <1>1, <1>2, <1>3 DEF CallShape
<1> QED
  BY <1>1, <1>2, <1>3, <1>4, <1>5, CallStep

\* The terminal callback settles or parks the row of the call whose debt it ends.
LEMMA OwnerWebhook ==
    ASSUME Calm, TypeOK, OneOwner, NEW c \in Calls, Webhook(c)
    PROVE  OneOwner'
<1>1. /\ calls[c].stage = "bound" /\ calls[c].hook = "sent" /\ UNCHANGED tick
      /\ rows' = [rows EXCEPT ![calls[c].exec] = ProcessOutcome(@, calls[c].outcome)]
      /\ calls' = [calls EXCEPT ![c].hook = "done"]
      /\ \A s, t \in Ticks : s = t
  BY DEF Webhook, Calm
<1>2. Owing(c) /\ calls[c].exec \in Executions /\ rows[calls[c].exec].status = "running"
  BY <1>1 DEF Owing, OneOwner
<1>3. PICK x \in Executions : x = calls[c].exec
  BY <1>2
<1>4. /\ rows'[x].status \notin {"queued", "running"}
      /\ \A e \in Executions : e # x => rows'[e] = rows[e]
  <2>1. /\ rows \in [Executions -> Row]
        /\ rows' = [rows EXCEPT ![x] = ProcessOutcome(rows[x], calls[c].outcome)]
    BY <1>1, <1>3 DEF TypeOK
  <2>2. /\ rows'[x] = ProcessOutcome(rows[x], calls[c].outcome)
        /\ \A e \in Executions : e # x => rows'[e] = rows[e]
    BY <2>1
  <2>3. rows[x] \in Row
    BY <2>1
  <2> QED
    BY <2>2, <2>3 DEF ProcessOutcome, Row
<1>5. /\ \A d \in Calls : d # c => calls'[d] = calls[d]
      /\ calls'[c].hook = "done"
      /\ calls'[c].exec = calls[c].exec /\ calls'[c].stage = calls[c].stage
      /\ calls'[c].http = calls[c].http /\ calls'[c].leg = calls[c].leg
  <2>1. calls \in [Calls -> Call]
    BY DEF TypeOK
  <2>2. calls'[c] = [calls[c] EXCEPT !.hook = "done"]
    BY <1>1, <2>1
  <2> QED
    BY <1>1, <2>1, <2>2 DEF Call
<1>6. ~Owing(c)' /\ \A d \in Calls : Owing(d)' => Owing(d)
  BY <1>1, <1>5 DEF Owing
<1>7. \A d \in Calls : CallShape(d)'
  <2>1. CallShape(c)'
    BY <1>1, <1>5 DEF OneOwner, CallShape
  <2> QED
    BY <1>1, <1>5, <2>1 DEF OneOwner, CallShape
<1>8. \A d \in Calls : d # c /\ Owing(d) => calls[d].exec # x
  BY <1>2, <1>3 DEF OneOwner
<1>9. \A d \in Calls : Owing(d)' => /\ calls'[d].exec \in Executions
                                   /\ rows'[calls'[d].exec].status = "running"
  BY <1>4, <1>5, <1>6, <1>8 DEF OneOwner
<1>10. \A d, f \in Calls : Owing(d)' /\ Owing(f)' /\ calls'[d].exec = calls'[f].exec => d = f
  BY <1>5, <1>6 DEF OneOwner
<1>11. \A t \in Ticks : TickShape(t)'
  <2> SUFFICES ASSUME NEW t \in Ticks PROVE TickShape(t)'
    OBVIOUS
  <2>1. TickShape(t) /\ tick'[t] = tick[t] /\ tick[t].batch \subseteq Executions
    BY <1>1 DEF OneOwner, TypeOK, TickState
  <2>2. \A e \in tick[t].batch : rows'[e].status = "queued"
    BY <1>2, <1>3, <1>4, <2>1 DEF TickShape
  <2>3. tick[t].pc = "post" =>
            /\ tick[t].exec \in Executions
            /\ rows'[tick[t].exec].status = "running"
            /\ \A d \in Calls : Owing(d)' => calls'[d].exec # tick[t].exec
    BY <1>2, <1>3, <1>4, <1>5, <1>6, <2>1 DEF TickShape
  <2>4. tick[t].pc = "wait" =>
            /\ tick[t].call \in Calls
            /\ tick[t].exec = calls'[tick[t].call].exec
            /\ calls'[tick[t].call].stage # "free"
    BY <1>5, <2>1 DEF TickShape
  <2> QED
    BY <2>1, <2>2, <2>3, <2>4 DEF TickShape
<1>12. \A e \in Executions :
           rows'[e].status \in {"queued", "running"} => rows'[e].retry_status # "scheduled"
  BY <1>4 DEF OneOwner
<1> QED
  BY <1>7, <1>9, <1>10, <1>11, <1>12 DEF OneOwner

\* A backoff running out changes neither status nor retry_status.
LEMMA OwnerElapse ==
    ASSUME TypeOK, OneOwner, NEW e \in Executions, Elapse(e)
    PROVE  OneOwner'
<1>1. /\ UNCHANGED <<calls, tick>>
      /\ \A d \in Executions : /\ rows'[d].status = rows[d].status
                              /\ rows'[d].retry_status = rows[d].retry_status
  BY DEF Elapse, TypeOK, Row
<1>2. \A c \in Calls : Owing(c)' <=> Owing(c)
  BY <1>1 DEF Owing
<1>3. \A c \in Calls : CallShape(c)'
  BY <1>1 DEF OneOwner, CallShape
<1>4. \A t \in Ticks : TickShape(t)'
  <2> SUFFICES ASSUME NEW t \in Ticks PROVE TickShape(t)'
    OBVIOUS
  <2>1. TickShape(t) /\ tick'[t] = tick[t] /\ tick[t].batch \subseteq Executions
    BY <1>1 DEF OneOwner, TypeOK, TickState
  <2> QED
    BY <1>1, <1>2, <2>1 DEF TickShape
<1> QED
  BY <1>1, <1>2, <1>3, <1>4 DEF OneOwner

\* The invariant is about rows, calls and ticks only.
LEMMA OwnerStutter ==
    ASSUME OneOwner, UNCHANGED <<rows, calls, tick>>
    PROVE  OneOwner'
BY DEF OneOwner, Owing, CallShape, TickShape

-----------------------------------------------------------------------------
(* The theorems. *)

\* Every step of a calm system keeps the invariant.
LEMMA OwnerStep ==
    ASSUME Calm, TypeOK, OneOwner, [Next]_vars
    PROVE  OneOwner'
<1>1. CASE UNCHANGED vars
  BY <1>1, OwnerStutter DEF vars
<1>2. ASSUME NEW t \in Ticks, TickStart(t) \/ TickStep(t) \/ TickCrash(t)
      PROVE  OneOwner'
  <2>1. CASE TickStart(t)
    BY <2>1, OwnerTickStart
  <2>2. CASE TickCount(t) \/ TickComplete(t) \/ TickSelect(t) \/ TickEnd(t)
    BY <2>2, OwnerTickQuiet
  <2>3. CASE TickDispatch(t)
    BY <2>3, OwnerTickDispatch
  <2>4. CASE TickPost(t)
    BY <2>4, OwnerTickPost
  <2>5. CASE TickResponse(t)
    BY <2>5, OwnerTickResponse
  <2>6. CASE TickFailDial(t)
    BY <2>6, OwnerTickFailDial
  <2>7. ~TickCrash(t)
    BY DEF TickCrash, Calm
  <2> QED
    BY <1>2, <2>1, <2>2, <2>3, <2>4, <2>5, <2>6, <2>7 DEF TickStep
<1>3. ASSUME NEW c \in Calls,
             HandlerStep(c) \/ DeleteCall(c) \/ ProviderEnd(c) \/ WebhookUnknown(c) \/ Webhook(c)
      PROVE  OneOwner'
  <2>1. ~DeleteCall(c) /\ ~WebhookUnknown(c)
    BY DEF DeleteCall, WebhookUnknown, Calm, OneOwner, CallShape
  <2> QED
    BY <1>3, <2>1, OwnerCall, OwnerWebhook
<1>4. ASSUME NEW e \in Executions, Elapse(e) PROVE OneOwner'
  BY <1>4, OwnerElapse
<1>5. CASE Hours
  BY <1>5, OwnerStutter DEF Hours
<1> QED
  BY <1>1, <1>2, <1>3, <1>4, <1>5 DEF Next

\* Without faults and with one tick at a time, every call under way has a row
\* marked running, no two calls share one, and the tick in the middle of a
\* dispatch still finds the rows as it listed them (worker, API and webhook
\* share the row without a lock).
THEOREM OwnerCorrect ==
    ASSUME Calm
    PROVE  Spec => []OneOwner
<1>1. Init => OneOwner
  BY OwnerInit
<1>2. TypeOK /\ OneOwner /\ [Next]_vars => OneOwner'
  BY OwnerStep
<1> QED
  BY <1>1, <1>2, TypeCorrect, PTL DEF Spec

\* A call whose leg is up still owes an outcome.
LEMMA LiveOwes ==
    ASSUME OneOwner, NEW c \in Calls, calls[c].leg = "live"
    PROVE  Owing(c)
BY DEF OneOwner, CallShape, Owing

\* No lead ever has two calls up at once.
THEOREM OneLiveCallCorrect ==
    ASSUME Calm
    PROVE  Spec => []OneLiveCall
<1>1. OneOwner => OneLiveCall
  BY LiveOwes DEF OneLiveCall, OneOwner
<1> QED
  BY <1>1, OwnerCorrect, PTL

\* Every call that is up is counted by the scheduler as a running row.
THEOREM LiveLegCountedCorrect ==
    ASSUME Calm
    PROVE  Spec => []LiveLegCounted
<1>1. OneOwner => LiveLegCounted
  BY LiveOwes DEF LiveLegCounted, OneOwner
<1> QED
  BY <1>1, OwnerCorrect, PTL

\* The one row a step writes to, if any, was not settled.
LEMMA SettledStep ==
    ASSUME Calm, TypeOK, OneOwner, [Next]_vars
    PROVE  \A e \in Executions : Settled(rows[e]) => Settled(rows'[e])
<1> SUFFICES ASSUME NEW e \in Executions, Settled(rows[e])
             PROVE  Settled(rows'[e])
  OBVIOUS
<1>1. rows[e] \in Row /\ rows \in [Executions -> Row]
  BY DEF TypeOK
<1>2. rows[e].status \notin {"queued", "running"} /\ rows[e].retry_status # "scheduled"
  BY DEF Settled
<1>3. ASSUME NEW t \in Ticks, TickStart(t) PROVE Settled(rows'[e])
  BY <1>2, <1>3 DEF TickStart, Requeued
<1>4. ASSUME NEW t \in Ticks, TickDispatch(t) PROVE Settled(rows'[e])
  <2>1. PICK d \in tick[t].batch :
            \/ rows' = [rows EXCEPT ![d] = ProcessOutcome(@, "failed")]
            \/ rows' = [rows EXCEPT ![d] = MarkedRunning(@)]
    BY <1>4 DEF TickDispatch
  <2>2. rows[d].status = "queued"
    BY DEF OneOwner, TickShape
  <2> QED
    BY <1>1, <1>2, <2>1, <2>2
<1>5. ASSUME NEW t \in Ticks, TickResponse(t) PROVE Settled(rows'[e])
  BY <1>1, <1>5, WithCallColumns DEF TickResponse, Settled, TypeOK
<1>6. ASSUME NEW t \in Ticks, TickFailDial(t) PROVE Settled(rows'[e])
  <2>1. /\ tick[t].pc = "wait" /\ calls[tick[t].call].http = "error"
        /\ TickShape(t)
    BY <1>6 DEF TickFailDial, RequestFailed, Calm, OneOwner
  <2>2. Owing(tick[t].call) /\ tick[t].exec = calls[tick[t].call].exec
    BY <2>1 DEF Owing, TickShape, OneOwner, CallShape
  <2>3. rows[tick[t].exec].status = "running"
    BY <2>1, <2>2 DEF OneOwner, TickShape
  <2>4. PICK r : rows' = [rows EXCEPT ![tick[t].exec] = r]
    BY <1>6 DEF TickFailDial
  <2> QED
    BY <1>1, <1>2, <2>3, <2>4
<1>7. ASSUME NEW c \in Calls, Webhook(c) PROVE Settled(rows'[e])
  <2>1. Owing(c) /\ rows' = [rows EXCEPT ![calls[c].exec] =
                                 ProcessOutcome(@, calls[c].outcome)]
    BY <1>7 DEF Webhook, Owing
  <2>2. rows[calls[c].exec].status = "running"
    BY <2>1 DEF OneOwner
  <2> QED
    BY <1>1, <1>2, <2>1, <2>2
<1>8. ASSUME NEW d \in Executions, Elapse(d) PROVE Settled(rows'[e])
  BY <1>1, <1>8 DEF Elapse, Row, Settled
<1>9. CASE UNCHANGED rows
  BY <1>9
<1> QED
  BY <1>3, <1>4, <1>5, <1>6, <1>7, <1>8, <1>9
     DEF Next, vars, TickStep, TickCrash, TickCount, TickComplete, TickSelect, TickEnd,
         TickPost, HandlerStep, TwilioCreate, TwilioRefuse, SetSid, SipStart, SipAnswer,
         SipClose, SipFallback, DeleteCall, ProviderEnd, WebhookUnknown, Hours

\* A finished lead is never dialled, requeued or rewritten into an unfinished
\* one: not by a late response, not by a callback, not by the bulk requeue.
THEOREM SettledIsFinalCorrect ==
    ASSUME Calm
    PROVE  Spec => SettledIsFinal
<1>1. TypeOK /\ OneOwner /\ [Next]_vars =>
          [\A e \in Executions : Settled(rows[e]) => Settled(rows'[e])]_rows
  BY SettledStep
<1> QED
  BY <1>1, TypeCorrect, OwnerCorrect, PTL DEF Spec, SettledIsFinal

-----------------------------------------------------------------------------
(***************************************************************************)
(* A campaign is flipped to completed on the answer of two queries made at *)
(* different times.  That is sound when ticks do not overlap and nothing   *)
(* fails: no lead is left waiting, called or parked, for any configuration.*)
(***************************************************************************)

Unfinished(e) == rows[e].status \in {"queued", "running"}

\* Once completed, nothing is left to do and no tick is at work; a tick that
\* has counted no queued and no running row can rely on it.
CompletionInv ==
    /\ campaign = "completed" => /\ \A e \in Executions : Settled(rows[e])
                                 /\ \A t \in Ticks : tick[t].pc = "idle"
    /\ \A t \in Ticks :
          tick[t].pc = "decide" /\ tick[t].queued = 0 /\ tick[t].running = 0
              => \A e \in Executions : ~Unfinished(e)

-----------------------------------------------------------------------------

\* The campaign starts active.
LEMMA CompletionInit == Init => CompletionInv
BY DEF Init, CompletionInv, IdleTick

\* A count of 0 means that no row has the status.
LEMMA CountZero ==
    ASSUME NEW s, Cardinality(WithStatus(s)) = 0
    PROVE  \A e \in Executions : rows[e].status # s
<1>1. IsFiniteSet(Executions)
  BY FS_Interval, DialingAssumption DEF Executions
<1>2. WithStatus(s) \subseteq Executions
  BY DEF WithStatus
<1>3. IsFiniteSet(WithStatus(s))
  BY <1>1, <1>2, FS_Subset
<1>4. WithStatus(s) = {}
  BY <1>3, FS_EmptySet
<1> QED
  BY <1>4 DEF WithStatus

\* Between the two queries only calls end and backoffs run out.
LEMMA OthersFinish ==
    ASSUME TypeOK,
           \/ \E c \in Calls : \/ HandlerStep(c) \/ DeleteCall(c) \/ ProviderEnd(c)
                               \/ WebhookUnknown(c) \/ Webhook(c)
           \/ \E e \in Executions : Elapse(e)
           \/ Hours
           \/ UNCHANGED vars
    PROVE  /\ UNCHANGED <<campaign, tick>>
           /\ \A e \in Executions : Unfinished(e)' => Unfinished(e)
<1>1. ASSUME NEW c \in Calls, Webhook(c)
      PROVE  \A e \in Executions : Unfinished(e)' => Unfinished(e)
  <2> SUFFICES ASSUME NEW e \in Executions, Unfinished(e)' PROVE Unfinished(e)
    OBVIOUS
  <2>1. /\ rows \in [Executions -> Row] /\ rows[e] \in Row
        /\ rows' = [rows EXCEPT ![calls[c].exec] =
                       ProcessOutcome(rows[calls[c].exec], calls[c].outcome)]
    BY <1>1 DEF TypeOK, Webhook
  <2>2. CASE e = calls[c].exec
    <3>1. rows'[e] = ProcessOutcome(rows[e], calls[c].outcome)
      BY <2>1, <2>2
    <3>2. rows'[e].status \notin {"queued", "running"}
      BY <2>1, <3>1 DEF ProcessOutcome, Row
    <3> QED
      BY <3>2 DEF Unfinished
  <2>3. CASE e # calls[c].exec
    BY <2>1, <2>3 DEF Unfinished
  <2> QED
    BY <2>2, <2>3
<1>2. ASSUME NEW d \in Executions, Elapse(d)
      PROVE  \A e \in Executions : Unfinished(e)' => Unfinished(e)
  <2>1. \A e \in Executions : rows'[e].status = rows[e].status
    BY <1>2 DEF TypeOK, Elapse, Row
  <2> QED
    BY <2>1 DEF Unfinished
<1>3. ASSUME UNCHANGED rows
      PROVE  \A e \in Executions : Unfinished(e)' => Unfinished(e)
  BY <1>3 DEF Unfinished
<1>4. campaign' = campaign /\ tick' = tick
  <2>1. ASSUME NEW c \in Calls,
               \/ HandlerStep(c) \/ DeleteCall(c) \/ ProviderEnd(c)
               \/ WebhookUnknown(c) \/ Webhook(c)
        PROVE  campaign' = campaign /\ tick' = tick
    BY <2>1 DEF HandlerStep, TwilioCreate, TwilioRefuse, SetSid, SipStart, SipAnswer,
                SipClose, SipFallback, DeleteCall, ProviderEnd, WebhookUnknown, Webhook
  <2>2. CASE (\E e \in Executions : Elapse(e)) \/ Hours \/ UNCHANGED vars
    BY <2>2 DEF Elapse, Hours, vars
  <2> QED
    BY <2>1, <2>2
<1> QED
  BY <1>1, <1>2, <1>3, <1>4
     DEF vars, HandlerStep, TwilioCreate, TwilioRefuse, SetSid, SipStart, SipAnswer,
         SipClose, SipFallback, DeleteCall, ProviderEnd, WebhookUnknown, Hours

\* Where a tick goes, and what it takes along into "decide".
LEMMA TickGoes ==
    ASSUME TypeOK, NEW t \in Ticks, TickStart(t) \/ TickStep(t) \/ TickCrash(t)
    PROVE  \/ tick'[t].pc # "decide"
           \/ /\ tick'[t].queued = Cardinality(WithStatus("queued"))
              /\ tick'[t].running = Cardinality(WithStatus("running"))
              /\ UNCHANGED rows
<1>1. tick \in [Ticks -> TickState] /\ tick[t] \in TickState
  BY DEF TypeOK
<1>2. CASE TickCount(t)
  <2>1. tick'[t] = [tick[t] EXCEPT !.pc = "decide",
                                   !.queued = Cardinality(WithStatus("queued")),
                                   !.running = Cardinality(WithStatus("running"))]
    BY <1>1, <1>2 DEF TickCount
  <2> QED
    BY <1>1, <1>2, <2>1 DEF TickState, TickCount
<1>3. CASE TickStart(t)
  <2>1. tick'[t] = [IdleTick EXCEPT !.pc = "count", !.hours = hours]
    BY <1>1, <1>3 DEF TickStart
  <2> QED
    BY <2>1 DEF IdleTick
<1>4. CASE TickComplete(t) \/ TickEnd(t) \/ TickCrash(t)
  <2>1. tick'[t] = IdleTick
    BY <1>1, <1>4 DEF TickComplete, TickEnd, TickCrash
  <2> QED
    BY <2>1 DEF IdleTick
<1>5. CASE TickSelect(t)
  <2>1. PICK b : tick'[t] = [IdleTick EXCEPT !.pc = "dispatch", !.batch = b]
    BY <1>1, <1>5 DEF TickSelect
  <2> QED
    BY <2>1 DEF IdleTick
<1>6. CASE TickDispatch(t)
  <2>1. PICK e \in tick[t].batch :
            \/ tick' = [tick EXCEPT ![t].batch = @ \ {e}]
            \/ tick' = [tick EXCEPT ![t] =
                  [@ EXCEPT !.pc = "post", !.batch = tick[t].batch \ {e},
                            !.exec = e, !.loaded = MarkedRunning(rows[e])]]
    BY <1>6 DEF TickDispatch
  <2>2. tick[t].pc = "dispatch"
    BY <1>6 DEF TickDispatch
  <2>3. CASE tick' = [tick EXCEPT ![t].batch = @ \ {e}]
    BY <1>1, <2>2, <2>3 DEF TickState
  <2>4. CASE tick' = [tick EXCEPT ![t] =
                  [@ EXCEPT !.pc = "post", !.batch = tick[t].batch \ {e},
                            !.exec = e, !.loaded = MarkedRunning(rows[e])]]
    <3>1. tick'[t] = [tick[t] EXCEPT !.pc = "post", !.batch = tick[t].batch \ {e},
                                     !.exec = e, !.loaded = MarkedRunning(rows[e])]
      BY <1>1, <2>4
    <3> HIDE DEF MarkedRunning
    <3> QED
      BY <1>1, <3>1 DEF TickState
  <2> QED
    BY <2>1, <2>3, <2>4
<1>7. CASE TickPost(t)
  <2>1. PICK c : tick' = [tick EXCEPT ![t] = [tick[t] EXCEPT !.pc = "wait", !.call = c]]
    BY <1>7 DEF TickPost
  <2> QED
    BY <1>1, <2>1 DEF TickState
<1>8. CASE TickResponse(t) \/ TickFailDial(t)
  <2>1. tick' = [tick EXCEPT ![t] = Resumed(t)]
    BY <1>8 DEF TickResponse, TickFailDial
  <2> QED
    BY <1>1, <2>1 DEF Resumed, TickState
<1> QED
  BY <1>2, <1>3, <1>4, <1>5, <1>6, <1>7, <1>8 DEF TickStep

\* Every step of a calm system keeps the invariant.
LEMMA CompletionStep ==
    ASSUME Calm, TypeOK, OneOwner, CompletionInv, [Next]_vars
    PROVE  CompletionInv'
<1>1. ASSUME NEW t \in Ticks, TickStart(t) \/ TickStep(t) \/ TickCrash(t)
      PROVE  CompletionInv'
  <2>1. /\ campaign # "completed"
        /\ \A s \in Ticks : s = t
    BY <1>1 DEF CompletionInv, Calm, TickStart, TickStep, TickCrash, TickCount,
                TickComplete, TickSelect, TickEnd, TickDispatch, TickPost, TickResponse,
                TickFailDial
  <2>2. tick'[t].pc = "decide" /\ tick'[t].queued = 0 /\ tick'[t].running = 0
            => \A e \in Executions : ~Unfinished(e)'
    <3> SUFFICES ASSUME tick'[t].pc = "decide", tick'[t].queued = 0, tick'[t].running = 0,
                        NEW e \in Executions
                 PROVE  ~Unfinished(e)'
      OBVIOUS
    <3>1. /\ Cardinality(WithStatus("queued")) = 0 /\ Cardinality(WithStatus("running")) = 0
          /\ UNCHANGED rows
      BY <1>1, TickGoes
    <3> QED
      BY <3>1, CountZero DEF Unfinished
  <2>3. campaign' = "completed" => /\ \A e \in Executions : Settled(rows'[e])
                                   /\ \A s \in Ticks : tick'[s].pc = "idle"
    <3> SUFFICES ASSUME campaign' = "completed"
                 PROVE  /\ \A e \in Executions : Settled(rows'[e])
                        /\ \A s \in Ticks : tick'[s].pc = "idle"
      OBVIOUS
    <3>1. TickComplete(t)
      BY <1>1, <2>1 DEF TickStart, TickStep, TickCrash, TickCount, TickSelect, TickEnd,
                        TickDispatch, TickPost, TickResponse, TickFailDial
    <3>2. \A s \in Ticks : tick'[s].pc = "idle"
      BY <2>1, <3>1 DEF TickComplete, TypeOK, IdleTick
    <3>3. \A e \in Executions : ~Unfinished(e) /\ rows[e].retry_status # "scheduled"
      BY <3>1 DEF TickComplete, NothingLeft, CompletionInv, ScheduledRetries
    <3>4. UNCHANGED rows
      BY <3>1 DEF TickComplete
    <3> QED
      BY <3>2, <3>3, <3>4 DEF Settled, Unfinished, TypeOK, Row, ExecStatus
  <2> QED
    BY <2>1, <2>2, <2>3 DEF CompletionInv
<1>2. CASE \/ \E c \in Calls : \/ HandlerStep(c) \/ DeleteCall(c) \/ ProviderEnd(c)
                               \/ WebhookUnknown(c) \/ Webhook(c)
           \/ \E e \in Executions : Elapse(e)
           \/ Hours
           \/ UNCHANGED vars
  <2>1. /\ UNCHANGED <<campaign, tick>>
        /\ \A e \in Executions : Unfinished(e)' => Unfinished(e)
    BY <1>2, OthersFinish
  <2>2. \A e \in Executions : Settled(rows[e]) => Settled(rows'[e])
    BY SettledStep
  <2> QED
    BY <2>1, <2>2 DEF CompletionInv
<1> QED
  BY <1>1, <1>2 DEF Next

\* When the campaign is completed every lead is settled and no call is up: the
\* queries of the completion test, made at different times, cannot together
\* miss a lead.
THEOREM CompletedMeansSettledCorrect ==
    ASSUME Calm
    PROVE  Spec => []CompletedMeansSettled
<1>1. TypeOK /\ OneOwner /\ CompletionInv /\ [Next]_vars => CompletionInv'
  BY CompletionStep
<1>2. OneOwner /\ CompletionInv => CompletedMeansSettled
  <2> SUFFICES ASSUME OneOwner, CompletionInv, campaign = "completed"
               PROVE  /\ \A e \in Executions : Settled(rows[e])
                      /\ \A c \in Calls : calls[c].leg # "live"
    BY DEF CompletedMeansSettled
  <2>1. \A e \in Executions : Settled(rows[e])
    BY DEF CompletionInv
  <2>2. \A c \in Calls : calls[c].leg # "live"
    BY <2>1, LiveOwes DEF OneOwner, Settled
  <2> QED
    BY <2>1, <2>2
<1> QED
  BY <1>1, <1>2, CompletionInit, TypeCorrect, OwnerCorrect, PTL DEF Spec

-----------------------------------------------------------------------------
(* The dialing pipeline implements LeadLifecycle. *)

\* The columns of a row that say where its lead is.
SameLife(r, s) ==
    /\ r.status = s.status
    /\ r.retry_status = s.retry_status
    /\ r.attempt_number = s.attempt_number

\* Until the API has answered, or when it has refused, nobody else has written
\* to the row that the tick loaded.
Fresh(t) ==
    \/ tick[t].pc = "post"
    \/ tick[t].pc = "wait" /\ calls[tick[t].call].stage \in {"requested", "refused"}

LifeInv ==
    /\ \A c \in Calls : calls[c].stage = "free" => calls[c].exec = NoExec
    /\ \A t \in Ticks : Fresh(t) => SameLife(rows[tick[t].exec], tick[t].loaded)

\* All that the refinement rests on.
LifeFacts ==
    /\ TypeOK /\ OneOwner /\ CompletionInv /\ CapInv /\ LifeInv

-----------------------------------------------------------------------------
(* Where a lead is. *)

\* The cases of PhaseOf.
LEMMA PhaseCases ==
    ASSUME NEW e \in Executions, TypeOK
    PROVE  /\ rows[e].status = "queued" => PhaseOf(e) = "waiting"
           /\ rows[e].status = "running" /\ Calling(e) => PhaseOf(e) = "calling"
           /\ rows[e].status = "running" /\ ~Calling(e) => PhaseOf(e) = "claimed"
           /\ rows[e].status \in {"completed", "failed"} =>
                 PhaseOf(e) = IF rows[e].retry_status = "scheduled" THEN "parked" ELSE "settled"
<1>1. rows[e].status \in ExecStatus
  BY DEF TypeOK, Row
<1> QED
  BY <1>1 DEF PhaseOf, Calling, ExecStatus

\* A lead stays where it is when neither its row nor the debts of its calls change.
LEMMA PhaseKept ==
    ASSUME TypeOK, TypeOK', NEW e \in Executions,
           rows'[e].status = rows[e].status,
           rows'[e].retry_status = rows[e].retry_status,
           Calling(e)' <=> Calling(e)
    PROVE  PhaseOf(e)' = PhaseOf(e)
<1>1. rows[e].status \in {"queued", "running", "completed", "failed"}
  BY DEF TypeOK, Row, ExecStatus
<1> QED
  BY <1>1 DEF PhaseOf, Calling

\* A call under way belongs to a running row.
LEMMA CallingRuns ==
    ASSUME OneOwner, NEW e \in Executions, Calling(e)
    PROVE  rows[e].status = "running"
BY DEF OneOwner, Calling, CallsOf

\* The debts of a lead's calls when no call changes its lead or its debt.
LEMMA CallingKept ==
    ASSUME NEW e \in Executions,
           \A c \in Calls : calls'[c].exec = calls[c].exec /\ (Owing(c)' <=> Owing(c))
    PROVE  /\ Calling(e)' <=> Calling(e)
           /\ CallsOf(e)' = CallsOf(e)
BY DEF Calling, CallsOf

\* Every lead stays where it is.
LEMMA NothingMoves ==
    ASSUME TypeOK, TypeOK',
           \A c \in Calls : calls'[c].exec = calls[c].exec /\ (Owing(c)' <=> Owing(c)),
           \A e \in Executions : SameLife(rows'[e], rows[e]),
           campaign' = campaign
    PROVE  UNCHANGED Lifecycle!vars
<1>1. \A e \in Executions : PhaseOf(e)' = PhaseOf(e) /\ CallsOf(e)' = CallsOf(e)
  BY CallingKept, PhaseKept DEF SameLife
<1>2. [e \in Executions |-> PhaseOf(e)]' = [e \in Executions |-> PhaseOf(e)]
  BY <1>1
<1>3. [e \in Executions |-> Cardinality(CallsOf(e))]'
          = [e \in Executions |-> Cardinality(CallsOf(e))]
  BY <1>1
<1>4. [e \in Executions |-> rows[e].attempt_number]'
          = [e \in Executions |-> rows[e].attempt_number]
  BY DEF SameLife
<1> QED
  BY <1>2, <1>3, <1>4 DEF Lifecycle!vars

-----------------------------------------------------------------------------
(* One lead moves. *)

\* The lead e, and no other, has been written to.
OnlyMoves(e) ==
    /\ \A d \in Executions : d # e => SameLife(rows'[d], rows[d])
    /\ \A c \in Calls : /\ calls'[c].exec = calls[c].exec
                        /\ calls[c].exec # e => (Owing(c)' <=> Owing(c))

\* The other leads stay where they are, and nobody is called anew.
LEMMA OthersStay ==
    ASSUME TypeOK, TypeOK', NEW e \in Executions, OnlyMoves(e)
    PROVE  /\ \A d \in Executions : CallsOf(d)' = CallsOf(d)
           /\ \A d \in Executions : d # e => /\ PhaseOf(d)' = PhaseOf(d)
                                            /\ rows'[d].attempt_number = rows[d].attempt_number
<1>1. \A d \in Executions : CallsOf(d)' = CallsOf(d)
  BY DEF OnlyMoves, CallsOf
<1>2. ASSUME NEW d \in Executions, d # e
      PROVE  /\ PhaseOf(d)' = PhaseOf(d)
             /\ rows'[d].attempt_number = rows[d].attempt_number
  <2>1. Calling(d)' <=> Calling(d)
    BY <1>2 DEF OnlyMoves, Calling, CallsOf
  <2> QED
    BY <1>2, <2>1, PhaseKept DEF OnlyMoves, SameLife
<1> QED
  BY <1>1, <1>2

\* An outcome is processed on the row of a waiting lead or of one being called.
LEMMA OutcomeMoves ==
    ASSUME TypeOK, TypeOK', OneOwner', NEW e \in Executions, NEW o, OnlyMoves(e),
           SameLife(rows'[e], ProcessOutcome(rows[e], o)),
           PhaseOf(e) \in {"waiting", "calling"},
           campaign = "active", campaign' = campaign
    PROVE  Lifecycle!Settle(e) \/ Lifecycle!Park(e)
<1> DEFINE new == ProcessOutcome(rows[e], o)
<1>1. rows[e] \in Row /\ rows'[e] \in Row
  BY DEF TypeOK
<1>2. /\ new.status \in {"failed", "completed"}
      /\ new.retry_status = RetryStatusAfter(rows[e], o)
      /\ new.attempt_number = IF Again(rows[e], o) THEN rows[e].attempt_number + 1
                              ELSE rows[e].attempt_number
  BY <1>1 DEF ProcessOutcome, Row
<1> HIDE DEF new
<1>3. /\ rows'[e].status \in {"failed", "completed"}
      /\ rows'[e].retry_status = RetryStatusAfter(rows[e], o)
      /\ rows'[e].attempt_number = IF Again(rows[e], o) THEN rows[e].attempt_number + 1
                                   ELSE rows[e].attempt_number
  BY <1>2 DEF SameLife, new
<1>4. /\ Again(rows[e], o) => RetryStatusAfter(rows[e], o) = "scheduled"
      /\ ~Again(rows[e], o) => RetryStatusAfter(rows[e], o) # "scheduled"
      /\ Again(rows[e], o) => rows[e].attempt_number < MaxAttempts
  BY DEF RetryStatusAfter, Again, AttemptsLeft
<1>5. PhaseOf(e)' = IF Again(rows[e], o) THEN "parked" ELSE "settled"
  BY <1>3, <1>4 DEF PhaseOf
<1>6. [d \in Executions |-> PhaseOf(d)]'
          = [[d \in Executions |-> PhaseOf(d)] EXCEPT ![e] = PhaseOf(e)']
  BY OthersStay
<1>7. [d \in Executions |-> Cardinality(CallsOf(d))]'
          = [d \in Executions |-> Cardinality(CallsOf(d))]
  BY OthersStay
<1>8. [d \in Executions |-> rows[d].attempt_number]'
          = [[d \in Executions |-> rows[d].attempt_number]
                EXCEPT ![e] = rows'[e].attempt_number]
  BY OthersStay
<1>9. CASE Again(rows[e], o)
  <2>1. [d \in Executions |-> rows[d].attempt_number]'
            = [[d \in Executions |-> rows[d].attempt_number] EXCEPT ![e] = @ + 1]
    BY <1>3, <1>8, <1>9
  <2> QED
    BY <1>4, <1>5, <1>6, <1>7, <1>9, <2>1 DEF Lifecycle!Park
<1>10. CASE ~Again(rows[e], o)
  <2>1. [d \in Executions |-> rows[d].attempt_number]'
            = [d \in Executions |-> rows[d].attempt_number]
    BY <1>3, <1>8, <1>10
  <2> QED
    BY <1>5, <1>6, <1>7, <1>10, <2>1 DEF Lifecycle!Settle
<1> QED
  BY <1>9, <1>10

-----------------------------------------------------------------------------
(* The copy a tick works from. *)

\* Nothing is loaded and nothing is called before the first tick.
LEMMA LifeInit == Init => LifeInv
BY DEF Init, LifeInv, Fresh, FreeCall, IdleTick

\* A step of the API or the provider moves a call along its stages.
Moves(c) ==
    /\ calls'[c].exec = calls[c].exec
    /\ calls'[c].stage = "free" <=> calls[c].stage = "free"
    /\ calls'[c].stage = "requested" => calls[c].stage = "requested"
    /\ calls'[c].stage = "refused" => calls[c].stage \in {"requested", "refused"}

\* The API, the provider and time: a row the tick has loaded is not theirs to
\* write, as long as its call has not left the API.
LEMMA LifeOthers ==
    ASSUME Calm, TypeOK, OneOwner, LifeInv,
           \/ \E c \in Calls : HandlerStep(c) \/ ProviderEnd(c) \/ Webhook(c)
           \/ \E e \in Executions : Elapse(e)
           \/ Hours
           \/ UNCHANGED vars
    PROVE  LifeInv'
<1>1. \A c \in Calls : /\ calls'[c].exec = calls[c].exec
                       /\ calls'[c].stage = "free" <=> calls[c].stage = "free"
                       /\ calls'[c].stage = "requested" => calls[c].stage = "requested"
                       /\ calls'[c].stage = "refused" =>
                             calls[c].stage \in {"requested", "refused"}
  <2>1. ASSUME NEW c \in Calls, HandlerStep(c) \/ ProviderEnd(c) \/ Webhook(c)
        PROVE  /\ \A d \in Calls : d # c => calls'[d] = calls[d]
               /\ Moves(c)
    <3>0. calls \in [Calls -> Call] /\ calls[c] \in Call
      BY DEF TypeOK
    <3>1. CASE TwilioCreate(c)
      BY <3>0, <3>1 DEF Call, TwilioCreate, Moves
    <3>2. CASE TwilioRefuse(c)
      BY <3>0, <3>2 DEF Call, TwilioRefuse, Moves
    <3>3. CASE SetSid(c)
      BY <3>0, <3>3 DEF Call, SetSid, Moves
    <3>4. CASE SipStart(c)
      BY <3>0, <3>4 DEF Call, SipStart, Moves
    <3>5. CASE SipAnswer(c)
      BY <3>0, <3>5 DEF Call, SipAnswer, Moves
    <3>6. CASE SipClose(c)
      <4>1. calls'[c] = [calls[c] EXCEPT !.stage = "closed",
                            !.leg = IF calls[c].leg = "live" THEN "ended" ELSE "none"]
        BY <3>0, <3>6 DEF SipClose
      <4>2. calls'[c].exec = calls[c].exec /\ calls'[c].stage = "closed"
        BY <3>0, <4>1 DEF Call
      <4> QED
        BY <3>0, <3>6, <4>2 DEF SipClose, Moves
    <3>7. CASE SipFallback(c)
      BY <3>0, <3>7 DEF Call, SipFallback, Moves
    <3>8. CASE ProviderEnd(c)
      <4>1. PICK o : calls' = [calls EXCEPT ![c] =
                         [calls[c] EXCEPT !.leg = "ended", !.hook = "sent", !.outcome = o]]
        BY <3>8 DEF ProviderEnd
      <4> QED
        BY <3>0, <4>1 DEF Call, Moves
    <3>9. CASE Webhook(c)
      BY <3>0, <3>9 DEF Call, Webhook, Moves
    <3> QED
      BY <2>1, <3>1, <3>2, <3>3, <3>4, <3>5, <3>6, <3>7, <3>8, <3>9 DEF HandlerStep
  <2>2. CASE \E c \in Calls : HandlerStep(c) \/ ProviderEnd(c) \/ Webhook(c)
    <3>1. PICK c \in Calls : HandlerStep(c) \/ ProviderEnd(c) \/ Webhook(c)
      BY <2>2
    <3>2. Moves(c) /\ \A d \in Calls : d # c => calls'[d] = calls[d]
      BY <2>1, <3>1
    <3> QED
      BY <3>2 DEF Moves
  <2>3. CASE (\E e \in Executions : Elapse(e)) \/ Hours \/ UNCHANGED vars
    BY <2>3 DEF Elapse, Hours, vars
  <2> QED
    BY <2>2, <2>3
<1>2. UNCHANGED tick
  BY DEF HandlerStep, TwilioCreate, TwilioRefuse, SetSid, SipStart, SipAnswer, SipClose,
         SipFallback, ProviderEnd, Webhook, Elapse, Hours, vars
<1>3. ASSUME NEW t \in Ticks, Fresh(t)'
      PROVE  Fresh(t) /\ SameLife(rows'[tick[t].exec], rows[tick[t].exec])
  <2>1. TickShape(t) /\ Fresh(t)
    BY <1>1, <1>2, <1>3 DEF Fresh, OneOwner, TickShape
  <2>2. CASE \E c \in Calls : Webhook(c)
    <3>1. PICK c \in Calls : Webhook(c)
      BY <2>2
    <3>2. Owing(c) /\ calls[c].stage = "bound"
      BY <3>1 DEF Webhook, Owing
    <3>3. tick[t].exec # calls[c].exec
      <4>1. CASE tick[t].pc = "post"
        BY <2>1, <3>2, <4>1 DEF TickShape
      <4>2. CASE tick[t].pc = "wait"
        <5>1. Owing(tick[t].call) /\ tick[t].call # c
          BY <2>1, <3>2, <4>2 DEF Fresh, Owing, TickShape
        <5> QED
          BY <2>1, <3>2, <4>2, <5>1 DEF OneOwner, TickShape
      <4> QED
        BY <2>1, <4>1, <4>2 DEF Fresh
    <3> QED
      BY <2>1, <3>1, <3>3 DEF Webhook, SameLife, TypeOK
  <2>3. CASE \E e \in Executions : Elapse(e)
    <3>1. tick[t].exec \in Executions
      BY <2>1 DEF Fresh, TickShape, OneOwner, Owing
    <3> QED
      BY <2>1, <2>3, <3>1 DEF Elapse, SameLife, TypeOK, Row
  <2>4. CASE UNCHANGED rows
    BY <2>1, <2>4 DEF SameLife
  <2> QED
    BY <2>1, <2>2, <2>3, <2>4
       DEF HandlerStep, TwilioCreate, TwilioRefuse, SetSid, SipStart, SipAnswer,
           SipClose, SipFallback, ProviderEnd, Hours, vars
<1> QED
  BY <1>1, <1>2, <1>3 DEF LifeInv, SameLife

\* The tick itself: it loads the row that it marks, and asks for a new call.
LEMMA LifeTick ==
    ASSUME Calm, TypeOK, LifeInv, NEW t \in Ticks, TickStart(t) \/ TickStep(t)
    PROVE  LifeInv'
<1>0. /\ tick \in [Ticks -> TickState] /\ tick[t] \in TickState
      /\ \A s \in Ticks : s = t
  BY DEF TypeOK, Calm
<1>1. CASE TickPost(t)
  <2>1. PICK c \in Calls :
            /\ calls[c].stage = "free"
            /\ calls' = [calls EXCEPT ![c] =
                  [calls[c] EXCEPT !.stage = "requested", !.exec = tick[t].exec]]
            /\ tick' = [tick EXCEPT ![t] = [tick[t] EXCEPT !.pc = "wait", !.call = c]]
    <3> DEFINE c == CHOOSE d \in Calls : calls[d].stage = "free"
    <3>1. c \in Calls /\ calls[c].stage = "free"
      BY <1>1 DEF TickPost
    <3>2. /\ calls' = [calls EXCEPT ![c] =
                [calls[c] EXCEPT !.stage = "requested", !.exec = tick[t].exec]]
          /\ tick' = [tick EXCEPT ![t] = [tick[t] EXCEPT !.pc = "wait", !.call = c]]
      BY <1>1 DEF TickPost
    <3> HIDE DEF c
    <3> QED
      BY <3>1, <3>2
  <2>2. tick'[t].exec = tick[t].exec /\ tick'[t].loaded = tick[t].loaded
    BY <1>0, <2>1 DEF TickState
  <2>3. Fresh(t) /\ UNCHANGED rows
    BY <1>1 DEF TickPost, Fresh
  <2>4. \A d \in Calls : calls'[d].stage = "free" => calls'[d].exec = NoExec
    BY <2>1 DEF TypeOK, Call, LifeInv
  <2> QED
    BY <1>0, <2>2, <2>3, <2>4 DEF LifeInv
<1>2. CASE TickDispatch(t)
  <2>1. PICK e \in tick[t].batch :
            IF e \in Undialable
            THEN /\ rows' = [rows EXCEPT ![e] = ProcessOutcome(@, "failed")]
                 /\ tick' = [tick EXCEPT ![t].batch = @ \ {e}]
            ELSE /\ rows' = [rows EXCEPT ![e] = MarkedRunning(@)]
                 /\ tick' = [tick EXCEPT ![t] =
                       [@ EXCEPT !.pc = "post", !.batch = tick[t].batch \ {e},
                                 !.exec = e, !.loaded = MarkedRunning(rows[e])]]
    BY <1>2 DEF TickDispatch
  <2>2. e \in Executions /\ tick[t].pc = "dispatch" /\ UNCHANGED calls
    BY <1>0, <1>2 DEF TickDispatch, TickState
  <2>3. CASE e \in Undialable
    <3>1. tick'[t].pc = "dispatch"
      BY <1>0, <2>1, <2>2, <2>3 DEF TickState
    <3> QED
      BY <1>0, <2>2, <3>1 DEF LifeInv, Fresh
  <2>4. CASE e \notin Undialable
    <3>1. tick'[t] = [tick[t] EXCEPT !.pc = "post", !.batch = tick[t].batch \ {e},
                                     !.exec = e, !.loaded = MarkedRunning(rows[e])]
      BY <1>0, <2>1, <2>4
    <3>2. tick'[t].exec = e /\ tick'[t].loaded = MarkedRunning(rows[e])
      <4> HIDE DEF MarkedRunning
      <4> QED
        BY <1>0, <3>1 DEF TickState
    <3>3. rows'[e] = MarkedRunning(rows[e])
      BY <2>1, <2>2, <2>4 DEF TypeOK
    <3>4. SameLife(rows'[tick'[t].exec], tick'[t].loaded)
      BY <3>2, <3>3 DEF SameLife
    <3> QED
      BY <1>0, <2>2, <3>4 DEF LifeInv
  <2> QED
    BY <2>3, <2>4
<1>3. CASE TickStart(t) \/ TickCount(t) \/ TickComplete(t) \/ TickSelect(t) \/ TickEnd(t)
           \/ TickResponse(t) \/ TickFailDial(t)
  <2>1. UNCHANGED calls
    BY <1>3 DEF TickStart, TickCount, TickComplete, TickSelect, TickEnd, TickResponse,
                TickFailDial
  <2>2. tick'[t].pc \notin {"post", "wait"}
    <3>1. CASE TickStart(t) \/ TickComplete(t) \/ TickEnd(t)
      <4>1. \/ tick'[t] = IdleTick
            \/ tick'[t] = [IdleTick EXCEPT !.pc = "count", !.hours = hours]
        BY <1>0, <3>1 DEF TickStart, TickComplete, TickEnd
      <4>2. IdleTick.pc = "idle" /\ [IdleTick EXCEPT !.pc = "count", !.hours = hours].pc = "count"
        BY DEF IdleTick
      <4> HIDE DEF IdleTick
      <4> QED
        BY <4>1, <4>2
    <3>2. CASE TickCount(t)
      <4>1. PICK q, r : tick'[t] = [tick[t] EXCEPT !.pc = "decide", !.queued = q, !.running = r]
        BY <1>0, <3>2 DEF TickCount
      <4> QED
        BY <1>0, <4>1 DEF TickState
    <3>3. CASE TickSelect(t)
      BY <1>0, <3>3 DEF TickSelect, IdleTick
    <3>4. CASE TickResponse(t) \/ TickFailDial(t)
      <4>1. tick'[t] = Resumed(t)
        BY <1>0, <3>4 DEF TickResponse, TickFailDial
      <4> QED
        BY <1>0, <4>1 DEF Resumed, TickState
    <3> QED
      BY <1>3, <3>1, <3>2, <3>3, <3>4
  <2> QED
    BY <1>0, <2>1, <2>2 DEF LifeInv, Fresh
<1> QED
  BY <1>1, <1>2, <1>3 DEF TickStep

-----------------------------------------------------------------------------
(* Step by step: the API, the provider and time. *)

\* Until its outcome is processed, nothing a call does moves its lead.
LEMMA CallMapsToStutter ==
    ASSUME Calm, TypeOK, TypeOK', OneOwner, NEW c \in Calls,
           HandlerStep(c) \/ ProviderEnd(c)
    PROVE  UNCHANGED Lifecycle!vars
<1>1. /\ calls \in [Calls -> Call] /\ calls[c] \in Call /\ CallShape(c)
      /\ UNCHANGED <<rows, tick, campaign>>
  BY DEF TypeOK, OneOwner, HandlerStep, ProviderEnd, TwilioCreate, TwilioRefuse, SetSid,
         SipStart, SipAnswer, SipClose, SipFallback
<1>2. /\ \A d \in Calls : d # c => calls'[d] = calls[d]
      /\ calls'[c].exec = calls[c].exec
      /\ Owing(c)' <=> Owing(c)
  <2>1. CASE TwilioCreate(c)
    BY <1>1, <2>1 DEF Call, CallShape, TwilioCreate, Owing
  <2>2. CASE TwilioRefuse(c)
    BY <1>1, <2>2 DEF Call, CallShape, TwilioRefuse, Owing
  <2>3. CASE SetSid(c)
    BY <1>1, <2>3 DEF Call, SetSid, Owing
  <2>4. CASE SipStart(c)
    BY <1>1, <2>4 DEF Call, SipStart, Owing
  <2>5. CASE SipAnswer(c)
    BY <1>1, <2>5 DEF Call, SipAnswer, Owing
  <2>6. CASE SipClose(c)
    <3>1. calls'[c] = [calls[c] EXCEPT !.stage = "closed",
                           !.leg = IF calls[c].leg = "live" THEN "ended" ELSE "none"]
      BY <1>1, <2>6 DEF SipClose
    <3>2. calls'[c].exec = calls[c].exec /\ calls'[c].stage = "closed"
      BY <1>1, <3>1 DEF Call
    <3> QED
      BY <1>1, <2>6, <3>2 DEF SipClose, Owing
  <2>7. CASE SipFallback(c)
    BY <1>1, <2>7 DEF Call, CallShape, SipFallback, Owing
  <2>8. CASE ProviderEnd(c)
    <3>1. PICK o : calls' = [calls EXCEPT ![c] =
                       [calls[c] EXCEPT !.leg = "ended", !.hook = "sent", !.outcome = o]]
      BY <2>8 DEF ProviderEnd
    <3>2. calls[c].stage \in {"placed", "bound"} /\ calls[c].leg = "live"
      BY <2>8 DEF ProviderEnd
    <3> QED
      BY <1>1, <3>1, <3>2 DEF Call, CallShape, Owing
  <2> QED
    BY <2>1, <2>2, <2>3, <2>4, <2>5, <2>6, <2>7, <2>8 DEF HandlerStep
<1>3. \A d \in Calls : calls'[d].exec = calls[d].exec /\ (Owing(d)' <=> Owing(d))
  BY <1>1, <1>2 DEF Owing
<1> QED
  BY <1>1, <1>3, NothingMoves DEF SameLife

\* Neither does the passing of time.
LEMMA TimeMapsToStutter ==
    ASSUME TypeOK, TypeOK', (\E e \in Executions : Elapse(e)) \/ Hours \/ UNCHANGED vars
    PROVE  UNCHANGED Lifecycle!vars
<1>1. UNCHANGED <<calls, tick, campaign>>
  BY DEF Elapse, Hours, vars
<1>2. \A e \in Executions : SameLife(rows'[e], rows[e])
  BY DEF SameLife, Elapse, Hours, vars, TypeOK, Row
<1>3. \A c \in Calls : calls'[c].exec = calls[c].exec /\ (Owing(c)' <=> Owing(c))
  BY <1>1 DEF Owing
<1> QED
  BY <1>1, <1>2, <1>3, NothingMoves

\* As long as some lead has not settled, the campaign is open.
LEMMA CampaignOpen ==
    ASSUME TypeOK, CompletionInv,
           \/ \E e \in Executions : ~Settled(rows[e])
           \/ \E t \in Ticks : tick[t].pc # "idle"
    PROVE  campaign = "active"
BY DEF TypeOK, CompletionInv

\* The callback settles or parks the lead whose call it reports.
LEMMA WebhookMapsToOutcome ==
    ASSUME Calm, TypeOK, TypeOK', OneOwner, OneOwner', CompletionInv, NEW c \in Calls,
           Webhook(c)
    PROVE  \E e \in Executions : Lifecycle!Settle(e) \/ Lifecycle!Park(e)
<1>1. PICK x : x = calls[c].exec
  OBVIOUS
<1>2. /\ calls[c].stage = "bound" /\ calls[c].hook = "sent"
      /\ UNCHANGED <<tick, campaign>>
      /\ rows' = [rows EXCEPT ![x] = ProcessOutcome(rows[x], calls[c].outcome)]
      /\ calls' = [calls EXCEPT ![c].hook = "done"]
  BY <1>1 DEF Webhook, Calm
<1>3. Owing(c) /\ x \in Executions /\ rows[x].status = "running"
  BY <1>1, <1>2 DEF Owing, OneOwner
<1>4. PhaseOf(x) = "calling"
  BY <1>1, <1>3 DEF PhaseOf, Calling, CallsOf
<1>5. campaign = "active"
  BY <1>3, CampaignOpen DEF Settled
<1>6. rows'[x] = ProcessOutcome(rows[x], calls[c].outcome)
  BY <1>2, <1>3 DEF TypeOK
<1>7. OnlyMoves(x)
  <2>1. \A d \in Calls : calls'[d].exec = calls[d].exec
    BY <1>2 DEF TypeOK, Call
  <2>2. \A d \in Calls : d # c => (Owing(d)' <=> Owing(d))
    BY <1>2 DEF TypeOK, Owing
  <2>3. \A d \in Executions : d # x => rows'[d] = rows[d]
    BY <1>2 DEF TypeOK
  <2> QED
    BY <1>1, <2>1, <2>2, <2>3 DEF OnlyMoves, SameLife
<1>8. SameLife(rows'[x], ProcessOutcome(rows[x], calls[c].outcome))
  BY <1>6 DEF SameLife
<1> QED
  BY <1>2, <1>3, <1>4, <1>5, <1>7, <1>8, OutcomeMoves

-----------------------------------------------------------------------------
(* Step by step: the tick. *)

\* The bulk requeue wakes the parked leads whose time has come.
LEMMA StartMapsToWake ==
    ASSUME Calm, TypeOK, TypeOK', OneOwner, NEW t \in Ticks, TickStart(t)
    PROVE  (\E S \in SUBSET Executions : Lifecycle!Wake(S)) \/ UNCHANGED Lifecycle!vars
<1> DEFINE S == {e \in Executions : hours /\ rows[e].retry_status = "scheduled"
                                         /\ rows[e].next_retry_at = "due"}
<1>0. /\ rows \in [Executions -> Row] /\ tick \in [Ticks -> TickState]
      /\ \A s \in Ticks : s = t
      /\ campaign = "active" /\ UNCHANGED <<campaign, calls>>
      /\ tick[t].pc = "idle"
  BY DEF TypeOK, Calm, TickStart
<1>1. tick'[t].pc # "wait"
  <2>1. tick'[t] = [IdleTick EXCEPT !.pc = "count", !.hours = hours]
    BY <1>0 DEF TickStart
  <2> QED
    BY <2>1 DEF IdleTick
<1>2. \A c \in Calls : calls'[c].exec = calls[c].exec /\ (Owing(c)' <=> Owing(c))
  BY <1>0, <1>1 DEF Owing
<1>3. \A e \in Executions : CallsOf(e)' = CallsOf(e) /\ (Calling(e)' <=> Calling(e))
  BY <1>2, CallingKept
<1>4. \A e \in Executions : rows'[e] = IF e \in S THEN Requeued(rows[e]) ELSE rows[e]
  BY <1>0 DEF TickStart, Requeued
<1>5. \A e \in S : /\ rows'[e].status = "queued"
                   /\ rows'[e].attempt_number = rows[e].attempt_number
                   /\ rows[e].status \notin {"queued", "running"}
                   /\ rows[e].retry_status = "scheduled"
  <2> SUFFICES ASSUME NEW e \in S
               PROVE  /\ rows'[e].status = "queued"
                      /\ rows'[e].attempt_number = rows[e].attempt_number
                      /\ rows[e].status \notin {"queued", "running"}
                      /\ rows[e].retry_status = "scheduled"
    OBVIOUS
  <2>1. /\ e \in Executions /\ rows[e].retry_status = "scheduled"
        /\ rows[e].next_retry_at = "due" /\ rows[e] \in Row
    BY <1>0
  <2>2. rows'[e] = [rows[e] EXCEPT !.status = "queued", !.retry_status = "pending",
                                   !.next_retry_at = "none"]
    BY <1>4, <2>1 DEF Requeued
  <2>3. rows'[e].status = "queued" /\ rows'[e].attempt_number = rows[e].attempt_number
    BY <2>1, <2>2 DEF Row
  <2>4. rows[e].status \notin {"queued", "running"}
    BY <2>1 DEF OneOwner
  <2> QED
    BY <2>1, <2>3, <2>4
<1>6. \A e \in Executions : rows'[e].attempt_number = rows[e].attempt_number
  BY <1>4, <1>5
<1>7. \A e \in S : PhaseOf(e) = "parked" /\ PhaseOf(e)' = "waiting"
  BY <1>5 DEF PhaseOf
<1>8. \A e \in Executions : e \notin S => PhaseOf(e)' = PhaseOf(e)
  BY <1>3, <1>4, PhaseKept
<1>9. S \in SUBSET Executions
  OBVIOUS
<1> HIDE DEF S
<1>10. [e \in Executions |-> PhaseOf(e)]'
           = [e \in Executions |-> IF e \in S THEN "waiting"
                                   ELSE [d \in Executions |-> PhaseOf(d)][e]]
  BY <1>7, <1>8
<1>11. /\ [e \in Executions |-> Cardinality(CallsOf(e))]'
              = [e \in Executions |-> Cardinality(CallsOf(e))]
       /\ [e \in Executions |-> rows[e].attempt_number]'
              = [e \in Executions |-> rows[e].attempt_number]
  BY <1>3, <1>6
<1>12. CASE S # {}
  BY <1>0, <1>7, <1>9, <1>10, <1>11, <1>12 DEF Lifecycle!Wake
<1>13. CASE S = {}
  <2>1. \A e \in Executions : SameLife(rows'[e], rows[e])
    BY <1>4, <1>13 DEF SameLife
  <2> QED
    BY <1>0, <1>2, <2>1, NothingMoves
<1> QED
  BY <1>12, <1>13

\* Counting, selecting and ending are the tick's own business.
LEMMA QuietMapsToStutter ==
    ASSUME TypeOK, TypeOK', Calm, NEW t \in Ticks,
           TickCount(t) \/ TickSelect(t) \/ TickEnd(t)
    PROVE  UNCHANGED Lifecycle!vars
<1>0. /\ tick \in [Ticks -> TickState] /\ tick[t] \in TickState /\ \A s \in Ticks : s = t
      /\ UNCHANGED <<rows, calls, campaign>> /\ tick[t].pc # "wait"
  BY DEF TypeOK, Calm, TickCount, TickSelect, TickEnd
<1>1. tick'[t].pc # "wait"
  <2>1. CASE TickCount(t)
    <3>1. PICK q, r : tick'[t] = [tick[t] EXCEPT !.pc = "decide", !.queued = q, !.running = r]
      BY <1>0, <2>1 DEF TickCount
    <3> QED
      BY <1>0, <3>1 DEF TickState
  <2>2. CASE TickSelect(t)
    BY <1>0, <2>2 DEF TickSelect, IdleTick
  <2>3. CASE TickEnd(t)
    BY <1>0, <2>3 DEF TickEnd, IdleTick
  <2> QED
    BY <2>1, <2>2, <2>3
<1>2. \A c \in Calls : calls'[c].exec = calls[c].exec /\ (Owing(c)' <=> Owing(c))
  BY <1>0, <1>1 DEF Owing
<1> QED
  BY <1>0, <1>2, NothingMoves DEF SameLife

\* The completion test closes the campaign when every lead has settled.
LEMMA CompleteMapsToClose ==
    ASSUME TypeOK, TypeOK', Calm, CompletionInv, NEW t \in Ticks, TickComplete(t)
    PROVE  Lifecycle!Close
<1>0. /\ tick \in [Ticks -> TickState] /\ \A s \in Ticks : s = t
      /\ UNCHANGED <<rows, calls>> /\ tick[t].pc = "decide" /\ NothingLeft(t)
      /\ campaign' = "completed" /\ tick' = [tick EXCEPT ![t] = IdleTick]
  BY DEF TypeOK, Calm, TickComplete
<1>1. \A e \in Executions : ~Unfinished(e) /\ rows[e].retry_status # "scheduled"
  BY <1>0 DEF NothingLeft, CompletionInv, ScheduledRetries
<1>2. \A e \in Executions : PhaseOf(e) = "settled"
  BY <1>1 DEF Unfinished, PhaseOf
<1>3. campaign = "active"
  BY <1>0, CampaignOpen
<1>4. \A c \in Calls : calls'[c].exec = calls[c].exec /\ (Owing(c)' <=> Owing(c))
  <2>1. tick'[t].pc # "wait"
    BY <1>0 DEF IdleTick
  <2> QED
    BY <1>0, <2>1 DEF Owing
<1>5. \A e \in Executions : /\ PhaseOf(e)' = PhaseOf(e) /\ CallsOf(e)' = CallsOf(e)
                            /\ rows'[e].attempt_number = rows[e].attempt_number
  BY <1>0, <1>4, CallingKept, PhaseKept
<1>6. /\ [e \in Executions |-> PhaseOf(e)]' = [e \in Executions |-> PhaseOf(e)]
      /\ [e \in Executions |-> Cardinality(CallsOf(e))]'
            = [e \in Executions |-> Cardinality(CallsOf(e))]
      /\ [e \in Executions |-> rows[e].attempt_number]'
            = [e \in Executions |-> rows[e].attempt_number]
  BY <1>5
<1>7. (campaign = "active") /\ (campaign = "active")' = FALSE
  BY <1>0, <1>3
<1> QED
  BY <1>2, <1>6, <1>7 DEF Lifecycle!Close

\* A row that is dispatched was waiting, and there is room for it under the cap;
\* a lead that cannot be dialled has its outcome at once.
LEMMA DispatchMapsToClaim ==
    ASSUME Calm, TypeOK, TypeOK', OneOwner, OneOwner', CompletionInv, CapInv,
           NEW t \in Ticks, TickDispatch(t)
    PROVE  \E e \in Executions :
              Lifecycle!Claim(e) \/ Lifecycle!Settle(e) \/ Lifecycle!Park(e)
<1>1. PICK e \in tick[t].batch :
          IF e \in Undialable
          THEN /\ rows' = [rows EXCEPT ![e] = ProcessOutcome(@, "failed")]
               /\ tick' = [tick EXCEPT ![t].batch = @ \ {e}]
          ELSE /\ rows' = [rows EXCEPT ![e] = MarkedRunning(@)]
               /\ tick' = [tick EXCEPT ![t] =
                     [@ EXCEPT !.pc = "post", !.batch = tick[t].batch \ {e},
                               !.exec = e, !.loaded = MarkedRunning(rows[e])]]
  BY DEF TickDispatch
<1>2. /\ tick \in [Ticks -> TickState] /\ tick[t] \in TickState
      /\ rows \in [Executions -> Row] /\ rows[e] \in Row /\ e \in Executions
      /\ tick[t].pc = "dispatch" /\ UNCHANGED <<calls, campaign>>
      /\ \A s \in Ticks : s = t
  BY <1>1 DEF TypeOK, TickState, TickDispatch, Calm
<1>3. rows[e].status = "queued" /\ PhaseOf(e) = "waiting"
  BY <1>1 DEF OneOwner, TickShape, PhaseOf
<1>4. campaign = "active"
  BY <1>2, CampaignOpen
<1>5. tick'[t].pc # "wait"
  <2>1. CASE e \in Undialable
    BY <1>1, <1>2, <2>1 DEF TickState
  <2>2. CASE e \notin Undialable
    <3>1. tick'[t] = [tick[t] EXCEPT !.pc = "post", !.batch = tick[t].batch \ {e},
                                     !.exec = e, !.loaded = MarkedRunning(rows[e])]
      BY <1>1, <1>2, <2>2
    <3> HIDE DEF MarkedRunning
    <3> QED
      BY <1>2, <3>1 DEF TickState
  <2> QED
    BY <2>1, <2>2
<1>6. \A c \in Calls : calls'[c].exec = calls[c].exec /\ (Owing(c)' <=> Owing(c))
  BY <1>2, <1>5 DEF Owing
<1>7. \A d \in Executions : d # e => rows'[d] = rows[d]
  BY <1>1, <1>2
<1>8. OnlyMoves(e)
  BY <1>6, <1>7 DEF OnlyMoves, SameLife
<1>9. CASE e \in Undialable
  <2>1. rows'[e] = ProcessOutcome(rows[e], "failed")
    BY <1>1, <1>2, <1>9
  <2>2. SameLife(rows'[e], ProcessOutcome(rows[e], "failed"))
    BY <2>1 DEF SameLife
  <2> QED
    BY <1>2, <1>3, <1>4, <1>8, <2>2, OutcomeMoves
<1>10. CASE e \notin Undialable
  <2>1. rows'[e] = MarkedRunning(rows[e])
    BY <1>1, <1>2, <1>10
  <2>2. rows'[e].status = "running" /\ rows'[e].attempt_number = rows[e].attempt_number
    BY <1>2, <2>1 DEF MarkedRunning, Row
  <2>3. ~Calling(e)
    BY <1>2, <1>3, CallingRuns
  <2>4. PhaseOf(e)' = "claimed"
    BY <1>2, <1>6, <2>2, <2>3, CallingKept DEF PhaseOf
  <2>5. [d \in Executions |-> PhaseOf(d)]'
            = [[d \in Executions |-> PhaseOf(d)] EXCEPT ![e] = "claimed"]
    BY <1>2, <1>8, <2>4, OthersStay
  <2>6. /\ [d \in Executions |-> Cardinality(CallsOf(d))]'
              = [d \in Executions |-> Cardinality(CallsOf(d))]
        /\ [d \in Executions |-> rows[d].attempt_number]'
              = [d \in Executions |-> rows[d].attempt_number]
    BY <1>2, <1>8, <2>2, OthersStay
  <2>7. MaxConcurrent > 0 => Cardinality(Lifecycle!Busy) < MaxConcurrent
    <3>1. \A d \in Executions : PhaseOf(d) \in {"claimed", "calling"}
                                   <=> rows[d].status = "running"
      BY DEF PhaseOf
    <3>2. Lifecycle!Busy = WithStatus("running")
      BY <3>1 DEF Lifecycle!Busy, WithStatus
    <3>3. MaxConcurrent > 0 => NumRunning + Cardinality(tick[t].batch) <= MaxConcurrent
      BY <1>2 DEF CapInv, Fits
    <3>4. Cardinality(tick[t].batch) \in Nat /\ Cardinality(tick[t].batch) # 0
      BY <1>1, BatchFinite, FS_EmptySet
    <3> QED
      BY <3>2, <3>3, <3>4, RunningFinite, DialingAssumption DEF NumRunning
  <2>8. Lifecycle!Claim(e)
    <3>1. [d \in Executions |-> PhaseOf(d)][e] = "waiting"
      BY <1>2, <1>3
    <3>2. Lifecycle!Cardinality(Lifecycle!Busy) = Cardinality(Lifecycle!Busy)
      BY DEF Lifecycle!Cardinality, Cardinality
    <3> QED
      BY <1>2, <1>4, <2>5, <2>6, <2>7, <3>1, <3>2 DEF Lifecycle!Claim
  <2> QED
    BY <1>2, <2>8
<1> QED
  BY <1>9, <1>10

\* A request on its way is a call, the first for this claim.
LEMMA PostMapsToPlace ==
    ASSUME Calm, TypeOK, TypeOK', OneOwner, CompletionInv, LifeInv,
           NEW t \in Ticks, TickPost(t)
    PROVE  \E e \in Executions : Lifecycle!Place(e)
<1>1. PICK c \in Calls :
          /\ calls[c].stage = "free"
          /\ calls' = [calls EXCEPT ![c] =
                [calls[c] EXCEPT !.stage = "requested", !.exec = tick[t].exec]]
          /\ tick' = [tick EXCEPT ![t] = [tick[t] EXCEPT !.pc = "wait", !.call = c]]
  <2> DEFINE c == CHOOSE d \in Calls : calls[d].stage = "free"
  <2>1. c \in Calls /\ calls[c].stage = "free"
    BY DEF TickPost
  <2>2. /\ calls' = [calls EXCEPT ![c] =
              [calls[c] EXCEPT !.stage = "requested", !.exec = tick[t].exec]]
        /\ tick' = [tick EXCEPT ![t] = [tick[t] EXCEPT !.pc = "wait", !.call = c]]
    BY DEF TickPost
  <2> HIDE DEF c
  <2> QED
    BY <2>1, <2>2
<1>2. PICK x : x = tick[t].exec
  OBVIOUS
<1>3. /\ tick[t].pc = "post" /\ UNCHANGED <<rows, campaign>> /\ \A s \in Ticks : s = t
      /\ tick \in [Ticks -> TickState] /\ tick[t] \in TickState
      /\ calls \in [Calls -> Call] /\ calls[c] \in Call
  BY <1>1 DEF TickPost, Calm, TypeOK
<1>4. /\ x \in Executions /\ rows[x].status = "running"
      /\ \A d \in Calls : Owing(d) => calls[d].exec # x
  BY <1>2, <1>3 DEF OneOwner, TickShape
<1>5. calls'[c].exec = x /\ calls'[c].stage = "requested"
  BY <1>1, <1>2, <1>3 DEF Call
<1>6. \A d \in Calls : d # c => calls'[d] = calls[d] /\ (Owing(d)' <=> Owing(d))
  <2>1. tick'[t].call = c
    BY <1>1, <1>3 DEF TickState
  <2> QED
    BY <1>1, <1>3, <2>1 DEF Owing
<1>7. calls[c].exec = NoExec /\ ~Owing(c)
  BY <1>1 DEF LifeInv, Owing
<1>8. CallsOf(x)' = CallsOf(x) \cup {c} /\ c \notin CallsOf(x)
  BY <1>4, <1>5, <1>6, <1>7 DEF CallsOf, Executions, NoExec
<1>9. \A e \in Executions : e # x =>
          CallsOf(e)' = CallsOf(e) /\ PhaseOf(e)' = PhaseOf(e)
  <2> SUFFICES ASSUME NEW e \in Executions, e # x
               PROVE  CallsOf(e)' = CallsOf(e) /\ PhaseOf(e)' = PhaseOf(e)
    OBVIOUS
  <2>1. \A d \in Calls : calls'[d].exec = e <=> calls[d].exec = e
    BY <1>5, <1>6, <1>7 DEF Executions, NoExec
  <2>2. CallsOf(e)' = CallsOf(e)
    BY <2>1 DEF CallsOf
  <2>3. c \notin CallsOf(e)
    BY <1>7 DEF CallsOf, Executions, NoExec
  <2>4. Calling(e)' <=> Calling(e)
    BY <1>6, <2>2, <2>3 DEF Calling, CallsOf
  <2> QED
    BY <1>3, <2>2, <2>4, PhaseKept
<1>10. PhaseOf(x) = "claimed" /\ PhaseOf(x)' = "calling"
  <2>1. ~Calling(x)
    BY <1>4 DEF Calling, CallsOf
  <2>2. Calling(x)'
    BY <1>5, <1>8 DEF Calling, Owing
  <2> QED
    BY <1>3, <1>4, <2>1, <2>2 DEF PhaseOf
<1>11. Cardinality(CallsOf(x)') = Cardinality(CallsOf(x)) + 1
  <2>1. IsFiniteSet(CallsOf(x))
    BY CallsAssumption, FS_Subset DEF CallsOf
  <2> QED
    BY <1>8, <2>1, FS_AddElement
<1>12. campaign = "active"
  BY <1>3, CampaignOpen
<1>13. [d \in Executions |-> PhaseOf(d)]'
           = [[d \in Executions |-> PhaseOf(d)] EXCEPT ![x] = "calling"]
  BY <1>4, <1>9, <1>10
<1>14. [d \in Executions |-> Cardinality(CallsOf(d))]'
           = [[d \in Executions |-> Cardinality(CallsOf(d))] EXCEPT ![x] = @ + 1]
  BY <1>4, <1>9, <1>11
<1>15. [d \in Executions |-> rows[d].attempt_number]'
           = [d \in Executions |-> rows[d].attempt_number]
  BY <1>3
<1>16. Lifecycle!Place(x)
  BY <1>3, <1>4, <1>10, <1>12, <1>13, <1>14, <1>15 DEF Lifecycle!Place
<1> QED
  BY <1>4, <1>16

\* The API has accepted the call; the row's life is not in what is written back.
LEMMA ResponseMapsToStutter ==
    ASSUME Calm, TypeOK, TypeOK', OneOwner, NEW t \in Ticks, TickResponse(t)
    PROVE  UNCHANGED Lifecycle!vars
<1>1. /\ tick[t].pc = "wait" /\ UNCHANGED <<calls, campaign>>
      /\ calls[tick[t].call].http = "ok"
      /\ tick' = [tick EXCEPT ![t] = Resumed(t)]
      /\ rows' = [rows EXCEPT ![tick[t].exec] =
                     WithCall(rows[tick[t].exec], tick[t].loaded, tick[t].call)]
      /\ \A s \in Ticks : s = t
  BY DEF TickResponse, Calm
<1>3. \A e \in Executions : SameLife(WithCall(rows[e], tick[t].loaded, tick[t].call), rows[e])
  BY WithCallColumns DEF SameLife, TypeOK
<1>4. \A e \in Executions : SameLife(rows'[e], rows[e])
  BY <1>1, <1>3 DEF TypeOK, SameLife
<1>5. tick'[t].pc # "wait"
  BY <1>1 DEF TypeOK, TickState, Resumed
<1>6. calls[tick[t].call].stage # "refused"
  BY <1>1 DEF OneOwner, TickShape, CallShape
<1>7. \A c \in Calls : calls'[c].exec = calls[c].exec /\ (Owing(c)' <=> Owing(c))
  BY <1>1, <1>5, <1>6 DEF Owing
<1> QED
  BY <1>1, <1>4, <1>7, NothingMoves

\* The API has refused the call: what the retry engine made of the loaded copy is
\* what it would have made of the row.
LEMMA FailDialMapsToOutcome ==
    ASSUME Calm, TypeOK, TypeOK', OneOwner, OneOwner', CompletionInv, LifeInv,
           NEW t \in Ticks, TickFailDial(t)
    PROVE  \E e \in Executions : Lifecycle!Settle(e) \/ Lifecycle!Park(e)
<1>0. PICK x, old : x = tick[t].exec /\ old = tick[t].loaded
  OBVIOUS
<1>1. /\ tick[t].pc = "wait" /\ UNCHANGED <<calls, campaign>>
      /\ calls[tick[t].call].http = "error"
      /\ tick' = [tick EXCEPT ![t] = Resumed(t)]
      /\ rows' = [rows EXCEPT ![x] = Flush(rows[x], old, ProcessOutcome(old, "failed"))]
      /\ \A s \in Ticks : s = t
  BY <1>0 DEF TickFailDial, RequestFailed, Calm
<1>2. /\ tick[t].call \in Calls /\ calls[tick[t].call].exec = x
      /\ calls[tick[t].call].stage = "refused"
  BY <1>0, <1>1 DEF OneOwner, TickShape, CallShape
<1>3. Owing(tick[t].call) /\ x \in Executions /\ rows[x].status = "running"
  BY <1>1, <1>2 DEF Owing, OneOwner
<1>4. SameLife(rows[x], old) /\ old \in Row /\ rows[x] \in Row
  BY <1>0, <1>1, <1>2, <1>3 DEF LifeInv, Fresh, TypeOK, TickState
<1>5. SameLife(rows'[x], ProcessOutcome(rows[x], "failed"))
  <2>1. rows'[x] = Flush(rows[x], old, ProcessOutcome(old, "failed"))
    BY <1>1, <1>3 DEF TypeOK
  <2>2. SameLife(ProcessOutcome(old, "failed"), ProcessOutcome(rows[x], "failed"))
    BY <1>4 DEF SameLife, ProcessOutcome, Row, Again, AttemptsLeft, RetryStatusAfter
  <2> HIDE DEF ProcessOutcome
  <2>3. SameLife(rows'[x], ProcessOutcome(old, "failed"))
    BY <1>4, <2>1 DEF SameLife, Flush, Dirty
  <2> QED
    BY <2>2, <2>3 DEF SameLife
<1>6. PhaseOf(x) = "calling"
  BY <1>2, <1>3 DEF PhaseOf, Calling, CallsOf
<1>7. campaign = "active"
  BY <1>1, CampaignOpen
<1>8. OnlyMoves(x)
  <2>1. tick'[t].pc # "wait"
    BY <1>1 DEF TypeOK, TickState, Resumed
  <2>2. \A c \in Calls : calls[c].exec # x => (Owing(c)' <=> Owing(c))
    BY <1>1, <1>2, <2>1 DEF Owing
  <2>3. \A d \in Executions : d # x => rows'[d] = rows[d]
    BY <1>1 DEF TypeOK
  <2> QED
    BY <1>1, <2>2, <2>3 DEF OnlyMoves, SameLife
<1> QED
  BY <1>1, <1>3, <1>5, <1>6, <1>7, <1>8, OutcomeMoves

-----------------------------------------------------------------------------
(* The refinement. *)

\* The rows that _enqueue_leads commits are leads that wait.
LEMMA InitMapsToInit == Init => Lifecycle!Init
<1> SUFFICES ASSUME Init PROVE Lifecycle!Init
  OBVIOUS
<1>1. \A e \in Executions : PhaseOf(e) = "waiting" /\ rows[e].attempt_number = 1
  BY DEF Init, NewRow, PhaseOf
<1>2. \A e \in Executions : CallsOf(e) = {}
  BY DEF Init, FreeCall, CallsOf, NoExec, Executions
<1>3. \A e \in Executions : Cardinality(CallsOf(e)) = 0
  BY <1>2, FS_EmptySet
<1> QED
  BY <1>1, <1>3 DEF Init, Lifecycle!Init

\* The facts the refinement rests on are kept by every step.
LEMMA LifeFactsStep == ASSUME Calm, LifeFacts, [Next]_vars PROVE LifeFacts'
<1>1. TypeOK'
  BY TypeTick, TypeHandler, TypeProvider, TypeTime DEF LifeFacts, Next
<1>2. OneOwner' /\ CompletionInv' /\ CapInv'
  BY OwnerStep, CompletionStep, CapStep DEF LifeFacts, Calm, OneTick
<1>3. LifeInv'
  <2>1. \A c \in Calls : ~DeleteCall(c) /\ ~WebhookUnknown(c)
    BY DEF DeleteCall, WebhookUnknown, Calm, LifeFacts, OneOwner, CallShape
  <2>2. \A t \in Ticks : ~TickCrash(t)
    BY DEF TickCrash, Calm
  <2>3. ASSUME NEW t \in Ticks, TickStart(t) \/ TickStep(t) PROVE LifeInv'
    BY <2>3, LifeTick DEF LifeFacts
  <2>4. CASE \/ \E c \in Calls : HandlerStep(c) \/ ProviderEnd(c) \/ Webhook(c)
             \/ \E e \in Executions : Elapse(e)
             \/ Hours
             \/ UNCHANGED vars
    BY <2>4, LifeOthers DEF LifeFacts
  <2> QED
    BY <2>1, <2>2, <2>3, <2>4 DEF Next
<1> QED
  BY <1>1, <1>2, <1>3 DEF LifeFacts

\* Every step of the pipeline is a step of LeadLifecycle or none at all.
LEMMA StepMapsToStep ==
    ASSUME Calm, LifeFacts, LifeFacts', [Next]_vars
    PROVE  [Lifecycle!Next]_Lifecycle!vars
<1> USE DEF LifeFacts
<1>1. ASSUME NEW t \in Ticks, TickStart(t) \/ TickStep(t)
      PROVE  [Lifecycle!Next]_Lifecycle!vars
  <2>1. CASE TickStart(t)
    BY <2>1, StartMapsToWake DEF Lifecycle!Next
  <2>2. CASE TickCount(t) \/ TickSelect(t) \/ TickEnd(t)
    BY <2>2, QuietMapsToStutter
  <2>3. CASE TickComplete(t)
    BY <2>3, CompleteMapsToClose DEF Lifecycle!Next
  <2>4. CASE TickDispatch(t)
    BY <2>4, DispatchMapsToClaim DEF Lifecycle!Next
  <2>5. CASE TickPost(t)
    BY <2>5, PostMapsToPlace DEF Lifecycle!Next
  <2>6. CASE TickResponse(t)
    BY <2>6, ResponseMapsToStutter
  <2>7. CASE TickFailDial(t)
    BY <2>7, FailDialMapsToOutcome DEF Lifecycle!Next
  <2> QED
    BY <1>1, <2>1, <2>2, <2>3, <2>4, <2>5, <2>6, <2>7 DEF TickStep
<1>2. ASSUME NEW c \in Calls, HandlerStep(c) \/ ProviderEnd(c)
      PROVE  [Lifecycle!Next]_Lifecycle!vars
  BY <1>2, CallMapsToStutter
<1>3. ASSUME NEW c \in Calls, Webhook(c) PROVE [Lifecycle!Next]_Lifecycle!vars
  BY <1>3, WebhookMapsToOutcome DEF Lifecycle!Next
<1>4. CASE (\E e \in Executions : Elapse(e)) \/ Hours \/ UNCHANGED vars
  BY <1>4, TimeMapsToStutter
<1>5. /\ \A c \in Calls : ~DeleteCall(c) /\ ~WebhookUnknown(c)
      /\ \A t \in Ticks : ~TickCrash(t)
  BY DEF DeleteCall, WebhookUnknown, TickCrash, Calm, OneOwner, CallShape
<1> QED
  BY <1>1, <1>2, <1>3, <1>4, <1>5 DEF Next

\* Without faults and with one tick at a time the pipeline implements the
\* lifecycle of its leads: no call without a claim, no second call to a lead that
\* is being called, no attempt beyond max_attempts, no claim beyond the cap, no
\* way back from a settled row, no early end of the campaign.
THEOREM ImplementsLifecycleCorrect ==
    ASSUME Calm
    PROVE  Spec => ImplementsLifecycle
<1>1. Init => LifeFacts
  BY TypeInit, OwnerInit, CompletionInit, CapInit, LifeInit DEF LifeFacts
<1>2. LifeFacts /\ [Next]_vars => LifeFacts'
  BY LifeFactsStep
<1>3. LifeFacts /\ LifeFacts' /\ [Next]_vars => [Lifecycle!Next]_Lifecycle!vars
  BY StepMapsToStep
<1> QED
  BY <1>1, <1>2, <1>3, InitMapsToInit, PTL DEF Spec, ImplementsLifecycle, Lifecycle!Spec

-----------------------------------------------------------------------------
(* What the lifecycle alone shows: the budget of calls. *)

\* How often a lead has been called is a number.
LEMMA DialsType == ASSUME NEW e \in Executions PROVE Cardinality(CallsOf(e)) \in Nat
BY CallsAssumption, FS_Subset, FS_CardinalityType DEF CallsOf

\* A step of the lifecycle keeps its budget.
LEMMA BudgetStep ==
    ASSUME TypeOK, Lifecycle!Budget, [Lifecycle!Next]_Lifecycle!vars
    PROVE  Lifecycle!Budget'
<1> DEFINE phase == [e \in Executions |-> PhaseOf(e)]
           attempt == [e \in Executions |-> rows[e].attempt_number]
           dials == [e \in Executions |-> Cardinality(CallsOf(e))]
<1>1. attempt \in [Executions -> Nat] /\ dials \in [Executions -> Nat]
  BY DialsType, RetryAssumption DEF TypeOK, Row
<1>2. \A e \in Executions :
          /\ dials[e] <= attempt[e]
          /\ phase[e] \in {"waiting", "claimed", "parked"} => dials[e] < attempt[e]
  BY DEF Lifecycle!Budget
<1>3. PICK p, a, d : p = phase' /\ a = attempt' /\ d = dials'
  OBVIOUS
<1>4. \/ \E e \in Executions :
            \/ /\ phase[e] = "waiting" /\ p = [phase EXCEPT ![e] = "claimed"]
               /\ a = attempt /\ d = dials
            \/ /\ phase[e] = "claimed" /\ p = [phase EXCEPT ![e] = "calling"]
               /\ a = attempt /\ d = [dials EXCEPT ![e] = @ + 1]
            \/ /\ p = [phase EXCEPT ![e] = "settled"]
               /\ a = attempt /\ d = dials
            \/ /\ p = [phase EXCEPT ![e] = "parked"]
               /\ a = [attempt EXCEPT ![e] = @ + 1] /\ d = dials
      \/ \E S \in SUBSET Executions :
            /\ \A e \in S : phase[e] = "parked"
            /\ p = [e \in Executions |-> IF e \in S THEN "waiting" ELSE phase[e]]
            /\ a = attempt /\ d = dials
      \/ p = phase /\ a = attempt /\ d = dials
  BY <1>3 DEF Lifecycle!Next, Lifecycle!Claim, Lifecycle!Place, Lifecycle!Settle,
              Lifecycle!Park, Lifecycle!Wake, Lifecycle!Close, Lifecycle!vars
<1>5. phase = [e \in Executions |-> phase[e]]
  OBVIOUS
<1> HIDE DEF phase, attempt, dials
<1>6. \A e \in Executions :
          /\ d[e] <= a[e]
          /\ p[e] \in {"waiting", "claimed", "parked"} => d[e] < a[e]
  BY <1>1, <1>2, <1>4, <1>5
<1> QED
  BY <1>3, <1>6 DEF Lifecycle!Budget, phase, attempt, dials

\* No lead is dialled more often than max_attempts: it follows from the
\* lifecycle, in which only a claimed lead is called.
THEOREM DialsWithinBudgetCorrect ==
    ASSUME Calm
    PROVE  Spec => []DialsWithinBudget
<1>1. Lifecycle!Init => Lifecycle!Budget
  BY DEF Lifecycle!Init, Lifecycle!Budget
<1>2. TypeOK /\ Lifecycle!Budget /\ [Lifecycle!Next]_Lifecycle!vars => Lifecycle!Budget'
  BY BudgetStep
<1>3. TypeOK /\ Lifecycle!Budget => DialsWithinBudget
  <2> SUFFICES ASSUME TypeOK, Lifecycle!Budget, NEW e \in Executions
               PROVE  Cardinality(CallsOf(e)) <= MaxAttempts
    BY DEF DialsWithinBudget, CallsOf
  <2>1. Cardinality(CallsOf(e)) <= rows[e].attempt_number
    BY DEF Lifecycle!Budget
  <2>2. rows[e].attempt_number <= MaxAttempts /\ rows[e].attempt_number \in Nat
    BY RetryAssumption DEF TypeOK, Row
  <2> QED
    BY <2>1, <2>2, DialsType, RetryAssumption
<1> QED
  BY <1>1, <1>2, <1>3, TypeCorrect, ImplementsLifecycleCorrect, PTL
     DEF ImplementsLifecycle, Lifecycle!Spec
=============================================================================
