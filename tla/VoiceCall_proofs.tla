--------------------------- MODULE VoiceCall_proofs ---------------------------
(***************************************************************************)
(* One call, for every way to place it, any number of deliveries of a      *)
(* callback, callbacks before or after the SID is stored, and users who    *)
(* cancel and delete or do not.                                            *)
(***************************************************************************)
EXTENDS VoiceCall, Pacing, FiniteSetTheorems, TLAPS

\* Until it is dialled the call has no leg, and no SID before the provider has
\* answered: a leg that is over stays over.
Undialled == {"spawn", "dial", "fallback"}

LegInv ==
    /\ place \in Undialled => leg.state = "none"
    /\ place = "dialling" => leg.state = "ringing"
    /\ row.sid => place \notin Undialled \cup {"dialling"}
    /\ user.pc = "hangup" => row.sid

\* Nothing of the end of a call is told or worked on before its leg is over.
EndInv ==
    leg.state # "over" => hooks["final"] = 0 /\ jobs = {} /\ outcomes = {}

\* The drop is on record before the recording plays, and in every copy of the
\* row that is taken after.
DropInv ==
    /\ verdict = "decided" /\ ShouldDrop => row.dropped
    /\ leg.played => row.dropped /\ \A j \in jobs : j.dropped

\* Why the agent of a person on a Twilio call may have been told to stop.
StopInv ==
    setup.path = "twilio" =>
        /\ place \in {"spawn", "dial", "posted", "placed", "raised"}
        /\ setup.answered_by = "human" /\ agent.stop =>
              \/ leg.state = "over"
              \/ user.pc # "none"
              \/ place = "raised" /\ leg.state = "none"

VoiceInv == LegInv /\ EndInv /\ DropInv /\ StopInv /\ PlayedMeansVoicemail

-----------------------------------------------------------------------------
(* Types. *)

\* What a writer of the row may leave there, and what it leaves alone.
LEMMA RowType ==
    ASSUME NEW r \in CallRow, NEW status \in Status
    PROVE  /\ WithStatus(r, status) \in CallRow
           /\ WithStatus(r, status).status = status
           /\ WithStatus(r, status).sid = r.sid
           /\ WithStatus(r, status).dropped = r.dropped
           /\ WithStatus(r, status).kept = r.kept
BY DEF CallRow, WithStatus

\* The single columns.
LEMMA ColumnType ==
    ASSUME NEW r \in CallRow
    PROVE  /\ [r EXCEPT !.sid = TRUE] \in CallRow
           /\ [r EXCEPT !.kept = FALSE] \in CallRow
           /\ \A a \in AnswerType : [r EXCEPT !.amd_result = a] \in CallRow
           /\ \A a \in AnswerType, d \in BOOLEAN :
                 [r EXCEPT !.amd_result = a, !.dropped = d] \in CallRow
           /\ \A x \in {"completed", "failed"} : [r EXCEPT !.playback = x] \in CallRow
BY DEF CallRow

\* Telling an agent to stop.
LEMMA StoppedType ==
    ASSUME TypeOK
    PROVE  Stopped(agent) \in [pc : {"none", "starting", "joined", "deaf", "gone"}, stop : BOOLEAN]
BY DEF TypeOK, Stopped

\* The end of a leg.
LEMMA EndLegType ==
    ASSUME TypeOK, NEW final \in TERMINAL_STATUSES, EndLeg(final)
    PROVE  /\ leg' \in PhoneLeg
           /\ leg'.state = "over" /\ leg'.played = leg.played
           /\ hooks' \in [Kind -> 0..MaxDeliveries]
<1>1. leg \in PhoneLeg /\ leg' = [leg EXCEPT !.state = "over", !.final = final]
  BY DEF TypeOK, PhoneLeg, EndLeg
<1>2. hooks' \in [Kind -> 0..MaxDeliveries]
  BY VoiceAssumption DEF EndLeg, TypeOK
<1> QED BY <1>1, <1>2 DEF PhoneLeg

\* The call begins with well-formed rows.
LEMMA TypeInit == Init => TypeOK
BY VoiceAssumption DEF Init, CallBegins, TypeOK, CallRow, PhoneLeg, Status, TERMINAL_STATUSES,
                       Kind, Job, AnswerType

\* What the AMD answer can be.
LEMMA AnsweredByType == ASSUME TypeOK PROVE setup.answered_by \in AnswerType
BY SetupAssumption DEF TypeOK, Setup

\* Statuses by name.
LEMMA StatusNames ==
    /\ TERMINAL_STATUSES \subseteq Status
    /\ {"completed", "failed", "busy", "no-answer", "canceled"} \subseteq TERMINAL_STATUSES
    /\ {"queued", "initiated", "ringing", "in-progress"} \subseteq Status
BY DEF Status, TERMINAL_STATUSES

\* What the steps do to the leg.
LEMMA LegType ==
    ASSUME NEW l \in PhoneLeg
    PROVE  /\ \A st \in {"none", "ringing", "answering", "talking"} :
                 [l EXCEPT !.state = st] \in PhoneLeg
           /\ \A f \in TERMINAL_STATUSES : [l EXCEPT !.state = "over", !.final = f] \in PhoneLeg
           /\ [l EXCEPT !.state = "playing", !.played = TRUE] \in PhoneLeg
BY DEF PhoneLeg

\* Placing the call keeps the types.
LEMMA TypePlace == ASSUME TypeOK, Place PROVE TypeOK'
<1> USE DEF TypeOK
<1>1. CASE Spawn
  BY <1>1 DEF Spawn
<1>2. CASE Originate
  BY <1>2, LegType DEF Originate
<1>3. CASE OriginateFails
  BY <1>3, RowType, StoppedType, StatusNames DEF OriginateFails
<1>4. CASE StoreSid
  <2>1. WithStatus(row, "queued") \in CallRow
    BY RowType, StatusNames
  <2>2. row' \in CallRow
    BY <1>4, <2>1, ColumnType DEF StoreSid
  <2> QED BY <1>4, <2>2 DEF StoreSid
<1>5. CASE MarkFallback
  BY <1>5, RowType, StatusNames DEF MarkFallback
<1>6. CASE LkDial
  BY <1>6, RowType, LegType, StatusNames DEF LkDial
<1>7. CASE LkFallback
  BY <1>7, LegType DEF LkFallback
<1>8. CASE LkNotAnswered
  <2>1. PICK status \in {"failed", "busy", "no-answer"} :
             /\ row' = IF row.kept THEN WithStatus(row, status) ELSE row
             /\ leg' = [leg EXCEPT !.state = "over", !.final = status]
    BY <1>8 DEF LkNotAnswered
  <2>2. status \in Status /\ status \in TERMINAL_STATUSES
    BY StatusNames
  <2>3. row' \in CallRow
    BY <2>1, <2>2, RowType
  <2>4. leg' \in PhoneLeg
    BY <2>1, <2>2, LegType
  <2> QED BY <1>8, <2>3, <2>4, StoppedType DEF LkNotAnswered
<1>9. CASE LkAnswered
  BY <1>9, LegType DEF LkAnswered
<1>10. CASE LkMarkAnswered
  BY <1>10, RowType, ColumnType, StatusNames DEF LkMarkAnswered
<1> QED BY <1>1, <1>2, <1>3, <1>4, <1>5, <1>6, <1>7, <1>8, <1>9, <1>10 DEF Place

\* So do the agent and the answer.
LEMMA TypeAnswer ==
    ASSUME TypeOK, LkEnded \/ Agent \/ GoDeaf \/ PickUp \/ HangUp \/ Answer
    PROVE  TypeOK'
<1> USE DEF TypeOK
<1>1. CASE LkEnded
  BY <1>1, RowType, StoppedType, StatusNames DEF LkEnded
<1>2. CASE Agent \/ GoDeaf
  BY <1>2 DEF Agent, Build, Leave, GoDeaf
<1>3. CASE PickUp
  <2>0. 1 \in 0..MaxDeliveries
    BY VoiceAssumption
  <2>1. hooks' \in [Kind -> 0..MaxDeliveries]
    BY <1>3, <2>0 DEF PickUp
  <2>2. leg' \in PhoneLeg
    BY <1>3, LegType DEF PickUp
  <2> QED BY <1>3, <2>1, <2>2 DEF PickUp
<1>4. CASE HangUp
  BY <1>4, EndLegType, StatusNames DEF HangUp
<1>5. CASE VoiceWebhook
  <2>1. CASE Known
    <3>1. leg' \in PhoneLeg
      BY <1>5, <2>1, LegType DEF VoiceWebhook
    <3> QED BY <1>5, <2>1, <3>1 DEF VoiceWebhook
  <2>2. CASE ~Known
    BY <1>5, <2>2, EndLegType, StatusNames DEF VoiceWebhook
  <2> QED BY <2>1, <2>2
<1>6. CASE Judge
  <2>1. (row.dropped \/ ShouldDrop) \in BOOLEAN
    BY DEF ShouldDrop
  <2>2. row' \in CallRow
    BY <1>6, <2>1, ColumnType, AnsweredByType DEF Judge, Judged
  <2> QED BY <1>6, <2>2 DEF Judge
<1>7. CASE JudgeNobody
  BY <1>7 DEF JudgeNobody
<1>8. CASE Act
  BY ZenonT(60), <1>8, StoppedType, LegType DEF Act, PlayRecording, BridgeToAgent
<1> QED BY <1>1, <1>2, <1>3, <1>4, <1>5, <1>6, <1>7, <1>8 DEF Answer

\* A job goes on with the copy it took.
LEMMA JobType ==
    ASSUME NEW j \in Job, NEW pc \in {"amd", "playback", "wrap up"}
    PROVE  [j EXCEPT !.pc = pc] \in Job /\ [j EXCEPT !.pc = pc].dropped = j.dropped
BY DEF Job

\* So do the callbacks and the users.
LEMMA TypeCallbacks ==
    ASSUME TypeOK, Webhooks \/ Cancel \/ CancelHangup \/ CancelApply \/ Delete
    PROVE  TypeOK'
<1> USE DEF TypeOK
<1>1. ASSUME NEW k \in Kind, StatusWebhook(k) PROVE TypeOK'
  <2>1. leg.final \in TERMINAL_STATUSES
    BY DEF PhoneLeg
  <2>2. Callback(k) \in Status
    BY <2>1, StatusNames DEF Callback, Kind
  <2>3. hooks' \in [Kind -> 0..MaxDeliveries]
    BY <1>1, VoiceAssumption DEF StatusWebhook
  <2>4. row.amd_result \in AnswerType \cup {"none"} /\ row.dropped \in BOOLEAN
    BY DEF CallRow
  <2>5. \A pc \in {"amd", "playback"} :
           [pc |-> pc, status |-> leg.final, amd_result |-> row.amd_result,
            dropped |-> row.dropped] \in Job
    BY <2>1, <2>4, StatusNames DEF Job
  <2>6. jobs' \subseteq Job
    BY <1>1, <2>5 DEF StatusWebhook
  <2> QED BY <1>1, <2>2, <2>3, <2>6, RowType DEF StatusWebhook
<1>2. ASSUME NEW j \in jobs, CallbackAmd(j) \/ Playback(j) \/ WrapUp(j) PROVE TypeOK'
  <2>1. j \in Job
    OBVIOUS
  <2>2. CASE CallbackAmd(j)
    <3>1. [row EXCEPT !.amd_result = setup.answered_by] \in CallRow
      BY ColumnType, AnsweredByType
    <3>2. [j EXCEPT !.pc = "playback"] \in Job
      BY <2>1, JobType
    <3>3. jobs' \subseteq Job
      BY <2>2, <3>2 DEF CallbackAmd, Move
    <3> QED BY <2>2, <3>1, <3>3 DEF CallbackAmd
  <2>3. CASE Playback(j)
    <3>1. j.status \in Status
      BY <2>1 DEF Job
    <3>2. WithStatus(row, j.status) \in CallRow
      BY <3>1, RowType
    <3>3. row' \in CallRow
      BY <2>3, <3>2, ColumnType DEF Playback
    <3>4. [j EXCEPT !.pc = "wrap up"] \in Job
      BY <2>1, JobType
    <3>5. jobs' \subseteq Job
      BY <2>3, <3>4 DEF Playback, Move
    <3>6. UNCHANGED <<setup, place, leg, agent, verdict, hooks, user, outcomes>>
      BY <2>3 DEF Playback
    <3> QED BY <3>3, <3>5, <3>6
  <2>4. CASE WrapUp(j)
    <3>1. OutcomeOf(j) \in {"completed", "no_answer", "busy", "failed", "voicemail"}
      BY DEF OutcomeOf
    <3>2. outcomes' \subseteq {"completed", "no_answer", "busy", "failed", "voicemail"}
      BY <2>4, <3>1 DEF WrapUp
    <3>3. jobs' \subseteq Job
      BY <2>4 DEF WrapUp
    <3>4. UNCHANGED <<setup, row, place, leg, verdict, hooks, user>> /\ agent' = Stopped(agent)
      BY <2>4 DEF WrapUp
    <3> QED BY <3>2, <3>3, <3>4, StoppedType
  <2> QED BY <1>2, <2>2, <2>3, <2>4
<1>3. CASE Cancel
  <2>1. row.sid \in BOOLEAN
    BY DEF CallRow
  <2> QED BY <1>3, <2>1 DEF Cancel
<1>4. CASE CancelHangup
  BY <1>4, EndLegType, StatusNames DEF CancelHangup
<1>5. CASE CancelApply
  BY <1>5, RowType, StoppedType, StatusNames DEF CancelApply
<1>6. CASE Delete
  BY <1>6, ColumnType DEF Delete
<1> QED BY <1>1, <1>2, <1>3, <1>4, <1>5, <1>6 DEF Webhooks

\* Rows, legs, agents and jobs stay well formed over every interleaving.
THEOREM VoiceTypeCorrect == Spec => []TypeOK
<1>1. TypeOK /\ [Next]_vars => TypeOK'
  <2> SUFFICES ASSUME TypeOK, [Next]_vars PROVE TypeOK'
    OBVIOUS
  <2>1. CASE UNCHANGED vars
    BY <2>1 DEF vars, TypeOK
  <2> QED BY <2>1, TypePlace, TypeAnswer, TypeCallbacks DEF Next
<1> QED BY <1>1, TypeInit, PTL DEF Spec

-----------------------------------------------------------------------------
(* The invariant. *)

\* No step takes back what the row has of the drop, or its SID; and only those who
\* have had the provider's answer store one.
LEMMA RowMoves ==
    ASSUME TypeOK, [Next]_vars
    PROVE  /\ row.dropped => row'.dropped
           /\ row.sid => row'.sid
           /\ row'.sid => row.sid \/ (place' \in {"placed", "marking", "waiting", "raised"})
<1> DEFINE Moves == /\ row.dropped => row'.dropped
                    /\ row.sid => row'.sid
                    /\ row'.sid => row.sid \/ (place' \in {"placed", "marking", "waiting", "raised"})
<1>0. row \in CallRow
  BY DEF TypeOK
<1>1. ASSUME NEW status \in Status, row' \in {row, WithStatus(row, status)} PROVE Moves
  BY <1>0, <1>1, RowType
<1>2. CASE UNCHANGED row
  BY <1>2
<1>3. CASE Place
  <2>1. CASE StoreSid
    <3>1. WithStatus(row, "queued") \in CallRow /\ WithStatus(row, "queued").dropped = row.dropped
      BY <1>0, RowType, StatusNames
    <3>2. CASE row' = [WithStatus(row, "queued") EXCEPT !.sid = TRUE]
      <4>1. row'.dropped = row.dropped
        BY <3>1, <3>2 DEF CallRow
      <4>2. row'.sid
        BY <3>1, <3>2 DEF CallRow
      <4>3. place' \in {"placed", "marking", "raised"}
        BY <2>1 DEF StoreSid
      <4> QED BY <4>1, <4>2, <4>3
    <3> QED BY <1>2, <2>1, <3>2 DEF StoreSid
  <2>2. CASE LkMarkAnswered
    <3>1. WithStatus(row, "in-progress") \in CallRow /\ WithStatus(row, "in-progress").dropped = row.dropped
      BY <1>0, RowType, StatusNames
    <3>2. CASE row' = [WithStatus(row, "in-progress") EXCEPT !.sid = TRUE]
      <4>1. row'.dropped = row.dropped
        BY <3>1, <3>2 DEF CallRow
      <4>2. row'.sid
        BY <3>1, <3>2 DEF CallRow
      <4>3. place' \in {"waiting", "raised"}
        BY <2>2 DEF LkMarkAnswered
      <4> QED BY <4>1, <4>2, <4>3
    <3> QED BY <1>2, <2>2, <3>2 DEF LkMarkAnswered
  <2>3. CASE OriginateFails \/ MarkFallback \/ LkDial \/ LkNotAnswered
    <3>1. PICK status \in {"failed", "queued", "initiated", "busy", "no-answer"} :
               row' \in {row, WithStatus(row, status)}
      BY <2>3 DEF OriginateFails, MarkFallback, LkDial, LkNotAnswered
    <3> QED BY <1>1, <3>1, StatusNames
  <2> QED BY <1>2, <1>3, <2>1, <2>2, <2>3
          DEF Place, Spawn, Originate, LkFallback, LkAnswered
<1>4. CASE LkEnded \/ CancelApply
  <2>1. PICK status \in {"completed", "canceled"} : row' \in {row, WithStatus(row, status)}
    BY <1>4 DEF LkEnded, CancelApply
  <2> QED BY <1>1, <2>1, StatusNames
<1>5. CASE Judge
  BY <1>0, <1>5 DEF Judge, Judged, CallRow
<1>6. CASE Delete
  BY <1>0, <1>6 DEF Delete, CallRow
<1>7. ASSUME NEW k \in Kind, StatusWebhook(k) PROVE Moves
  <2>1. leg.final \in TERMINAL_STATUSES
    BY DEF TypeOK, PhoneLeg
  <2>2. Callback(k) \in Status
    BY <2>1, StatusNames DEF Callback, Kind
  <2>3. row' \in {row, WithStatus(row, Callback(k))}
    BY <1>7 DEF StatusWebhook
  <2> QED BY <1>1, <2>2, <2>3
<1>8. ASSUME NEW j \in jobs, CallbackAmd(j) \/ Playback(j) \/ WrapUp(j) PROVE Moves
  <2>1. CASE CallbackAmd(j)
    <3>1. row' \in {row, [row EXCEPT !.amd_result = setup.answered_by]}
      BY <2>1 DEF CallbackAmd
    <3> QED BY <1>0, <3>1 DEF CallRow
  <2>2. CASE Playback(j)
    <3>1. j.status \in Status
      BY DEF TypeOK, Job
    <3>2. /\ WithStatus(row, j.status) \in CallRow
          /\ WithStatus(row, j.status).dropped = row.dropped
          /\ WithStatus(row, j.status).sid = row.sid
      BY <1>0, <3>1, RowType
    <3>3. PICK r \in CallRow, x \in {"completed", "failed"} :
               row' \in {row, [r EXCEPT !.playback = x]} /\ r.dropped = row.dropped /\ r.sid = row.sid
      BY <2>2, <3>2 DEF Playback
    <3> QED BY <3>3 DEF CallRow
  <2> QED BY <1>2, <1>8, <2>1, <2>2 DEF WrapUp
<1> QED BY <1>2, <1>3, <1>4, <1>5, <1>6, <1>7, <1>8
        DEF Next, vars, Agent, Build, Leave, GoDeaf, PickUp, HangUp, Answer, VoiceWebhook,
            JudgeNobody, Act, Webhooks, Cancel, CancelHangup

\* Where the leg is while the call is being placed.
LEMMA LegStep == ASSUME TypeOK, LegInv, [Next]_vars PROVE LegInv'
<1> USE DEF LegInv, Undialled
<1>0. leg \in PhoneLeg /\ \A x \in {"none", "ringing", "talking", "answering", "playing", "over"} :
            [leg EXCEPT !.state = x].state = x
  BY DEF TypeOK, PhoneLeg
<1>1. CASE Place
  <2>1. CASE LkNotAnswered
    BY <2>1, RowMoves DEF LkNotAnswered
  <2> QED BY <1>0, <1>1, <2>1, RowMoves
          DEF Place, Spawn, Originate, OriginateFails, StoreSid, MarkFallback, LkDial,
              LkFallback, LkAnswered, LkMarkAnswered
<1>2. CASE LkEnded \/ Agent \/ GoDeaf \/ Judge \/ JudgeNobody \/ Delete \/ Webhooks
  <2>1. /\ UNCHANGED leg
        /\ place' = place \/ place' \in {"finished", "raised"}
        /\ user' = user \/ user'.pc # "hangup"
    BY <1>2 DEF TypeOK, LkEnded, Agent, Build, Leave, GoDeaf, Judge, JudgeNobody, Delete, Webhooks,
                StatusWebhook, CallbackAmd, Playback, WrapUp
  <2> QED BY <2>1, RowMoves
<1>3. CASE PickUp
  BY <1>3, RowMoves DEF PickUp
<1>4. CASE HangUp
  BY <1>4, RowMoves DEF HangUp
<1>5. CASE VoiceWebhook \/ Act
  BY <1>5, RowMoves DEF VoiceWebhook, Act, PlayRecording, BridgeToAgent
<1>6. CASE Cancel
  BY <1>6, RowMoves DEF Cancel
<1>7. CASE CancelHangup
  BY <1>7, RowMoves DEF CancelHangup, TypeOK
<1>8. CASE CancelApply
  BY <1>8, RowMoves DEF CancelApply, TypeOK
<1>9. CASE UNCHANGED vars
  BY <1>9 DEF vars
<1> QED BY <1>1, <1>2, <1>3, <1>4, <1>5, <1>6, <1>7, <1>8, <1>9 DEF Next, Answer

\* A leg that is over stays over, and the recording plays only on one that is not,
\* once the drop is on record.
LEMMA LegMoves ==
    ASSUME TypeOK, LegInv, DropInv, [Next]_vars
    PROVE  /\ leg.state = "over" => leg'.state = "over"
           /\ leg'.played => \/ leg.played
                             \/ leg.state # "over" /\ row.dropped /\ UNCHANGED <<row, jobs, outcomes>>
<1> DEFINE Moves ==
      /\ leg.state = "over" => leg'.state = "over"
      /\ leg'.played => \/ leg.played
                        \/ leg.state # "over" /\ row.dropped /\ UNCHANGED <<row, jobs, outcomes>>
<1>0. leg \in PhoneLeg
  BY DEF TypeOK
<1>1. CASE UNCHANGED leg
  BY <1>1
<1>2. ASSUME NEW x \in {"none", "ringing", "answering", "talking"},
             leg.state # "over", leg' = [leg EXCEPT !.state = x] PROVE Moves
  BY <1>0, <1>2 DEF PhoneLeg
<1>3. ASSUME NEW f \in TERMINAL_STATUSES, leg' = [leg EXCEPT !.state = "over", !.final = f]
      PROVE Moves
  BY <1>0, <1>3 DEF PhoneLeg
<1>4. CASE Originate \/ LkDial \/ LkFallback \/ LkAnswered \/ PickUp
  <2>1. leg.state # "over"
    BY <1>4 DEF LegInv, Undialled, Originate, LkDial, LkFallback, LkAnswered, PickUp
  <2>2. leg' = leg \/ \E x \in {"none", "ringing", "answering", "talking"} : leg' = [leg EXCEPT !.state = x]
    BY <1>4 DEF Originate, LkDial, LkFallback, LkAnswered, PickUp
  <2> QED BY <1>1, <1>2, <2>1, <2>2
<1>5. CASE LkNotAnswered
  <2>1. PICK status \in {"failed", "busy", "no-answer"} :
             leg' = [leg EXCEPT !.state = "over", !.final = status]
    BY <1>5 DEF LkNotAnswered
  <2> QED BY <1>3, <2>1, StatusNames
<1>6. CASE VoiceWebhook \/ HangUp \/ CancelHangup
  <2>1. \/ UNCHANGED leg
        \/ leg.state = "answering" /\ leg' = [leg EXCEPT !.state = "talking"]
        \/ \E f \in {"completed", "canceled", "busy", "no-answer", "failed"} : EndLeg(f)
    BY <1>6 DEF VoiceWebhook, HangUp, CancelHangup
  <2>2. ASSUME NEW f \in {"completed", "canceled", "busy", "no-answer", "failed"}, EndLeg(f)
        PROVE Moves
    BY <1>3, <2>2, StatusNames DEF EndLeg
  <2> QED BY <1>1, <1>2, <2>1, <2>2
<1>7. CASE Act
  <2>1. CASE PlayRecording
    <3>1. row.dropped /\ leg.state # "over"
      BY <1>7, <2>1 DEF Act, PlayRecording, DropInv
    <3> QED BY <1>7, <3>1 DEF Act
  <2>2. CASE BridgeToAgent
    BY <1>2, <2>2 DEF BridgeToAgent
  <2> QED BY <1>1, <1>7, <2>1, <2>2 DEF Act
<1>8. CASE Webhooks
  BY <1>1, <1>8 DEF Webhooks, StatusWebhook, CallbackAmd, Playback, WrapUp
<1> QED BY <1>1, <1>4, <1>5, <1>6, <1>7, <1>8
        DEF Next, vars, Place, Spawn, OriginateFails, StoreSid, MarkFallback, LkMarkAnswered,
            LkEnded, Agent, Build, Leave, GoDeaf, Answer, Judge, JudgeNobody, Cancel,
            CancelApply, Delete

\* Who writes what.
LEMMA WhoWrites ==
    ASSUME TypeOK, [Next]_vars
    PROVE  /\ UNCHANGED setup
           /\ \/ UNCHANGED <<jobs, outcomes>>
              \/ \E k \in Kind : StatusWebhook(k)
              \/ \E j \in jobs : CallbackAmd(j) \/ Playback(j) \/ WrapUp(j)
           /\ \/ UNCHANGED hooks
              \/ PickUp \/ (\E f : EndLeg(f)) \/ \E k \in Kind : StatusWebhook(k)
           /\ verdict' = "decided" => verdict = "decided" \/ Judge
           /\ agent'.stop => \/ agent.stop
                             \/ OriginateFails \/ LkNotAnswered \/ LkEnded \/ Act \/ CancelApply
                             \/ \E j \in jobs : WrapUp(j)
           /\ user.pc # "none" => user'.pc # "none"
           /\ place = "raised" /\ leg.state = "none" => place' = "raised" /\ leg'.state = "none"
           /\ setup.path = "twilio" /\ place \in {"spawn", "dial", "posted", "placed", "raised"}
                 => place' \in {"spawn", "dial", "posted", "placed", "raised"}
<1> USE DEF Next, Place, Agent, Answer
<1>1. UNCHANGED setup
  BY DEF vars, Spawn, Originate, OriginateFails, StoreSid, MarkFallback, LkDial,
         LkFallback, LkNotAnswered, LkAnswered, LkMarkAnswered, LkEnded, Build, Leave,
         GoDeaf, PickUp, HangUp, VoiceWebhook, Judge, JudgeNobody, Act, Webhooks,
         StatusWebhook, CallbackAmd, Playback, WrapUp, Cancel, CancelHangup, CancelApply, Delete
<1>2. \/ UNCHANGED <<jobs, outcomes>>
      \/ \E k \in Kind : StatusWebhook(k)
      \/ \E j \in jobs : CallbackAmd(j) \/ Playback(j) \/ WrapUp(j)
  BY DEF vars, Spawn, Originate, OriginateFails, StoreSid, MarkFallback, LkDial,
         LkFallback, LkNotAnswered, LkAnswered, LkMarkAnswered, LkEnded, Build, Leave,
         GoDeaf, PickUp, HangUp, VoiceWebhook, Judge, JudgeNobody, Act, Webhooks,
         Cancel, CancelHangup, CancelApply, Delete
<1>3. \/ UNCHANGED hooks
      \/ PickUp \/ (\E f : EndLeg(f)) \/ \E k \in Kind : StatusWebhook(k)
  BY DEF vars, Spawn, Originate, OriginateFails, StoreSid, MarkFallback, LkDial,
         LkFallback, LkNotAnswered, LkAnswered, LkMarkAnswered, LkEnded, Build, Leave,
         GoDeaf, HangUp, VoiceWebhook, Judge, JudgeNobody, Act, Webhooks,
         CallbackAmd, Playback, WrapUp, Cancel, CancelHangup, CancelApply, Delete
<1>4. verdict' = "decided" => verdict = "decided" \/ Judge
  BY DEF vars, Spawn, Originate, OriginateFails, StoreSid, MarkFallback, LkDial,
         LkFallback, LkNotAnswered, LkAnswered, LkMarkAnswered, LkEnded, Build, Leave,
         GoDeaf, PickUp, HangUp, VoiceWebhook, JudgeNobody, Act, Webhooks,
         StatusWebhook, CallbackAmd, Playback, WrapUp, Cancel, CancelHangup, CancelApply, Delete
<1>5. agent'.stop => \/ agent.stop
                     \/ OriginateFails \/ LkNotAnswered \/ LkEnded \/ Act \/ CancelApply
                     \/ \E j \in jobs : WrapUp(j)
  <2>1. CASE Spawn
    BY <2>1 DEF Spawn
  <2>2. CASE Build \/ GoDeaf \/ Leave
    BY <2>2 DEF TypeOK, Build, GoDeaf, Leave
  <2>3. CASE UNCHANGED agent
    BY <2>3
  <2> QED BY <2>1, <2>2, <2>3
          DEF vars, Originate, StoreSid, MarkFallback, LkDial, LkFallback, LkAnswered,
              LkMarkAnswered, PickUp, HangUp, VoiceWebhook, Judge, JudgeNobody, Webhooks,
              StatusWebhook, CallbackAmd, Playback, Cancel, CancelHangup, Delete
<1>6. user.pc # "none" => user'.pc # "none"
  BY DEF TypeOK, vars, Spawn, Originate, OriginateFails, StoreSid, MarkFallback, LkDial,
         LkFallback, LkNotAnswered, LkAnswered, LkMarkAnswered, LkEnded, Build, Leave,
         GoDeaf, PickUp, HangUp, VoiceWebhook, Judge, JudgeNobody, Act, Webhooks,
         StatusWebhook, CallbackAmd, Playback, WrapUp, Cancel, CancelHangup, CancelApply, Delete
<1>7. place = "raised" /\ leg.state = "none" => place' = "raised" /\ leg'.state = "none"
  BY DEF vars, Spawn, Originate, OriginateFails, StoreSid, MarkFallback, LkDial,
         LkFallback, LkNotAnswered, LkAnswered, LkMarkAnswered, LkEnded, Build, Leave,
         GoDeaf, PickUp, HangUp, VoiceWebhook, Judge, JudgeNobody, Act, PlayRecording,
         BridgeToAgent, Webhooks, StatusWebhook, CallbackAmd, Playback, WrapUp, Cancel,
         CancelHangup, CancelApply, Delete
<1>8. setup.path = "twilio" /\ place \in {"spawn", "dial", "posted", "placed", "raised"}
         => place' \in {"spawn", "dial", "posted", "placed", "raised"}
  BY DEF vars, Spawn, Originate, OriginateFails, StoreSid, MarkFallback, LkDial,
         LkFallback, LkNotAnswered, LkAnswered, LkMarkAnswered, LkEnded, Build, Leave,
         GoDeaf, PickUp, HangUp, VoiceWebhook, Judge, JudgeNobody, Act, Webhooks,
         StatusWebhook, CallbackAmd, Playback, WrapUp, Cancel, CancelHangup, CancelApply, Delete
<1> QED BY <1>1, <1>2, <1>3, <1>4, <1>5, <1>6, <1>7, <1>8

\* The end of a call is worked on after its leg is over.
LEMMA EndStep == ASSUME TypeOK, LegInv, EndInv, DropInv, [Next]_vars PROVE EndInv'
<1> SUFFICES ASSUME leg'.state # "over"
             PROVE  hooks'["final"] = 0 /\ jobs' = {} /\ outcomes' = {}
  BY DEF EndInv
<1>1. hooks["final"] = 0 /\ jobs = {} /\ outcomes = {}
  BY LegMoves DEF EndInv
<1>2. ~\E f : EndLeg(f)
  BY DEF EndLeg, TypeOK, PhoneLeg
<1>3. ASSUME NEW k \in Kind, StatusWebhook(k)
      PROVE  hooks'["final"] = 0 /\ jobs' = {} /\ outcomes' = {}
  BY <1>1, <1>3 DEF StatusWebhook, TakenUp, TypeOK, Kind
<1>4. hooks'["final"] = 0
  BY <1>1, <1>2, <1>3, WhoWrites DEF PickUp, TypeOK, Kind
<1>5. jobs' = {} /\ outcomes' = {}
  BY <1>1, <1>3, WhoWrites
<1> QED BY <1>4, <1>5

\* Every job has seen the drop, if the recording played: the row has it before.
LEMMA DropStep ==
    ASSUME TypeOK, LegInv, EndInv, DropInv, PlayedMeansVoicemail, [Next]_vars
    PROVE  DropInv' /\ PlayedMeansVoicemail'
<1>1. ShouldDrop' = ShouldDrop
  BY WhoWrites DEF ShouldDrop
<1>2. (verdict = "decided" /\ ShouldDrop => row.dropped)'
  <2>1. CASE Judge
    BY <1>1, <2>1 DEF Judge, Judged, TypeOK, CallRow
  <2> QED BY <1>1, <2>1, WhoWrites, RowMoves DEF DropInv
<1>3. ASSUME leg'.played
      PROVE  row'.dropped /\ (\A j \in jobs' : j.dropped) /\ outcomes' \subseteq {"voicemail"}
  <2>1. CASE ~leg.played
    <3>1. leg.state # "over" /\ row.dropped /\ UNCHANGED <<row, jobs, outcomes>>
      BY <1>3, <2>1, LegMoves
    <3> QED BY <3>1 DEF EndInv
  <2>2. CASE leg.played
    <3>1. row.dropped /\ row'.dropped /\ (\A j \in jobs : j.dropped) /\ outcomes \subseteq {"voicemail"}
      BY <2>2, RowMoves DEF DropInv, PlayedMeansVoicemail
    <3>2. ASSUME NEW k \in Kind, StatusWebhook(k)
          PROVE  (\A i \in jobs' : i.dropped) /\ UNCHANGED outcomes
      <4> DEFINE new == [pc |-> IF setup.amd # "off" THEN "amd" ELSE "playback",
                         status |-> leg.final, amd_result |-> row.amd_result,
                         dropped |-> row.dropped]
      <4>1. jobs' \subseteq jobs \cup {new} /\ UNCHANGED outcomes
        BY <3>2 DEF StatusWebhook
      <4>2. new.dropped = row.dropped
        OBVIOUS
      <4> QED BY <3>1, <4>1, <4>2
    <3>3. ASSUME NEW j \in jobs, CallbackAmd(j) \/ Playback(j)
          PROVE  (\A i \in jobs' : i.dropped) /\ UNCHANGED outcomes
      <4>1. PICK pc \in {"playback", "wrap up"} : jobs' \subseteq jobs \/ Move(j, pc)
        BY <3>3 DEF CallbackAmd, Playback
      <4>2. [j EXCEPT !.pc = pc].dropped
        BY <3>1, JobType DEF TypeOK
      <4>3. jobs' \subseteq jobs \cup {[j EXCEPT !.pc = pc]}
        BY <4>1 DEF Move
      <4>4. UNCHANGED outcomes
        BY <3>3 DEF CallbackAmd, Playback
      <4> QED BY <3>1, <4>2, <4>3, <4>4
    <3>4. ASSUME NEW j \in jobs, WrapUp(j)
          PROVE  (\A i \in jobs' : i.dropped) /\ outcomes' \subseteq {"voicemail"}
      BY <3>1, <3>4 DEF WrapUp, OutcomeOf
    <3> QED BY <3>1, <3>2, <3>3, <3>4, WhoWrites
  <2> QED BY <2>1, <2>2
<1> QED BY <1>2, <1>3 DEF DropInv, PlayedMeansVoicemail

\* On a Twilio call a person's agent is stopped by a user, or when nobody is on the
\* line any more.
LEMMA StopStep == ASSUME TypeOK, LegInv, EndInv, DropInv, StopInv, [Next]_vars PROVE StopInv'
<1> DEFINE Why == \/ leg.state = "over"
                  \/ user.pc # "none"
                  \/ place = "raised" /\ leg.state = "none"
<1> SUFFICES ASSUME setup.path = "twilio" PROVE StopInv'
  BY WhoWrites DEF StopInv
<1>1. place' \in {"spawn", "dial", "posted", "placed", "raised"}
  BY WhoWrites DEF StopInv
<1>2. Why => Why'
  BY LegMoves, WhoWrites
<1>3. ASSUME setup.answered_by = "human", agent'.stop PROVE Why'
  <2>1. CASE agent.stop
    BY <1>2, <1>3, <2>1 DEF StopInv
  <2>2. CASE OriginateFails
    BY <2>2 DEF OriginateFails, LegInv, Undialled
  <2>3. CASE LkNotAnswered \/ LkEnded
    BY <2>3 DEF LkNotAnswered, LkEnded, StopInv
  <2>4. CASE Act
    BY <1>2, <1>3, <2>1, <2>4 DEF Act, ShouldDrop
  <2>5. CASE CancelApply
    <3>1. user.pc # "none"
      BY <2>5 DEF CancelApply
    <3> QED BY <3>1, WhoWrites
  <2>6. ASSUME NEW j \in jobs, WrapUp(j) PROVE Why'
    BY <1>2 DEF EndInv
  <2> QED BY <1>3, <2>1, <2>2, <2>3, <2>4, <2>5, <2>6, WhoWrites
<1> QED BY <1>1, <1>3, WhoWrites DEF StopInv

\* The call begins with nothing on record.
LEMMA VoiceInit == Init => VoiceInv
BY DEF Init, CallBegins, VoiceInv, LegInv, Undialled, EndInv, DropInv, StopInv, PlayedMeansVoicemail,
       Kind

\* The invariant, with the types it rests on.
LEMMA VoiceCorrect == Spec => [](TypeOK /\ VoiceInv)
<1>1. TypeOK /\ VoiceInv /\ [Next]_vars => VoiceInv'
  BY LegStep, EndStep, DropStep, StopStep DEF VoiceInv
<1> QED BY <1>1, VoiceInit, VoiceTypeCorrect, PTL DEF Spec

\* A lead who heard the recording is reconciled as voicemail and nothing else, however
\* callbacks, AMD answers, repeats, cancellations and deletions cross.
THEOREM PlayedMeansVoicemailCorrect == Spec => []PlayedMeansVoicemail
<1>1. VoiceInv => PlayedMeansVoicemail
  BY DEF VoiceInv
<1> QED BY <1>1, VoiceCorrect, PTL

\* Nobody but a user takes the agent away from a person on the line.
THEOREM HumanKeepsAgentCorrect == Spec => []HumanKeepsAgent
<1>1. TypeOK /\ VoiceInv => HumanKeepsAgent
  BY DEF TypeOK, VoiceInv, StopInv, HumanKeepsAgent
<1> QED BY <1>1, VoiceCorrect, PTL

-----------------------------------------------------------------------------
(***************************************************************************)
(* Module Pacing: calls_per_hour and the leads of every rolling hour.  A   *)
(* requeued row is not counted as dispatched, but it was begun before any  *)
(* lead still waiting for its first call, and the queue is first in, first *)
(* out: with a new lead in the batch, no row begun is left in the queue.   *)
(***************************************************************************)

\* A lead whose first call has been dispatched.
Begun(r) == r.status # "queued" \/ r.attempt_number > 1

\* A row that is not queued was updated since its first call; a parked one waits
\* for a second attempt.
Told(r, age) ==
    /\ r.status # "queued" => r.updated <= age
    /\ r.status = "parked" => r.attempt_number > 1

\* The leads begun are the oldest, and only they have been called.
PaceInv ==
    /\ \A e \in Executions : Told(rows[e], dials[<<e, 1>>])
    /\ \A e \in NewInHour : Begun(rows[e])
    /\ \A e, f \in Executions : e < f /\ Begun(rows[f]) => Begun(rows[e])

\* Time keeps the rows well formed, what they tell and whether they were begun.
LEMMA WaitedTells ==
    ASSUME NEW lead, IsRow(lead), NEW age \in 0..Old, Told(lead, age)
    PROVE  LET new == Requeued(Waited(lead))
           IN  IsRow(new) /\ Told(new, Older(age)) /\ (Begun(new) <=> Begun(lead))
<1>1. /\ lead.status \in {"queued", "running", "parked", "done"}
      /\ lead.attempt_number \in Nat /\ lead.updated \in 0..Old
      /\ HourTicks \in Nat /\ HourTicks > 0
  BY PacingAssumption DEF IsRow, Attempts
<1>2. PICK u, w, o : /\ u = Older(lead.updated) /\ o = Older(age)
                     /\ w = IF lead.wait = 0 THEN 0 ELSE lead.wait - 1
  OBVIOUS
<1>3. /\ u \in 0..Old /\ o \in 0..Old
      /\ lead.updated <= age => u <= o
  BY <1>1, <1>2 DEF Older, Old
<1>4. PICK mid : mid = [lead EXCEPT !.updated = u, !.wait = w]
  OBVIOUS
<1>5. /\ Waited(lead) = mid /\ IsRow(mid)
      /\ mid.status = lead.status /\ mid.updated = u /\ mid.wait = w
      /\ mid.attempt_number = lead.attempt_number
  BY <1>1, <1>2, <1>3, <1>4 DEF Waited, IsRow
<1>6. PICK new : new = Requeued(mid)
  OBVIOUS
<1>7. CASE mid.status = "parked" /\ mid.wait = 0
  <2>1. new = [mid EXCEPT !.status = "queued", !.updated = 0]
    BY <1>5, <1>6, <1>7 DEF Requeued
  <2>2. 0 \in 0..Old
    BY <1>1 DEF Old
  <2>3. IsRow(new) /\ new.status = "queued" /\ new.attempt_number = lead.attempt_number
    BY <1>5, <1>7, <2>1, <2>2 DEF IsRow
  <2> QED
    BY <1>2, <1>5, <1>6, <1>7, <2>3 DEF Told, Begun
<1>8. CASE ~(mid.status = "parked" /\ mid.wait = 0)
  <2>1. new = mid
    BY <1>5, <1>6, <1>8 DEF Requeued
  <2> QED
    BY <1>1, <1>2, <1>3, <1>5, <1>6, <2>1 DEF Told, Begun
<1> QED
  BY <1>7, <1>8

\* Of a campaign just activated no lead is begun.
LEMMA PaceInit == PacingInit => PacingTypeOK /\ PaceInv /\ NewLeadsCapped
<1> SUFFICES ASSUME PacingInit PROVE PacingTypeOK /\ PaceInv /\ NewLeadsCapped
  OBVIOUS
<1>1. /\ HourTicks \in Nat /\ HourTicks > 0 /\ 1 \in Attempts /\ CallsPerHour \in Nat
      /\ Executions \subseteq Int
  BY PacingAssumption DEF Attempts, Executions
<1>2. PacingTypeOK
  BY <1>1 DEF PacingInit, PacingTypeOK, IsRow, Old
<1>3. \A e \in Executions : /\ dials[<<e, 1>>] = HourTicks + 1
                            /\ rows[e].status = "queued" /\ rows[e].attempt_number = 1
  BY <1>1 DEF PacingInit, Old
<1>4. NewInHour = {}
  <2>1. ~(HourTicks + 1 < HourTicks)
    BY <1>1
  <2> QED
    BY <1>3, <2>1 DEF NewInHour
<1>5. PaceInv
  BY <1>1, <1>3, <1>4 DEF PaceInv, Told, Begun
<1> QED
  BY <1>1, <1>2, <1>4, <1>5, FS_EmptySet DEF NewLeadsCapped

\* A call that ends leaves its row updated, and begun.
LEMMA PaceCallEnds ==
    ASSUME PacingTypeOK, PaceInv, NEW e \in Executions, CallEnds(e)
    PROVE  PacingTypeOK' /\ PaceInv' /\ UNCHANGED NewInHour
<1>1. PICK r : /\ rows' = [rows EXCEPT ![e] = r] /\ UNCHANGED dials
               /\ \/ /\ rows[e].attempt_number < MaxAttempts
                     /\ r = [status |-> "parked",
                             attempt_number |-> rows[e].attempt_number + 1,
                             updated |-> 0, wait |-> BackoffDelay(rows[e].attempt_number)]
                  \/ r = [rows[e] EXCEPT !.status = "done", !.updated = 0]
  BY DEF CallEnds, AttemptsLeft
<1>2. /\ IsRow(rows[e]) /\ rows[e].attempt_number \in 1..MaxAttempts
      /\ MaxAttempts \in Nat /\ HourTicks \in Nat /\ 1 \in Attempts
      /\ rows = [f \in Executions |-> rows[f]] /\ \A f \in Executions : IsRow(rows[f])
      /\ dials \in [Executions \X Attempts -> 0..Old]
  BY PacingAssumption DEF PacingTypeOK, IsRow, Attempts
<1>3. /\ IsRow(r) /\ r.updated = 0 /\ r.status \in {"parked", "done"}
      /\ r.status = "parked" => r.attempt_number > 1
  <2>1. CASE /\ rows[e].attempt_number < MaxAttempts
             /\ r = [status |-> "parked",
                     attempt_number |-> rows[e].attempt_number + 1,
                     updated |-> 0, wait |-> BackoffDelay(rows[e].attempt_number)]
    <3>1. PICK n, w : n = rows[e].attempt_number + 1 /\ w = BackoffDelay(rows[e].attempt_number)
      OBVIOUS
    <3>2. r = [status |-> "parked", attempt_number |-> n, updated |-> 0, wait |-> w]
      BY <2>1, <3>1
    <3>3. n \in Attempts /\ n > 1 /\ 0 \in 0..Old
      BY <1>2, <2>1, <3>1 DEF Attempts, Old
    <3> QED
      BY <3>2, <3>3 DEF IsRow
  <2>2. CASE r = [rows[e] EXCEPT !.status = "done", !.updated = 0]
    <3>1. 0 \in 0..Old
      BY <1>2 DEF Old
    <3> QED
      BY <1>2, <2>2, <3>1 DEF IsRow
  <2> QED
    BY <1>1, <2>1, <2>2
<1>4. \A f \in Executions : /\ rows'[f] = IF f = e THEN r ELSE rows[f]
                            /\ dials'[<<f, 1>>] = dials[<<f, 1>>]
                            /\ dials[<<f, 1>>] \in 0..Old
  BY <1>1, <1>2
<1>5. Begun(r)
  BY <1>3 DEF Begun
<1>6. \A f \in Executions : Told(rows'[f], dials'[<<f, 1>>])
  <2>1. Told(r, dials[<<e, 1>>])
    BY <1>2, <1>3, <1>4 DEF Told, Old
  <2> QED
    BY <1>4, <2>1 DEF PaceInv
<1>7. NewInHour' = NewInHour
  BY <1>1 DEF NewInHour
<1>8. \A f \in NewInHour' : Begun(rows'[f])
  BY <1>4, <1>5, <1>7 DEF PaceInv, NewInHour
<1>9. rows[e].status = "running"
  BY DEF CallEnds
<1>10. \A f, g \in Executions : f < g /\ Begun(rows'[g]) => Begun(rows'[f])
  BY <1>4, <1>5, <1>9 DEF PaceInv, Begun
<1>11. PacingTypeOK'
  BY <1>1, <1>2, <1>3 DEF PacingTypeOK
<1> QED
  BY <1>6, <1>7, <1>8, <1>10, <1>11 DEF PaceInv

\* The batch and what the rows already tell of the hour fit in the limit together.
LEMMA BatchWithinHour ==
    ASSUME NEW rs, NEW b \in SUBSET Queued(rs), FirstOf(Queued(rs), Allowance(rs), b),
           CallsPerHour > 0, b # {}
    PROVE  Cardinality(b) + Cardinality(DispatchedSince(rs)) <= CallsPerHour
<1>1. IsFiniteSet(Executions)
  BY FS_Interval, PacingAssumption DEF Executions
<1>2. /\ Queued(rs) \subseteq Executions /\ Running(rs) \subseteq Executions
      /\ DispatchedSince(rs) \subseteq Executions
  BY DEF Queued, Running, DispatchedSince
<1>3. /\ IsFiniteSet(Queued(rs)) /\ IsFiniteSet(Running(rs)) /\ IsFiniteSet(DispatchedSince(rs))
  BY <1>1, <1>2, FS_Subset
<1>4. IsFiniteSet(b)
  BY <1>3, FS_Subset
<1>5. PICK q, u, k, n : /\ q = Cardinality(Queued(rs)) /\ u = Cardinality(Running(rs))
                        /\ k = Cardinality(DispatchedSince(rs)) /\ n = Cardinality(b)
  OBVIOUS
<1>6. q \in Nat /\ u \in Nat /\ k \in Nat /\ n \in Nat /\ n # 0
  BY <1>3, <1>4, <1>5, FS_CardinalityType, FS_EmptySet
<1>7. n = Least(Allowance(rs), q)
  BY <1>5 DEF FirstOf
<1>8. PICK p \in Int : p = PerTick(CallsPerHour, HourTicks)
  BY PacingAssumption DEF PerTick, Greatest
<1>9. PICK a : a = Greatest(0, Least(Least(p, CallsPerHour - k),
                    IF MaxConcurrent > 0 THEN MaxConcurrent - u ELSE Unlimited))
  OBVIOUS
<1>10. Allowance(rs) = a
  BY <1>5, <1>8, <1>9 DEF Allowance, PacingAllowance
<1>11. /\ CallsPerHour \in Nat /\ MaxConcurrent \in Nat /\ Unlimited \in Nat
  BY PacingAssumption DEF Unlimited
<1>12. a \in Int /\ (a <= 0 \/ a <= CallsPerHour - k)
  BY <1>6, <1>8, <1>9, <1>11 DEF Greatest, Least
<1>13. n <= a
  BY <1>6, <1>7, <1>10, <1>12 DEF Least
<1> QED
  BY <1>5, <1>6, <1>11, <1>12, <1>13

\* A dispatch writes two columns.
LEMMA DispatchedIsRow ==
    ASSUME NEW r, IsRow(r)
    PROVE  /\ IsRow(Dispatched(r))
           /\ Dispatched(r).status = "running" /\ Dispatched(r).updated = 0
<1>1. PICK new : new = Dispatched(r)
  OBVIOUS
<1>2. new = [r EXCEPT !.status = "running", !.updated = 0]
  BY <1>1 DEF Dispatched
<1>3. 0 \in 0..Old
  BY PacingAssumption DEF Old
<1>4. IsRow(new) /\ new.status = "running" /\ new.updated = 0
  BY <1>2, <1>3 DEF IsRow
<1> QED
  BY <1>1, <1>4

\* A tick ages every row, requeues what waited long enough and dispatches the oldest.
LEMMA PaceTick ==
    ASSUME PacingTypeOK, PaceInv, NewLeadsCapped, PacedTick
    PROVE  PacingTypeOK' /\ PaceInv' /\ NewLeadsCapped'
<1> DEFINE due == [e \in Executions |-> Requeued(Waited(rows[e]))]
<1>a. PICK b \in SUBSET Queued(due) :
          /\ FirstOf(Queued(due), Allowance(due), b)
          /\ rows' = [e \in Executions |-> IF e \in b THEN Dispatched(due[e]) ELSE due[e]]
          /\ dials' = [d \in Executions \X Attempts |->
                         IF d[1] \in b /\ d[2] = due[d[1]].attempt_number THEN 0
                         ELSE Older(dials[d])]
  BY Zenon DEF PacedTick
<1>1. PICK rs : rs = due
  OBVIOUS
<1> HIDE DEF due
<1>2. /\ b \in SUBSET Queued(rs)
      /\ FirstOf(Queued(rs), Allowance(rs), b)
      /\ rows' = [e \in Executions |-> IF e \in b THEN Dispatched(rs[e]) ELSE rs[e]]
      /\ dials' = [d \in Executions \X Attempts |->
                     IF d[1] \in b /\ d[2] = rs[d[1]].attempt_number THEN 0
                     ELSE Older(dials[d])]
  BY <1>a, <1>1, Zenon
<1> USE DEF due
<1>3. /\ HourTicks \in Nat /\ HourTicks > 0 /\ CallsPerHour \in Nat /\ 1 \in Attempts
      /\ \A e \in Executions : IsRow(rows[e])
      /\ dials \in [Executions \X Attempts -> 0..Old]
      /\ Executions \subseteq Int
  BY PacingAssumption DEF PacingTypeOK, Attempts, Executions
<1>4. \A e \in Executions : /\ IsRow(rs[e])
                            /\ Told(rs[e], Older(dials[<<e, 1>>]))
                            /\ Begun(rs[e]) <=> Begun(rows[e])
  BY <1>1, <1>3, WaitedTells DEF PaceInv
<1>5. b \subseteq Executions /\ \A e \in b : rs[e].status = "queued"
  BY <1>2 DEF Queued
<1>6. \A e \in b : /\ IsRow(Dispatched(rs[e]))
                   /\ Dispatched(rs[e]).status = "running" /\ Dispatched(rs[e]).updated = 0
  BY <1>4, <1>5, DispatchedIsRow
<1>7. \A age \in 0..Old : Older(age) \in 0..Old /\ Older(age) >= age
  BY <1>3 DEF Older, Old
<1>8. PacingTypeOK'
  <2>1. rows' = [e \in Executions |-> rows'[e]] /\ \A e \in Executions : IsRow(rows'[e])
    BY <1>2, <1>4, <1>6
  <2>2. dials' \in [Executions \X Attempts -> 0..Old]
    <3>1. 0 \in 0..Old
      BY <1>3 DEF Old
    <3> QED
      BY <1>2, <1>3, <1>7, <3>1
  <2> QED
    BY <2>1, <2>2 DEF PacingTypeOK
<1>9. \A e \in Executions : dials'[<<e, 1>>] =
          IF e \in b /\ rs[e].attempt_number = 1 THEN 0 ELSE Older(dials[<<e, 1>>])
  BY <1>2, <1>3
<1>10. \A e \in Executions : /\ e \in b => Begun(rows'[e])
                             /\ e \notin b => rows'[e] = rs[e]
  BY <1>2, <1>5, <1>6 DEF Begun
<1>11. \A e \in Executions : Told(rows'[e], dials'[<<e, 1>>])
  <2> SUFFICES ASSUME NEW e \in Executions PROVE Told(rows'[e], dials'[<<e, 1>>])
    OBVIOUS
  <2>1. PICK age : age = dials'[<<e, 1>>] /\ age \in 0..Old
    BY <1>3, <1>8 DEF PacingTypeOK
  <2>2. CASE e \in b
    <3>1. rows'[e].status = "running" /\ rows'[e].updated = 0
      BY <1>2, <1>6, <2>2
    <3> QED
      BY <1>3, <2>1, <3>1 DEF Told, Old
  <2>3. CASE e \notin b
    BY <1>4, <1>9, <1>10, <2>3
  <2> QED
    BY <2>2, <2>3
<1>12. \A e \in NewInHour' : /\ e \in Executions
                             /\ e \in b \/ e \in NewInHour
                             /\ e \in b /\ Begun(rs[e]) => e \in NewInHour
                             /\ e \notin b => Older(dials[<<e, 1>>]) < HourTicks
  <2> SUFFICES ASSUME NEW e \in Executions, dials'[<<e, 1>>] < HourTicks
               PROVE  /\ e \in b \/ e \in NewInHour
                      /\ e \in b /\ Begun(rs[e]) => e \in NewInHour
                      /\ e \notin b => Older(dials[<<e, 1>>]) < HourTicks
    BY DEF NewInHour
  <2>1. PICK old, age : old = dials[<<e, 1>>] /\ age = Older(old)
    OBVIOUS
  <2>2. old \in 0..Old /\ age \in 0..Old /\ old <= age
    BY <1>3, <1>7, <2>1
  <2>3. age < HourTicks => e \in NewInHour
    BY <1>3, <2>1, <2>2 DEF NewInHour, Old
  <2>4. e \in b /\ Begun(rs[e]) => rs[e].attempt_number # 1
    BY <1>3, <1>4, <1>5 DEF Begun
  <2> QED
    BY <1>9, <2>1, <2>3, <2>4
<1>13. \A e \in NewInHour' : Begun(rows'[e])
  BY <1>4, <1>10, <1>12 DEF PaceInv
<1>14. \A e \in Executions, x \in b : e < x /\ rs[e].status = "queued" => e \in b
  <2> SUFFICES ASSUME NEW e \in Executions, NEW x \in b, e < x,
                      rs[e].status = "queued", e \notin b
               PROVE  FALSE
    OBVIOUS
  <2>1. e \in Queued(rs) \ b
    BY DEF Queued
  <2>2. x < e
    BY <1>2, <2>1 DEF FirstOf
  <2> QED
    BY <1>3, <1>5, <2>2
<1>15. \A e, f \in Executions : e < f /\ Begun(rows'[f]) => Begun(rows'[e])
  <2> SUFFICES ASSUME NEW e \in Executions, NEW f \in Executions, e < f,
                      Begun(rows'[f]), e \notin b
               PROVE  Begun(rs[e])
    BY <1>10
  <2>1. CASE f \in b
    <3>1. rs[e].status # "queued"
      BY <1>14, <2>1
    <3> QED
      BY <3>1 DEF Begun
  <2>2. CASE f \notin b
    BY <1>4, <1>10, <2>2 DEF PaceInv
  <2> QED
    BY <2>1, <2>2
<1>16. ASSUME CallsPerHour > 0 PROVE Cardinality(NewInHour') <= CallsPerHour
  <2>1. IsFiniteSet(Executions)
    BY FS_Interval, PacingAssumption DEF Executions
  <2>2. PICK was, now, s : was = NewInHour /\ now = NewInHour' /\ s = DispatchedSince(rs)
    OBVIOUS
  <2>3. was \subseteq Executions /\ now \subseteq Executions /\ s \subseteq Executions
    BY <1>12, <2>2 DEF NewInHour, DispatchedSince
  <2>4. IsFiniteSet(was) /\ IsFiniteSet(now) /\ IsFiniteSet(s) /\ IsFiniteSet(b)
    BY <1>5, <2>1, <2>3, FS_Subset
  <2>5. Cardinality(was) \in Nat /\ Cardinality(now) \in Nat
    BY <2>4, FS_CardinalityType
  <2>6. CASE \A e \in b : Begun(rs[e])
    <3>1. now \subseteq was
      BY <1>12, <2>2, <2>6
    <3>2. Cardinality(now) <= Cardinality(was)
      BY <2>4, <3>1, FS_Subset
    <3> QED
      BY <1>3, <1>16, <2>2, <2>5, <3>2 DEF NewLeadsCapped
  <2>7. ASSUME NEW x \in b, ~Begun(rs[x]) PROVE Cardinality(now) <= CallsPerHour
    <3>1. ASSUME NEW e \in now, e \notin b PROVE e \in s
      <4>1. /\ e \in Executions /\ e \in NewInHour /\ Older(dials[<<e, 1>>]) < HourTicks
        BY <1>12, <2>2, <3>1
      <4>2. Begun(rs[e]) /\ x \in Executions /\ e # x
        BY <1>4, <1>5, <3>1, <4>1 DEF PaceInv
      <4>3. ~(x < e)
        BY <1>4, <2>7, <4>1, <4>2 DEF PaceInv
      <4>4. e < x
        BY <1>3, <4>1, <4>2, <4>3
      <4>5. rs[e].status # "queued"
        BY <1>14, <3>1, <4>1, <4>4
      <4>6. /\ rs[e].updated <= Older(dials[<<e, 1>>]) /\ rs[e].updated \in 0..Old
            /\ Older(dials[<<e, 1>>]) \in 0..Old
        BY <1>3, <1>4, <1>7, <4>1, <4>5 DEF Told, IsRow
      <4>7. rs[e].updated <= HourTicks
        BY <1>3, <4>1, <4>6 DEF Old
      <4> QED
        BY <2>2, <4>1, <4>5, <4>7 DEF DispatchedSince
    <3>2. now \subseteq b \cup s
      BY <3>1
    <3>3. /\ IsFiniteSet(b \cup s)
          /\ Cardinality(b \cup s) = Cardinality(b) + Cardinality(s) - Cardinality(b \cap s)
      BY <2>4, FS_Union
    <3>4. Cardinality(now) <= Cardinality(b \cup s)
      BY <3>2, <3>3, FS_Subset
    <3>5. IsFiniteSet(b \cap s)
      BY <2>4, FS_Subset
    <3>6. /\ Cardinality(b) \in Nat /\ Cardinality(s) \in Nat
          /\ Cardinality(b \cap s) \in Nat
      BY <2>4, <3>5, FS_CardinalityType
    <3>7. Cardinality(b) + Cardinality(s) <= CallsPerHour
      BY <1>2, <1>16, <2>2, <2>7, BatchWithinHour
    <3> QED
      BY <1>3, <2>5, <3>3, <3>4, <3>6, <3>7
  <2> QED
    BY <2>2, <2>6, <2>7
<1> QED
  BY <1>8, <1>11, <1>13, <1>15, <1>16 DEF PaceInv, NewLeadsCapped

\* calls_per_hour bounds the leads taken up in every rolling hour, although the
\* scheduler counts rows by a timestamp that other writes move and forgets those it
\* requeues: for any pacing, concurrency, number of leads, attempts and any backoff.
THEOREM NewLeadsCappedCorrect == PacingSpec => []NewLeadsCapped
<1> DEFINE Inv == PacingTypeOK /\ PaceInv /\ NewLeadsCapped
<1>1. PacingInit => Inv
  BY PaceInit
<1>2. Inv /\ [PacingNext]_pacingVars => Inv'
  <2> SUFFICES ASSUME Inv, [PacingNext]_pacingVars PROVE Inv'
    OBVIOUS
  <2>1. CASE PacedTick
    BY <2>1, PaceTick
  <2>2. ASSUME NEW e \in Executions, CallEnds(e) PROVE Inv'
    BY <2>2, PaceCallEnds DEF NewLeadsCapped
  <2>3. CASE UNCHANGED pacingVars
    BY <2>3 DEF pacingVars, PacingTypeOK, PaceInv, NewLeadsCapped, NewInHour
  <2> QED
    BY <2>1, <2>2, <2>3 DEF PacingNext
<1>3. Inv => NewLeadsCapped
  OBVIOUS
<1> QED
  BY <1>1, <1>2, <1>3, PTL DEF PacingSpec

=============================================================================
