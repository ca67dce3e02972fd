------------------------------ MODULE VoiceCall ------------------------------
(***************************************************************************)
(* One outbound call: the telephony_calls row, the phone leg, the agent in *)
(* the call's room, and everybody who writes to them (telephony/service.py *)
(* and agent_runner.py): initiate_outbound and the LiveKit dial task,      *)
(* Twilio's status, voice and AMD webhooks, a user's cancel or delete.     *)
(*                                                                         *)
(* All are coroutines of one event loop whose database work goes through   *)
(* asyncio.to_thread: each commits for itself, and they interleave between *)
(* the commits.  Rows handed out are detached copies.                      *)
(***************************************************************************)
EXTENDS Naturals, FiniteSets

CONSTANTS
    Setups,         \* how the call is placed and who answers
    MaxDeliveries,  \* bound on deliveries of one status callback
    EarlyCallbacks, \* a callback may come before the SID is stored
    UserActs        \* a user may cancel or delete the call

ASSUME VoiceAssumption ==
    /\ MaxDeliveries \in Nat \ {0}
    /\ EarlyCallbacks \in BOOLEAN /\ UserActs \in BOOLEAN

VARIABLES
    setup,      \* trunk, AMD mode, voicemail policy, who answers
    row,        \* telephony_calls; kept is FALSE once it is deleted
    place,      \* initiate_outbound, then the LiveKit task
    leg,        \* the phone leg at the provider
    agent,      \* CallAgentRunner and its orchestrator
    verdict,    \* the AMD answer: the voice or the AMD webhook at work
    hooks,      \* status callbacks still to be delivered
    jobs,       \* terminal status callbacks under way
    user,       \* cancel, delete_call
    outcomes    \* outcomes reconciled onto the execution

vars == <<setup, row, place, leg, agent, verdict, hooks, jobs, user, outcomes>>

TERMINAL_STATUSES == {"completed", "failed", "busy", "no-answer", "canceled"}
Status == TERMINAL_STATUSES \cup {"queued", "initiated", "ringing", "in-progress"}

\* detect_answer_type: every machine_* label is "voicemail", fax is "unknown".
AnswerType == {"human", "voicemail", "unknown"}

Setup == [path : {"livekit", "twilio"}, amd : {"off", "sync", "async"},
          voicemail : BOOLEAN, unknown_fallback : {"human", "voicemail"},
          answered_by : AnswerType]

\* AMD forces the Twilio path.
ASSUME SetupAssumption ==
    Setups \subseteq {s \in Setup : s.amd # "off" => s.path = "twilio"}

\* A "ringing" callback writes the status as an "in-progress" one does.
Kind == {"in-progress", "final"}
Job  == [pc : {"amd", "playback", "wrap up"}, status : Status,
         amd_result : AnswerType \cup {"none"}, dropped : BOOLEAN]

CallRow  == [kept : BOOLEAN, status : Status, sid : BOOLEAN, ended : BOOLEAN,
             amd_result : AnswerType \cup {"none"}, dropped : BOOLEAN,
             playback : {"none", "completed", "failed"}]
PhoneLeg == [state : {"none", "ringing", "answering", "talking", "playing", "over"},
             final : TERMINAL_STATUSES, played : BOOLEAN]

TypeOK ==
    /\ setup \in Setups
    /\ row \in CallRow
    /\ place \in {"spawn", "dial", "dialling", "fallback", "posted", "marking",
                  "answered", "waiting", "placed", "finished", "raised"}
    /\ leg \in PhoneLeg
    /\ agent \in [pc : {"none", "starting", "joined", "deaf", "gone"}, stop : BOOLEAN]
    /\ verdict \in {"none", "due", "decided", "done"}
    /\ hooks \in [Kind -> 0..MaxDeliveries]
    /\ jobs \subseteq Job
    /\ user \in [pc : {"none", "hangup", "apply", "delete", "done"},
                 sid : BOOLEAN, delete : BOOLEAN]
    /\ outcomes \subseteq {"completed", "no_answer", "busy", "failed", "voicemail"}

\* initiate_outbound has resolved playbook and voicemail settings and inserted
\* the row.
CallBegins(at) ==
    /\ setup \in Setups
    /\ row = [kept |-> TRUE, status |-> "queued", sid |-> FALSE, ended |-> FALSE,
              amd_result |-> "none", dropped |-> FALSE, playback |-> "none"]
    /\ place = at
    /\ leg = [state |-> "none", final |-> "completed", played |-> FALSE]
    /\ agent = [pc |-> "none", stop |-> FALSE]
    /\ verdict = "none"
    /\ hooks = [k \in Kind |-> 0]
    /\ jobs = {}
    /\ user = [pc |-> "none", sid |-> FALSE, delete |-> FALSE]
    /\ outcomes = {}

Init == CallBegins("spawn")

-----------------------------------------------------------------------------
(* The row and the agent, as every writer uses them. *)

\* update_status: the last writer wins; a terminal status stamps ended_at.
WithStatus(r, status) ==
    [r EXCEPT !.status = status, !.ended = @ \/ status \in TERMINAL_STATUSES]

\* CallAgentRegistry.stop: a runner whose task has not built its orchestrator
\* yet is not told anything.
Stopped(a) == IF a.pc \in {"joined", "deaf"} THEN [a EXCEPT !.stop = TRUE] ELSE a

\* The leg ends with this status, and Twilio posts it.
EndLeg(final) ==
    /\ leg' = [leg EXCEPT !.state = "over", !.final = final]
    /\ IF place \in {"dialling", "answered", "waiting", "finished"}
       THEN UNCHANGED hooks
       ELSE \E n \in 1..MaxDeliveries : hooks' = [hooks EXCEPT !["final"] = n]

-----------------------------------------------------------------------------
(* initiate_outbound. *)

\* The agent goes into the room before the phone rings.
Spawn ==
    /\ place = "spawn"
    /\ agent' = [pc |-> "starting", stop |-> FALSE]
    /\ place' = "dial"
    /\ UNCHANGED <<setup, row, leg, verdict, hooks, jobs, user, outcomes>>

\* create_call; also as the LiveKit task's fallback.
Originate ==
    /\ (place = "dial" /\ setup.path = "twilio") \/ place = "fallback"
    /\ place' = "posted"
    /\ leg' = [leg EXCEPT !.state = "ringing"]
    /\ UNCHANGED <<setup, row, agent, verdict, hooks, jobs, user, outcomes>>

\* Refused: _mark_failed, the agent is stopped.
OriginateFails ==
    /\ place = "dial" /\ setup.path = "twilio"
    /\ place' = "raised"
    /\ row' = IF row.kept THEN WithStatus(row, "failed") ELSE row
    /\ agent' = Stopped(agent)
    /\ UNCHANGED <<setup, leg, verdict, hooks, jobs, user, outcomes>>

\* _set_sid; a deleted row raises and nobody stops the leg or the agent.
StoreSid ==
    /\ place = "posted"
    /\ IF row.kept
       THEN /\ row' = [WithStatus(row, "queued") EXCEPT !.sid = TRUE]
            /\ place' = IF setup.path = "livekit" THEN "marking" ELSE "placed"
       ELSE /\ place' = "raised"
            /\ UNCHANGED row
    /\ UNCHANGED <<setup, leg, agent, verdict, hooks, jobs, user, outcomes>>

\* The fallback writes the status a second time.
MarkFallback ==
    /\ place = "marking"
    /\ row' = IF row.kept THEN WithStatus(row, "queued") ELSE row
    /\ place' = "placed"
    /\ UNCHANGED <<setup, leg, agent, verdict, hooks, jobs, user, outcomes>>

-----------------------------------------------------------------------------
(* _run_livekit_sip_call. *)

LkDial ==
    /\ place = "dial" /\ setup.path = "livekit"
    /\ row' = IF row.kept THEN WithStatus(row, "initiated") ELSE row
    /\ place' = IF row.kept THEN "dialling" ELSE "raised"
    /\ leg' = IF row.kept THEN [leg EXCEPT !.state = "ringing"] ELSE leg
    /\ UNCHANGED <<setup, agent, verdict, hooks, jobs, user, outcomes>>

\* The SIP infrastructure is at fault: Twilio is tried instead.
LkFallback ==
    /\ place = "dialling"
    /\ place' = "fallback"
    /\ leg' = [leg EXCEPT !.state = "none"]
    /\ UNCHANGED <<setup, row, agent, verdict, hooks, jobs, user, outcomes>>

\* Not answered, or the fallback was refused too.
LkNotAnswered ==
    /\ place \in {"dialling", "fallback"}
    /\ \E status \in {"failed", "busy", "no-answer"} :
          /\ row' = IF row.kept THEN WithStatus(row, status) ELSE row
          /\ leg' = [leg EXCEPT !.state = "over", !.final = status]
    /\ agent' = IF row.kept THEN Stopped(agent) ELSE agent
    /\ place' = IF row.kept THEN "finished" ELSE "raised"
    /\ UNCHANGED <<setup, verdict, hooks, jobs, user, outcomes>>

LkAnswered ==
    /\ place = "dialling"
    /\ leg' = [leg EXCEPT !.state = "talking"]
    /\ place' = "answered"
    /\ UNCHANGED <<setup, row, agent, verdict, hooks, jobs, user, outcomes>>

LkMarkAnswered ==
    /\ place = "answered"
    /\ row' = IF row.kept THEN [WithStatus(row, "in-progress") EXCEPT !.sid = TRUE] ELSE row
    /\ place' = IF row.kept THEN "waiting" ELSE "raised"
    /\ UNCHANGED <<setup, leg, agent, verdict, hooks, jobs, user, outcomes>>

\* _await_call_end: the caller has left, the agent's task is done, or half an
\* hour is over.
LkEnded ==
    /\ place = "waiting"
    /\ row' = IF row.kept THEN WithStatus(row, "completed") ELSE row
    /\ agent' = IF row.kept THEN Stopped(agent) ELSE agent
    /\ place' = IF row.kept THEN "finished" ELSE "raised"
    /\ UNCHANGED <<setup, leg, verdict, hooks, jobs, user, outcomes>>

-----------------------------------------------------------------------------
(* CallAgentRunner._run and ConversationOrchestrator.run. *)

\* The room is made, the orchestrator built and started; or start_call fails.
Build ==
    /\ agent.pc = "starting"
    /\ \E pc \in {"joined", "gone"} : agent' = [agent EXCEPT !.pc = pc]
    /\ UNCHANGED <<setup, row, place, leg, verdict, hooks, jobs, user, outcomes>>

\* The event loop returns: idle timeout, or speech recognition gave up.  run()
\* is held at its yield by a runner that waits for the stop signal alone.
GoDeaf ==
    /\ agent.pc = "joined" /\ ~agent.stop
    /\ agent' = [agent EXCEPT !.pc = "deaf"]
    /\ UNCHANGED <<setup, row, place, leg, verdict, hooks, jobs, user, outcomes>>

Leave ==
    /\ agent.pc \in {"joined", "deaf"} /\ agent.stop
    /\ agent' = [agent EXCEPT !.pc = "gone"]
    /\ UNCHANGED <<setup, row, place, leg, verdict, hooks, jobs, user, outcomes>>

-----------------------------------------------------------------------------
(* The phone leg. *)

Known == row.kept /\ row.sid

PickUp ==
    /\ leg.state = "ringing" /\ place \in {"posted", "marking", "placed", "raised"}
    /\ EarlyCallbacks \/ place \notin {"posted"}
    /\ leg' = [leg EXCEPT !.state = "answering"]
    /\ hooks' = [hooks EXCEPT !["in-progress"] = 1]
    /\ verdict' = IF setup.amd = "sync" THEN "due" ELSE verdict
    /\ UNCHANGED <<setup, row, place, agent, jobs, user, outcomes>>

\* The lead's end: not answered, or hung up.
HangUp ==
    /\ leg.state \notin {"none", "over"} /\ place # "dialling"
    /\ EarlyCallbacks \/ place # "posted"
    /\ IF leg.state = "ringing"
       THEN \E final \in {"busy", "no-answer", "failed"} : EndLeg(final)
       ELSE EndLeg("completed")
    /\ UNCHANGED <<setup, row, place, agent, verdict, jobs, user, outcomes>>

\* handle_inbound_voice without an AMD answer: into the agent's room.  For an
\* unknown SID it takes the call for an inbound one and inserts a row for the
\* same room, which is unique: the webhook fails and Twilio drops the leg.
VoiceWebhook ==
    /\ leg.state = "answering" /\ (setup.amd # "sync" \/ ~Known)
    /\ IF Known
       THEN /\ leg' = [leg EXCEPT !.state = "talking"]
            /\ verdict' = IF setup.amd = "async" THEN "due" ELSE verdict
            /\ UNCHANGED hooks
       ELSE /\ EndLeg("completed")
            /\ verdict' = "done"
    /\ UNCHANGED <<setup, row, place, agent, jobs, user, outcomes>>

\* Slip: the policy for unclear answers is read the wrong way round.
UnclearIsMachine == setup.voicemail /\ setup.answered_by # "voicemail"

\* _handle_amd_on_answer: what the answer means for this call.
ShouldDrop ==
    /\ setup.voicemail
    /\ \/ setup.answered_by = "voicemail"
       \/ setup.answered_by = "unknown" /\ setup.unknown_fallback = "voicemail"

\* update_amd: what is on record of the drop stays.
Judged(r, drop) ==
    [r EXCEPT !.amd_result = setup.answered_by, !.dropped = @ \/ drop]

Judge ==
    /\ verdict = "due" /\ Known
    /\ row' = Judged(row, ShouldDrop)
    /\ verdict' = "decided"
    /\ UNCHANGED <<setup, place, leg, agent, hooks, jobs, user, outcomes>>

\* An AMD callback for a row that is gone is dropped.
JudgeNobody ==
    /\ verdict = "due" /\ ~Known /\ leg.state # "answering"
    /\ verdict' = "done"
    /\ UNCHANGED <<setup, row, place, leg, agent, hooks, jobs, user, outcomes>>

\* The recording: the answer to the voice webhook, or the live leg redirected.
PlayRecording ==
    /\ ShouldDrop /\ leg.state \in {"answering", "talking"}
    /\ leg' = [leg EXCEPT !.state = "playing", !.played = TRUE]

BridgeToAgent ==
    /\ ~ShouldDrop /\ leg.state = "answering"
    /\ leg' = [leg EXCEPT !.state = "talking"]

\* The agent is told to stop before the recording; a redirect may fail.
Act ==
    /\ verdict = "decided"
    /\ verdict' = "done"
    /\ agent' = IF ShouldDrop THEN Stopped(agent) ELSE agent
    /\ \/ PlayRecording
       \/ BridgeToAgent
       \/ leg.state # "answering" /\ UNCHANGED leg
    /\ UNCHANGED <<setup, row, place, hooks, jobs, user, outcomes>>

-----------------------------------------------------------------------------
(* handle_status_webhook. *)

Callback(kind) == IF kind = "final" THEN leg.final ELSE kind

\* Slip: a row that is finished already is left alone.
TakenUpOnce(kind) == kind = "final" /\ row.status \notin TERMINAL_STATUSES

\* Every terminal callback is worked through, whatever the row says.
TakenUp(kind) == kind = "final"

\* A callback for an unknown SID is logged and dropped.
StatusWebhook(kind) ==
    /\ hooks[kind] > 0
    /\ hooks' = [hooks EXCEPT ![kind] = @ - 1]
    /\ IF Known
       THEN /\ row' = WithStatus(row, Callback(kind))
            /\ jobs' = IF ~TakenUp(kind) THEN jobs
                       ELSE jobs \cup {[pc |-> IF setup.amd # "off" THEN "amd" ELSE "playback",
                                        status |-> leg.final,
                                        amd_result |-> row.amd_result,
                                        dropped |-> row.dropped]}
       ELSE UNCHANGED <<row, jobs>>
    /\ UNCHANGED <<setup, place, leg, agent, verdict, user, outcomes>>

Move(j, pc) == jobs' = (jobs \ {j}) \cup {[j EXCEPT !.pc = pc]}

\* AnsweredBy on the callback goes to the row, not to the copy at hand.
CallbackAmd(j) ==
    /\ j.pc = "amd"
    /\ IF row.kept
       THEN /\ row' = [row EXCEPT !.amd_result = setup.answered_by]
            /\ Move(j, "playback")
       ELSE /\ jobs' = jobs \ {j}
            /\ UNCHANGED row
    /\ UNCHANGED <<setup, place, leg, agent, verdict, hooks, user, outcomes>>

\* The status is written again with how the recording ended.
Playback(j) ==
    /\ j.pc = "playback"
    /\ IF j.dropped /\ ~row.kept
       THEN jobs' = jobs \ {j}
       ELSE Move(j, "wrap up")
    /\ row' = IF j.dropped /\ row.kept
              THEN [WithStatus(row, j.status) EXCEPT
                       !.playback = IF j.status = "completed" THEN "completed" ELSE "failed"]
              ELSE row
    /\ UNCHANGED <<setup, place, leg, agent, verdict, hooks, user, outcomes>>

\* Slip: the recording is not looked at.
ByStatus(j) ==
    CASE j.status = "completed" -> "completed"
      [] j.status = "no-answer" -> "no_answer"
      [] j.status = "busy"      -> "busy"
      [] OTHER                  -> "failed"

\* _reconcile_campaign_execution, on the copy taken when the status was applied.
OutcomeOf(j) ==
    IF j.dropped \/ j.amd_result = "voicemail" THEN "voicemail"
    ELSE CASE j.status = "completed" -> "completed"
           [] j.status = "no-answer" -> "no_answer"
           [] j.status = "busy"      -> "busy"
           [] OTHER                  -> "failed"

WrapUp(j) ==
    /\ j.pc = "wrap up"
    /\ agent' = Stopped(agent)
    /\ outcomes' = outcomes \cup {OutcomeOf(j)}
    /\ jobs' = jobs \ {j}
    /\ UNCHANGED <<setup, row, place, leg, verdict, hooks, user>>

-----------------------------------------------------------------------------
(* cancel and delete_call. *)

Cancel ==
    /\ UserActs /\ user.pc = "none" /\ row.status \notin TERMINAL_STATUSES
    /\ \E delete \in BOOLEAN :
          user' = [pc |-> IF row.sid THEN "hangup" ELSE "apply", sid |-> row.sid,
                   delete |-> delete]
    /\ UNCHANGED <<setup, row, place, leg, agent, verdict, hooks, jobs, outcomes>>

\* hangup; a refusal is logged and the cancel goes on.
CancelHangup ==
    /\ user.pc = "hangup"
    /\ user' = [user EXCEPT !.pc = "apply"]
    /\ \/ /\ leg.state \notin {"none", "over"}
          /\ EndLeg(IF leg.state = "ringing" THEN "canceled" ELSE "completed")
       \/ UNCHANGED <<leg, hooks>>
    /\ UNCHANGED <<setup, row, place, agent, verdict, jobs, outcomes>>

CancelApply ==
    /\ user.pc = "apply"
    /\ row' = WithStatus(row, "canceled")
    /\ agent' = Stopped(agent)
    /\ user' = [user EXCEPT !.pc = IF user.delete THEN "delete" ELSE "done"]
    /\ UNCHANGED <<setup, place, leg, verdict, hooks, jobs, outcomes>>

\* A finished call is deleted at once.
Delete ==
    /\ UserActs
    /\ user.pc = "delete" \/ (user.pc = "none" /\ row.status \in TERMINAL_STATUSES)
    /\ row' = [row EXCEPT !.kept = FALSE]
    /\ user' = [user EXCEPT !.pc = "done"]
    /\ UNCHANGED <<setup, place, leg, agent, verdict, hooks, jobs, outcomes>>

-----------------------------------------------------------------------------
Place == \/ Spawn \/ Originate \/ OriginateFails \/ StoreSid \/ MarkFallback
         \/ LkDial \/ LkFallback \/ LkNotAnswered \/ LkAnswered \/ LkMarkAnswered

LkWatch == LkEnded /\ (leg.state = "over" \/ agent.pc = "gone")

Agent == Build \/ Leave

Answer == VoiceWebhook \/ Judge \/ JudgeNobody \/ Act

Webhooks ==
    \/ \E k \in Kind : StatusWebhook(k)
    \/ \E j \in jobs : CallbackAmd(j) \/ Playback(j) \/ WrapUp(j)

Next ==
    \/ Place \/ LkEnded \/ Agent \/ GoDeaf \/ PickUp \/ HangUp \/ Answer \/ Webhooks
    \/ Cancel \/ CancelHangup \/ CancelApply \/ Delete

Spec == Init /\ [][Next]_vars

\* Coroutines go on, the provider delivers, phones stop ringing and people hang
\* up in the end, and an agent may fall silent: users owe nothing.
Fairness ==
    /\ WF_vars(Place) /\ WF_vars(LkWatch) /\ WF_vars(Agent) /\ WF_vars(HangUp)
    /\ WF_vars(Answer) /\ WF_vars(Webhooks)
    /\ WF_vars(CancelHangup) /\ WF_vars(CancelApply)

FairSpec == Spec /\ Fairness

-----------------------------------------------------------------------------
(* Properties. *)

\* A lead who heard the recording is reconciled as voicemail and nothing else,
\* however callbacks, AMD answers and repeats cross.
PlayedMeansVoicemail == leg.played => outcomes \subseteq {"voicemail"}

\* Nobody but a user takes the agent away from a person on the line.
HumanKeepsAgent ==
    /\ setup.path = "twilio" /\ setup.answered_by = "human"
    /\ leg.state = "talking" /\ user.pc = "none"
    => ~agent.stop

\* A Twilio call that ends gets its outcome onto the execution, unless its row
\* was deleted.
OutcomeArrives ==
    (leg.state = "over" /\ place = "placed") ~> (outcomes # {} \/ ~row.kept)
=============================================================================
