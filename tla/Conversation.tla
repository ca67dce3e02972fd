----------------------------- MODULE Conversation -----------------------------
(***************************************************************************)
(* The live conversation of one call: ai/orchestrator.py with its state    *)
(* machine (ai/state.py), the session that speaks (tts/streamer.py) and    *)
(* the one that listens (stt/streamer.py).                                 *)
(*                                                                         *)
(* Three coroutines share the state: the event loop, which handles one     *)
(* transcript event after the other and waits for the model in between;    *)
(* the speak task with the pump that sends one line; and run(), which the  *)
(* end of the call wakes.  What happens between two awaits is one step.    *)
(***************************************************************************)
EXTENDS Naturals, Sequences

CONSTANTS
    Phones,             \* which kinds of call: TRUE a phone, FALSE a browser room
    MaxEvents,          \* bound on the transcript events of a call
    TTS_MAX_ATTEMPTS    \* attempts to send one line

ASSUME ConversationAssumption ==
    /\ Phones \subseteq BOOLEAN
    /\ MaxEvents \in Nat
    /\ TTS_MAX_ATTEMPTS \in Nat \ {0}

VARIABLES
    phone,      \* is_phone_call; barge-in is off for phones
    state,      \* SessionStateMachine
    queue,      \* transcript events the loop has not taken yet
    heard,      \* transcript events so far
    loop,       \* the event loop: where it is, what it will say, cancel requested
    talk,       \* speak_task
    pump,       \* the pump of the line being spoken
    barge_ins,  \* stats.barge_ins
    cooling,    \* within BARGE_IN_COOLDOWN_MS of the last one
    stop,       \* the stop event
    exit        \* run() on its way out

talkVars == <<phone, state, queue, heard, loop, talk, pump, barge_ins, cooling, stop, exit>>

ConversationState ==
    {"LISTENING", "USER_SPEAKING", "PROCESSING", "AI_SPEAKING", "RECOVERY", "ENDED"}

\* UTTERANCE_END and empty finals only make the loop look at the idle deadline.
EventKind == {"SPEECH_STARTED", "PARTIAL", "FINAL", "UTTERANCE_END"}
Line == {"opening", "reply", "farewell", "fallback"}

TalkTypeOK ==
    /\ phone \in Phones
    /\ state \in ConversationState
    /\ queue \in Seq(EventKind) /\ Len(queue) <= heard
    /\ heard \in 0..MaxEvents
    /\ loop \in [pc : {"opening", "listening", "thinking", "booking", "silencing",
                       "interrupting", "gone"},
                 line : Line, cancelled : BOOLEAN]
    /\ talk \in {"none", "created", "speaking", "cut"}
    /\ pump \in [pc : {"none", "opening", "streaming", "done", "failed", "cut"},
                 attempt : 1..TTS_MAX_ATTEMPTS, replayed : BOOLEAN]
    /\ barge_ins \in 0..MaxEvents
    /\ cooling \in BOOLEAN /\ stop \in BOOLEAN
    /\ exit \in {"no", "cancelling", "silencing", "ended"}

Silent == [pc |-> "none", attempt |-> 1, replayed |-> FALSE]

TalkStarts(at, out) ==
    /\ phone \in Phones
    /\ state = "LISTENING"
    /\ queue = <<>> /\ heard = 0
    /\ loop = [pc |-> at, line |-> "opening", cancelled |-> FALSE]
    /\ talk = "none" /\ pump = Silent
    /\ barge_ins = 0 /\ cooling = FALSE
    /\ stop = FALSE /\ exit = out

\* Both sessions are open and the agent waits for the human.
TalkInit == TalkStarts("opening", "no")

Pumping == pump.pc \in {"opening", "streaming"}
is_speaking == Pumping
At(pc) == loop' = [loop EXCEPT !.pc = pc]

-----------------------------------------------------------------------------
(* Speaking a line: _safe_speak, _cleanup_speak_task, TTSSession, _pump.   *)

\* interrupt and cancel: the pump is told to stop.  A speak task that has not
\* run yet never will, nor will its finally.
Interrupts ==
    /\ pump' = IF Pumping THEN [pump EXCEPT !.pc = "cut"] ELSE pump
    /\ talk' = IF talk = "created" THEN "none"
               ELSE IF talk = "speaking" THEN "cut" ELSE talk

\* Slip: the old line is interrupted, its end is not waited for.
Slip_NoWait == TRUE

\* _cleanup_speak_task awaits the end of the old line.
OldLineOver == talk = "none"

\* The rest of _safe_speak and of its caller: the recovery is over as soon as
\* the task exists, a farewell sets stop.  A cancellation that met the loop
\* while it awaited the old line has been swallowed there.
BeginLine ==
    /\ loop.pc = "silencing"
    /\ OldLineOver
    /\ talk' = "created"
    /\ state' = IF loop.line = "fallback" THEN "LISTENING" ELSE "AI_SPEAKING"
    /\ loop' = [loop EXCEPT !.pc = "listening", !.cancelled = FALSE]
    /\ stop' = (stop \/ loop.line = "farewell")
    /\ UNCHANGED <<phone, queue, heard, pump, barge_ins, cooling, exit>>

RunnerStarts ==
    /\ talk = "created" /\ pump.pc = "none"
    /\ talk' = "speaking"
    /\ pump' = [Silent EXCEPT !.pc = "opening"]
    /\ UNCHANGED <<phone, state, queue, heard, loop, barge_ins, cooling, stop, exit>>

\* The first frame is published; the last one.
PumpPublishes ==
    /\ Pumping
    /\ pump' = [pump EXCEPT !.pc = IF pump.pc = "opening" THEN "streaming" ELSE "done"]
    /\ UNCHANGED <<phone, state, queue, heard, loop, talk, barge_ins, cooling, stop, exit>>

\* with_retry tries every failure again, also one in the middle of the line.
PumpFails ==
    /\ Pumping
    /\ pump' = IF pump.attempt < TTS_MAX_ATTEMPTS
               THEN [pc |-> "opening", attempt |-> pump.attempt + 1,
                     replayed |-> pump.replayed \/ pump.pc = "streaming"]
               ELSE [pump EXCEPT !.pc = "failed"]
    /\ UNCHANGED <<phone, state, queue, heard, loop, talk, barge_ins, cooling, stop, exit>>

\* The runner's finally, after the last frame, a failure or an interruption.
RunnerEnds ==
    /\ talk \in {"speaking", "cut"} /\ pump.pc \in {"done", "failed", "cut"}
    /\ talk' = "none"
    /\ pump' = Silent
    /\ state' = IF state = "AI_SPEAKING" THEN "LISTENING" ELSE state
    /\ UNCHANGED <<phone, queue, heard, loop, barge_ins, cooling, stop, exit>>

-----------------------------------------------------------------------------
(* Listening: the event loop.                                              *)

\* Deepgram's events arrive whatever the loop is doing.
Hear ==
    /\ heard < MaxEvents /\ loop.pc # "gone"
    /\ heard' = heard + 1
    /\ \E kind \in EventKind : queue' = Append(queue, kind)
    /\ UNCHANGED <<phone, state, loop, talk, pump, barge_ins, cooling, stop, exit>>

\* _await_human_then_open: the human joined or the wait is over.
Open ==
    /\ loop.pc = "opening"
    /\ At("listening")
    /\ \/ /\ talk' = "created"
          /\ state' = "AI_SPEAKING"
       \/ UNCHANGED <<talk, state>>         \* no opening line
    /\ UNCHANGED <<phone, queue, heard, pump, barge_ins, cooling, stop, exit>>

\* Slip: only the state is looked at.
Slip_StateOnly == phone /\ state = "AI_SPEAKING"

_barge_in_suppressed == phone /\ (state = "AI_SPEAKING" \/ is_speaking)

\* The event at the head of the queue is taken; the stop event is looked at first.
Takes(kind) ==
    /\ loop.pc = "listening" /\ ~stop
    /\ queue # <<>> /\ Head(queue) = kind
    /\ queue' = Tail(queue)

_trigger_barge_in ==
    IF cooling
    THEN UNCHANGED <<state, loop, talk, pump, barge_ins, cooling>>
    ELSE /\ barge_ins' = barge_ins + 1
         /\ cooling' = TRUE
         /\ state' = "USER_SPEAKING"
         /\ pump' = [pump EXCEPT !.pc = "cut"]
         /\ At("interrupting")
         /\ UNCHANGED talk

OnSpeechStarted ==
    /\ Takes("SPEECH_STARTED")
    /\ \/ /\ ~_barge_in_suppressed /\ is_speaking
          /\ _trigger_barge_in
       \/ /\ ~_barge_in_suppressed /\ ~is_speaking
          /\ state' = "USER_SPEAKING"
          /\ UNCHANGED <<loop, talk, pump, barge_ins, cooling>>
       \/ /\ _barge_in_suppressed
          /\ UNCHANGED <<state, loop, talk, pump, barge_ins, cooling>>
    /\ UNCHANGED <<phone, heard, stop, exit>>

OnPartial ==
    /\ Takes("PARTIAL")
    /\ IF is_speaking /\ ~_barge_in_suppressed
       THEN _trigger_barge_in
       ELSE UNCHANGED <<state, loop, talk, pump, barge_ins, cooling>>
    /\ UNCHANGED <<phone, heard, stop, exit>>

\* _handle_user_turn asks the model, AI_TURN_TIMEOUT_SECONDS at most.  What
\* is being spoken goes on meanwhile.
OnFinal ==
    /\ Takes("FINAL")
    /\ state' = "PROCESSING"
    /\ At("thinking")
    /\ UNCHANGED <<phone, heard, talk, pump, barge_ins, cooling, stop, exit>>

OnUtteranceEnd ==
    /\ Takes("UTTERANCE_END")
    /\ UNCHANGED <<phone, state, heard, loop, talk, pump, barge_ins, cooling, stop, exit>>

\* The event at the head of the queue finds the stop event set.
SeesStop ==
    /\ loop.pc = "listening" /\ stop /\ queue # <<>>
    /\ At("gone")
    /\ UNCHANGED <<phone, state, queue, heard, talk, pump, barge_ins, cooling, stop, exit>>

\* The idle deadline has passed, or the reconnect attempts are used up.
LoopReturns ==
    /\ loop.pc = "listening"
    /\ At("gone")
    /\ UNCHANGED <<phone, state, queue, heard, talk, pump, barge_ins, cooling, stop, exit>>

InterruptDone ==
    /\ loop.pc = "interrupting" /\ talk = "none"
    /\ loop' = [loop EXCEPT !.pc = "listening", !.cancelled = FALSE]
    /\ UNCHANGED <<phone, state, queue, heard, talk, pump, barge_ins, cooling, stop, exit>>

CooldownEnds ==
    /\ cooling
    /\ cooling' = FALSE
    /\ UNCHANGED <<phone, state, queue, heard, loop, talk, pump, barge_ins, stop, exit>>

Says(line, newState) ==
    /\ loop' = [loop EXCEPT !.pc = "silencing", !.line = line]
    /\ state' = newState
    /\ Interrupts
    /\ UNCHANGED <<phone, queue, heard, barge_ins, cooling, stop, exit>>

\* The model has answered within the deadline.  The booking handler asks Redis,
\* Google and the model in turn; without one the meeting status goes to Redis.
ModelAnswers ==
    /\ loop.pc = "thinking"
    /\ At("booking")
    /\ UNCHANGED <<phone, state, queue, heard, talk, pump, barge_ins, cooling, stop, exit>>

\* That has no deadline.  Then the handler's line or the model's; a farewell to a
\* disqualified lead or on a branch that ends the call.
Reply ==
    /\ loop.pc = "booking"
    /\ \E line \in {"reply", "farewell"} : Says(line, "AI_SPEAKING")

\* Slip: the turn has no deadline.
Slip_NoDeadline == FALSE

\* The attempts are used up or the deadline has passed: _enter_recovery.
TurnFails ==
    /\ loop.pc = "thinking"
    /\ Says("fallback", "RECOVERY")

\* Any other exception of the turn ends the event loop.
LoopCrashes ==
    /\ loop.pc \in {"thinking", "booking"}
    /\ At("gone")
    /\ UNCHANGED <<phone, state, queue, heard, talk, pump, barge_ins, cooling, stop, exit>>

-----------------------------------------------------------------------------
(* The end of the call.                                                    *)

Stop ==
    /\ ~stop
    /\ stop' = TRUE
    /\ UNCHANGED <<phone, state, queue, heard, loop, talk, pump, barge_ins, cooling, exit>>

\* run() wakes, cancels the loop and waits for it.
Exit ==
    /\ stop /\ exit = "no" /\ loop.pc # "opening"
    /\ exit' = "cancelling"
    /\ loop' = [loop EXCEPT !.cancelled = (loop.pc # "gone")]
    /\ UNCHANGED <<phone, state, queue, heard, talk, pump, barge_ins, cooling, stop>>

\* Slip: the booking handler catches everything.
Slip_CaughtInBooking ==
    /\ loop.cancelled /\ loop.pc \in {"listening", "thinking"}
    /\ At("gone")
    /\ UNCHANGED <<phone, state, queue, heard, talk, pump, barge_ins, cooling, stop, exit>>

\* Not while the loop awaits an old line: that wait swallows the cancellation.
CancelLands ==
    /\ loop.cancelled
    /\ \/ loop.pc \in {"listening", "thinking", "booking"}
       \/ loop.pc = "interrupting" /\ talk = "none"
    /\ At("gone")
    /\ UNCHANGED <<phone, state, queue, heard, talk, pump, barge_ins, cooling, stop, exit>>

LoopOver == loop.pc = "gone"

ExitSilences ==
    /\ exit = "cancelling" /\ LoopOver
    /\ exit' = "silencing"
    /\ Interrupts
    /\ UNCHANGED <<phone, state, queue, heard, loop, barge_ins, cooling, stop>>

End ==
    /\ exit = "silencing" /\ talk = "none"
    /\ exit' = "ended"
    /\ state' = "ENDED"
    /\ UNCHANGED <<phone, queue, heard, loop, talk, pump, barge_ins, cooling, stop>>

Voice == RunnerStarts \/ PumpPublishes \/ PumpFails \/ RunnerEnds
Loop  == \/ Open \/ OnSpeechStarted \/ OnPartial \/ OnFinal \/ OnUtteranceEnd \/ SeesStop
         \/ BeginLine \/ InterruptDone \/ TurnFails \/ CancelLands
LeaveRun == Exit \/ ExitSilences \/ End

TalkNext ==
    \/ Voice \/ Loop \/ LeaveRun \/ Hear \/ ModelAnswers \/ Reply \/ LoopCrashes
    \/ LoopReturns \/ CooldownEnds \/ Stop

\* asyncio runs what is ready, lines end, and the model has a deadline.  Nobody has
\* to speak, the model and the booking handler need not answer, and the transcript
\* need not go on.
TalkFairness == WF_talkVars(Voice) /\ WF_talkVars(Loop) /\ WF_talkVars(LeaveRun)

TalkSpec == TalkInit /\ [][TalkNext]_talkVars
TalkFairly == TalkSpec /\ TalkFairness

-----------------------------------------------------------------------------
(* Properties.                                                             *)

\* Nobody starts to speak while the pump of another line is at work: speak would
\* raise "already speaking" and the line would be lost.
OneVoice == talk = "created" => pump.pc = "none"

\* AI_SPEAKING is never left behind: on a phone that state makes the loop ignore
\* speech, so an agent stuck in it would not hear SPEECH_STARTED any more.
SpeakingMeansVoice ==
    state = "AI_SPEAKING" =>
        talk # "none" \/ loop.pc = "silencing" \/ exit = "silencing"

\* With PHONE_CALL_BARGE_IN_ENABLED off, no noise on a phone line ever cuts the
\* agent off, also not where the state says LISTENING while a recovery line plays.
PhoneIsNotCut == phone => barge_ins = 0

QuietAfterEnd ==
    state = "ENDED" => talk = "none" /\ pump.pc = "none" /\ loop.pc = "gone"

\* What is heard from the agent and what the state machine says of it agree over
\* every order of transcript events, failures, barge-ins and the end of the call:
\* one line at a time, AI_SPEAKING only with a line spoken, about to be or just
\* cut by run(), no phone line cut off, and silence after the end.
VoiceKeepsOrder == OneVoice /\ SpeakingMeansVoice /\ PhoneIsNotCut /\ QuietAfterEnd

\* Also when the model never answers, the loop listens again or has gone on to the
\* booking.  That may hang for as long as the call lasts, but no longer: when the
\* call is stopped the turn ends.
TurnEnds ==
    /\ []<>(loop.pc # "thinking")
    /\ []<>~(loop.pc = "booking" /\ stop)
=============================================================================
