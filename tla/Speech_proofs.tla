--------------------------- MODULE Speech_proofs ---------------------------
(***************************************************************************)
(* What the live call's components promise, for every value of the         *)
(* constants: the order of the conversation (Conversation), what the       *)
(* recogniser hears (Hearing), and the agents and recordings behind the    *)
(* calls (CallRecords).  Each part has its own inductive invariant.        *)
(***************************************************************************)
EXTENDS Conversation, Hearing, CallRecords, SequenceTheorems, FiniteSetTheorems, TLAPS

-----------------------------------------------------------------------------
(* The conversation, for any number of events and attempts. *)

\* A pump is at work, or has ended, just while its runner runs; the first line is
\* the first; and who has left the loop, or the call, says nothing any more.
TalkInv ==
    /\ pump.pc = "none" <=> talk \in {"none", "created"}
    /\ loop.pc = "opening" => talk = "none"
    /\ exit \in {"silencing", "ended"} => loop.pc = "gone"
    /\ exit = "ended" => talk = "none"
    /\ state = "ENDED" => exit = "ended"

\* Every event was heard before it was taken, and a barge-in takes one.
HeardInv == barge_ins + Len(queue) <= heard

ConversationInv == TalkTypeOK /\ TalkInv /\ HeardInv /\ VoiceKeepsOrder

\* The pump and the loop, field by field.
LEMMA PumpIs ==
    ASSUME TalkTypeOK
    PROVE  /\ pump.pc \in {"none", "opening", "streaming", "done", "failed", "cut"}
           /\ pump.attempt \in 1..TTS_MAX_ATTEMPTS /\ pump.replayed \in BOOLEAN
           /\ loop.pc \in {"opening", "listening", "thinking", "booking", "silencing",
                   "interrupting", "gone"}
           /\ loop.line \in Line /\ loop.cancelled \in BOOLEAN
           /\ queue \in Seq(EventKind) /\ Len(queue) \in Nat
<1>1. queue \in Seq(EventKind)
  BY DEF TalkTypeOK
<1>2. Len(queue) \in Nat
  BY <1>1, LenProperties
<1> QED BY <1>1, <1>2 DEF TalkTypeOK

\* The old line is over and the next one begins.
LEMMA BeginLineOrders == ConversationInv /\ BeginLine => ConversationInv'
<1> SUFFICES ASSUME ConversationInv, BeginLine PROVE ConversationInv'
  OBVIOUS
<1>1. TalkTypeOK'
  BY PumpIs, ConversationAssumption DEF ConversationInv, TalkTypeOK, ConversationState, Line, BeginLine, OldLineOver
<1>2. TalkInv' /\ HeardInv'
  BY PumpIs DEF ConversationInv, TalkInv, HeardInv, TalkTypeOK, BeginLine, OldLineOver
<1>3. VoiceKeepsOrder'
  BY PumpIs DEF ConversationInv, TalkInv, TalkTypeOK, VoiceKeepsOrder, OneVoice, SpeakingMeansVoice,
                PhoneIsNotCut, QuietAfterEnd, BeginLine, OldLineOver
<1> QED BY <1>1, <1>2, <1>3 DEF ConversationInv

\* The runner of a line starts, unless the line has been cut.
LEMMA RunnerStartsOrders == ConversationInv /\ RunnerStarts => ConversationInv'
<1> SUFFICES ASSUME ConversationInv, RunnerStarts PROVE ConversationInv'
  OBVIOUS
<1>1. TalkTypeOK'
  <2>1. pump' = [[pc |-> "none", attempt |-> 1, replayed |-> FALSE] EXCEPT !.pc = "opening"]
    BY DEF RunnerStarts, Silent
  <2>2. 1 \in 1..TTS_MAX_ATTEMPTS
    BY ConversationAssumption
  <2>3. pump' \in [pc : {"none", "opening", "streaming", "done", "failed", "cut"},
                  attempt : 1..TTS_MAX_ATTEMPTS, replayed : BOOLEAN]
    BY <2>1, <2>2
  <2>4. talk' = "speaking"
    BY DEF RunnerStarts
  <2> QED BY <2>3, <2>4 DEF ConversationInv, TalkTypeOK, RunnerStarts
<1>2. TalkInv' /\ HeardInv'
  BY PumpIs DEF ConversationInv, TalkInv, HeardInv, TalkTypeOK, RunnerStarts, Silent
<1>3. VoiceKeepsOrder'
  BY PumpIs DEF ConversationInv, TalkInv, TalkTypeOK, VoiceKeepsOrder, OneVoice, SpeakingMeansVoice,
                PhoneIsNotCut, QuietAfterEnd, RunnerStarts, Silent
<1> QED BY <1>1, <1>2, <1>3 DEF ConversationInv

\* The pump publishes.
LEMMA PumpPublishesOrders == ConversationInv /\ PumpPublishes => ConversationInv'
<1> SUFFICES ASSUME ConversationInv, PumpPublishes PROVE ConversationInv'
  OBVIOUS
<1>1. TalkTypeOK'
  BY PumpIs, ConversationAssumption DEF ConversationInv, TalkTypeOK, ConversationState, Line, PumpPublishes, Pumping
<1>2. TalkInv' /\ HeardInv'
  BY PumpIs DEF ConversationInv, TalkInv, HeardInv, TalkTypeOK, PumpPublishes, Pumping
<1>3. VoiceKeepsOrder'
  BY PumpIs DEF ConversationInv, TalkInv, TalkTypeOK, VoiceKeepsOrder, OneVoice, SpeakingMeansVoice,
                PhoneIsNotCut, QuietAfterEnd, PumpPublishes, Pumping
<1> QED BY <1>1, <1>2, <1>3 DEF ConversationInv

\* The pump fails and tries again, if it may.
LEMMA PumpFailsOrders == ConversationInv /\ PumpFails => ConversationInv'
<1> SUFFICES ASSUME ConversationInv, PumpFails PROVE ConversationInv'
  OBVIOUS
<1>1. TalkTypeOK'
  BY PumpIs, ConversationAssumption DEF ConversationInv, TalkTypeOK, ConversationState, Line, PumpFails, Pumping
<1>2. TalkInv' /\ HeardInv'
  BY PumpIs DEF ConversationInv, TalkInv, HeardInv, TalkTypeOK, PumpFails, Pumping
<1>3. VoiceKeepsOrder'
  BY PumpIs DEF ConversationInv, TalkInv, TalkTypeOK, VoiceKeepsOrder, OneVoice, SpeakingMeansVoice,
                PhoneIsNotCut, QuietAfterEnd, PumpFails, Pumping
<1> QED BY <1>1, <1>2, <1>3 DEF ConversationInv

\* The runner ends, and AI_SPEAKING with it.
LEMMA RunnerEndsOrders == ConversationInv /\ RunnerEnds => ConversationInv'
<1> SUFFICES ASSUME ConversationInv, RunnerEnds PROVE ConversationInv'
  OBVIOUS
<1>1. TalkTypeOK'
  BY PumpIs, ConversationAssumption DEF ConversationInv, TalkTypeOK, ConversationState, Line, RunnerEnds, Silent
<1>2. TalkInv' /\ HeardInv'
  BY PumpIs DEF ConversationInv, TalkInv, HeardInv, TalkTypeOK, RunnerEnds, Silent
<1>3. VoiceKeepsOrder'
  BY PumpIs DEF ConversationInv, TalkInv, TalkTypeOK, VoiceKeepsOrder, OneVoice, SpeakingMeansVoice,
                PhoneIsNotCut, QuietAfterEnd, RunnerEnds, Silent
<1> QED BY <1>1, <1>2, <1>3 DEF ConversationInv

\* The opening line, if there is one.
LEMMA OpenOrders == ConversationInv /\ Open => ConversationInv'
<1> SUFFICES ASSUME ConversationInv, Open PROVE ConversationInv'
  OBVIOUS
<1>1. TalkTypeOK'
  BY PumpIs, ConversationAssumption DEF ConversationInv, TalkTypeOK, ConversationState, Line, Open, At
<1>2. TalkInv' /\ HeardInv'
  BY PumpIs DEF ConversationInv, TalkInv, HeardInv, TalkTypeOK, Open, At
<1>3. VoiceKeepsOrder'
  BY PumpIs DEF ConversationInv, TalkInv, TalkTypeOK, VoiceKeepsOrder, OneVoice, SpeakingMeansVoice,
                PhoneIsNotCut, QuietAfterEnd, Open, At
<1> QED BY <1>1, <1>2, <1>3 DEF ConversationInv

\* The loop sees the stop event.
LEMMA SeesStopOrders == ConversationInv /\ SeesStop => ConversationInv'
<1> SUFFICES ASSUME ConversationInv, SeesStop PROVE ConversationInv'
  OBVIOUS
<1>1. TalkTypeOK'
  BY PumpIs, ConversationAssumption DEF ConversationInv, TalkTypeOK, ConversationState, Line, SeesStop, At
<1>2. TalkInv' /\ HeardInv'
  BY PumpIs DEF ConversationInv, TalkInv, HeardInv, TalkTypeOK, SeesStop, At
<1>3. VoiceKeepsOrder'
  BY PumpIs DEF ConversationInv, TalkInv, TalkTypeOK, VoiceKeepsOrder, OneVoice, SpeakingMeansVoice,
                PhoneIsNotCut, QuietAfterEnd, SeesStop, At
<1> QED BY <1>1, <1>2, <1>3 DEF ConversationInv

\* The loop returns.
LEMMA LoopReturnsOrders == ConversationInv /\ LoopReturns => ConversationInv'
<1> SUFFICES ASSUME ConversationInv, LoopReturns PROVE ConversationInv'
  OBVIOUS
<1>1. TalkTypeOK'
  BY PumpIs, ConversationAssumption DEF ConversationInv, TalkTypeOK, ConversationState, Line, LoopReturns, At
<1>2. TalkInv' /\ HeardInv'
  BY PumpIs DEF ConversationInv, TalkInv, HeardInv, TalkTypeOK, LoopReturns, At
<1>3. VoiceKeepsOrder'
  BY PumpIs DEF ConversationInv, TalkInv, TalkTypeOK, VoiceKeepsOrder, OneVoice, SpeakingMeansVoice,
                PhoneIsNotCut, QuietAfterEnd, LoopReturns, At
<1> QED BY <1>1, <1>2, <1>3 DEF ConversationInv

\* The barge-in has been dealt with.
LEMMA InterruptDoneOrders == ConversationInv /\ InterruptDone => ConversationInv'
<1> SUFFICES ASSUME ConversationInv, InterruptDone PROVE ConversationInv'
  OBVIOUS
<1>1. TalkTypeOK'
  BY ZenonT(60), PumpIs, ConversationAssumption DEF ConversationInv, TalkTypeOK, ConversationState, Line, InterruptDone
<1>2. TalkInv' /\ HeardInv'
  BY PumpIs DEF ConversationInv, TalkInv, HeardInv, TalkTypeOK, InterruptDone
<1>3. VoiceKeepsOrder'
  BY PumpIs DEF ConversationInv, TalkInv, TalkTypeOK, VoiceKeepsOrder, OneVoice, SpeakingMeansVoice,
                PhoneIsNotCut, QuietAfterEnd, InterruptDone
<1> QED BY <1>1, <1>2, <1>3 DEF ConversationInv

\* The next barge-in may come.
LEMMA CooldownEndsOrders == ConversationInv /\ CooldownEnds => ConversationInv'
<1> SUFFICES ASSUME ConversationInv, CooldownEnds PROVE ConversationInv'
  OBVIOUS
<1>1. TalkTypeOK'
  <2>1. cooling' \in BOOLEAN
    BY DEF CooldownEnds
  <2> QED BY <2>1 DEF ConversationInv, TalkTypeOK, CooldownEnds
<1>2. TalkInv' /\ HeardInv'
  BY PumpIs DEF ConversationInv, TalkInv, HeardInv, TalkTypeOK, CooldownEnds
<1>3. VoiceKeepsOrder'
  BY PumpIs DEF ConversationInv, TalkInv, TalkTypeOK, VoiceKeepsOrder, OneVoice, SpeakingMeansVoice,
                PhoneIsNotCut, QuietAfterEnd, CooldownEnds
<1> QED BY <1>1, <1>2, <1>3 DEF ConversationInv

\* The reply interrupts what is being said.
LEMMA ReplyOrders == ConversationInv /\ Reply => ConversationInv'
<1> SUFFICES ASSUME ConversationInv, Reply PROVE ConversationInv'
  OBVIOUS
<1>1. TalkTypeOK'
  BY ZenonT(60), PumpIs, ConversationAssumption DEF ConversationInv, TalkTypeOK, ConversationState, Line, Reply, Says, Interrupts, Pumping
<1>2. TalkInv' /\ HeardInv'
  BY PumpIs DEF ConversationInv, TalkInv, HeardInv, TalkTypeOK, Reply, Says, Interrupts, Pumping
<1>3. VoiceKeepsOrder'
  BY PumpIs DEF ConversationInv, TalkInv, TalkTypeOK, VoiceKeepsOrder, OneVoice, SpeakingMeansVoice,
                PhoneIsNotCut, QuietAfterEnd, Reply, Says, Interrupts, Pumping
<1> QED BY <1>1, <1>2, <1>3 DEF ConversationInv

\* So does the recovery line.
LEMMA TurnFailsOrders == ConversationInv /\ TurnFails => ConversationInv'
<1> SUFFICES ASSUME ConversationInv, TurnFails PROVE ConversationInv'
  OBVIOUS
<1>1. TalkTypeOK'
  BY PumpIs, ConversationAssumption DEF ConversationInv, TalkTypeOK, ConversationState, Line, TurnFails, Says, Interrupts, Pumping
<1>2. TalkInv' /\ HeardInv'
  BY PumpIs DEF ConversationInv, TalkInv, HeardInv, TalkTypeOK, TurnFails, Says, Interrupts, Pumping
<1>3. VoiceKeepsOrder'
  BY PumpIs DEF ConversationInv, TalkInv, TalkTypeOK, VoiceKeepsOrder, OneVoice, SpeakingMeansVoice,
                PhoneIsNotCut, QuietAfterEnd, TurnFails, Says, Interrupts, Pumping
<1> QED BY <1>1, <1>2, <1>3 DEF ConversationInv

\* The loop ends in an exception.
LEMMA LoopCrashesOrders == ConversationInv /\ LoopCrashes => ConversationInv'
<1> SUFFICES ASSUME ConversationInv, LoopCrashes PROVE ConversationInv'
  OBVIOUS
<1>1. TalkTypeOK'
  BY PumpIs, ConversationAssumption DEF ConversationInv, TalkTypeOK, ConversationState, Line, LoopCrashes, At
<1>2. TalkInv' /\ HeardInv'
  BY PumpIs DEF ConversationInv, TalkInv, HeardInv, TalkTypeOK, LoopCrashes, At
<1>3. VoiceKeepsOrder'
  BY PumpIs DEF ConversationInv, TalkInv, TalkTypeOK, VoiceKeepsOrder, OneVoice, SpeakingMeansVoice,
                PhoneIsNotCut, QuietAfterEnd, LoopCrashes, At
<1> QED BY <1>1, <1>2, <1>3 DEF ConversationInv

\* The model answers and the booking is asked.
LEMMA ModelAnswersOrders == ConversationInv /\ ModelAnswers => ConversationInv'
<1> SUFFICES ASSUME ConversationInv, ModelAnswers PROVE ConversationInv'
  OBVIOUS
<1>1. TalkTypeOK'
  BY PumpIs, ConversationAssumption DEF ConversationInv, TalkTypeOK, ConversationState, Line, ModelAnswers, At
<1>2. TalkInv' /\ HeardInv'
  BY PumpIs DEF ConversationInv, TalkInv, HeardInv, TalkTypeOK, ModelAnswers, At
<1>3. VoiceKeepsOrder'
  BY PumpIs DEF ConversationInv, TalkInv, TalkTypeOK, VoiceKeepsOrder, OneVoice, SpeakingMeansVoice,
                PhoneIsNotCut, QuietAfterEnd, ModelAnswers, At
<1> QED BY <1>1, <1>2, <1>3 DEF ConversationInv

\* The call is told to stop.
LEMMA StopOrders == ConversationInv /\ Stop => ConversationInv'
<1> SUFFICES ASSUME ConversationInv, Stop PROVE ConversationInv'
  OBVIOUS
<1>1. TalkTypeOK'
  BY PumpIs, ConversationAssumption DEF ConversationInv, TalkTypeOK, ConversationState, Line, Stop
<1>2. TalkInv' /\ HeardInv'
  BY PumpIs DEF ConversationInv, TalkInv, HeardInv, TalkTypeOK, Stop
<1>3. VoiceKeepsOrder'
  BY PumpIs DEF ConversationInv, TalkInv, TalkTypeOK, VoiceKeepsOrder, OneVoice, SpeakingMeansVoice,
                PhoneIsNotCut, QuietAfterEnd, Stop
<1> QED BY <1>1, <1>2, <1>3 DEF ConversationInv

\* run() wakes and cancels the loop.
LEMMA ExitOrders == ConversationInv /\ Exit => ConversationInv'
<1> SUFFICES ASSUME ConversationInv, Exit PROVE ConversationInv'
  OBVIOUS
<1>1. TalkTypeOK'
  BY PumpIs, ConversationAssumption DEF ConversationInv, TalkTypeOK, ConversationState, Line, Exit
<1>2. TalkInv' /\ HeardInv'
  BY PumpIs DEF ConversationInv, TalkInv, HeardInv, TalkTypeOK, Exit
<1>3. VoiceKeepsOrder'
  BY PumpIs DEF ConversationInv, TalkInv, TalkTypeOK, VoiceKeepsOrder, OneVoice, SpeakingMeansVoice,
                PhoneIsNotCut, QuietAfterEnd, Exit
<1> QED BY <1>1, <1>2, <1>3 DEF ConversationInv

\* The cancellation meets the loop.
LEMMA CancelLandsOrders == ConversationInv /\ CancelLands => ConversationInv'
<1> SUFFICES ASSUME ConversationInv, CancelLands PROVE ConversationInv'
  OBVIOUS
<1>1. TalkTypeOK'
  BY PumpIs, ConversationAssumption DEF ConversationInv, TalkTypeOK, ConversationState, Line, CancelLands, At
<1>2. TalkInv' /\ HeardInv'
  BY PumpIs DEF ConversationInv, TalkInv, HeardInv, TalkTypeOK, CancelLands, At
<1>3. VoiceKeepsOrder'
  BY PumpIs DEF ConversationInv, TalkInv, TalkTypeOK, VoiceKeepsOrder, OneVoice, SpeakingMeansVoice,
                PhoneIsNotCut, QuietAfterEnd, CancelLands, At
<1> QED BY <1>1, <1>2, <1>3 DEF ConversationInv

\* run() interrupts what is being said.
LEMMA ExitSilencesOrders == ConversationInv /\ ExitSilences => ConversationInv'
<1> SUFFICES ASSUME ConversationInv, ExitSilences PROVE ConversationInv'
  OBVIOUS
<1>1. TalkTypeOK'
  BY PumpIs, ConversationAssumption DEF ConversationInv, TalkTypeOK, ConversationState, Line, ExitSilences, LoopOver, Interrupts, Pumping
<1>2. TalkInv' /\ HeardInv'
  BY PumpIs DEF ConversationInv, TalkInv, HeardInv, TalkTypeOK, ExitSilences, LoopOver, Interrupts, Pumping
<1>3. VoiceKeepsOrder'
  BY PumpIs DEF ConversationInv, TalkInv, TalkTypeOK, VoiceKeepsOrder, OneVoice, SpeakingMeansVoice,
                PhoneIsNotCut, QuietAfterEnd, ExitSilences, LoopOver, Interrupts, Pumping
<1> QED BY <1>1, <1>2, <1>3 DEF ConversationInv

\* The conversation has ended.
LEMMA EndOrders == ConversationInv /\ End => ConversationInv'
<1> SUFFICES ASSUME ConversationInv, End PROVE ConversationInv'
  OBVIOUS
<1>1. TalkTypeOK'
  BY PumpIs, ConversationAssumption DEF ConversationInv, TalkTypeOK, ConversationState, Line, End
<1>2. TalkInv' /\ HeardInv'
  BY PumpIs DEF ConversationInv, TalkInv, HeardInv, TalkTypeOK, End
<1>3. VoiceKeepsOrder'
  BY PumpIs DEF ConversationInv, TalkInv, TalkTypeOK, VoiceKeepsOrder, OneVoice, SpeakingMeansVoice,
                PhoneIsNotCut, QuietAfterEnd, End
<1> QED BY <1>1, <1>2, <1>3 DEF ConversationInv

\* An event is taken from the queue.
LEMMA TakenIs ==
    ASSUME ConversationInv, NEW kind, Takes(kind)
    PROVE  /\ queue' \in Seq(EventKind) /\ Len(queue') = Len(queue) - 1
           /\ Len(queue) \in Nat /\ Len(queue) > 0 /\ loop.pc = "listening"
<1>1. queue \in Seq(EventKind) /\ queue # <<>>
  BY PumpIs DEF ConversationInv, Takes
<1>2. Tail(queue) \in Seq(EventKind) /\ Len(Tail(queue)) = Len(queue) - 1
  BY <1>1, HeadTailProperties
<1>3. Len(queue) \in Nat /\ Len(queue) # 0
  BY <1>1, EmptySeq, LenProperties
<1> QED BY <1>2, <1>3 DEF Takes

\* Deepgram's events arrive.
LEMMA HearOrders == ConversationInv /\ Hear => ConversationInv'
<1> SUFFICES ASSUME ConversationInv, Hear PROVE ConversationInv'
  OBVIOUS
<1>1. PICK kind \in EventKind : queue' = Append(queue, kind)
  BY DEF Hear
<1>2. queue \in Seq(EventKind) /\ Len(queue) \in Nat
  BY PumpIs DEF ConversationInv
<1>3. Append(queue, kind) \in Seq(EventKind) /\ Len(Append(queue, kind)) = Len(queue) + 1
  BY <1>2, AppendProperties
<1>4. queue' \in Seq(EventKind) /\ Len(queue') = Len(queue) + 1
  BY <1>1, <1>3
<1>5. TalkTypeOK'
  BY <1>2, <1>4, ConversationAssumption DEF ConversationInv, TalkTypeOK, Hear
<1>6. TalkInv' /\ HeardInv'
  BY <1>2, <1>4, ConversationAssumption DEF ConversationInv, TalkTypeOK, TalkInv, HeardInv, Hear
<1>7. VoiceKeepsOrder'
  BY DEF ConversationInv, VoiceKeepsOrder, OneVoice, SpeakingMeansVoice, PhoneIsNotCut, QuietAfterEnd, Hear
<1> QED BY <1>5, <1>6, <1>7 DEF ConversationInv

\* An event that changes nothing is taken.
LEMMA IgnoredOrders ==
    ASSUME ConversationInv, NEW kind, Takes(kind),
           UNCHANGED <<phone, state, heard, loop, talk, pump, barge_ins, cooling, stop, exit>>
    PROVE  ConversationInv'
<1>1. TalkTypeOK' /\ HeardInv'
  BY TakenIs, ConversationAssumption DEF ConversationInv, TalkTypeOK, HeardInv
<1>2. TalkInv'
  BY DEF ConversationInv, TalkInv
<1>3. VoiceKeepsOrder'
  BY DEF ConversationInv, VoiceKeepsOrder, OneVoice, SpeakingMeansVoice, PhoneIsNotCut, QuietAfterEnd
<1> QED BY <1>1, <1>2, <1>3 DEF ConversationInv

\* A barge-in: never on a phone, and only while a pump is at work, which goes on
\* to its runner's end.
LEMMA BargeInOrders ==
    ASSUME ConversationInv, NEW kind, Takes(kind), ~phone, is_speaking, _trigger_barge_in,
           UNCHANGED <<phone, heard, stop, exit>>
    PROVE  ConversationInv'
<1>1. CASE cooling
  BY <1>1, IgnoredOrders DEF _trigger_barge_in
<1>2. CASE ~cooling
  <2>1. /\ barge_ins' = barge_ins + 1 /\ cooling' = TRUE /\ state' = "USER_SPEAKING"
        /\ pump' = [pump EXCEPT !.pc = "cut"] /\ loop' = [loop EXCEPT !.pc = "interrupting"]
        /\ talk' = talk
    BY <1>2 DEF _trigger_barge_in, At
  <2>2. barge_ins \in Nat /\ heard \in 0..MaxEvents /\ barge_ins + Len(queue) <= heard
    BY ConversationAssumption DEF ConversationInv, TalkTypeOK, HeardInv
  <2>3. barge_ins' \in 0..MaxEvents
    BY <2>1, <2>2, TakenIs, ConversationAssumption
  <2>4. HeardInv'
    BY <2>1, <2>2, TakenIs DEF HeardInv
  <2>5. cooling' \in BOOLEAN
    BY <2>1
  <2>6. pump' \in [pc : {"none", "opening", "streaming", "done", "failed", "cut"},
                  attempt : 1..TTS_MAX_ATTEMPTS, replayed : BOOLEAN] /\ pump'.pc = "cut"
    BY <2>1 DEF ConversationInv, TalkTypeOK
  <2>7. loop' \in [pc : {"opening", "listening", "thinking", "booking", "silencing",
                   "interrupting", "gone"},
                  line : Line, cancelled : BOOLEAN] /\ loop'.pc = "interrupting"
    BY <2>1 DEF ConversationInv, TalkTypeOK
  <2>8. Len(queue') <= heard'
    BY <2>2, TakenIs, ConversationAssumption
  <2>9. TalkTypeOK'
    BY <2>1, <2>3, <2>5, <2>6, <2>7, <2>8, TakenIs DEF ConversationInv, TalkTypeOK, ConversationState
  <2>10. loop.pc = "listening"
    BY TakenIs
  <2>11. TalkInv'
    BY <2>1, <2>6, <2>7, <2>10 DEF ConversationInv, TalkInv, is_speaking, Pumping
  <2>12. VoiceKeepsOrder'
    BY <2>1, <2>6, <2>7, <2>10 DEF ConversationInv, TalkInv, VoiceKeepsOrder, OneVoice, SpeakingMeansVoice,
                     PhoneIsNotCut, QuietAfterEnd, is_speaking, Pumping
  <2> QED BY <2>4, <2>9, <2>11, <2>12 DEF ConversationInv
<1> QED BY <1>1, <1>2

\* Speech starts.
LEMMA OnSpeechStartedOrders == ConversationInv /\ OnSpeechStarted => ConversationInv'
<1> SUFFICES ASSUME ConversationInv, OnSpeechStarted PROVE ConversationInv'
  OBVIOUS
<1>0. Takes("SPEECH_STARTED") /\ UNCHANGED <<phone, heard, stop, exit>>
  BY DEF OnSpeechStarted
<1>1. CASE ~_barge_in_suppressed /\ is_speaking /\ _trigger_barge_in
  <2>1. CASE phone
    BY <1>1, <2>1 DEF _barge_in_suppressed
  <2>2. CASE ~phone
    BY <1>0, <1>1, <2>2, BargeInOrders
  <2> QED BY <2>1, <2>2
<1>2. CASE /\ ~_barge_in_suppressed /\ ~is_speaking /\ state' = "USER_SPEAKING"
           /\ UNCHANGED <<loop, talk, pump, barge_ins, cooling>>
  <2>1. TalkTypeOK' /\ HeardInv'
    BY <1>0, <1>2, TakenIs, ConversationAssumption
       DEF ConversationInv, TalkTypeOK, HeardInv, ConversationState
  <2>2. TalkInv'
    BY <1>0, <1>2 DEF ConversationInv, TalkInv
  <2>3. VoiceKeepsOrder'
    BY <1>0, <1>2 DEF ConversationInv, VoiceKeepsOrder, OneVoice, SpeakingMeansVoice,
                      PhoneIsNotCut, QuietAfterEnd
  <2> QED BY <2>1, <2>2, <2>3 DEF ConversationInv
<1>3. CASE UNCHANGED <<state, loop, talk, pump, barge_ins, cooling>>
  BY <1>0, <1>3, IgnoredOrders
<1> QED BY <1>1, <1>2, <1>3 DEF OnSpeechStarted

\* A partial transcript barges in like speech.
LEMMA OnPartialOrders == ConversationInv /\ OnPartial => ConversationInv'
<1> SUFFICES ASSUME ConversationInv, OnPartial PROVE ConversationInv'
  OBVIOUS
<1>0. Takes("PARTIAL") /\ UNCHANGED <<phone, heard, stop, exit>>
  BY DEF OnPartial
<1>1. CASE is_speaking /\ ~_barge_in_suppressed
  <2>0. _trigger_barge_in
    BY <1>1 DEF OnPartial
  <2>1. CASE phone
    BY <1>1, <2>1 DEF _barge_in_suppressed
  <2>2. CASE ~phone
    BY <1>0, <1>1, <2>0, <2>2, BargeInOrders
  <2> QED BY <2>1, <2>2
<1>2. CASE ~(is_speaking /\ ~_barge_in_suppressed)
  <2>1. UNCHANGED <<state, loop, talk, pump, barge_ins, cooling>>
    BY <1>2 DEF OnPartial
  <2> QED BY <1>0, <2>1, IgnoredOrders
<1> QED BY <1>1, <1>2

\* A final transcript is thought about.
LEMMA OnFinalOrders == ConversationInv /\ OnFinal => ConversationInv'
<1> SUFFICES ASSUME ConversationInv, OnFinal PROVE ConversationInv'
  OBVIOUS
<1>1. Takes("FINAL") /\ state' = "PROCESSING" /\ loop' = [loop EXCEPT !.pc = "thinking"]
      /\ UNCHANGED <<phone, heard, talk, pump, barge_ins, cooling, stop, exit>>
  BY DEF OnFinal, At
<1>2. loop' \in [pc : {"opening", "listening", "thinking", "booking", "silencing",
                   "interrupting", "gone"},
                line : Line, cancelled : BOOLEAN] /\ loop'.pc = "thinking"
  BY <1>1 DEF ConversationInv, TalkTypeOK
<1>3. TalkTypeOK' /\ HeardInv'
  BY <1>1, <1>2, TakenIs, ConversationAssumption DEF ConversationInv, TalkTypeOK, HeardInv, ConversationState
<1>4. loop.pc = "listening"
  BY <1>1, TakenIs
<1>5. TalkInv'
  BY <1>1, <1>2, <1>4 DEF ConversationInv, TalkInv
<1>6. VoiceKeepsOrder'
  BY <1>1, <1>2, <1>4 DEF ConversationInv, TalkInv, VoiceKeepsOrder, OneVoice, SpeakingMeansVoice,
                          PhoneIsNotCut, QuietAfterEnd
<1> QED BY <1>3, <1>5, <1>6 DEF ConversationInv

\* An utterance's end only makes the loop look at its deadline.
LEMMA OnUtteranceEndOrders == ConversationInv /\ OnUtteranceEnd => ConversationInv'
BY IgnoredOrders DEF OnUtteranceEnd

\* A conversation begins in order.
LEMMA ConversationInitially == TalkInit => ConversationInv
<1> SUFFICES ASSUME TalkInit PROVE ConversationInv
  OBVIOUS
<1>1. pump = [pc |-> "none", attempt |-> 1, replayed |-> FALSE] /\ 1 \in 1..TTS_MAX_ATTEMPTS
  BY ConversationAssumption DEF TalkInit, TalkStarts, Silent
<1>2. queue \in Seq(EventKind) /\ Len(queue) = 0
  BY EmptySeq DEF TalkInit, TalkStarts
<1>3. TalkTypeOK
  <2>1. loop \in [pc : {"opening", "listening", "thinking", "booking", "silencing",
                   "interrupting", "gone"},
                 line : Line, cancelled : BOOLEAN]
    BY DEF TalkInit, TalkStarts, Line
  <2>2. pump \in [pc : {"none", "opening", "streaming", "done", "failed", "cut"},
                 attempt : 1..TTS_MAX_ATTEMPTS, replayed : BOOLEAN]
    BY <1>1
  <2>3. cooling \in BOOLEAN /\ stop \in BOOLEAN
    BY DEF TalkInit, TalkStarts
  <2>4. heard \in 0..MaxEvents /\ barge_ins \in 0..MaxEvents /\ Len(queue) <= heard
    BY <1>2, ConversationAssumption DEF TalkInit, TalkStarts
  <2>5. state = "LISTENING" /\ exit = "no" /\ talk = "none" /\ phone \in Phones
    BY DEF TalkInit, TalkStarts
  <2> QED BY <1>2, <2>1, <2>2, <2>3, <2>4, <2>5 DEF TalkTypeOK, ConversationState
<1>4. TalkInv /\ HeardInv
  BY <1>1, <1>2 DEF TalkInit, TalkStarts, TalkInv, HeardInv
<1>5. VoiceKeepsOrder
  BY <1>1 DEF TalkInit, TalkStarts, VoiceKeepsOrder, OneVoice, SpeakingMeansVoice, PhoneIsNotCut, QuietAfterEnd
<1> QED BY <1>3, <1>4, <1>5 DEF ConversationInv

\* Every step keeps it in order.
LEMMA ConversationStep == ConversationInv /\ [TalkNext]_talkVars => ConversationInv'
<1> SUFFICES ASSUME ConversationInv, [TalkNext]_talkVars PROVE ConversationInv'
  OBVIOUS
<1>1. CASE Voice
  BY <1>1, RunnerStartsOrders, PumpPublishesOrders, PumpFailsOrders, RunnerEndsOrders DEF Voice
<1>2. CASE Loop
  BY <1>2, OpenOrders, OnSpeechStartedOrders, OnPartialOrders, OnFinalOrders, OnUtteranceEndOrders,
     SeesStopOrders, BeginLineOrders, InterruptDoneOrders, TurnFailsOrders, CancelLandsOrders DEF Loop
<1>3. CASE LeaveRun
  BY <1>3, ExitOrders, ExitSilencesOrders, EndOrders DEF LeaveRun
<1>4. CASE UNCHANGED talkVars
  BY <1>4 DEF talkVars, ConversationInv, TalkTypeOK, TalkInv, HeardInv, VoiceKeepsOrder, OneVoice,
              SpeakingMeansVoice, PhoneIsNotCut, QuietAfterEnd
<1> QED BY <1>1, <1>2, <1>3, <1>4, HearOrders, ModelAnswersOrders, ReplyOrders,
           LoopCrashesOrders, LoopReturnsOrders, CooldownEndsOrders, StopOrders DEF TalkNext

\* One line at a time, AI_SPEAKING only with a line, no phone line cut off and
\* silence after the end, for any number of events and attempts, whatever the order
\* of transcript events, failures, barge-ins and the end of the call.
THEOREM VoiceKeepsOrderCorrect == TalkSpec => []VoiceKeepsOrder
<1>1. TalkSpec => []ConversationInv
  BY ConversationInitially, ConversationStep, PTL DEF TalkSpec
<1>2. ConversationInv => VoiceKeepsOrder
  BY DEF ConversationInv
<1> QED BY <1>1, <1>2, PTL

\* The orchestrator's state machine, lines and events keep their types.
THEOREM ConversationTypeCorrect == TalkSpec => []TalkTypeOK
<1>1. TalkSpec => []ConversationInv
  BY ConversationInitially, ConversationStep, PTL DEF TalkSpec
<1>2. ConversationInv => TalkTypeOK
  BY DEF ConversationInv
<1> QED BY <1>1, <1>2, PTL

-----------------------------------------------------------------------------
(* What Deepgram hears, for any people, sockets, queue and number of frames. *)

Frame == [n : Nat, from : People]

\* Numbers that rise along the sequence and stay below a bound, and one sequence
\* that comes before another.
Rising(s)      == \A i, j \in 1..Len(s) : i < j => s[i].n < s[j].n
UpTo(s, bound) == \A i \in 1..Len(s) : s[i].n <= bound
Before(s, t)   == \A i \in 1..Len(s), j \in 1..Len(t) : s[i].n < t[j].n

\* What has been sent was spoken before what waits in the queue.
HearingInv ==
    /\ spoken \in Nat
    /\ inbox \in [made : BOOLEAN, frames : Seq(Frame)]
    /\ sent \in Seq(Frame)
    /\ Rising(inbox.frames) /\ UpTo(inbox.frames, spoken)
    /\ Rising(sent) /\ UpTo(sent, spoken)
    /\ Before(sent, inbox.frames)

\* An empty queue.
LEMMA EmptyIsRising ==
    /\ <<>> \in Seq(Frame)
    /\ Rising(<<>>) /\ \A bound : UpTo(<<>>, bound) /\ \A s : Before(s, <<>>)
<1>1. <<>> \in Seq(Frame) /\ Len(<<>>) = 0
  BY EmptySeq
<1> QED BY <1>1 DEF Rising, UpTo, Before

\* A frame is taken from the head.
LEMMA TailRises ==
    ASSUME NEW t \in Seq(Frame), t # <<>>, Rising(t), NEW bound, UpTo(t, bound),
           NEW s \in Seq(Frame), Before(s, t)
    PROVE  /\ Tail(t) \in Seq(Frame) /\ Rising(Tail(t)) /\ UpTo(Tail(t), bound)
           /\ Before(s, Tail(t))
           /\ Head(t) \in Frame /\ Head(t).n <= bound
           /\ \A i \in 1..Len(s) : s[i].n < Head(t).n
           /\ \A j \in 1..Len(Tail(t)) : Head(t).n < Tail(t)[j].n
<1>1. /\ Tail(t) \in Seq(Frame) /\ Len(Tail(t)) = Len(t) - 1
      /\ \A i \in 1..Len(Tail(t)) : Tail(t)[i] = t[i + 1]
      /\ Head(t) \in Frame
  BY HeadTailProperties
<1>2. Head(t) = t[1] /\ Len(t) \in Nat /\ Len(t) # 0
  BY EmptySeq, LenProperties, HeadTailProperties
<1>3. PICK u : u = Tail(t)
  OBVIOUS
<1>4. u \in Seq(Frame) /\ Len(u) = Len(t) - 1 /\ \A i \in 1..Len(u) : u[i] = t[i + 1]
  BY <1>1, <1>3
<1>5. Rising(u) /\ UpTo(u, bound) /\ Before(s, u)
  <2>0. \A i \in 1..Len(u) : i + 1 \in 1..Len(t) /\ u[i] = t[i + 1]
    BY <1>2, <1>4
  <2>1. ASSUME NEW i \in 1..Len(u), NEW j \in 1..Len(u), i < j PROVE u[i].n < u[j].n
    <3>1. i + 1 \in 1..Len(t) /\ j + 1 \in 1..Len(t) /\ i + 1 < j + 1
      BY <1>2, <1>4, <2>1
    <3>2. t[i + 1].n < t[j + 1].n
      BY <3>1 DEF Rising
    <3> QED BY <2>0, <3>2
  <2>2. UpTo(u, bound)
    BY <2>0 DEF UpTo
  <2>3. Before(s, u)
    BY <2>0 DEF Before
  <2> QED BY <2>1, <2>2, <2>3 DEF Rising
<1>6. Head(t).n <= bound /\ \A i \in 1..Len(s) : s[i].n < Head(t).n
  BY <1>2 DEF UpTo, Before
<1>7. \A j \in 1..Len(u) : Head(t).n < u[j].n
  BY <1>2, <1>4 DEF Rising
<1> QED BY <1>1, <1>3, <1>5, <1>6, <1>7

\* A frame is added at the end.
LEMMA AppendRises ==
    ASSUME NEW t \in Seq(Frame), Rising(t), NEW bound \in Nat, UpTo(t, bound), NEW f \in Frame,
           \A i \in 1..Len(t) : t[i].n < f.n, f.n <= bound,
           NEW u, u = Append(t, f)
    PROVE  /\ u \in Seq(Frame) /\ Rising(u) /\ UpTo(u, bound)
           /\ \A s : Before(s, t) /\ (\A i \in 1..Len(s) : s[i].n < f.n) => Before(s, u)
           /\ \A s : Before(t, s) /\ (\A j \in 1..Len(s) : f.n < s[j].n) => Before(u, s)
<1>1. /\ Append(t, f) \in Seq(Frame) /\ Len(Append(t, f)) = Len(t) + 1
      /\ \A i \in 1..Len(t) : Append(t, f)[i] = t[i]
      /\ Append(t, f)[Len(t) + 1] = f
  BY AppendProperties
<1>2. Len(t) \in Nat
  BY LenProperties
<1>3. u \in Seq(Frame) /\ Len(u) = Len(t) + 1 /\ u[Len(t) + 1] = f /\ \A i \in 1..Len(t) : u[i] = t[i]
  BY <1>1
<1>4. \A i \in 1..Len(u) : i \in 1..Len(t) \/ i = Len(t) + 1
  BY <1>2, <1>3
<1>5. \A i \in 1..Len(t) : t[i] \in Frame
  BY <1>2, ElementOfSeq
<1>6. Rising(u)
  <2>1. ASSUME NEW i \in 1..Len(u), NEW j \in 1..Len(u), i < j PROVE u[i].n < u[j].n
    <3>1. i \in 1..Len(t)
      BY <1>2, <1>3, <2>1
    <3>2. CASE j \in 1..Len(t)
      BY <1>3, <2>1, <3>1, <3>2 DEF Rising
    <3>3. CASE j = Len(t) + 1
      BY <1>3, <3>1, <3>3
    <3> QED BY <1>4, <3>2, <3>3
  <2> QED BY <2>1 DEF Rising
<1>7. UpTo(u, bound)
  BY <1>3, <1>4 DEF UpTo
<1>8. \A s : Before(s, t) /\ (\A i \in 1..Len(s) : s[i].n < f.n) => Before(s, u)
  BY <1>3, <1>4 DEF Before
<1>9. \A s : Before(t, s) /\ (\A j \in 1..Len(s) : f.n < s[j].n) => Before(u, s)
  BY <1>3, <1>4 DEF Before
<1> QED BY <1>3, <1>6, <1>7, <1>8, <1>9

\* The bound may grow.
LEMMA BoundGrows ==
    ASSUME NEW t \in Seq(Frame), NEW bound \in Nat, UpTo(t, bound)
    PROVE  UpTo(t, bound + 1) /\ \A i \in 1..Len(t) : t[i].n < bound + 1
<1>1. Len(t) \in Nat
  BY LenProperties
<1>2. \A i \in 1..Len(t) : t[i] \in Frame
  BY <1>1, ElementOfSeq
<1>3. \A i \in 1..Len(t) : t[i].n \in Nat
  BY <1>2 DEF Frame
<1> QED BY <1>3 DEF UpTo

\* A frame spoken reaches the queue: the oldest gives way.
LEMMA FanoutHears ==
    ASSUME HearingInv, NEW p \in People \cup Ignored, _fanout(p) PROVE HearingInv'
<1>1. PICK q : q = inbox.frames
  OBVIOUS
<1>2. /\ q \in Seq(Frame) /\ Rising(q) /\ UpTo(q, spoken) /\ Before(sent, q)
      /\ sent \in Seq(Frame) /\ spoken \in Nat
  BY <1>1 DEF HearingInv
<1>3. spoken' = spoken + 1 /\ sent' = sent /\ p \in People
  BY DEF _fanout, Subscribed
<1>4. UpTo(q, spoken + 1) /\ UpTo(sent, spoken + 1) /\ \A i \in 1..Len(sent) : sent[i].n < spoken + 1
  <2>1. UpTo(q, spoken + 1)
    BY <1>2, BoundGrows
  <2>2. UpTo(sent, spoken)
    BY DEF HearingInv
  <2>3. UpTo(sent, spoken + 1) /\ \A i \in 1..Len(sent) : sent[i].n < spoken + 1
    BY <1>2, <2>2, BoundGrows
  <2> QED BY <2>1, <2>3
<1>5. CASE inbox' = inbox
  BY <1>1, <1>2, <1>3, <1>4, <1>5 DEF HearingInv
<1>6. CASE inbox' # inbox
  <2>1. PICK f : f = [n |-> spoken + 1, from |-> p]
    OBVIOUS
  <2>2. f \in Frame /\ f.n = spoken + 1
    BY <1>2, <1>3, <2>1 DEF Frame
  <2>3. inbox' = [inbox EXCEPT !.frames = Enqueue(q, f)]
    BY <1>1, <1>6, <2>1 DEF _fanout
  <2>4. PICK t : t = IF Len(q) >= QueueSize THEN Tail(q) ELSE q
    OBVIOUS
  <2>5. t \in Seq(Frame) /\ Rising(t) /\ UpTo(t, spoken) /\ Before(sent, t)
    <3>1. CASE Len(q) >= QueueSize
      <4>1. q # <<>>
        BY <3>1, EmptySeq, HearingAssumption
      <4> QED BY <1>2, <2>4, <3>1, <4>1, TailRises
    <3>2. CASE ~(Len(q) >= QueueSize)
      BY <1>2, <2>4, <3>2
    <3> QED BY <3>1, <3>2
  <2>6. UpTo(t, spoken + 1) /\ \A i \in 1..Len(t) : t[i].n < f.n
    BY <1>2, <2>2, <2>5, BoundGrows
  <2>7. PICK u : u = Append(t, f)
    OBVIOUS
  <2>8. /\ u \in Seq(Frame) /\ Rising(u) /\ UpTo(u, spoken + 1)
        /\ \A s : Before(s, t) /\ (\A i \in 1..Len(s) : s[i].n < f.n) => Before(s, u)
    <3>1. f.n <= spoken + 1 /\ spoken + 1 \in Nat
      BY <1>2, <2>2
    <3> QED BY <2>2, <2>5, <2>6, <2>7, <3>1, AppendRises
  <2>9. Before(sent, u)
    BY <1>4, <2>2, <2>5, <2>8
  <2>10. inbox' = [inbox EXCEPT !.frames = u]
    BY <2>3, <2>4, <2>7 DEF Enqueue
  <2>11. inbox' \in [made : BOOLEAN, frames : Seq(Frame)] /\ inbox'.frames = u
    BY <2>8, <2>10 DEF HearingInv
  <2> QED BY <1>2, <1>3, <1>4, <2>8, <2>9, <2>11 DEF HearingInv
<1> QED BY <1>5, <1>6

\* The pump sends a frame, or drops it.
LEMMA PumpHears == ASSUME HearingInv, PumpSends PROVE HearingInv'
<1>1. PICK q : q = inbox.frames
  OBVIOUS
<1>2. /\ q \in Seq(Frame) /\ Rising(q) /\ UpTo(q, spoken) /\ Before(sent, q) /\ q # <<>>
      /\ sent \in Seq(Frame) /\ Rising(sent) /\ UpTo(sent, spoken) /\ spoken \in Nat
  BY <1>1 DEF HearingInv, PumpSends
<1>3. PICK t : t = Tail(q)
  OBVIOUS
<1>4. PICK f : f = Head(q)
  OBVIOUS
<1>5. /\ t \in Seq(Frame) /\ Rising(t) /\ UpTo(t, spoken) /\ Before(sent, t)
      /\ f \in Frame /\ f.n <= spoken
      /\ \A i \in 1..Len(sent) : sent[i].n < f.n
      /\ \A j \in 1..Len(t) : f.n < t[j].n
  BY <1>2, <1>3, <1>4, TailRises
<1>6. /\ inbox' = [inbox EXCEPT !.frames = t] /\ spoken' = spoken
      /\ sent' = sent \/ sent' = Append(sent, f)
  BY <1>1, <1>3, <1>4 DEF PumpSends, SendSucceeds, SendFails
<1>7. inbox' \in [made : BOOLEAN, frames : Seq(Frame)] /\ inbox'.frames = t
  BY <1>5, <1>6 DEF HearingInv
<1>8. PICK u : u = sent'
  OBVIOUS
<1>9. u \in Seq(Frame) /\ Rising(u) /\ UpTo(u, spoken) /\ Before(u, t)
  <2>1. CASE u = sent
    BY <1>2, <1>5, <2>1
  <2>2. CASE u = Append(sent, f)
    <3>1. /\ u \in Seq(Frame) /\ Rising(u) /\ UpTo(u, spoken)
          /\ \A s : Before(sent, s) /\ (\A j \in 1..Len(s) : f.n < s[j].n) => Before(u, s)
      BY <1>2, <1>5, <2>2, AppendRises
    <3> QED BY <1>5, <3>1
  <2> QED BY <1>6, <1>8, <2>1, <2>2
<1> QED BY <1>2, <1>5, <1>6, <1>7, <1>8, <1>9 DEF HearingInv

\* The queue is made anew.
LEMMA NewInboxHears ==
    ASSUME HearingInv, UNCHANGED <<spoken, sent>>,
           inbox' = [NoInbox EXCEPT !.made = TRUE] \/ inbox' = NoInbox
    PROVE  HearingInv'
<1>1. inbox' \in [made : BOOLEAN, frames : Seq(Frame)] /\ inbox'.frames = <<>>
  <2>1. <<>> \in Seq(Frame)
    BY EmptyIsRising
  <2>2. CASE inbox' = [NoInbox EXCEPT !.made = TRUE]
    BY <2>1, <2>2 DEF NoInbox
  <2>3. CASE inbox' = NoInbox
    BY <2>1, <2>3 DEF NoInbox
  <2> QED BY <2>2, <2>3
<1> QED BY <1>1, EmptyIsRising DEF HearingInv

\* What HearsInOrder says.
LEMMA HearingIsInOrder == HearingInv => HearsInOrder
<1> SUFFICES ASSUME HearingInv PROVE HearsInOrder
  OBVIOUS
<1>1. Len(sent) \in Nat /\ sent \in Seq(Frame)
  BY LenProperties DEF HearingInv
<1>2. \A i \in 1..Len(sent) : sent[i] \in Frame
  BY <1>1, ElementOfSeq
<1>3. \A i \in 1..Len(sent) - 1 : sent[i].n < sent[i + 1].n
  BY <1>1 DEF HearingInv, Rising
<1> QED BY <1>2, <1>3 DEF HearsInOrder, Frame

\* Every step keeps the frames in order.
LEMMA HearingStep == HearingInv /\ [HearNext]_hearVars => HearingInv'
<1> SUFFICES ASSUME HearingInv, [HearNext]_hearVars PROVE HearingInv'
  OBVIOUS
<1>0. ASSUME UNCHANGED <<spoken, sent, inbox>> PROVE HearingInv'
  BY <1>0 DEF HearingInv
<1>1. ASSUME NEW p \in People, ParticipantJoins(p) \/ ParticipantLeaves(p) PROVE HearingInv'
  BY <1>0, <1>1 DEF ParticipantJoins, ParticipantLeaves
<1>2. ASSUME NEW p \in People \cup Ignored, _fanout(p) PROVE HearingInv'
  BY <1>2, FanoutHears
<1>3. ASSUME NEW s \in Sockets, \/ SocketDrops(s) \/ ReaderReads(s) \/ ReaderEnds(s)
                                \/ CloseEnds(s) \/ Finalised(s)
      PROVE  HearingInv'
  BY <1>0, <1>3 DEF SocketDrops, ReaderReads, ReaderEnds, CloseEnds, Finalised
<1>4. CASE Runs
  <2>1. CASE Leaves
    BY <2>1, NewInboxHears DEF Leaves
  <2> QED BY <1>0, <1>4, <2>1 DEF Runs, Connects, Dials, Opens, Closes, Disconnects
<1>5. CASE Feed
  <2>1. CASE PumpStarts
    BY <2>1, NewInboxHears DEF PumpStarts
  <2>2. CASE PumpSends
    BY <2>2, PumpHears
  <2>3. CASE PauseOver
    BY <1>0, <2>3 DEF PauseOver
  <2> QED BY <1>5, <2>1, <2>2, <2>3 DEF Feed
<1>6. CASE Ear
  BY <1>0, <1>6 DEF Ear, EarTakes, EarLosesSocket, ReconnectCloses, Reopens, ReopenFails, EarKeeps
<1>7. CASE Stops
  BY <1>0, <1>7 DEF Stops
<1>8. CASE UNCHANGED hearVars
  BY <1>0, <1>8 DEF hearVars
<1> QED BY <1>1, <1>2, <1>3, <1>4, <1>5, <1>6, <1>7, <1>8 DEF HearNext

\* Deepgram gets what people say in the order they say it, nothing twice, and never
\* the agent's own voice: for any queue, any number of sockets and frames.
THEOREM HearsInOrderCorrect == HearSpec => []HearsInOrder
<1>1. HearInit => HearingInv
  BY EmptyIsRising DEF HearInit, HearStarts, HearingInv, NoInbox, Before
<1>2. HearSpec => []HearingInv
  BY <1>1, HearingStep, PTL DEF HearSpec
<1> QED BY <1>2, HearingIsInOrder, PTL

-----------------------------------------------------------------------------
(* The rows behind the calls, for any legs, deliveries, redials and restarts. *)

\* The room of a row: for a call we place the row's of the call, whichever webhook
\* makes the row; else the row's own.
RoomOf(r) == IF r[1] \in Outbound THEN Own(r[1]) ELSE r

\* A row with the fields the handlers write.
RowFields == {"kept", "room", "sid", "status", "parent", "retry_count", "execution",
              "voicemail", "recording", "events"}

IsRow(row) ==
    /\ DOMAIN row = RowFields /\ row = [x \in RowFields |-> row[x]]
    /\ row.kept \in BOOLEAN /\ row.sid \in BOOLEAN /\ row.recording \in BOOLEAN

\* A table of calls.
IsTable(t) == t = [r \in RowIds |-> t[r]] /\ \A r \in RowIds : IsRow(t[r])

LegState == [state : {"none", "up", "over"}, recorded : BOOLEAN, to : RowIds \cup {NoRoom}]

TableInv ==
    /\ IsTable(callRows)
    /\ leg \in [Legs -> LegState]
    /\ tape \in [Legs -> [twilio : BOOLEAN, s3 : BOOLEAN]]
    /\ agents \in [RowIds -> {"none", "on", "told"}]
    /\ voice = [x \in Legs \X Deliveries |-> voice[x]]
    /\ taping = [x \in Legs \X Deliveries |-> taping[x]]
    /\ removal.pc = "delete" => removal.row \in RowIds

\* Rows hold their own room's name, and of a call that comes in one has the SID.
RoomsInv ==
    /\ \A r \in RowIds : callRows[r].kept => callRows[r].room = RoomOf(r)
    /\ \A s \in Legs \ deleted : \A r1, r2 \in BySid(s) : r1 = r2

\* Whom the leg may meet: the agent of the call we place, or of the row with the SID.
Meets(s, r) == IF s \in Outbound THEN r = Own(s) ELSE r \in BySid(s)

AgentsInv ==
    /\ \A r \in RowIds : agents[r] = "on" /\ r[1] \notin deleted => Meets(r[1], r)
    /\ \A s \in Legs \ deleted : leg[s].to # NoRoom => Meets(s, leg[s].to)
    /\ \A s \in Inbound \ deleted, d \in Deliveries :
          voice[<<s, d>>] = "register" => <<s, d>> \in BySid(s)

\* A recording that is being stored has a row, and is in S3 before the row says so
\* and Twilio is asked to forget it.
InS3(s) == tape[s].s3 /\ \E r \in BySid(s) : callRows[r].recording

TapesInv ==
    \A s \in Legs \ deleted, d \in Deliveries :
        /\ taping[<<s, d>>] \in {"upload", "store"} => BySid(s) # {}
        /\ taping[<<s, d>>] = "store" => tape[s].s3
        /\ taping[<<s, d>>] = "remove" => InS3(s)

RecordsInv == TableInv /\ RoomsInv /\ AgentsInv /\ TapesInv /\ RecordingKept

-----------------------------------------------------------------------------
(* Rows and tables of rows. *)

\* Two rows that tell a webhook the same.
Alike(r1, r2) == /\ r1.kept = r2.kept /\ r1.sid = r2.sid /\ r1.room = r2.room
                 /\ r1.recording = r2.recording

\* A table in which every call is found as in the first.
SameTable(t, u) == IsTable(u) /\ \A r \in RowIds : Alike(t[r], u[r])

\* A row gets another status, an event, or no parent.
LEMMA RowWrites ==
    ASSUME NEW row, IsRow(row), NEW x
    PROVE  /\ IsRow([row EXCEPT !.status = x]) /\ Alike(row, [row EXCEPT !.status = x])
           /\ IsRow([row EXCEPT !.events = x]) /\ Alike(row, [row EXCEPT !.events = x])
           /\ IsRow([row EXCEPT !.parent = x]) /\ Alike(row, [row EXCEPT !.parent = x])
<1>1. IsRow([row EXCEPT !.status = x]) /\ Alike(row, [row EXCEPT !.status = x])
  BY DEF IsRow, Alike, RowFields
<1>2. IsRow([row EXCEPT !.events = x]) /\ Alike(row, [row EXCEPT !.events = x])
  BY DEF IsRow, Alike, RowFields
<1>3. IsRow([row EXCEPT !.parent = x]) /\ Alike(row, [row EXCEPT !.parent = x])
  BY DEF IsRow, Alike, RowFields
<1> QED BY <1>1, <1>2, <1>3

\* A row gets a recording.
LEMMA RecordingWrites ==
    ASSUME NEW row, IsRow(row), NEW x, NEW new, new = [row EXCEPT !.recording = TRUE, !.events = x]
    PROVE  IsRow(new) /\ new.recording /\ new.kept = row.kept /\ new.room = row.room
           /\ new.sid = row.sid
BY DEF IsRow, RowFields

\* So is that of a call nobody knew.
LEMMA UnknownRowMade ==
    ASSUME NEW x, NEW new, new = [NoCallRow EXCEPT !.kept = TRUE, !.room = x]
    PROVE  IsRow(new) /\ new.kept /\ ~new.sid /\ ~new.recording /\ new.room = x
BY DEF IsRow, RowFields, NoCallRow

\* One row of a table is replaced by one alike.
LEMMA OneAlike ==
    ASSUME NEW t, IsTable(t), NEW r \in RowIds, NEW row, IsRow(row), Alike(t[r], row),
           NEW u, u = [t EXCEPT ![r] = row]
    PROVE  SameTable(t, u)
<1>1. IsTable(u)
  BY DEF IsTable
<1>2. \A x \in RowIds : Alike(t[x], u[x])
  BY DEF IsTable, Alike
<1> QED BY <1>1, <1>2 DEF SameTable

\* An event is noted, or it is not.
LEMMA NotedSame ==
    ASSUME NEW t, IsTable(t), NEW r \in RowIds, NEW type
    PROVE  SameTable(t, Noted(t, r, type))
<1>1. CASE t[r].kept
  <2>1. PICK row : row = [t[r] EXCEPT !.events = t[r].events \cup {type}]
    OBVIOUS
  <2>2. IsRow(row) /\ Alike(t[r], row)
    BY <2>1, RowWrites DEF IsTable
  <2>3. Noted(t, r, type) = [t EXCEPT ![r] = row]
    BY <1>1, <2>1 DEF Noted
  <2>4. PICK u : u = Noted(t, r, type)
    OBVIOUS
  <2>5. u = [t EXCEPT ![r] = row]
    BY <2>3, <2>4
  <2>6. SameTable(t, u)
    BY <2>2, <2>5, OneAlike, Zenon
  <2> QED BY <2>4, <2>6
<1>2. CASE ~t[r].kept
  BY <1>2 DEF Noted, SameTable, Alike
<1> QED BY <1>1, <1>2

\* A status is written.
LEMMA StatusSame ==
    ASSUME IsTable(callRows), NEW r \in RowIds, NEW status
    PROVE  SameTable(callRows, WithCallStatus(r, status))
<1>1. PICK row : row = [callRows[r] EXCEPT !.status = status]
  OBVIOUS
<1>2. IsRow(row) /\ Alike(callRows[r], row)
  BY <1>1, RowWrites DEF IsTable
<1>3. WithCallStatus(r, status) = [callRows EXCEPT ![r] = row]
  BY <1>1 DEF WithCallStatus
<1>4. SameTable(callRows, WithCallStatus(r, status))
  BY <1>2, <1>3, OneAlike, Zenon
<1> QED BY <1>4

\* One after the other.
LEMMA SameAgain ==
    ASSUME NEW t, NEW u, NEW w, SameTable(t, u), SameTable(u, w) PROVE SameTable(t, w)
BY DEF SameTable, Alike

\* Rows and rooms.
LEMMA RowIdsAre ==
    /\ \A r \in RowIds : r[1] \in Legs /\ RoomOf(r) \in RowIds /\ RoomOf(r)[1] = r[1]
    /\ \A s \in Outbound : Own(s) \in RowIds /\ Own(s)[1] = s /\ RoomOf(Own(s)) = Own(s) /\ s \in Legs
    /\ \A s \in Legs, d \in Deliveries :
          /\ <<s, d>> \in RowIds /\ <<s, d>>[1] = s /\ RoomOf(<<s, d>>) = RoomFor(s, d)
          /\ RoomFor(s, d) \in RowIds /\ RoomFor(s, d)[1] = s
    /\ \A s \in Inbound : s \in Legs /\ s \notin Outbound
<1>1. ASSUME NEW r \in RowIds PROVE r[1] \in Legs /\ RoomOf(r) \in RowIds /\ RoomOf(r)[1] = r[1]
  <2>1. r[1] \in Legs
    BY DEF RowIds, Legs
  <2> QED BY <2>1 DEF RoomOf, Own, RowIds
<1>2. \A s \in Outbound : Own(s) \in RowIds /\ Own(s)[1] = s /\ RoomOf(Own(s)) = Own(s) /\ s \in Legs
  BY DEF RowIds, RoomOf, Own, Legs
<1>3. ASSUME NEW s \in Legs, NEW d \in Deliveries
      PROVE  /\ <<s, d>> \in RowIds /\ <<s, d>>[1] = s /\ RoomOf(<<s, d>>) = RoomFor(s, d)
             /\ RoomFor(s, d) \in RowIds /\ RoomFor(s, d)[1] = s
  BY DEF RowIds, RoomOf, Own, RoomFor
<1>4. \A s \in Inbound : s \in Legs /\ s \notin Outbound
  BY RecordsAssumption DEF Legs
<1> QED BY <1>1, <1>2, <1>3, <1>4

-----------------------------------------------------------------------------
(* A step, in terms of the table before and after. *)

\* The rows of a table that a webhook about s finds, whom s may meet, and a
\* recording in S3, by the table.
Found(t, s)      == {r \in RowIds : t[r].kept /\ t[r].sid /\ r[1] = s}
MeetsIn(t, s, r) == IF s \in Outbound THEN r = Own(s) ELSE r \in Found(t, s)
StoredIn(t, s)   == \E r \in Found(t, s) : t[r].recording

\* Of a call that nobody has deleted every row that was found still is, with its recording.
Grows(t, u, gone) ==
    \A s \in Legs \ gone : \A r \in Found(t, s) : r \in Found(u, s) /\ (t[r].recording => u[r].recording)

\* BySid and what is built on it, now and next.
LEMMA BySidIs ==
    ASSUME NEW s
    PROVE  /\ BySid(s) = Found(callRows, s) /\ BySid(s)' = Found(callRows', s)
           /\ \A r : /\ Meets(s, r) = MeetsIn(callRows, s, r)
                     /\ Meets(s, r)' = MeetsIn(callRows', s, r)
           /\ InS3(s) = (tape[s].s3 /\ StoredIn(callRows, s))
           /\ InS3(s)' = (tape'[s].s3 /\ StoredIn(callRows', s))
<1>1. BySid(s) = Found(callRows, s) /\ BySid(s)' = Found(callRows', s)
  BY DEF BySid, Found
<1>2. \A r : Meets(s, r) = MeetsIn(callRows, s, r) /\ Meets(s, r)' = MeetsIn(callRows', s, r)
  BY <1>1 DEF Meets, MeetsIn
<1>3. /\ InS3(s) = (tape[s].s3 /\ StoredIn(callRows, s))
      /\ InS3(s)' = (tape'[s].s3 /\ StoredIn(callRows', s))
  BY <1>1 DEF InS3, StoredIn
<1> QED BY <1>1, <1>2, <1>3

\* The promises, by the table.
LEMMA RecordsFlat ==
    /\ RoomsInv <=>
          /\ \A r \in RowIds : callRows[r].kept => callRows[r].room = RoomOf(r)
          /\ \A s \in Legs \ deleted : \A r1, r2 \in Found(callRows, s) : r1 = r2
    /\ AgentsInv <=>
          /\ \A r \in RowIds : agents[r] = "on" /\ r[1] \notin deleted => MeetsIn(callRows, r[1], r)
          /\ \A s \in Legs \ deleted : leg[s].to # NoRoom => MeetsIn(callRows, s, leg[s].to)
          /\ \A s \in Inbound \ deleted, d \in Deliveries :
                voice[<<s, d>>] = "register" => <<s, d>> \in Found(callRows, s)
    /\ TapesInv <=>
          \A s \in Legs \ deleted, d \in Deliveries :
              /\ taping[<<s, d>>] \in {"upload", "store"} => Found(callRows, s) # {}
              /\ taping[<<s, d>>] = "store" => tape[s].s3
              /\ taping[<<s, d>>] = "remove" => tape[s].s3 /\ StoredIn(callRows, s)
    /\ RecordingKept <=>
          \A s \in Legs \ deleted :
              leg[s].state = "over" /\ leg[s].recorded /\ leg[s].to # NoRoom =>
                  tape[s].twilio \/ (tape[s].s3 /\ StoredIn(callRows, s))
<1>1. \A s : BySid(s) = Found(callRows, s)
  BY BySidIs
<1>2. \A s, r : Meets(s, r) = MeetsIn(callRows, s, r)
  BY BySidIs
<1>3. \A s : InS3(s) = (tape[s].s3 /\ StoredIn(callRows, s))
  BY BySidIs
<1>4. RoomsInv <=>
          /\ \A r \in RowIds : callRows[r].kept => callRows[r].room = RoomOf(r)
          /\ \A s \in Legs \ deleted : \A r1, r2 \in Found(callRows, s) : r1 = r2
  BY <1>1 DEF RoomsInv
<1>5. AgentsInv <=>
          /\ \A r \in RowIds : agents[r] = "on" /\ r[1] \notin deleted => MeetsIn(callRows, r[1], r)
          /\ \A s \in Legs \ deleted : leg[s].to # NoRoom => MeetsIn(callRows, s, leg[s].to)
          /\ \A s \in Inbound \ deleted, d \in Deliveries :
                voice[<<s, d>>] = "register" => <<s, d>> \in Found(callRows, s)
  BY <1>1, <1>2 DEF AgentsInv
<1>6. TapesInv <=>
          \A s \in Legs \ deleted, d \in Deliveries :
              /\ taping[<<s, d>>] \in {"upload", "store"} => Found(callRows, s) # {}
              /\ taping[<<s, d>>] = "store" => tape[s].s3
              /\ taping[<<s, d>>] = "remove" => tape[s].s3 /\ StoredIn(callRows, s)
  BY <1>1, <1>3 DEF TapesInv
<1>7. RecordingKept <=>
          \A s \in Legs \ deleted :
              leg[s].state = "over" /\ leg[s].recorded /\ leg[s].to # NoRoom =>
                  tape[s].twilio \/ (tape[s].s3 /\ StoredIn(callRows, s))
  BY <1>1 DEF RecordingKept, StoredIn
<1> QED BY <1>4, <1>5, <1>6, <1>7

\* The promises of the next state.
LEMMA RecordsFlatNext ==
    /\ RoomsInv' <=>
          /\ \A r \in RowIds : callRows'[r].kept => callRows'[r].room = RoomOf(r)
          /\ \A s \in Legs \ deleted' : \A r1, r2 \in Found(callRows', s) : r1 = r2
    /\ AgentsInv' <=>
          /\ \A r \in RowIds : agents'[r] = "on" /\ r[1] \notin deleted' => MeetsIn(callRows', r[1], r)
          /\ \A s \in Legs \ deleted' : leg'[s].to # NoRoom => MeetsIn(callRows', s, leg'[s].to)
          /\ \A s \in Inbound \ deleted', d \in Deliveries :
                voice'[<<s, d>>] = "register" => <<s, d>> \in Found(callRows', s)
    /\ TapesInv' <=>
          \A s \in Legs \ deleted', d \in Deliveries :
              /\ taping'[<<s, d>>] \in {"upload", "store"} => Found(callRows', s) # {}
              /\ taping'[<<s, d>>] = "store" => tape'[s].s3
              /\ taping'[<<s, d>>] = "remove" => tape'[s].s3 /\ StoredIn(callRows', s)
    /\ RecordingKept' <=>
          \A s \in Legs \ deleted' :
              leg'[s].state = "over" /\ leg'[s].recorded /\ leg'[s].to # NoRoom =>
                  tape'[s].twilio \/ (tape'[s].s3 /\ StoredIn(callRows', s))
<1>1. \A s : BySid(s)' = Found(callRows', s)
  BY BySidIs
<1>2. \A s, r : Meets(s, r)' = MeetsIn(callRows', s, r)
  BY BySidIs
<1>3. \A s : InS3(s)' = (tape'[s].s3 /\ StoredIn(callRows', s))
  BY BySidIs
<1>4. RoomsInv' <=>
          /\ \A r \in RowIds : callRows'[r].kept => callRows'[r].room = RoomOf(r)
          /\ \A s \in Legs \ deleted' : \A r1, r2 \in Found(callRows', s) : r1 = r2
  BY <1>1 DEF RoomsInv
<1>5. AgentsInv' <=>
          /\ \A r \in RowIds : agents'[r] = "on" /\ r[1] \notin deleted' => MeetsIn(callRows', r[1], r)
          /\ \A s \in Legs \ deleted' : leg'[s].to # NoRoom => MeetsIn(callRows', s, leg'[s].to)
          /\ \A s \in Inbound \ deleted', d \in Deliveries :
                voice'[<<s, d>>] = "register" => <<s, d>> \in Found(callRows', s)
  BY <1>1, <1>2 DEF AgentsInv
<1>6. TapesInv' <=>
          \A s \in Legs \ deleted', d \in Deliveries :
              /\ taping'[<<s, d>>] \in {"upload", "store"} => Found(callRows', s) # {}
              /\ taping'[<<s, d>>] = "store" => tape'[s].s3
              /\ taping'[<<s, d>>] = "remove" => tape'[s].s3 /\ StoredIn(callRows', s)
  BY <1>1, <1>3 DEF TapesInv
<1>7. RecordingKept' <=>
          \A s \in Legs \ deleted' :
              leg'[s].state = "over" /\ leg'[s].recorded /\ leg'[s].to # NoRoom =>
                  tape'[s].twilio \/ (tape'[s].s3 /\ StoredIn(callRows', s))
  BY <1>1 DEF RecordingKept, StoredIn
<1> QED BY <1>4, <1>5, <1>6, <1>7

\* What holds of the rows goes on holding, unless the step has it changed: then what
\* it changes has to be so in the next state.
LEMMA StepKeeps ==
    ASSUME RecordsInv, TableInv', RoomsInv', Grows(callRows, callRows', deleted'),
           deleted \subseteq deleted',
           \A r \in RowIds : agents'[r] = "on" /\ r[1] \notin deleted' =>
               agents[r] = "on" \/ MeetsIn(callRows', r[1], r),
           \A s \in Legs \ deleted' : leg'[s].to # NoRoom =>
               leg'[s].to = leg[s].to \/ MeetsIn(callRows', s, leg'[s].to),
           \A s \in Inbound \ deleted', d \in Deliveries : voice'[<<s, d>>] = "register" =>
               voice[<<s, d>>] = "register" \/ <<s, d>> \in Found(callRows', s),
           \A s \in Legs \ deleted' : tape[s].s3 => tape'[s].s3,
           \A s \in Legs \ deleted', d \in Deliveries :
               \/ taping'[<<s, d>>] = taping[<<s, d>>]
               \/ /\ taping'[<<s, d>>] \in {"upload", "store"} => Found(callRows', s) # {}
                  /\ taping'[<<s, d>>] = "store" => tape'[s].s3
                  /\ taping'[<<s, d>>] = "remove" => tape'[s].s3 /\ StoredIn(callRows', s),
           \A s \in Legs \ deleted' :
               leg'[s].state = "over" /\ leg'[s].recorded /\ leg'[s].to # NoRoom =>
                   \/ tape'[s].twilio \/ (tape'[s].s3 /\ StoredIn(callRows', s))
                   \/ leg'[s] = leg[s] /\ tape'[s].twilio = tape[s].twilio
    PROVE  RecordsInv'
<1>1. ASSUME NEW s \in Legs \ deleted'
      PROVE  /\ Found(callRows, s) \subseteq Found(callRows', s)
             /\ \A r : MeetsIn(callRows, s, r) => MeetsIn(callRows', s, r)
             /\ StoredIn(callRows, s) => StoredIn(callRows', s)
  BY DEF Grows, MeetsIn, StoredIn
<1>2. AgentsInv'
  <2>1. /\ \A r \in RowIds : agents[r] = "on" /\ r[1] \notin deleted => MeetsIn(callRows, r[1], r)
        /\ \A s \in Legs \ deleted : leg[s].to # NoRoom => MeetsIn(callRows, s, leg[s].to)
        /\ \A s \in Inbound \ deleted, d \in Deliveries :
              voice[<<s, d>>] = "register" => <<s, d>> \in Found(callRows, s)
    BY RecordsFlat DEF RecordsInv
  <2>2. ASSUME NEW r \in RowIds, agents'[r] = "on", r[1] \notin deleted'
        PROVE  MeetsIn(callRows', r[1], r)
    <3>1. r[1] \in Legs \ deleted' /\ r[1] \notin deleted
      BY <2>2, RowIdsAre
    <3> QED BY <1>1, <2>1, <2>2, <3>1
  <2>3. ASSUME NEW s \in Legs \ deleted', leg'[s].to # NoRoom PROVE MeetsIn(callRows', s, leg'[s].to)
    BY <1>1, <2>1, <2>3
  <2>4. ASSUME NEW s \in Inbound \ deleted', NEW d \in Deliveries, voice'[<<s, d>>] = "register"
        PROVE  <<s, d>> \in Found(callRows', s)
    <3>1. s \in Legs \ deleted' /\ s \in Inbound \ deleted
      BY RowIdsAre
    <3> QED BY <1>1, <2>1, <2>4, <3>1
  <2> QED BY <2>2, <2>3, <2>4, RecordsFlatNext
<1>3. TapesInv'
  <2>1. ASSUME NEW s \in Legs \ deleted', NEW d \in Deliveries
        PROVE  /\ taping'[<<s, d>>] \in {"upload", "store"} => Found(callRows', s) # {}
               /\ taping'[<<s, d>>] = "store" => tape'[s].s3
               /\ taping'[<<s, d>>] = "remove" => tape'[s].s3 /\ StoredIn(callRows', s)
    <3>1. s \in Legs \ deleted
      OBVIOUS
    <3>2. /\ taping[<<s, d>>] \in {"upload", "store"} => Found(callRows, s) # {}
          /\ taping[<<s, d>>] = "store" => tape[s].s3
          /\ taping[<<s, d>>] = "remove" => tape[s].s3 /\ StoredIn(callRows, s)
      BY <3>1, RecordsFlat DEF RecordsInv
    <3>3. CASE taping'[<<s, d>>] = taping[<<s, d>>]
      BY <1>1, <3>2, <3>3
    <3> QED BY <3>3
  <2> QED BY <2>1, RecordsFlatNext
<1>4. RecordingKept'
  <2>1. ASSUME NEW s \in Legs \ deleted', leg'[s].state = "over", leg'[s].recorded, leg'[s].to # NoRoom
        PROVE  tape'[s].twilio \/ (tape'[s].s3 /\ StoredIn(callRows', s))
    <3>1. CASE leg'[s] = leg[s] /\ tape'[s].twilio = tape[s].twilio
      <4>1. s \in Legs \ deleted
        OBVIOUS
      <4>2. tape[s].twilio \/ (tape[s].s3 /\ StoredIn(callRows, s))
        BY <2>1, <3>1, <4>1, RecordsFlat DEF RecordsInv
      <4> QED BY <1>1, <3>1, <4>2
    <3> QED BY <2>1, <3>1
  <2> QED BY <2>1, RecordsFlatNext
<1> QED BY <1>2, <1>3, <1>4 DEF RecordsInv

\* Rows that go are those of deleted calls, and of the others none is made, gets a SID
\* or loses what it has.
LEMMA RowsKeep ==
    ASSUME RecordsInv, IsTable(callRows'), deleted \subseteq deleted',
           \A r \in RowIds : callRows'[r].kept => callRows[r].kept /\ callRows'[r].room = callRows[r].room,
           \A r \in RowIds : r[1] \notin deleted' =>
               /\ callRows'[r].kept = callRows[r].kept /\ callRows'[r].sid = callRows[r].sid
               /\ callRows[r].recording => callRows'[r].recording
    PROVE  /\ Grows(callRows, callRows', deleted') /\ RoomsInv'
           /\ \A s \in Legs \ deleted' : Found(callRows', s) = Found(callRows, s)
<1>1. ASSUME NEW s \in Legs \ deleted' PROVE Found(callRows', s) = Found(callRows, s)
  BY DEF Found
<1>2. Grows(callRows, callRows', deleted')
  <2>1. ASSUME NEW s \in Legs \ deleted', NEW r \in Found(callRows, s), callRows[r].recording
        PROVE  callRows'[r].recording
    BY <2>1 DEF Found
  <2> QED BY <1>1, <2>1 DEF Grows
<1>3. RoomsInv'
  <2>1. /\ \A r \in RowIds : callRows[r].kept => callRows[r].room = RoomOf(r)
        /\ \A s \in Legs \ deleted : \A r1, r2 \in Found(callRows, s) : r1 = r2
    BY RecordsFlat DEF RecordsInv
  <2>2. \A r \in RowIds : callRows'[r].kept => callRows'[r].room = RoomOf(r)
    BY <2>1
  <2> QED BY <1>1, <2>1, <2>2, RecordsFlatNext
<1> QED BY <1>1, <1>2, <1>3

\* So it is when the tables tell the same.
LEMMA SameKeeps ==
    ASSUME RecordsInv, SameTable(callRows, callRows'), UNCHANGED deleted
    PROVE  /\ Grows(callRows, callRows', deleted') /\ RoomsInv'
           /\ \A s \in Legs \ deleted' : Found(callRows', s) = Found(callRows, s)
BY RowsKeep DEF SameTable, Alike

\* A step that adds no row, gives none its SID and ends no leg, and touches no
\* recording: the agents it starts or bridges to are those the leg may meet.
LEMMA TalkKeeps ==
    ASSUME RecordsInv, SameTable(callRows, callRows'), UNCHANGED <<deleted, tape>>,
           leg' \in [Legs -> LegState],
           \A s \in Legs \ deleted : leg'[s].to # NoRoom =>
               leg'[s].to = leg[s].to \/ MeetsIn(callRows, s, leg'[s].to),
           \A s \in Legs : leg'[s].state = "over" => leg'[s] = leg[s],
           agents' \in [RowIds -> {"none", "on", "told"}],
           \A r \in RowIds : agents'[r] = "on" /\ r[1] \notin deleted =>
               agents[r] = "on" \/ MeetsIn(callRows, r[1], r),
           voice' = [x \in Legs \X Deliveries |-> voice'[x]],
           \A x \in Legs \X Deliveries : voice'[x] = "register" => voice[x] = "register",
           taping' = [x \in Legs \X Deliveries |-> taping'[x]],
           \A x \in Legs \X Deliveries :
               taping'[x] \in {"upload", "store", "remove"} => taping'[x] = taping[x],
           removal'.pc = "delete" => removal'.row \in RowIds
    PROVE  RecordsInv'
<1>1. TableInv'
  BY DEF RecordsInv, TableInv, SameTable
<1>2. /\ Grows(callRows, callRows', deleted') /\ RoomsInv'
      /\ \A s \in Legs \ deleted' : Found(callRows', s) = Found(callRows, s)
  BY SameKeeps
<1>3. \A s \in Legs \ deleted' : \A r : MeetsIn(callRows, s, r) => MeetsIn(callRows', s, r)
  BY <1>2 DEF MeetsIn
<1>4. \A r \in RowIds : agents'[r] = "on" /\ r[1] \notin deleted' =>
               agents[r] = "on" \/ MeetsIn(callRows', r[1], r)
  BY <1>3, RowIdsAre
<1>5. \A s \in Inbound \ deleted', d \in Deliveries : voice'[<<s, d>>] = "register" =>
               voice[<<s, d>>] = "register" \/ <<s, d>> \in Found(callRows', s)
  BY RowIdsAre
<1>6. \A s \in Legs \ deleted', d \in Deliveries :
               \/ taping'[<<s, d>>] = taping[<<s, d>>]
               \/ /\ taping'[<<s, d>>] \in {"upload", "store"} => Found(callRows', s) # {}
                  /\ taping'[<<s, d>>] = "store" => tape'[s].s3
                  /\ taping'[<<s, d>>] = "remove" => tape'[s].s3 /\ StoredIn(callRows', s)
  OBVIOUS
<1>7. \A s \in Legs \ deleted' :
               leg'[s].state = "over" /\ leg'[s].recorded /\ leg'[s].to # NoRoom =>
                   \/ tape'[s].twilio \/ (tape'[s].s3 /\ StoredIn(callRows', s))
                   \/ leg'[s] = leg[s] /\ tape'[s].twilio = tape[s].twilio
  OBVIOUS
<1>8. deleted \subseteq deleted'
  OBVIOUS
<1>9. \A s \in Legs \ deleted' : leg'[s].to # NoRoom =>
               leg'[s].to = leg[s].to \/ MeetsIn(callRows', s, leg'[s].to)
  BY <1>3
<1>10. \A s \in Legs \ deleted' : tape[s].s3 => tape'[s].s3
  OBVIOUS
<1> QED BY <1>1, <1>2, <1>4, <1>5, <1>6, <1>7, <1>8, <1>9, <1>10, StepKeeps

\* Nor is any leg bridged, and the agents are those of calls we place.
LEMMA QuietKeeps ==
    ASSUME RecordsInv, SameTable(callRows, callRows'), UNCHANGED <<deleted, tape>>,
           leg' \in [Legs -> LegState],
           \A s \in Legs : leg'[s].to = leg[s].to /\ (leg'[s].state = "over" => leg'[s] = leg[s]),
           agents' \in [RowIds -> {"none", "on", "told"}],
           \A r \in RowIds : agents'[r] = "on" =>
               agents[r] = "on" \/ (r[1] \in Outbound /\ r = Own(r[1])),
           voice' = [x \in Legs \X Deliveries |-> voice'[x]],
           \A x \in Legs \X Deliveries : voice'[x] = "register" => voice[x] = "register",
           taping' = [x \in Legs \X Deliveries |-> taping'[x]],
           \A x \in Legs \X Deliveries :
               taping'[x] \in {"upload", "store", "remove"} => taping'[x] = taping[x],
           removal'.pc = "delete" => removal'.row \in RowIds
    PROVE  RecordsInv'
<1>1. \A r \in RowIds : agents'[r] = "on" /\ r[1] \notin deleted =>
               agents[r] = "on" \/ MeetsIn(callRows, r[1], r)
  BY DEF MeetsIn
<1>2. \A s \in Legs \ deleted : leg'[s].to # NoRoom =>
               leg'[s].to = leg[s].to \/ MeetsIn(callRows, s, leg'[s].to)
  OBVIOUS
<1>3. \A s \in Legs : leg'[s].state = "over" => leg'[s] = leg[s]
  OBVIOUS
<1> QED BY <1>1, <1>2, <1>3, TalkKeeps

-----------------------------------------------------------------------------
(* The steps that leave what is found alone. *)

\* What RecordsInv says of the variables.
LEMMA TableFacts ==
    ASSUME RecordsInv
    PROVE  /\ IsTable(callRows) /\ SameTable(callRows, callRows)
           /\ leg \in [Legs -> LegState] /\ \A s \in Legs : leg[s] \in LegState
           /\ tape \in [Legs -> [twilio : BOOLEAN, s3 : BOOLEAN]]
           /\ agents \in [RowIds -> {"none", "on", "told"}]
           /\ voice = [x \in Legs \X Deliveries |-> voice[x]]
           /\ taping = [x \in Legs \X Deliveries |-> taping[x]]
           /\ removal.pc = "delete" => removal.row \in RowIds
BY DEF RecordsInv, TableInv, SameTable, Alike

\* Tell puts no agent on a call.
LEMMA TellIs ==
    ASSUME RecordsInv, NEW x, Tell(x)
    PROVE  /\ agents' \in [RowIds -> {"none", "on", "told"}]
           /\ \A r \in RowIds : agents'[r] = "on" => agents[r] = "on"
BY TableFacts DEF Tell

\* An agent is there afterwards, and no other that was not.
LEMMA RegisterIs ==
    ASSUME RecordsInv, NEW x \in RowIds, RegisterRunner(x)
    PROVE  /\ agents' \in [RowIds -> {"none", "on", "told"}]
           /\ \A r \in RowIds : agents'[r] = "on" => agents[r] = "on" \/ r = x
BY TableFacts DEF RegisterRunner

\* Only the request that places a call has gone on, or nothing happens.
LEMMA PlaceOnly ==
    ASSUME RecordsInv,
           UNCHANGED <<callRows, leg, tape, agents, voice, taping, removal, deleted>>
    PROVE  RecordsInv'
BY TableFacts, QuietKeeps

\* An agent is registered for a call we place.
LEMMA SpawnKeeps == ASSUME RecordsInv, NEW s \in Outbound, SpawnAgent(s) PROVE RecordsInv'
<1>1. Own(s) \in RowIds /\ Own(s)[1] = s
  BY RowIdsAre
<1>2. SameTable(callRows, callRows')
  BY <1>1, TableFacts, NotedSame DEF SpawnAgent
<1>3. /\ agents' \in [RowIds -> {"none", "on", "told"}]
      /\ \A r \in RowIds : agents'[r] = "on" => agents[r] = "on" \/ r = Own(s)
  BY <1>1, RegisterIs DEF SpawnAgent
<1>4. UNCHANGED <<leg, tape, voice, taping, removal, deleted>>
  BY DEF SpawnAgent
<1> QED BY <1>1, <1>2, <1>3, <1>4, TableFacts, QuietKeeps

\* A leg goes up.
LEMMA CreateCallKeeps == ASSUME RecordsInv, NEW s \in Outbound, CreateCall(s) PROVE RecordsInv'
<1>1. PICK record \in BOOLEAN : leg' = [leg EXCEPT ![s].state = "up", ![s].recorded = record]
  BY DEF CreateCall
<1>2. s \in Legs
  BY RowIdsAre
<1>3. leg[s] \in LegState
  BY <1>2, TableFacts
<1>4. leg'[s] \in LegState /\ leg'[s].to = leg[s].to /\ leg'[s].state = "up"
  BY <1>1, <1>2, <1>3, TableFacts DEF LegState
<1>5. \A x \in Legs : x # s => leg'[x] = leg[x]
  BY <1>1, TableFacts
<1>6. leg' \in [Legs -> LegState]
  BY <1>1, <1>2, <1>4, <1>5, TableFacts
<1>7. UNCHANGED <<callRows, tape, agents, voice, taping, removal, deleted>>
  BY DEF CreateCall
<1>8. \A x \in Legs : leg'[x].to = leg[x].to /\ (leg'[x].state = "over" => leg'[x] = leg[x])
  BY <1>4, <1>5
<1> QED BY <1>6, <1>7, <1>8, TableFacts, QuietKeeps

\* The provider refuses: the row is marked failed, its agent told to stop.
LEMMA CreateCallFailsKeeps == ASSUME RecordsInv, NEW s \in Outbound, CreateCallFails(s) PROVE RecordsInv'
<1>1. Own(s) \in RowIds
  BY RowIdsAre
<1>2. PICK t : t = IF callRows[Own(s)].kept THEN WithCallStatus(Own(s), "failed") ELSE callRows
  OBVIOUS
<1>3. SameTable(callRows, t)
  BY <1>1, <1>2, TableFacts, StatusSame
<1>4. SameTable(t, Noted(t, Own(s), "failed"))
  BY <1>1, <1>3, NotedSame DEF SameTable
<1>5. SameTable(callRows, callRows')
  BY <1>2, <1>3, <1>4, SameAgain DEF CreateCallFails
<1>6. Tell(Own(s)) /\ UNCHANGED <<leg, tape, voice, taping, removal, deleted>>
  BY DEF CreateCallFails
<1> QED BY <1>5, <1>6, TellIs, TableFacts, QuietKeeps

\* A webhook finds no row for its SID.
LEMMA VoiceUnknownKeeps ==
    ASSUME RecordsInv, NEW s \in Legs, NEW d \in Deliveries, VoiceUnknown(s, d) PROVE RecordsInv'
<1>1. voice' = [voice EXCEPT ![<<s, d>>] = "insert"]
      /\ UNCHANGED <<callRows, leg, tape, agents, taping, removal, deleted>>
  BY DEF VoiceUnknown, VoicePc
<1>2. /\ voice' = [x \in Legs \X Deliveries |-> voice'[x]]
      /\ \A x \in Legs \X Deliveries : voice'[x] = "register" => voice[x] = "register"
  BY <1>1, TableFacts
<1> QED BY <1>1, <1>2, TableFacts, QuietKeeps

\* The last status callback.
LEMMA FinalStatusKeeps == ASSUME RecordsInv, NEW s \in Legs, FinalStatus(s) PROVE RecordsInv'
<1>1. PICK r \in BySid(s) : /\ callRows' = Noted(WithCallStatus(r, "completed"), r, "ai_agent_stopped")
                            /\ Tell(callRows[r].room)
  BY DEF FinalStatus
<1>2. r \in RowIds
  BY DEF BySid
<1>3. SameTable(callRows, WithCallStatus(r, "completed"))
  BY <1>2, TableFacts, StatusSame
<1>4. SameTable(callRows, callRows')
  BY <1>1, <1>2, <1>3, NotedSame, SameAgain DEF SameTable
<1>5. UNCHANGED <<leg, tape, voice, taping, removal, deleted>>
  BY DEF FinalStatus
<1> QED BY <1>1, <1>4, <1>5, TellIs, TableFacts, QuietKeeps

\* The process starts again: what was under way is lost, and the registry is empty.
LEMMA RestartKeeps == ASSUME RecordsInv, Restart PROVE RecordsInv'
<1>1. /\ agents' = [r \in RowIds |-> "none"]
      /\ removal' = [pc |-> "none", row |-> NoRoom]
      /\ UNCHANGED <<callRows, leg, tape, deleted>>
  BY DEF Restart
<1>2. /\ DOMAIN voice = Legs \X Deliveries /\ DOMAIN taping = Legs \X Deliveries
  BY TableFacts
<1>3. /\ voice' = [x \in Legs \X Deliveries |-> IF voice[x] \in {"due", "done", "raised"} THEN voice[x] ELSE "lost"]
      /\ taping' = [x \in Legs \X Deliveries |-> IF taping[x] \in {"due", "done"} THEN taping[x] ELSE "lost"]
  BY <1>2 DEF Restart
<1>4. /\ voice' = [x \in Legs \X Deliveries |-> voice'[x]]
      /\ taping' = [x \in Legs \X Deliveries |-> taping'[x]]
      /\ \A x \in Legs \X Deliveries : voice'[x] = "register" => voice[x] = "register"
      /\ \A x \in Legs \X Deliveries : taping'[x] \in {"upload", "store", "remove"} => taping'[x] = taping[x]
  BY <1>3
<1>5. /\ agents' \in [RowIds -> {"none", "on", "told"}] /\ \A r \in RowIds : agents'[r] # "on"
  BY <1>1
<1> QED BY <1>1, <1>4, <1>5, TableFacts, QuietKeeps

-----------------------------------------------------------------------------
(* The steps that make a row, and that give it its SID. *)

\* A row is inserted: none is found that was not, and none is lost.
LEMMA InsertKeeps ==
    ASSUME RecordsInv, NEW r \in RowIds, NEW new, IsRow(new), new.kept, ~new.sid,
           new.room = RoomOf(r), Insertable(new), callRows' = [callRows EXCEPT ![r] = new],
           UNCHANGED <<leg, tape, agents, taping, removal, deleted>>,
           voice' = [x \in Legs \X Deliveries |-> voice'[x]],
           \A x \in Legs \X Deliveries : voice'[x] = "register" => voice[x] = "register"
    PROVE  RecordsInv'
<1>1. IsTable(callRows') /\ callRows'[r] = new /\ \A x \in RowIds : x # r => callRows'[x] = callRows[x]
  BY TableFacts DEF IsTable
<1>2. ~callRows[r].kept
  BY DEF Insertable, RecordsInv, RoomsInv
<1>3. \A s : Found(callRows', s) = Found(callRows, s)
  BY <1>1, <1>2 DEF Found
<1>4. Grows(callRows, callRows', deleted')
  <2>1. ASSUME NEW s, NEW x \in Found(callRows, s)
        PROVE  x \in Found(callRows', s) /\ callRows'[x] = callRows[x]
    BY <1>1, <1>2, <1>3 DEF Found
  <2> QED BY <2>1 DEF Grows
<1>5. RoomsInv'
  <2>1. /\ \A x \in RowIds : callRows[x].kept => callRows[x].room = RoomOf(x)
        /\ \A s \in Legs \ deleted : \A r1, r2 \in Found(callRows, s) : r1 = r2
    BY RecordsFlat DEF RecordsInv
  <2>2. \A x \in RowIds : callRows'[x].kept => callRows'[x].room = RoomOf(x)
    BY <1>1, <2>1
  <2> QED BY ZenonT(60), <1>3, <2>1, <2>2, RecordsFlatNext
<1>6. TableInv'
  BY <1>1, TableFacts DEF TableInv
<1>7. /\ \A x \in RowIds : agents'[x] = "on" /\ x[1] \notin deleted' =>
               agents[x] = "on" \/ MeetsIn(callRows', x[1], x)
      /\ \A s \in Legs \ deleted' : leg'[s].to # NoRoom =>
               leg'[s].to = leg[s].to \/ MeetsIn(callRows', s, leg'[s].to)
      /\ \A s \in Legs \ deleted' : tape[s].s3 => tape'[s].s3
      /\ deleted \subseteq deleted'
  OBVIOUS
<1>8. \A s \in Inbound \ deleted', d \in Deliveries : voice'[<<s, d>>] = "register" =>
               voice[<<s, d>>] = "register" \/ <<s, d>> \in Found(callRows', s)
  BY RowIdsAre
<1>9. \A s \in Legs \ deleted', d \in Deliveries :
               \/ taping'[<<s, d>>] = taping[<<s, d>>]
               \/ /\ taping'[<<s, d>>] \in {"upload", "store"} => Found(callRows', s) # {}
                  /\ taping'[<<s, d>>] = "store" => tape'[s].s3
                  /\ taping'[<<s, d>>] = "remove" => tape'[s].s3 /\ StoredIn(callRows', s)
  OBVIOUS
<1>10. \A s \in Legs \ deleted' :
               leg'[s].state = "over" /\ leg'[s].recorded /\ leg'[s].to # NoRoom =>
                   \/ tape'[s].twilio \/ (tape'[s].s3 /\ StoredIn(callRows', s))
                   \/ leg'[s] = leg[s] /\ tape'[s].twilio = tape[s].twilio
  OBVIOUS
<1> QED BY <1>4, <1>5, <1>6, <1>7, <1>8, <1>9, <1>10, StepKeeps

\* A row gets its SID, when no other has it.
LEMMA SidKeeps ==
    ASSUME RecordsInv, NEW r \in RowIds, IsTable(callRows'), callRows[r].kept, BySid(r[1]) = {},
           callRows'[r].kept, callRows'[r].sid, callRows'[r].room = callRows[r].room,
           \A x \in RowIds : x # r => Alike(callRows[x], callRows'[x]),
           UNCHANGED <<leg, tape, agents, taping, removal, deleted>>,
           voice' = [x \in Legs \X Deliveries |-> voice'[x]],
           \A x \in Legs \X Deliveries : voice'[x] = "register" => voice[x] = "register" \/ x = r
    PROVE  RecordsInv'
<1>1. Found(callRows, r[1]) = {}
  BY BySidIs
<1>2. /\ \A s : s # r[1] => Found(callRows', s) = Found(callRows, s)
      /\ Found(callRows', r[1]) = {r}
  <2>1. ASSUME NEW s, s # r[1] PROVE Found(callRows', s) = Found(callRows, s)
    BY <2>1 DEF Found, Alike
  <2>2. \A x \in RowIds : x # r => x \notin Found(callRows', r[1])
    BY <1>1 DEF Found, Alike
  <2>3. r \in Found(callRows', r[1])
    BY DEF Found
  <2>4. Found(callRows', r[1]) \subseteq RowIds
    BY DEF Found
  <2> QED BY <2>1, <2>2, <2>3, <2>4
<1>3. Grows(callRows, callRows', deleted')
  <2>1. ASSUME NEW s \in Legs \ deleted', NEW x \in Found(callRows, s)
        PROVE  x \in Found(callRows', s) /\ (callRows[x].recording => callRows'[x].recording)
    <3>1. s # r[1] /\ x # r /\ x \in RowIds
      BY <1>1 DEF Found
    <3> QED BY <1>2, <3>1 DEF Alike
  <2> QED BY <2>1 DEF Grows
<1>4. RoomsInv'
  <2>1. /\ \A x \in RowIds : callRows[x].kept => callRows[x].room = RoomOf(x)
        /\ \A s \in Legs \ deleted : \A r1, r2 \in Found(callRows, s) : r1 = r2
    BY RecordsFlat DEF RecordsInv
  <2>2. \A x \in RowIds : callRows'[x].kept => callRows'[x].room = RoomOf(x)
    BY <2>1 DEF Alike
  <2>3. \A s \in Legs \ deleted' : \A r1, r2 \in Found(callRows', s) : r1 = r2
    BY <1>2, <2>1
  <2> QED BY <2>2, <2>3, RecordsFlatNext
<1>5. TableInv'
  BY TableFacts DEF TableInv
<1>6. /\ \A x \in RowIds : agents'[x] = "on" /\ x[1] \notin deleted' =>
               agents[x] = "on" \/ MeetsIn(callRows', x[1], x)
      /\ \A s \in Legs \ deleted' : leg'[s].to # NoRoom =>
               leg'[s].to = leg[s].to \/ MeetsIn(callRows', s, leg'[s].to)
      /\ \A s \in Legs \ deleted' : tape[s].s3 => tape'[s].s3
      /\ deleted \subseteq deleted'
  OBVIOUS
<1>7. \A s \in Inbound \ deleted', d \in Deliveries : voice'[<<s, d>>] = "register" =>
               voice[<<s, d>>] = "register" \/ <<s, d>> \in Found(callRows', s)
  <2>1. ASSUME NEW s \in Inbound, NEW d \in Deliveries, <<s, d>> = r PROVE <<s, d>> \in Found(callRows', s)
    <3>1. r[1] = s
      BY <2>1, RowIdsAre
    <3> QED BY <1>2, <2>1, <3>1
  <2>2. \A s \in Inbound, d \in Deliveries : <<s, d>> \in Legs \X Deliveries
    BY RowIdsAre
  <2> QED BY <2>1, <2>2
<1>8. \A s \in Legs \ deleted', d \in Deliveries :
               \/ taping'[<<s, d>>] = taping[<<s, d>>]
               \/ /\ taping'[<<s, d>>] \in {"upload", "store"} => Found(callRows', s) # {}
                  /\ taping'[<<s, d>>] = "store" => tape'[s].s3
                  /\ taping'[<<s, d>>] = "remove" => tape'[s].s3 /\ StoredIn(callRows', s)
  OBVIOUS
<1>9. \A s \in Legs \ deleted' :
               leg'[s].state = "over" /\ leg'[s].recorded /\ leg'[s].to # NoRoom =>
                   \/ tape'[s].twilio \/ (tape'[s].s3 /\ StoredIn(callRows', s))
                   \/ leg'[s] = leg[s] /\ tape'[s].twilio = tape[s].twilio
  OBVIOUS
<1> QED BY <1>3, <1>4, <1>5, <1>6, <1>7, <1>8, <1>9, StepKeeps

\* The call we place gets its row.
LEMMA InsertCallKeeps == ASSUME RecordsInv, NEW s \in Outbound, InsertCall(s) PROVE RecordsInv'
<1>1. CASE UNCHANGED callRows
  <2>1. UNCHANGED <<leg, tape, agents, voice, taping, removal, deleted>>
    BY DEF InsertCall
  <2> QED BY <1>1, <2>1, PlaceOnly
<1>2. CASE callRows' # callRows
  <2>1. PICK new : new = [NoCallRow EXCEPT !.kept = TRUE, !.room = Own(s),
                                 !.parent = place[s].parent,
                                 !.retry_count = place[s].retry_count,
                                 !.execution = place[s].execution,
                                 !.voicemail = place[s].voicemail]
    OBVIOUS
  <2> PICK p : p = place[s]
    OBVIOUS
  <2> PICK own : own = Own(s)
    OBVIOUS
  <2>0. new = [NoCallRow EXCEPT !.kept = TRUE, !.room = own, !.parent = p.parent,
                                !.retry_count = p.retry_count, !.execution = p.execution,
                                !.voicemail = p.voicemail]
    BY <2>1
  <2>2. /\ Insertable(new) /\ callRows' = [callRows EXCEPT ![Own(s)] = new]
        /\ UNCHANGED <<leg, tape, agents, voice, taping, removal, deleted>>
    BY <1>2, <2>1 DEF InsertCall
  <2>3. IsRow(new) /\ new.kept /\ ~new.sid /\ new.room = Own(s)
    BY <2>0 DEF IsRow, RowFields, NoCallRow
  <2>4. Own(s) \in RowIds /\ RoomOf(Own(s)) = Own(s)
    BY RowIdsAre
  <2>5. /\ voice' = [x \in Legs \X Deliveries |-> voice'[x]]
        /\ \A x \in Legs \X Deliveries : voice'[x] = "register" => voice[x] = "register"
    BY <2>2, TableFacts
  <2> QED BY <2>2, <2>3, <2>4, <2>5, InsertKeeps, Zenon
<1> QED BY <1>1, <1>2

\* So does the call nobody knew.
LEMMA VoiceInsertKeeps ==
    ASSUME RecordsInv, NEW s \in Legs, NEW d \in Deliveries, VoiceInsert(s, d) PROVE RecordsInv'
<1>0. /\ voice' = [x \in Legs \X Deliveries |-> voice'[x]]
      /\ \A x \in Legs \X Deliveries : voice'[x] = "register" => voice[x] = "register"
  BY TableFacts DEF VoiceInsert, VoicePc
<1>1. UNCHANGED <<leg, tape, agents, taping, removal, deleted>>
  BY DEF VoiceInsert
<1>2. CASE UNCHANGED callRows
  BY <1>0, <1>1, <1>2, TableFacts, QuietKeeps
<1>3. CASE callRows' # callRows
  <2>1. PICK new : new = [NoCallRow EXCEPT !.kept = TRUE, !.room = RoomFor(s, d)]
    OBVIOUS
  <2>2. Insertable(new) /\ callRows' = [callRows EXCEPT ![<<s, d>>] = new]
    BY <1>3, <2>1 DEF VoiceInsert
  <2>3. IsRow(new) /\ new.kept /\ ~new.sid /\ new.room = RoomFor(s, d)
    BY <2>1, UnknownRowMade, Zenon
  <2>4. <<s, d>> \in RowIds /\ RoomOf(<<s, d>>) = RoomFor(s, d)
    BY RowIdsAre
  <2> QED BY <1>0, <1>1, <2>2, <2>3, <2>4, InsertKeeps, Zenon
<1> QED BY <1>2, <1>3

\* The SID of the call we placed is stored.
LEMMA SetCallSidKeeps == ASSUME RecordsInv, NEW s \in Outbound, SetCallSid(s) PROVE RecordsInv'
<1>0. UNCHANGED <<leg, tape, agents, voice, taping, removal, deleted>>
  BY DEF SetCallSid
<1>1. CASE UNCHANGED callRows
  BY <1>0, <1>1, PlaceOnly
<1>2. CASE callRows' # callRows
  <2>1. PICK row : row = [callRows[Own(s)] EXCEPT !.sid = TRUE, !.status = "queued"]
    OBVIOUS
  <2>2. PICK t : t = [callRows EXCEPT ![Own(s)] = row]
    OBVIOUS
  <2>3. Own(s) \in RowIds /\ Own(s)[1] = s
    BY RowIdsAre
  <2>4. /\ callRows[Own(s)].kept /\ BySid(s) = {}
        /\ callRows' = Noted(t, Own(s), "originated")
    <3>1. [callRows EXCEPT ![Own(s)].sid = TRUE, ![Own(s)].status = "queued"] = t
      BY <2>1, <2>2, <2>3, TableFacts DEF IsTable
    <3> QED BY <1>2, <3>1 DEF SetCallSid
  <2>5. IsRow(callRows[Own(s)])
    BY <2>3, TableFacts DEF IsTable
  <2>6. IsRow(row) /\ row.sid /\ row.kept = callRows[Own(s)].kept /\ row.room = callRows[Own(s)].room
    <3>1. PICK old : old = callRows[Own(s)]
      OBVIOUS
    <3>2. IsRow(old) /\ row = [old EXCEPT !.sid = TRUE, !.status = "queued"]
      BY <2>1, <2>5, <3>1
    <3>3. IsRow(row) /\ row.sid /\ row.kept = old.kept /\ row.room = old.room
      BY <3>2 DEF IsRow, RowFields
    <3> QED BY <3>1, <3>3
  <2>7. IsTable(t) /\ t[Own(s)] = row /\ \A x \in RowIds : x # Own(s) => t[x] = callRows[x]
    BY <2>2, <2>3, <2>6, TableFacts DEF IsTable
  <2>8. SameTable(t, callRows')
    BY <2>3, <2>4, <2>7, NotedSame
  <2>9. /\ IsTable(callRows') /\ callRows'[Own(s)].kept /\ callRows'[Own(s)].sid
        /\ callRows'[Own(s)].room = callRows[Own(s)].room
        /\ \A x \in RowIds : x # Own(s) => Alike(callRows[x], callRows'[x])
    BY ZenonT(60), <2>3, <2>4, <2>6, <2>7, <2>8 DEF SameTable, Alike
  <2>10. /\ voice' = [x \in Legs \X Deliveries |-> voice'[x]]
         /\ \A x \in Legs \X Deliveries :
               voice'[x] = "register" => voice[x] = "register" \/ x = Own(s)
    BY <1>0, TableFacts
  <2> QED BY <1>0, <2>3, <2>4, <2>9, <2>10, SidKeeps
<1> QED BY <1>1, <1>2

\* The SID of the call nobody knew is stored, unless the other delivery was first.
LEMMA VoiceBindKeeps ==
    ASSUME RecordsInv, NEW s \in Legs, NEW d \in Deliveries, VoiceBind(s, d) PROVE RecordsInv'
<1>0. UNCHANGED <<leg, tape, agents, taping, removal, deleted>>
  BY DEF VoiceBind
<1>1. CASE UNCHANGED callRows /\ VoicePc(s, d, "raised")
  <2>1. /\ voice' = [x \in Legs \X Deliveries |-> voice'[x]]
        /\ \A x \in Legs \X Deliveries : voice'[x] = "register" => voice[x] = "register"
    BY <1>1, TableFacts DEF VoicePc
  <2> QED BY <1>0, <1>1, <2>1, TableFacts, QuietKeeps
<1>2. CASE ~(UNCHANGED callRows /\ VoicePc(s, d, "raised"))
  <2>1. PICK r : r = <<s, d>>
    OBVIOUS
  <2>2. r \in RowIds /\ r[1] = s /\ r \in Legs \X Deliveries
    BY <2>1, RowIdsAre
  <2>3. PICK row : row = [callRows[r] EXCEPT !.sid = TRUE, !.status = "in-progress"]
    OBVIOUS
  <2>4. /\ callRows[r].kept /\ BySid(s) = {} /\ voice' = [voice EXCEPT ![r] = "register"]
        /\ callRows' = [callRows EXCEPT ![r] = row]
    <3>1. [callRows EXCEPT ![r].sid = TRUE, ![r].status = "in-progress"] = [callRows EXCEPT ![r] = row]
      BY <2>2, <2>3, TableFacts DEF IsTable
    <3> QED BY <1>2, <2>1, <3>1 DEF VoiceBind, VoicePc
  <2>5. IsRow(callRows[r])
    BY <2>2, TableFacts DEF IsTable
  <2>6. IsRow(row) /\ row.sid /\ row.kept = callRows[r].kept /\ row.room = callRows[r].room
    <3>1. PICK old : old = callRows[r]
      OBVIOUS
    <3>2. IsRow(old) /\ row = [old EXCEPT !.sid = TRUE, !.status = "in-progress"]
      BY <2>3, <2>5, <3>1
    <3>3. IsRow(row) /\ row.sid /\ row.kept = old.kept /\ row.room = old.room
      BY <3>2 DEF IsRow, RowFields
    <3> QED BY <3>1, <3>3
  <2>7. IsTable(callRows') /\ callRows'[r] = row /\ \A x \in RowIds : x # r => Alike(callRows[x], callRows'[x])
    BY <2>2, <2>4, <2>6, TableFacts DEF IsTable, Alike
  <2>8. /\ voice' = [x \in Legs \X Deliveries |-> voice'[x]]
        /\ \A x \in Legs \X Deliveries : voice'[x] = "register" => voice[x] = "register" \/ x = r
    BY <2>2, <2>4, TableFacts
  <2> QED BY ZenonT(60), <1>0, <2>2, <2>4, <2>6, <2>7, <2>8, SidKeeps
<1> QED BY <1>1, <1>2

-----------------------------------------------------------------------------
(* The steps that bridge a leg. *)

\* A leg that is up may get another room, and no other changes.
LEMMA BridgeIs ==
    ASSUME RecordsInv, NEW s \in Legs, NEW x \in RowIds \cup {NoRoom}, Bridge(s, x)
    PROVE  /\ leg' \in [Legs -> LegState]
           /\ \A y \in Legs : leg'[y].to = leg[y].to \/ (y = s /\ leg'[y].to = x)
           /\ \A y \in Legs : leg'[y].state = "over" => leg'[y] = leg[y]
<1>1. leg \in [Legs -> LegState] /\ leg[s] \in LegState
  BY TableFacts
<1>2. CASE leg[s].state = "up"
  <2>1. PICK l : l = leg[s]
    OBVIOUS
  <2>2. PICK m : m = [l EXCEPT !.to = x]
    OBVIOUS
  <2>3. m \in LegState /\ m.to = x /\ m.state = "up"
    BY <1>1, <1>2, <2>1, <2>2 DEF LegState
  <2>4. leg' = [leg EXCEPT ![s] = m]
    BY <1>2, <2>1, <2>2 DEF Bridge
  <2>5. leg'[s] = m /\ leg' \in [Legs -> LegState] /\ \A y \in Legs : y # s => leg'[y] = leg[y]
    BY <1>1, <2>3, <2>4
  <2> QED BY <2>3, <2>5
<1>3. CASE leg[s].state # "up"
  BY <1>1, <1>3 DEF Bridge
<1> QED BY <1>2, <1>3

\* A voice webhook goes on, and no other.
LEMMA VoicePcIs ==
    ASSUME RecordsInv, NEW s, NEW d, NEW pc, pc # "register", VoicePc(s, d, pc)
    PROVE  /\ voice' = [x \in Legs \X Deliveries |-> voice'[x]]
           /\ \A x \in Legs \X Deliveries : voice'[x] = "register" => voice[x] = "register"
BY TableFacts DEF VoicePc

\* A call we know is answered.
LEMMA VoiceKnownKeeps ==
    ASSUME RecordsInv, NEW s \in Legs, NEW d \in Deliveries, VoiceKnown(s, d) PROVE RecordsInv'
<1>1. /\ voice' = [x \in Legs \X Deliveries |-> voice'[x]]
      /\ \A x \in Legs \X Deliveries : voice'[x] = "register" => voice[x] = "register"
  BY VoicePcIs DEF VoiceKnown
<1>2. UNCHANGED <<tape, taping, removal, deleted>>
  BY DEF VoiceKnown
<1>3. PICK r \in BySid(s) : \E machine \in BOOLEAN :
          IF Drops(r, machine)
          THEN /\ Bridge(s, NoRoom) /\ Tell(callRows[r].room)
               /\ callRows' = Noted(callRows, r, "voicemail_dropped")
          ELSE Bridge(s, callRows[r].room) /\ UNCHANGED <<callRows, agents>>
  BY DEF VoiceKnown
<1>4. r \in RowIds /\ r[1] = s /\ callRows[r].kept /\ r \in Found(callRows, s)
  BY DEF BySid, Found
<1>5. CASE Bridge(s, NoRoom) /\ Tell(callRows[r].room) /\ callRows' = Noted(callRows, r, "voicemail_dropped")
  <2>1. SameTable(callRows, callRows')
    BY <1>4, <1>5, TableFacts, NotedSame
  <2>2. /\ leg' \in [Legs -> LegState]
        /\ \A y \in Legs : leg'[y].to = leg[y].to \/ leg'[y].to = NoRoom
        /\ \A y \in Legs : leg'[y].state = "over" => leg'[y] = leg[y]
    BY <1>5, BridgeIs
  <2>3. /\ agents' \in [RowIds -> {"none", "on", "told"}]
        /\ \A x \in RowIds : agents'[x] = "on" => agents[x] = "on"
    BY <1>5, TellIs
  <2> QED BY <1>1, <1>2, <2>1, <2>2, <2>3, TableFacts, TalkKeeps
<1>6. CASE Bridge(s, callRows[r].room) /\ UNCHANGED <<callRows, agents>>
  <2>1. callRows[r].room = RoomOf(r) /\ RoomOf(r) \in RowIds
    BY <1>4, RowIdsAre DEF RecordsInv, RoomsInv
  <2>2. MeetsIn(callRows, s, RoomOf(r))
    BY <1>4 DEF MeetsIn, RoomOf
  <2>3. /\ leg' \in [Legs -> LegState]
        /\ \A y \in Legs : leg'[y].to = leg[y].to \/ (y = s /\ leg'[y].to = RoomOf(r))
        /\ \A y \in Legs : leg'[y].state = "over" => leg'[y] = leg[y]
    BY <1>6, <2>1, BridgeIs
  <2>4. \A y \in Legs \ deleted : leg'[y].to # NoRoom =>
               leg'[y].to = leg[y].to \/ MeetsIn(callRows, y, leg'[y].to)
    BY <2>2, <2>3
  <2> QED BY <1>1, <1>2, <1>6, <2>3, <2>4, TableFacts, TalkKeeps
<1> QED BY <1>3, <1>5, <1>6

\* A call nobody knew gets its agent.
LEMMA VoiceRegisterKeeps ==
    ASSUME RecordsInv, NEW s \in Legs, NEW d \in Deliveries, VoiceRegister(s, d) PROVE RecordsInv'
<1>1. /\ voice' = [x \in Legs \X Deliveries |-> voice'[x]]
      /\ \A x \in Legs \X Deliveries : voice'[x] = "register" => voice[x] = "register"
  BY VoicePcIs DEF VoiceRegister
<1>2. UNCHANGED <<tape, taping, removal, deleted>> /\ voice[<<s, d>>] = "register"
  BY DEF VoiceRegister
<1>3. PICK x : x = RoomFor(s, d)
  OBVIOUS
<1>4. x \in RowIds /\ x[1] = s /\ <<s, d>> \in RowIds
  BY <1>3, RowIdsAre
<1>5. s \notin deleted => MeetsIn(callRows, s, x)
  <2>1. CASE s \in Outbound
    BY <1>3, <2>1 DEF MeetsIn, RoomFor
  <2>2. CASE s \notin Outbound
    <3>1. s \in Inbound
      BY <2>2 DEF Legs
    <3>2. s \notin deleted => <<s, d>> \in Found(callRows, s)
      BY <1>2, <3>1, RecordsFlat DEF RecordsInv
    <3> QED BY <1>3, <2>2, <3>2 DEF MeetsIn, RoomFor
  <2> QED BY <2>1, <2>2
<1>6. SameTable(callRows, callRows')
  BY <1>4, TableFacts, NotedSame DEF VoiceRegister
<1>7. RegisterRunner(x) /\ Bridge(s, x)
  BY <1>3 DEF VoiceRegister
<1>8. /\ leg' \in [Legs -> LegState]
      /\ \A y \in Legs : leg'[y].to = leg[y].to \/ (y = s /\ leg'[y].to = x)
      /\ \A y \in Legs : leg'[y].state = "over" => leg'[y] = leg[y]
  BY <1>4, <1>7, BridgeIs
<1>9. /\ agents' \in [RowIds -> {"none", "on", "told"}]
      /\ \A r \in RowIds : agents'[r] = "on" => agents[r] = "on" \/ r = x
  BY <1>4, <1>7, RegisterIs
<1>10. \A r \in RowIds : agents'[r] = "on" /\ r[1] \notin deleted =>
               agents[r] = "on" \/ MeetsIn(callRows, r[1], r)
  BY <1>4, <1>5, <1>9
<1>11. \A y \in Legs \ deleted : leg'[y].to # NoRoom =>
               leg'[y].to = leg[y].to \/ MeetsIn(callRows, y, leg'[y].to)
  BY <1>5, <1>8
<1> QED BY <1>1, <1>2, <1>6, <1>8, <1>9, <1>10, <1>11, TableFacts, TalkKeeps

-----------------------------------------------------------------------------
(* The end of a leg and its recording. *)

\* A leg that ends leaves a recording at Twilio, if there was one to make.
LEMMA LegEnds ==
    ASSUME RecordsInv, NEW s \in Legs, leg' = [leg EXCEPT ![s].state = "over"],
           tape' = [tape EXCEPT ![s].twilio = leg[s].recorded /\ leg[s].to # NoRoom]
    PROVE  /\ leg' \in [Legs -> LegState] /\ tape' \in [Legs -> [twilio : BOOLEAN, s3 : BOOLEAN]]
           /\ \A y \in Legs : leg'[y].to = leg[y].to /\ tape'[y].s3 = tape[y].s3
           /\ \A y \in Legs : \/ leg'[y] = leg[y] /\ tape'[y] = tape[y]
                              \/ leg'[y].recorded /\ leg'[y].to # NoRoom => tape'[y].twilio
<1>1. leg[s] \in LegState /\ tape[s] \in [twilio : BOOLEAN, s3 : BOOLEAN]
  BY TableFacts
<1>2. PICK l : l = leg[s]
  OBVIOUS
<1>3. PICK m : m = [l EXCEPT !.state = "over"]
  OBVIOUS
<1>4. m \in LegState /\ m.to = l.to /\ m.recorded = l.recorded /\ l.recorded \in BOOLEAN
  BY <1>1, <1>2, <1>3 DEF LegState
<1>5. PICK b \in BOOLEAN : b <=> (l.recorded /\ l.to # NoRoom)
  BY <1>4
<1>6. PICK u : u = [tape[s] EXCEPT !.twilio = b]
  OBVIOUS
<1>7. u \in [twilio : BOOLEAN, s3 : BOOLEAN] /\ u.s3 = tape[s].s3 /\ u.twilio = b
  BY <1>1, <1>6
<1>8. leg' = [leg EXCEPT ![s] = m] /\ tape' = [tape EXCEPT ![s] = u]
  <2>1. (leg[s].recorded /\ leg[s].to # NoRoom) = b
    BY <1>2, <1>4, <1>5
  <2> QED BY <1>2, <1>3, <1>6, <2>1
<1>9. leg'[s] = m /\ leg' \in [Legs -> LegState] /\ \A y \in Legs : y # s => leg'[y] = leg[y]
  BY <1>4, <1>8, TableFacts
<1>10. leg'[s] = m /\ tape'[s] = u /\ tape' \in [Legs -> [twilio : BOOLEAN, s3 : BOOLEAN]]
  BY <1>7, <1>8, <1>9, TableFacts
<1>11. \A y \in Legs : y # s => tape'[y] = tape[y]
  BY <1>8, TableFacts
<1> QED BY <1>2, <1>4, <1>5, <1>7, <1>9, <1>10, <1>11

\* Legs that end, in a step that tells an agent to stop at most.
LEMMA OverKeeps ==
    ASSUME RecordsInv, SameTable(callRows, callRows'), UNCHANGED <<deleted, voice, taping>>,
           leg' \in [Legs -> LegState], tape' \in [Legs -> [twilio : BOOLEAN, s3 : BOOLEAN]],
           \A y \in Legs : leg'[y].to = leg[y].to /\ tape'[y].s3 = tape[y].s3,
           \A y \in Legs : \/ leg'[y] = leg[y] /\ tape'[y] = tape[y]
                           \/ leg'[y].recorded /\ leg'[y].to # NoRoom => tape'[y].twilio,
           agents' \in [RowIds -> {"none", "on", "told"}],
           \A r \in RowIds : agents'[r] = "on" => agents[r] = "on",
           removal'.pc = "delete" => removal'.row \in RowIds
    PROVE  RecordsInv'
<1>1. TableInv'
  BY DEF RecordsInv, TableInv, SameTable
<1>2. Grows(callRows, callRows', deleted') /\ RoomsInv' /\ deleted \subseteq deleted'
  BY SameKeeps
<1>3. \A r \in RowIds : agents'[r] = "on" /\ r[1] \notin deleted' =>
               agents[r] = "on" \/ MeetsIn(callRows', r[1], r)
  OBVIOUS
<1>4. \A s \in Legs \ deleted' : leg'[s].to # NoRoom =>
               leg'[s].to = leg[s].to \/ MeetsIn(callRows', s, leg'[s].to)
  OBVIOUS
<1>5. \A s \in Inbound \ deleted', d \in Deliveries : voice'[<<s, d>>] = "register" =>
               voice[<<s, d>>] = "register" \/ <<s, d>> \in Found(callRows', s)
  OBVIOUS
<1>6. \A s \in Legs \ deleted' : tape[s].s3 => tape'[s].s3
  OBVIOUS
<1>7. \A s \in Legs \ deleted', d \in Deliveries :
               \/ taping'[<<s, d>>] = taping[<<s, d>>]
               \/ /\ taping'[<<s, d>>] \in {"upload", "store"} => Found(callRows', s) # {}
                  /\ taping'[<<s, d>>] = "store" => tape'[s].s3
                  /\ taping'[<<s, d>>] = "remove" => tape'[s].s3 /\ StoredIn(callRows', s)
  OBVIOUS
<1>8. \A s \in Legs \ deleted' :
               leg'[s].state = "over" /\ leg'[s].recorded /\ leg'[s].to # NoRoom =>
                   \/ tape'[s].twilio \/ (tape'[s].s3 /\ StoredIn(callRows', s))
                   \/ leg'[s] = leg[s] /\ tape'[s].twilio = tape[s].twilio
  OBVIOUS
<1> QED BY <1>1, <1>2, <1>3, <1>4, <1>5, <1>6, <1>7, <1>8, StepKeeps

\* The leg ends.
LEMMA HangUpLegKeeps == ASSUME RecordsInv, NEW s \in Legs, HangUpLeg(s) PROVE RecordsInv'
<1>1. /\ leg' \in [Legs -> LegState] /\ tape' \in [Legs -> [twilio : BOOLEAN, s3 : BOOLEAN]]
      /\ \A y \in Legs : leg'[y].to = leg[y].to /\ tape'[y].s3 = tape[y].s3
      /\ \A y \in Legs : \/ leg'[y] = leg[y] /\ tape'[y] = tape[y]
                         \/ leg'[y].recorded /\ leg'[y].to # NoRoom => tape'[y].twilio
  BY LegEnds DEF HangUpLeg
<1>2. UNCHANGED <<callRows, agents, voice, taping, removal, deleted>>
  BY DEF HangUpLeg
<1> QED BY <1>1, <1>2, TableFacts, OverKeeps

\* A user deletes a call, and a live one is ended first.
LEMMA RemoveCallKeeps == ASSUME RecordsInv, NEW r \in RowIds, RemoveCall(r) PROVE RecordsInv'
<1>1. /\ UNCHANGED <<voice, taping, deleted>>
      /\ removal'.pc = "delete" => removal'.row \in RowIds
  BY DEF RemoveCall
<1>2. r[1] \in Legs
  BY RowIdsAre
<1>3. SameTable(callRows, callRows')
  <2>1. CASE UNCHANGED callRows
    BY <2>1, TableFacts
  <2>2. CASE callRows' = Noted(WithCallStatus(r, "canceled"), r, "canceled")
    <3>1. SameTable(callRows, WithCallStatus(r, "canceled"))
      BY TableFacts, StatusSame
    <3> QED BY <2>2, <3>1, NotedSame, SameAgain DEF SameTable
  <2> QED BY <2>1, <2>2 DEF RemoveCall
<1>4. agents' \in [RowIds -> {"none", "on", "told"}] /\ \A x \in RowIds : agents'[x] = "on" => agents[x] = "on"
  <2>1. CASE UNCHANGED agents
    BY <2>1, TableFacts
  <2>2. CASE Tell(callRows[r].room)
    BY <2>2, TellIs
  <2> QED BY <2>1, <2>2 DEF RemoveCall
<1>5. CASE UNCHANGED <<leg, tape>>
  BY <1>1, <1>3, <1>4, <1>5, TableFacts, OverKeeps
<1>6. CASE /\ leg' = [leg EXCEPT ![r[1]].state = "over"]
           /\ tape' = [tape EXCEPT ![r[1]].twilio = leg[r[1]].recorded /\ leg[r[1]].to # NoRoom]
  <2>1. /\ leg' \in [Legs -> LegState] /\ tape' \in [Legs -> [twilio : BOOLEAN, s3 : BOOLEAN]]
        /\ \A y \in Legs : leg'[y].to = leg[y].to /\ tape'[y].s3 = tape[y].s3
        /\ \A y \in Legs : \/ leg'[y] = leg[y] /\ tape'[y] = tape[y]
                           \/ leg'[y].recorded /\ leg'[y].to # NoRoom => tape'[y].twilio
    BY <1>2, <1>6, LegEnds
  <2> QED BY <1>1, <1>3, <1>4, <2>1, TableFacts, OverKeeps
<1> QED BY <1>5, <1>6 DEF RemoveCall

\* A step of a recording webhook: what it writes down for one call has to be so.
LEMMA TapingKeeps ==
    ASSUME RecordsInv, IsTable(callRows'), UNCHANGED <<leg, agents, voice, removal, deleted>>,
           \A r \in RowIds :
               /\ callRows'[r].kept = callRows[r].kept /\ callRows'[r].sid = callRows[r].sid
               /\ callRows'[r].room = callRows[r].room
               /\ callRows[r].recording => callRows'[r].recording,
           tape' \in [Legs -> [twilio : BOOLEAN, s3 : BOOLEAN]],
           \A y \in Legs : tape[y].s3 => tape'[y].s3,
           NEW s \in Legs, NEW d \in Deliveries, NEW pc, TapingPc(s, d, pc),
           s \notin deleted =>
               /\ pc \in {"upload", "store"} => Found(callRows', s) # {}
               /\ pc = "store" => tape'[s].s3
               /\ pc = "remove" => tape'[s].s3 /\ StoredIn(callRows', s),
           \A y \in Legs \ deleted :
               tape'[y].twilio = tape[y].twilio \/ (tape'[y].s3 /\ StoredIn(callRows', y))
    PROVE  RecordsInv'
<1>1. /\ taping' = [x \in Legs \X Deliveries |-> taping'[x]]
      /\ \A x \in Legs \X Deliveries : x # <<s, d>> => taping'[x] = taping[x]
  BY TableFacts DEF TapingPc
<1>2. taping'[<<s, d>>] = pc
  <2>1. PICK x : x = <<s, d>>
    OBVIOUS
  <2>2. x \in Legs \X Deliveries
    BY <2>1
  <2>3. taping' = [taping EXCEPT ![x] = pc]
    BY <2>1 DEF TapingPc
  <2> QED BY <2>1, <2>2, <2>3, TableFacts
<1>3. TableInv'
  BY <1>1, TableFacts DEF TableInv
<1>4. Grows(callRows, callRows', deleted') /\ RoomsInv' /\ deleted \subseteq deleted'
  BY RowsKeep
<1>5. \A y \in Legs \ deleted', e \in Deliveries :
               \/ taping'[<<y, e>>] = taping[<<y, e>>]
               \/ /\ taping'[<<y, e>>] \in {"upload", "store"} => Found(callRows', y) # {}
                  /\ taping'[<<y, e>>] = "store" => tape'[y].s3
                  /\ taping'[<<y, e>>] = "remove" => tape'[y].s3 /\ StoredIn(callRows', y)
  <2>1. ASSUME NEW y \in Legs \ deleted', NEW e \in Deliveries, taping'[<<y, e>>] # taping[<<y, e>>]
        PROVE  y = s /\ e = d
    BY <1>1, <2>1
  <2> QED BY ZenonT(60), <1>2, <2>1
<1>6. \A y \in Legs \ deleted' :
               leg'[y].state = "over" /\ leg'[y].recorded /\ leg'[y].to # NoRoom =>
                   \/ tape'[y].twilio \/ (tape'[y].s3 /\ StoredIn(callRows', y))
                   \/ leg'[y] = leg[y] /\ tape'[y].twilio = tape[y].twilio
  OBVIOUS
<1>7. \A r \in RowIds : agents'[r] = "on" /\ r[1] \notin deleted' =>
               agents[r] = "on" \/ MeetsIn(callRows', r[1], r)
  OBVIOUS
<1>8. \A y \in Legs \ deleted' : leg'[y].to # NoRoom =>
               leg'[y].to = leg[y].to \/ MeetsIn(callRows', y, leg'[y].to)
  OBVIOUS
<1>9. \A y \in Inbound \ deleted', e \in Deliveries : voice'[<<y, e>>] = "register" =>
               voice[<<y, e>>] = "register" \/ <<y, e>> \in Found(callRows', y)
  OBVIOUS
<1>10. \A y \in Legs \ deleted' : tape[y].s3 => tape'[y].s3
  OBVIOUS
<1> QED BY <1>3, <1>4, <1>5, <1>6, <1>7, <1>8, <1>9, <1>10, StepKeeps

\* The steps of a recording webhook that leave the rows alone: all but the last but one.
LEMMA RecordingDoneKeeps ==
    ASSUME RecordsInv, NEW s \in Legs, NEW d \in Deliveries, RecordingDone(s, d) PROVE RecordsInv'
<1>1. PICK pc : pc = IF BySid(s) = {} THEN "done" ELSE "upload"
  OBVIOUS
<1>2. TapingPc(s, d, pc) /\ UNCHANGED <<callRows, leg, agents, voice, removal, deleted, tape>>
  BY <1>1 DEF RecordingDone
<1>3. pc \in {"upload", "store"} => Found(callRows', s) # {}
  BY <1>1, <1>2, BySidIs
<1>4. pc # "store" /\ pc # "remove"
  BY <1>1
<1> QED BY <1>2, <1>3, <1>4, TableFacts, TapingKeeps

\* The upload to S3.
LEMMA UploadKeeps ==
    ASSUME RecordsInv, NEW s \in Legs, NEW d \in Deliveries, Upload(s, d) PROVE RecordsInv'
<1>1. UNCHANGED <<callRows, leg, agents, voice, removal, deleted>> /\ taping[<<s, d>>] = "upload"
  BY DEF Upload
<1>2. CASE TapingPc(s, d, "done") /\ UNCHANGED tape
  BY <1>1, <1>2, TableFacts, TapingKeeps
<1>3. CASE tape' = [tape EXCEPT ![s].s3 = TRUE] /\ TapingPc(s, d, "store")
  <2>1. PICK old : old = tape[s]
    OBVIOUS
  <2>2. PICK u : u = [old EXCEPT !.s3 = TRUE]
    OBVIOUS
  <2>3. u \in [twilio : BOOLEAN, s3 : BOOLEAN] /\ u.s3 /\ u.twilio = old.twilio
    <3>1. old \in [twilio : BOOLEAN, s3 : BOOLEAN]
      BY <2>1, TableFacts
    <3> QED BY <2>2, <3>1
  <2>4. tape' = [tape EXCEPT ![s] = u]
    BY <1>3, <2>1, <2>2
  <2>5. /\ tape' \in [Legs -> [twilio : BOOLEAN, s3 : BOOLEAN]] /\ tape'[s] = u
        /\ \A y \in Legs : y # s => tape'[y] = tape[y]
    BY <2>3, <2>4, TableFacts
  <2>6. /\ \A y \in Legs : tape'[y].twilio = tape[y].twilio
        /\ \A y \in Legs : tape[y].s3 => tape'[y].s3
        /\ tape'[s].s3
    BY <2>1, <2>3, <2>5
  <2>7. s \notin deleted => Found(callRows', s) # {}
    BY <1>1, RecordsFlat DEF RecordsInv
  <2> QED BY <1>1, <1>3, <2>5, <2>6, <2>7, TableFacts, TapingKeeps
<1> QED BY <1>2, <1>3 DEF Upload

\* The row gets the key of the recording.
LEMMA StoreRecordingKeeps ==
    ASSUME RecordsInv, NEW s \in Legs, NEW d \in Deliveries, StoreRecording(s, d) PROVE RecordsInv'
<1>1. /\ UNCHANGED <<tape, leg, agents, voice, removal, deleted>> /\ taping[<<s, d>>] = "store"
  BY DEF StoreRecording
<1>2. PICK pc \in {"remove", "done"} : TapingPc(s, d, pc)
  BY DEF StoreRecording
<1>3. ASSUME NEW r \in RowIds
      PROVE  /\ IsRow(callRows'[r])
             /\ callRows'[r].kept = callRows[r].kept /\ callRows'[r].sid = callRows[r].sid
             /\ callRows'[r].room = callRows[r].room
             /\ callRows[r].recording => callRows'[r].recording
             /\ r \in Found(callRows, s) => callRows'[r].recording
  <2>1. PICK old : old = callRows[r]
    OBVIOUS
  <2>2. IsRow(old)
    BY <2>1, TableFacts DEF IsTable
  <2>3. CASE r \in BySid(s)
    <3>1. PICK e : e = old.events \cup {"recording_uploaded"}
      OBVIOUS
    <3>2. PICK row : row = [old EXCEPT !.recording = TRUE, !.events = e]
      OBVIOUS
    <3>3. callRows'[r] = row
      BY <2>1, <2>3, <3>1, <3>2 DEF StoreRecording
    <3>4. /\ IsRow(row) /\ row.recording /\ row.kept = old.kept /\ row.room = old.room
          /\ row.sid = old.sid
      BY <2>2, <3>2 DEF IsRow, RowFields
    <3> QED BY <2>1, <3>3, <3>4
  <2>4. CASE r \notin BySid(s)
    <3>1. callRows'[r] = callRows[r] /\ r \notin Found(callRows, s)
      BY <2>4, BySidIs DEF StoreRecording
    <3> QED BY <2>1, <2>2, <3>1
  <2> QED BY <2>3, <2>4
<1>4. callRows' = [r \in RowIds |-> callRows'[r]]
  BY DEF StoreRecording
<1>5. IsTable(callRows')
  BY <1>3, <1>4 DEF IsTable
<1>6. s \notin deleted => tape'[s].s3 /\ StoredIn(callRows', s)
  <2>1. ASSUME s \notin deleted PROVE tape[s].s3 /\ Found(callRows, s) # {}
    BY <1>1, <2>1, RecordsFlat DEF RecordsInv
  <2>2. ASSUME NEW r \in Found(callRows, s) PROVE StoredIn(callRows', s)
    <3>1. r \in RowIds
      BY DEF Found
    <3>2. r \in Found(callRows', s) /\ callRows'[r].recording
      BY <1>3, <3>1 DEF Found
    <3> QED BY <3>2 DEF StoredIn
  <2> QED BY <1>1, <2>1, <2>2
<1> QED BY <1>1, <1>2, <1>3, <1>5, <1>6, TableFacts, TapingKeeps

\* Twilio is asked to forget the recording.
LEMMA RemoveFromTwilioKeeps ==
    ASSUME RecordsInv, NEW s \in Legs, NEW d \in Deliveries, RemoveFromTwilio(s, d) PROVE RecordsInv'
<1>1. /\ UNCHANGED <<callRows, leg, agents, voice, removal, deleted>> /\ taping[<<s, d>>] = "remove"
      /\ TapingPc(s, d, "done")
  BY DEF RemoveFromTwilio
<1>2. CASE UNCHANGED tape
  BY <1>1, <1>2, TableFacts, TapingKeeps
<1>3. CASE tape' = [tape EXCEPT ![s].twilio = FALSE]
  <2>1. PICK old : old = tape[s]
    OBVIOUS
  <2>2. PICK u : u = [old EXCEPT !.twilio = FALSE]
    OBVIOUS
  <2>3. u \in [twilio : BOOLEAN, s3 : BOOLEAN] /\ u.s3 = old.s3
    <3>1. old \in [twilio : BOOLEAN, s3 : BOOLEAN]
      BY <2>1, TableFacts
    <3> QED BY <2>2, <3>1
  <2>4. tape' = [tape EXCEPT ![s] = u]
    BY <1>3, <2>1, <2>2
  <2>5. /\ tape' \in [Legs -> [twilio : BOOLEAN, s3 : BOOLEAN]] /\ tape'[s] = u
        /\ \A y \in Legs : y # s => tape'[y] = tape[y]
    BY <2>3, <2>4, TableFacts
  <2>6. s \notin deleted => tape[s].s3 /\ StoredIn(callRows, s)
    BY <1>1, RecordsFlat DEF RecordsInv
  <2>7. \A y \in Legs : tape[y].s3 => tape'[y].s3
    BY <2>1, <2>3, <2>5
  <2>8. \A y \in Legs \ deleted :
           tape'[y].twilio = tape[y].twilio \/ (tape'[y].s3 /\ StoredIn(callRows', y))
    BY <1>1, <2>5, <2>6, <2>7
  <2> QED BY <1>1, <2>5, <2>7, <2>8, TableFacts, TapingKeeps
<1> QED BY <1>2, <1>3 DEF RemoveFromTwilio

\* A row is deleted: the redials of its call stay, without a parent.
LEMMA DeleteRowKeeps == ASSUME RecordsInv, DeleteRow PROVE RecordsInv'
<1>1. PICK x : x = removal.row
  OBVIOUS
<1>2. x \in RowIds
  BY <1>1, TableFacts DEF DeleteRow
<1>3. /\ UNCHANGED <<leg, tape, agents, voice, taping>> /\ deleted' = deleted \cup {x[1]}
      /\ removal' = [pc |-> "none", row |-> NoRoom]
      /\ callRows' = [r \in RowIds |->
                  IF r = x THEN NoCallRow
                  ELSE IF callRows[r].parent = x THEN [callRows[r] EXCEPT !.parent = NoRoom]
                       ELSE callRows[r]]
  BY <1>1 DEF DeleteRow
<1>4. IsRow(NoCallRow) /\ ~NoCallRow.kept
  BY DEF IsRow, RowFields, NoCallRow
<1>5. ASSUME NEW r \in RowIds, r # x PROVE IsRow(callRows'[r]) /\ Alike(callRows[r], callRows'[r])
  <2>1. PICK old : old = callRows[r]
    OBVIOUS
  <2>2. IsRow(old) /\ Alike(old, old)
    BY <2>1, TableFacts DEF IsTable, Alike
  <2>3. PICK row : row = [old EXCEPT !.parent = NoRoom]
    OBVIOUS
  <2>4. IsRow(row) /\ Alike(old, row)
    BY <2>2, <2>3, RowWrites
  <2>5. callRows'[r] = row \/ callRows'[r] = old
    BY <1>3, <1>5, <2>1, <2>3
  <2> QED BY <2>1, <2>2, <2>4, <2>5
<1>6. callRows'[x] = NoCallRow
  BY <1>2, <1>3
<1>7. IsTable(callRows')
  <2>1. callRows' = [r \in RowIds |-> callRows'[r]]
    BY <1>3
  <2> QED BY <1>4, <1>5, <1>6, <2>1 DEF IsTable
<1>8. /\ Grows(callRows, callRows', deleted') /\ RoomsInv' /\ deleted \subseteq deleted'
  <2>1. \A r \in RowIds : callRows'[r].kept => callRows[r].kept /\ callRows'[r].room = callRows[r].room
    BY <1>4, <1>5, <1>6 DEF Alike
  <2>2. \A r \in RowIds : r[1] \notin deleted' =>
               /\ callRows'[r].kept = callRows[r].kept /\ callRows'[r].sid = callRows[r].sid
               /\ callRows[r].recording => callRows'[r].recording
    BY <1>3, <1>5 DEF Alike
  <2>3. deleted \subseteq deleted'
    BY <1>3
  <2> QED BY <1>7, <2>1, <2>2, <2>3, RowsKeep
<1>9. TableInv'
  <2>1. removal'.pc # "delete"
    BY <1>3
  <2> QED BY <1>3, <1>7, <2>1, TableFacts DEF TableInv
<1>10. /\ \A r \in RowIds : agents'[r] = "on" /\ r[1] \notin deleted' =>
               agents[r] = "on" \/ MeetsIn(callRows', r[1], r)
       /\ \A s \in Legs \ deleted' : leg'[s].to # NoRoom =>
               leg'[s].to = leg[s].to \/ MeetsIn(callRows', s, leg'[s].to)
       /\ \A s \in Inbound \ deleted', d \in Deliveries : voice'[<<s, d>>] = "register" =>
               voice[<<s, d>>] = "register" \/ <<s, d>> \in Found(callRows', s)
       /\ \A s \in Legs \ deleted' : tape[s].s3 => tape'[s].s3
  BY <1>3
<1>11. \A s \in Legs \ deleted', d \in Deliveries :
               \/ taping'[<<s, d>>] = taping[<<s, d>>]
               \/ /\ taping'[<<s, d>>] \in {"upload", "store"} => Found(callRows', s) # {}
                  /\ taping'[<<s, d>>] = "store" => tape'[s].s3
                  /\ taping'[<<s, d>>] = "remove" => tape'[s].s3 /\ StoredIn(callRows', s)
  BY <1>3
<1>12. \A s \in Legs \ deleted' :
               leg'[s].state = "over" /\ leg'[s].recorded /\ leg'[s].to # NoRoom =>
                   \/ tape'[s].twilio \/ (tape'[s].s3 /\ StoredIn(callRows', s))
                   \/ leg'[s] = leg[s] /\ tape'[s].twilio = tape[s].twilio
  BY <1>3
<1> QED BY <1>8, <1>9, <1>10, <1>11, <1>12, StepKeeps

-----------------------------------------------------------------------------
(* The theorems. *)

\* At the start there is no row, no agent and no recording.
LEMMA RecordsInitially == RecordsInit => RecordsInv
<1> SUFFICES ASSUME RecordsInit PROVE RecordsInv
  OBVIOUS
<1>1. /\ callRows = [r \in RowIds |-> NoCallRow] /\ agents = [r \in RowIds |-> "none"]
      /\ removal.pc = "none" /\ tape = [s \in Legs |-> [twilio |-> FALSE, s3 |-> FALSE]]
  BY DEF RecordsInit, RecordsBegin
<1>2. \A s \in Legs : leg[s] \in LegState /\ ~leg[s].recorded /\ leg[s].to = NoRoom
  <2>1. leg = [s \in Legs |-> [state |-> IF s \in Inbound \cap Legs THEN "up" ELSE "none",
                               recorded |-> FALSE, to |-> NoRoom]]
    BY DEF RecordsInit, RecordsBegin
  <2> QED BY <2>1 DEF LegState
<1>3. leg \in [Legs -> LegState]
  BY <1>2 DEF RecordsInit, RecordsBegin
<1>4. /\ voice = [x \in Legs \X Deliveries |-> voice[x]] /\ taping = voice
      /\ \A x \in Legs \X Deliveries : voice[x] = "due" \/ voice[x] = "done"
  BY DEF RecordsInit, RecordsBegin
<1>5. TableInv
  <2>1. IsRow(NoCallRow)
    BY DEF IsRow, RowFields, NoCallRow
  <2>2. IsTable(callRows)
    BY <1>1, <2>1 DEF IsTable
  <2> QED BY <1>1, <1>3, <1>4, <2>2 DEF TableInv
<1>6. \A r \in RowIds : ~callRows[r].kept
  BY <1>1 DEF NoCallRow
<1>7. RoomsInv
  BY <1>6 DEF RoomsInv, BySid
<1>8. \A s \in Legs, d \in Deliveries :
          /\ voice[<<s, d>>] # "register"
          /\ taping[<<s, d>>] \notin {"upload", "store", "remove"}
  <2>1. \A s \in Legs, d \in Deliveries : <<s, d>> \in Legs \X Deliveries
    OBVIOUS
  <2> QED BY <1>4, <2>1
<1>9. AgentsInv
  BY <1>1, <1>2, <1>8, RowIdsAre DEF AgentsInv
<1>10. TapesInv
  BY <1>8 DEF TapesInv
<1>11. RecordingKept
  BY <1>2 DEF RecordingKept
<1> QED BY <1>5, <1>7, <1>9, <1>10, <1>11 DEF RecordsInv

\* Every step keeps it.
LEMMA RecordsStep == RecordsInv /\ [RecordsNext]_recordVars => RecordsInv'
<1> SUFFICES ASSUME RecordsInv, [RecordsNext]_recordVars PROVE RecordsInv'
  OBVIOUS
<1>1. ASSUME NEW s \in Outbound,
             \/ InitiateCall(s) \/ Resolve(s) \/ MockOriginate(s)
             \/ \E r \in RowIds : RetryCall(s, r)
      PROVE  RecordsInv'
  <2>1. UNCHANGED <<callRows, leg, tape, agents, voice, taping, removal, deleted>>
    BY <1>1 DEF InitiateCall, Resolve, MockOriginate, RetryCall
  <2> QED BY <2>1, PlaceOnly
<1>2. ASSUME NEW s \in Outbound,
             \/ InsertCall(s) \/ SpawnAgent(s) \/ CreateCall(s) \/ CreateCallFails(s) \/ SetCallSid(s)
      PROVE  RecordsInv'
  BY <1>2, InsertCallKeeps, SpawnKeeps, CreateCallKeeps, CreateCallFailsKeeps, SetCallSidKeeps
<1>3. ASSUME NEW s \in Legs, NEW d \in Deliveries,
             \/ VoiceKnown(s, d) \/ VoiceUnknown(s, d) \/ VoiceInsert(s, d)
             \/ VoiceBind(s, d) \/ VoiceRegister(s, d)
      PROVE  RecordsInv'
  BY <1>3, VoiceKnownKeeps, VoiceUnknownKeeps, VoiceInsertKeeps, VoiceBindKeeps, VoiceRegisterKeeps
<1>4. ASSUME NEW s \in Legs, NEW d \in Deliveries,
             \/ RecordingDone(s, d) \/ Upload(s, d) \/ StoreRecording(s, d) \/ RemoveFromTwilio(s, d)
      PROVE  RecordsInv'
  BY <1>4, RecordingDoneKeeps, UploadKeeps, StoreRecordingKeeps, RemoveFromTwilioKeeps
<1>5. ASSUME NEW s \in Legs, HangUpLeg(s) \/ FinalStatus(s) PROVE RecordsInv'
  BY <1>5, HangUpLegKeeps, FinalStatusKeeps
<1>6. ASSUME NEW r \in RowIds, RemoveCall(r) PROVE RecordsInv'
  BY <1>6, RemoveCallKeeps
<1>7. CASE SetVoicemail
  BY <1>7, PlaceOnly DEF SetVoicemail
<1>8. CASE UNCHANGED recordVars
  BY <1>8, PlaceOnly DEF recordVars
<1> QED BY <1>1, <1>2, <1>3, <1>4, <1>5, <1>6, <1>7, <1>8, DeleteRowKeeps, RestartKeeps DEF RecordsNext

\* Invariant of every run of the handlers.
LEMMA RecordsAlways == RecordsSpec => []RecordsInv
BY RecordsInitially, RecordsStep, PTL DEF RecordsSpec

\* The agents that wait for a leg are no more than the one it may meet.
LEMMA MeetsOne == RecordsInv => OneAgentPerLeg
<1> SUFFICES ASSUME RecordsInv, NEW s \in Legs \ deleted
             PROVE  /\ Cardinality({x \in RowIds : x[1] = s /\ agents[x] = "on"}) <= 1
                    /\ leg[s].to # NoRoom => {x \in RowIds : x[1] = s /\ agents[x] = "on"} \subseteq {leg[s].to}
  BY DEF OneAgentPerLeg
<1>1. PICK W : W = {x \in RowIds : x[1] = s /\ agents[x] = "on"}
  OBVIOUS
<1>2. \A x, y : Meets(s, x) /\ Meets(s, y) => x = y
  BY DEF RecordsInv, RoomsInv, Meets
<1>3. \A x \in W : Meets(s, x)
  BY <1>1 DEF RecordsInv, AgentsInv
<1>4. leg[s].to # NoRoom => W \subseteq {leg[s].to}
  BY <1>2, <1>3 DEF RecordsInv, AgentsInv
<1>5. Cardinality(W) <= 1
  <2>1. CASE W = {}
    BY <2>1, FS_EmptySet
  <2>2. CASE W # {}
    <3>1. PICK x : W = {x}
      BY <1>2, <1>3, <2>2
    <3>2. Cardinality({x}) = 1
      BY FS_Singleton
    <3> QED BY <3>1, <3>2
  <2> QED BY <2>1, <2>2
<1> QED BY <1>1, <1>4, <1>5

\* Whoever is on a leg talks to one agent, whichever webhooks come how often and in
\* which order, before or after the SID of the call is stored, and whenever the process
\* starts again.
THEOREM OneAgentPerLegCorrect == RecordsSpec => []OneAgentPerLeg
BY RecordsAlways, MeetsOne, PTL

\* A recording is not lost between Twilio and S3, whichever of the steps of its
\* webhooks fails, is repeated or is cut off.
THEOREM RecordingKeptCorrect == RecordsSpec => []RecordingKept
<1>1. RecordsInv => RecordingKept
  BY DEF RecordsInv
<1> QED BY <1>1, RecordsAlways, PTL
=============================================================================
