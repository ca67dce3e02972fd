------------------------------ MODULE MCSpeech ------------------------------
(* Values for TLC's instances of Dialing where nothing fails, and of           *)
(* Conversation and Hearing, a call as it is spoken and heard: what the event  *)
(* loop of the first does is the consumer of the second.  A behaviour is about *)
(* one of the three.                                                           *)
EXTENDS MCDialing, Conversation, MCHearing

VARIABLE subject

\* A call that is over.
TalkedOut == TalkStarts("gone", "ended") /\ phone
HeardOut  == HearStarts("failed")

SpeechInit ==
    /\ Init
    /\ \/ subject = "dialing" /\ TalkedOut /\ HeardOut
       \/ subject = "conversation" /\ TalkInit /\ HeardOut
       \/ subject = "hearing" /\ TalkedOut /\ HearInit

SpeechNext ==
    \/ subject = "dialing" /\ Next /\ UNCHANGED <<talkVars, hearVars, subject>>
    \/ subject = "conversation" /\ TalkNext /\ UNCHANGED <<vars, hearVars, subject>>
    \/ subject = "hearing" /\ HearNext /\ UNCHANGED <<vars, talkVars, subject>>

\* Dialing's fairness, of the behaviours that are about the dialling; of a call that
\* is over no step is owed.
Dialled(A) == subject = "dialing" /\ A

SpeechFairness ==
    /\ \A t \in Ticks : WF_vars(Dialled(TickStep(t)))
    /\ []<>(Dialled(campaign = "active") => TickedInHours)
    /\ \A c \in Calls : /\ WF_vars(Dialled(HandlerStep(c)))
                        /\ WF_vars(Dialled(ProviderEnd(c)))
                        /\ WF_vars(Dialled(WebhookUnknown(c) \/ Webhook(c)))
    /\ \A e \in Executions : WF_vars(Dialled(Elapse(e)))
    /\ TalkFairness /\ HearFair

SpeechSpec ==
    /\ SpeechInit /\ [][SpeechNext]_<<vars, talkVars, hearVars, subject>>
    /\ SpeechFairness

\* CampaignCompletes of the behaviours that are about the dialling: the campaign
\* finishes for good, every lead having been settled.
DialledMeansCompleted == subject = "dialing" => CampaignCompletes
=============================================================================
