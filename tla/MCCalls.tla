------------------------------ MODULE MCCalls ------------------------------
(* Values for TLC's instances of CampaignLifecycle, Pacing and VoiceCall: the   *)
(* life of a campaign, how many calls an hour it begins, and how one of them   *)
(* is placed.  The three share no state: a behaviour is about one of them.     *)
EXTENDS CampaignLifecycle, Pacing, VoiceCall

CONSTANTS l1, l2

VARIABLE subject

TwoLeads == {l1, l2}
Careful  == {"draft", "active"}
Archive  == {"archived"}

\* The ways to place a call that TLC goes through: each answer under each kind
\* of detection, with the voicemail policies that tell answers apart.
S(path, amd, voicemail, fallback, answered_by) ==
    [path |-> path, amd |-> amd, voicemail |-> voicemail,
     unknown_fallback |-> fallback, answered_by |-> answered_by]

Detected(amd) == {S("twilio", amd, TRUE, "human", who) : who \in AnswerType}
                 \cup {S("twilio", amd, TRUE, "voicemail", "unknown"),
                       S("twilio", amd, FALSE, "human", "voicemail")}

Undetected == {S(path, "off", FALSE, "human", "human") : path \in {"livekit", "twilio"}}

AllSetups  == Detected("sync") \cup Detected("async") \cup Undetected

\* A campaign with nothing left to dial.
AllDialled ==
    /\ rows = [e \in Executions |-> [status |-> "done", attempt_number |-> 1,
                                     updated |-> Old, wait |-> 0]]
    /\ dials = [d \in Executions \X Attempts |-> Old]

\* While it is about something else, the campaign to launch is a draft, and the call
\* was not placed.
Drafted == CampaignInit /\ status = "draft" /\ ~future
NoCall  == CallBegins("raised") /\ setup = CHOOSE s \in Setups : TRUE

CallsInit ==
    \/ subject = "lifecycle" /\ CampaignInit /\ AllDialled /\ NoCall
    \/ subject = "pacing" /\ Drafted /\ PacingInit /\ NoCall
    \/ subject = "call" /\ Drafted /\ AllDialled /\ Init

CallsNext ==
    \/ subject = "lifecycle" /\ CampaignNext /\ UNCHANGED <<pacingVars, vars, subject>>
    \/ subject = "pacing" /\ PacingNext /\ UNCHANGED <<campaignVars, vars, subject>>
    \/ subject = "call" /\ Next /\ UNCHANGED <<campaignVars, pacingVars, subject>>

\* CampaignFairness and PacingFairness, of the behaviours that are about them; of a
\* call that was not placed no step is owed.
Lived(A) == subject = "lifecycle" /\ A
Paced(A) == subject = "pacing" /\ A

CallsFairness ==
    /\ WF_campaignVars(Lived(TaskStep)) /\ WF_campaignVars(Lived(Arrives))
    /\ \A w \in Workflows, l \in Leads : WF_campaignVars(Lived(Finish(w, l)))
    /\ []<>(Lived(status = "active") => ListedWhileOpen)
    /\ WF_pacingVars(Paced(PacedTick))
    /\ \A e \in Executions : WF_pacingVars(Paced(CallEnds(e)))
    /\ Fairness

CallsSpec ==
    /\ CallsInit /\ [][CallsNext]_<<campaignVars, pacingVars, vars, subject>>
    /\ CallsFairness
=============================================================================
