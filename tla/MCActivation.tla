---------------------------- MODULE MCActivation ----------------------------
(* Values for TLC's instances of Dialing, Activation and Reports: how a         *)
(* campaign is dialled, how it is launched, and what the dashboards say of it.  *)
(* A behaviour is about one of the three.                                       *)
EXTENDS MCDialing, Activation, Reports

CONSTANTS l1, one, two, beat

VARIABLE subject

OneLead    == {l1}
TwoUsers   == {one, two, beat}

\* The API processes are alike; the properties are about single steps.
Alike == Permutations({one, two})

\* A scheduled campaign is activated by the scheduler; users repeat themselves.
Careful == {"draft", "active"}
Anytime == Careful \cup {"scheduled", "paused"}
Archive == {"archived"}

TwoContacts  == {"l1", "l2"}
TwoCampaigns == {"k1", "k2"}
Shown        == {"email_sent", "li_connect"}
Booked       == {"meeting_booked", "no_answer"}
AllKinds     == {"overview", "email", "linkedin", "call", "funnel", "workflows",
                 "meetings", "trends", "metrics", "monitor", "campaigns", "list_calls"}

\* A lead whose first call is running; one whose first call nobody answered, and
\* whose second one is running.
Running(row) == [x \in {<<"k1", "l1">>} |-> [row EXCEPT !.status = "running"]]
FirstTry  == Running(FreshRow(0))
SecondTry == Running(Restarted(Ended(FreshRow(0), "no_answer")))

\* While it is about something else, the campaign to launch is a draft and nothing
\* was executed.
Drafted == ActivationInit /\ status = "draft" /\ future

PipelineInit ==
    /\ Init
    /\ \/ subject = "dialing" /\ Drafted /\ ReportsInit
       \/ subject = "launch" /\ ActivationInit /\ ReportsInit
       \/ subject = "reports" /\ Drafted /\ (ReportsBegin(FirstTry) \/ ReportsBegin(SecondTry))

PipelineNext ==
    \/ subject = "dialing" /\ Next /\ UNCHANGED <<activationVars, repVars, subject>>
    \/ subject = "launch" /\ ActivationNext /\ UNCHANGED <<vars, repVars, subject>>
    \/ subject = "reports" /\ ReportsNext /\ UNCHANGED <<vars, activationVars, subject>>

PipelineSpec ==
    PipelineInit /\ [][PipelineNext]_<<vars, activationVars, repVars, subject>>
=============================================================================
