---------------------------- MODULE MCWorkspace ----------------------------
(* Values for TLC's instances of Leads, Playbooks, GraphExecution and DryRun:   *)
(* what the users import and publish, a lead's walk through a workflow they     *)
(* have drawn, and the test run of one.  A behaviour is about one of the four.  *)
EXTENDS Leads, Playbooks, DryRun, MCGraphExecution

CONSTANTS u1, u2, b1, b2

VARIABLE subject

TwoUsers == {u1, u2}
TwoBooks == {b1, b2}

ThreePhones == {"p1", "p2", "p3"}
TwoCases  == {"hot", "Hot"}
OneName   == [n \in TwoCases |-> "hot"]

\* Two files with the same phones in opposite orders, one that repeats a phone,
\* a long one, and one with rows that are refused before and at the flush.
FiveFiles == {<<"p1", "p2">>, <<"p2", "p1">>, <<"p1", "p1", "p2">>,
              <<"p1", "p2", "p3">>, <<BadRow, "p2", WideRow>>}

\* A draft is tested; when it is about the files or the books, the campaign is over.
WalkOver(g) ==
    /\ WalkStarts("completed", {g})
    /\ setup = CHOOSE s \in Setup : TRUE

Subjects ==
    \/ subject = "walk" /\ WalkStarts("active", Candidates)
    \/ subject \in {"leads", "playbooks"} /\ WalkOver(CallOnly)
    \/ /\ subject = "test" /\ WalkStarts("draft", Candidates \cup {Nagging})
       /\ setup.phone /\ setup.email

WorkspaceInit == LeadsInit /\ BooksInit /\ Subjects /\ TestStarts

\* The graphs that are drawn are edited while leads walk them - into one with the
\* conditions the other way round, one without a pause, one whose nodes are mostly
\* gone; a template is walked as it came.
EditedInto == {Draw(Pause, Replied, Swapped), Draw(NoPause, Replied, Backbone \o Branch \o Calls2),
               CallOnly}

EditsAreDrawn == versions' # versions => Graph \in Drawn \cup {CallOnly} /\ Graph' \in EditedInto

WorkspaceNext ==
    \/ subject = "leads" /\ LeadsNext /\ UNCHANGED <<bookVars, vars, test, subject>>
    \/ subject = "playbooks" /\ BooksNext /\ UNCHANGED <<leadVars, vars, test, subject>>
    \/ /\ subject = "walk" /\ Next /\ EditsAreDrawn
       /\ UNCHANGED <<leadVars, bookVars, test, subject>>
    \/ subject = "test" /\ TestNext /\ UNCHANGED <<leadVars, bookVars, subject>>

WorkspaceSpec ==
    /\ WorkspaceInit /\ [][WorkspaceNext]_<<leadVars, bookVars, vars, test, subject>>
    /\ LeadsFair /\ Fairness /\ TestFairness
=============================================================================
