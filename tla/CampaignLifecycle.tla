------------------------- MODULE CampaignLifecycle -------------------------
(***************************************************************************)
(* The life of one campaign: users create, edit, activate, pause, resume,  *)
(* patch and run it by hand through the API (one transaction each), while  *)
(* the scheduler tick activates it when due, dispatches the queue of its   *)
(* active workflow and completes it, from what it has read a few           *)
(* statements earlier.  How one execution is dialled and retried is module *)
(* Dialing; here it is queued, running and then done.                      *)
(***************************************************************************)
EXTENDS Integers, Sequences, FiniteSets

CONSTANTS
    Leads,          \* the leads of the campaign's list
    MaxWorkflows,   \* bound on workflows created
    ActivateIn,     \* campaign statuses in which somebody calls activate
    EditIn,         \* ... and PUT /workflow
    PatchTo,        \* statuses somebody sets with PATCH
    ByHand          \* somebody calls POST /execute/{workflow_id}

CampaignStatuses == {"draft", "scheduled", "active", "paused", "completed", "archived"}

ASSUME LifecycleAssumption ==
    /\ IsFiniteSet(Leads)
    /\ MaxWorkflows \in Nat \ {0}
    /\ ActivateIn \subseteq CampaignStatuses
    /\ EditIn \subseteq CampaignStatuses
    /\ PatchTo \subseteq CampaignStatuses
    /\ ByHand \in BOOLEAN

VARIABLES
    status,     \* campaigns.status
    future,     \* campaigns.scheduled_at is still ahead
    open,       \* is_within_business_hours(now)
    workflows,  \* states of the campaign's workflows, oldest first
    execs,      \* executions, by workflow and lead
    task        \* the scheduler task and what it has read

campaignVars == <<status, future, open, workflows, execs, task>>

Workflows == 1..MaxWorkflows

Task == [pc : {"idle", "due", "list", "count", "decide", "dispatch"},
         open : BOOLEAN, total : Nat, queued : Nat, running : Nat,
         wf : 0..MaxWorkflows, batch : SUBSET Leads]

CampaignTypeOK ==
    /\ status \in CampaignStatuses
    /\ future \in BOOLEAN /\ open \in BOOLEAN
    /\ workflows \in Seq({"active", "paused", "completed"})
    /\ Len(workflows) <= MaxWorkflows
    /\ execs \in [Workflows -> [Leads -> {"none", "queued", "running", "done"}]]
    /\ task \in Task

IdleTask == [pc |-> "idle", open |-> FALSE, total |-> 0, queued |-> 0,
             running |-> 0, wf |-> 0, batch |-> {}]

\* CampaignService.create: a draft, or launched at once, which sets a status and
\* neither creates a workflow nor enqueues a lead.
CampaignInit ==
    /\ \/ status \in {"draft", "scheduled"} /\ future \in BOOLEAN
       \/ status = "active" /\ future = FALSE
    /\ open = TRUE
    /\ workflows = <<>>
    /\ execs = [w \in Workflows |-> [l \in Leads |-> "none"]]
    /\ task = IdleTask

-----------------------------------------------------------------------------
(* Queries. *)

InState(s)  == {w \in DOMAIN workflows : workflows[w] = s}
Latest(S)   == CHOOSE w \in S : \A v \in S : v <= w
HasStatus(s) == {x \in Workflows \X Leads : execs[x[1]][x[2]] = s}
Enqueued    == {x \in Workflows \X Leads : execs[x[1]][x[2]] # "none"}
WithState(w, s) == [workflows EXCEPT ![w] = s]
EnqueueLeads(w) == [execs EXCEPT ![w] = [l \in Leads |-> "queued"]]

\* The column is in the UPDATE only if it differs from the loaded value.
Rewritten(loaded, new) == IF new # loaded THEN new ELSE status

-----------------------------------------------------------------------------
(* CampaignService.activate, on a campaign loaded with a status; later: it is not *)
(* yet due, or the calling window is closed.                               *)

\* The workflow is live already (saved by the wizard before, or activated).
ActivateExisting(loaded) ==
    /\ InState("active") # {}
    /\ status' = IF loaded \in {"active", "scheduled"} THEN status
                 ELSE Rewritten(loaded, "active")
    /\ execs' = IF Enqueued = {} THEN EnqueueLeads(Latest(InState("active"))) ELSE execs
    /\ UNCHANGED workflows

ActivateLater(loaded, later) ==
    /\ InState("active") = {}
    /\ later
    /\ status' = Rewritten(loaded, "scheduled")
    /\ UNCHANGED <<workflows, execs>>

ActivateNow(loaded, later) ==
    /\ InState("active") = {}
    /\ ~later
    /\ Len(workflows) < MaxWorkflows
    /\ workflows' = Append(workflows, "active")
    /\ execs' = EnqueueLeads(Len(workflows) + 1)
    /\ status' = Rewritten(loaded, "active")

DoActivate(loaded, later) ==
    \/ ActivateExisting(loaded)
    \/ ActivateLater(loaded, later)
    \/ ActivateNow(loaded, later)

-----------------------------------------------------------------------------
(* The API. *)

Activate ==
    /\ status \in ActivateIn
    /\ DoActivate(status, future \/ ~open)
    /\ UNCHANGED <<future, open, task>>

\* PUT /workflow: 409 when completed; the active workflow is edited in place,
\* else a new active one is created, whatever the campaign's status.
PutWorkflow ==
    /\ status \in EditIn /\ status # "completed"
    /\ InState("active") = {} /\ Len(workflows) < MaxWorkflows
    /\ workflows' = Append(workflows, "active")
    /\ UNCHANGED <<status, future, open, execs, task>>

PausedWorkflow(w)  == WithState(w, "paused")

Pause ==
    /\ status = "active"
    /\ status' = "paused"
    /\ workflows' = IF InState("active") = {} THEN workflows
                    ELSE PausedWorkflow(Latest(InState("active")))
    /\ UNCHANGED <<future, open, execs, task>>

\* Slip: only the campaign is flipped back.
NotResumedWorkflow(w) == workflows
ResumedWorkflow(w)    == WithState(w, "active")

\* A second active workflow violates uq_workflows_campaign_active, and then the
\* request fails and is rolled back.
Resume ==
    /\ status = "paused"
    /\ InState("paused") = {} \/ InState("active") = {}
    /\ status' = "active"
    /\ workflows' = IF InState("paused") = {} THEN workflows
                    ELSE ResumedWorkflow(Latest(InState("paused")))
    /\ UNCHANGED <<future, open, execs, task>>

Patch ==
    /\ status' \in PatchTo
    /\ UNCHANGED <<future, open, workflows, execs, task>>

\* POST /execute/{workflow_id}: a queued row of any workflow, no status checked.
Execute ==
    /\ ByHand
    /\ \E x \in HasStatus("queued") : execs' = [execs EXCEPT ![x[1]][x[2]] = "running"]
    /\ UNCHANGED <<status, future, open, workflows, task>>

-----------------------------------------------------------------------------
(* CampaignScheduler.tick. *)

\* _activate_due lists the scheduled campaigns and skips those not yet due.
StartTick ==
    /\ task.pc = "idle"
    /\ task' = [task EXCEPT !.pc = IF status = "scheduled" /\ ~future THEN "due" ELSE "list"]
    /\ UNCHANGED <<status, future, open, workflows, execs>>

\* activate on the campaign as it was listed.
ActivateDue ==
    /\ task.pc = "due"
    /\ DoActivate("scheduled", ~open)
    /\ task' = [task EXCEPT !.pc = "list"]
    /\ UNCHANGED <<future, open>>

\* _advance_active lists the active campaigns.
ListActive ==
    /\ task.pc = "list"
    /\ task' = IF status = "active" THEN [IdleTask EXCEPT !.pc = "count", !.open = open]
               ELSE IdleTask
    /\ UNCHANGED <<status, future, open, workflows, execs>>

CountExecutions ==
    /\ task.pc = "count"
    /\ task' = [task EXCEPT !.pc = "decide", !.total = Cardinality(Enqueued),
                            !.queued = Cardinality(HasStatus("queued")),
                            !.running = Cardinality(HasStatus("running"))]
    /\ UNCHANGED <<status, future, open, workflows, execs>>

\* Slip: calls still up are not waited for.
NothingQueued == task.total > 0 /\ task.queued = 0
AllDone       == task.total > 0 /\ task.queued = 0 /\ task.running = 0

CompletedWorkflow(w)   == WithState(w, "completed")

\* The campaign, listed as active, is completed whatever it has become.
CompleteCampaign ==
    /\ task.pc = "decide" /\ AllDone
    /\ status' = "completed"
    /\ workflows' = IF InState("active") = {} THEN workflows
                    ELSE CompletedWorkflow(Latest(InState("active")))
    /\ task' = IdleTask
    /\ UNCHANGED <<future, open, execs>>

\* list_queued on the active workflow, if there is one now.
SelectBatch ==
    /\ task.pc = "decide" /\ ~AllDone
    /\ task' = IF task.queued = 0 \/ ~task.open \/ InState("active") = {} THEN IdleTask
               ELSE LET w == Latest(InState("active"))
                    IN  [IdleTask EXCEPT !.pc = "dispatch", !.wf = w,
                           !.batch = {l \in Leads : execs[w][l] = "queued"}]
    /\ UNCHANGED <<status, future, open, workflows, execs>>

\* The batch is dispatched row by row, the campaign not being looked at again.
DispatchRow ==
    /\ task.pc = "dispatch" /\ task.batch # {}
    /\ \E l \in task.batch :
          /\ execs' = [execs EXCEPT ![task.wf][l] = "running"]
          /\ task' = [task EXCEPT !.batch = @ \ {l}]
    /\ UNCHANGED <<status, future, open, workflows>>

EndTick ==
    /\ task.pc = "dispatch" /\ task.batch = {}
    /\ task' = IdleTask
    /\ UNCHANGED <<status, future, open, workflows, execs>>

TaskStep ==
    \/ StartTick \/ ActivateDue \/ ListActive \/ CountExecutions
    \/ CompleteCampaign \/ SelectBatch \/ DispatchRow \/ EndTick

-----------------------------------------------------------------------------
(* The world. *)

Finish(w, l) ==
    /\ execs[w][l] = "running"
    /\ execs' = [execs EXCEPT ![w][l] = "done"]
    /\ UNCHANGED <<status, future, open, workflows, task>>

Arrives ==
    /\ future
    /\ future' = FALSE
    /\ UNCHANGED <<status, open, workflows, execs, task>>

OpenOrClose ==
    /\ open' = ~open
    /\ UNCHANGED <<status, future, workflows, execs, task>>

CampaignNext ==
    \/ Activate \/ PutWorkflow \/ Pause \/ Resume \/ Patch \/ Execute
    \/ TaskStep
    \/ \E w \in Workflows, l \in Leads : Finish(w, l)
    \/ Arrives \/ OpenOrClose

CampaignSpec == CampaignInit /\ [][CampaignNext]_campaignVars

ListedWhileOpen == task.pc = "count" /\ task.open

\* Beat keeps ticking, a tick finishes, calls end and the start time arrives.
\* A calling window lasts much longer than the minute between two ticks, so
\* ticks keep running inside it, as long as the campaign is active.  Users owe nothing.
CampaignFairness ==
    /\ WF_campaignVars(TaskStep)
    /\ []<>(status = "active" => ListedWhileOpen)
    /\ \A w \in Workflows, l \in Leads : WF_campaignVars(Finish(w, l))
    /\ WF_campaignVars(Arrives)

-----------------------------------------------------------------------------
(* Properties. *)

\* A campaign is completed only when every execution of all its workflows is
\* done, although the counts are a transaction old when they are acted upon.
CompletedMeansDone ==
    status = "completed" => HasStatus("queued") = {} /\ HasStatus("running") = {}

\* A discipline the API does not enforce: users launch and edit a campaign while it
\* is a draft or active, never while it is paused or over, and patch its status only
\* to archive it.
CarefulUsers ==
    /\ ActivateIn \cup EditIn \subseteq {"draft", "active"}
    /\ PatchTo \subseteq {"archived"}

\* Unless the campaign keeps being paused or is archived, every queued lead is
\* called: pausing, resuming and editing lose no lead.
LeadsSettle ==
    <>[](status \notin {"paused", "archived"}) =>
        []<>(HasStatus("queued") = {} /\ HasStatus("running") = {})
=============================================================================
