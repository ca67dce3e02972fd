----------------------------- MODULE Activation -----------------------------
(***************************************************************************)
(* CampaignService.activate as the statements it is made of, under READ    *)
(* COMMITTED: several API processes and the scheduler activate one         *)
(* campaign at the same time, between all the other requests and steps of  *)
(* CampaignLifecycle, whose tables these are.  SKIP LOCKED hides a         *)
(* workflow that another activation has locked; the unique index           *)
(* uq_workflows_campaign_active holds up an INSERT until the one before it *)
(* has committed or rolled back, and then refuses it or lets it through.   *)
(***************************************************************************)
EXTENDS CampaignLifecycle

CONSTANTS
    Sessions,   \* database sessions in which activate runs
    Beat        \* the one of them that is the scheduler's tick

VARIABLES
    tx,         \* what each session has loaded, read and locked, and its answer
    rowsMade    \* execution rows inserted, by workflow and lead

activationVars == <<campaignVars, tx, rowsMade>>

\* wf is the workflow locked, fill that the campaign had no execution.
IdleTx == [pc |-> "idle", loaded |-> "draft", later |-> FALSE, wf |-> 0,
           fill |-> FALSE, told |-> "nothing"]

ActivationInit ==
    /\ CampaignInit
    /\ tx = [s \in Sessions |-> IdleTx]
    /\ rowsMade = [w \in Workflows |-> [l \in Leads |-> 0]]

-----------------------------------------------------------------------------
(* Locks. *)

\* Slip: FOR UPDATE is left out of the query.
NoneLocked   == {}

Holders      == {s \in Sessions : tx[s].pc \in {"count", "existing"}}
Locked       == {tx[s].wf : s \in Holders}
Visible      == InState("active") \ Locked

\* An active workflow inserted and not yet committed.
Inserting    == {s \in Sessions : tx[s].pc = "created"}

\* Slip: an empty queue passes for a campaign without executions.
NoneQueued   == HasStatus("queued") = {}
NoneEnqueued == Enqueued = {}

-----------------------------------------------------------------------------
(* The statements of activate. *)

\* The campaign as the endpoint, or the tick, has loaded it.
LoadCampaign(s) ==
    /\ tx[s].pc = "idle"
    /\ IF s = Beat
       THEN /\ task.pc = "due"
            /\ tx' = [tx EXCEPT ![s] = [IdleTx EXCEPT !.pc = "look",
                                                      !.loaded = "scheduled"]]
       ELSE /\ status \in ActivateIn
            /\ tx' = [tx EXCEPT ![s] = [IdleTx EXCEPT !.pc = "look", !.loaded = status,
                                                      !.later = future]]
    /\ UNCHANGED <<campaignVars, rowsMade>>

\* get_active_for_campaign(lock=True); with no result the clock decides.
LookUp(s) ==
    /\ tx[s].pc = "look"
    /\ LET later == tx[s].later \/ ~open
       IN  tx' = IF Visible # {}
                 THEN [tx EXCEPT ![s].pc = "count", ![s].wf = Latest(Visible)]
                 ELSE [tx EXCEPT ![s].pc = IF later THEN "defer" ELSE "create",
                                 ![s].later = later]
    /\ UNCHANGED <<campaignVars, rowsMade>>

CountRows(s) ==
    /\ tx[s].pc = "count"
    /\ tx' = [tx EXCEPT ![s].pc = "existing", ![s].fill = NoneEnqueued]
    /\ UNCHANGED <<campaignVars, rowsMade>>

\* The transaction ends; the tick goes on to the active campaigns.
Respond(s, told) ==
    /\ tx' = [tx EXCEPT ![s] = [IdleTx EXCEPT !.told = told]]
    /\ task' = IF s = Beat THEN [task EXCEPT !.pc = "list"] ELSE task

\* An exception ends the request, and the tick with it.
Raise(s, told) ==
    /\ tx' = [tx EXCEPT ![s] = [IdleTx EXCEPT !.told = told]]
    /\ task' = IF s = Beat THEN IdleTask ELSE task
    /\ UNCHANGED <<status, future, open, workflows, execs, rowsMade>>

MakeRows(w) ==
    /\ execs' = EnqueueLeads(w)
    /\ rowsMade' = [rowsMade EXCEPT ![w] = [l \in Leads |-> @[l] + 1]]

CommitExisting(s) ==
    /\ tx[s].pc = "existing"
    /\ status' = IF tx[s].loaded \in {"active", "scheduled"} THEN status
                 ELSE Rewritten(tx[s].loaded, "active")
    /\ IF tx[s].fill THEN MakeRows(tx[s].wf) ELSE UNCHANGED <<execs, rowsMade>>
    /\ Respond(s, "active")
    /\ UNCHANGED <<future, open, workflows>>

CommitLater(s) ==
    /\ tx[s].pc = "defer"
    /\ status' = Rewritten(tx[s].loaded, "scheduled")
    /\ Respond(s, "scheduled")
    /\ UNCHANGED <<future, open, workflows, execs, rowsMade>>

InsertWorkflow(s) ==
    /\ tx[s].pc = "create"
    /\ InState("active") = {} /\ Inserting = {}
    /\ Len(workflows) < MaxWorkflows
    /\ tx' = [tx EXCEPT ![s].pc = "created"]
    /\ UNCHANGED <<campaignVars, rowsMade>>

\* The index has an active workflow.
RefuseInsert(s) ==
    /\ tx[s].pc = "create" /\ InState("active") # {}
    /\ Raise(s, "IntegrityError")

CommitNew(s) ==
    /\ tx[s].pc = "created"
    /\ workflows' = Append(workflows, "active")
    /\ MakeRows(Len(workflows) + 1)
    /\ status' = Rewritten(tx[s].loaded, "active")
    /\ Respond(s, "active")
    /\ UNCHANGED <<future, open>>

\* The connection is lost, the process dies, or a deadlock is resolved.
Abort(s) ==
    /\ tx[s].pc # "idle"
    /\ Raise(s, "nothing")

ActivateStep(s) ==
    \/ LoadCampaign(s) \/ LookUp(s) \/ CountRows(s) \/ CommitExisting(s)
    \/ CommitLater(s) \/ InsertWorkflow(s) \/ RefuseInsert(s) \/ CommitNew(s) \/ Abort(s)

-----------------------------------------------------------------------------
(* Everybody else: who writes the state of a locked workflow waits for the *)
(* lock, who makes one active waits for the index.                         *)

Others ==
    \/ Inserting = {} /\ PutWorkflow
    \/ Locked = {} /\ (Pause \/ CompleteCampaign)
    \/ (Inserting = {} \/ InState("paused") = {}) /\ Resume
    \/ Patch \/ Execute
    \/ StartTick \/ ListActive \/ CountExecutions \/ SelectBatch \/ DispatchRow \/ EndTick
    \/ \E w \in Workflows, l \in Leads : Finish(w, l)
    \/ Arrives \/ OpenOrClose

ActivationNext ==
    \/ \E s \in Sessions : ActivateStep(s)
    \/ Others /\ UNCHANGED <<tx, rowsMade>>

ActivationSpec == ActivationInit /\ [][ActivationNext]_activationVars

-----------------------------------------------------------------------------
(* Properties. *)

\* However activations overlap with one another and with everything else: the
\* campaign has one active workflow, no workflow has a lead twice, and where
\* somebody has been told that the campaign is active every lead has been enqueued.
ActivatesOnce ==
    /\ \A v, w \in InState("active") : v = w
    /\ \A w \in Workflows, l \in Leads : rowsMade[w][l] <= 1
    /\ (\E s \in Sessions : tx[s].told = "active") =>
            \A l \in Leads : \E w \in Workflows : rowsMade[w][l] > 0

\* An activation answered "active" has done to the campaign what activate does run
\* alone in the state it commits in, although what it acts on was read, row by row,
\* in statements before.
ActivatesAsIfAlone ==
    [][\A s \in Sessions :
          tx[s].pc \in {"existing", "created"} /\ tx'[s].told = "active" =>
                DoActivate(tx[s].loaded, tx[s].later)]_activationVars
=============================================================================
