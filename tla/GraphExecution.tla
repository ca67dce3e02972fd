--------------------------- MODULE GraphExecution ---------------------------
(***************************************************************************)
(* One lead's execution of a workflow graph: the worker's run loop         *)
(* (worker._run_graph_execution) with the six node handlers, the status    *)
(* callback that moves a CALL on, the reply mailbox, graph edits, and the  *)
(* campaign that ends around it.                                           *)
(*                                                                         *)
(* Handlers only flush; the loop commits when it stops, and the dial and   *)
(* the planning stub commit status = "running" on the way.  run.work is    *)
(* the uncommitted row: a crash throws it away, what was sent stays sent.  *)
(***************************************************************************)
EXTENDS Retry, WorkflowGraph, SequencesExt

CONSTANTS
    Candidates,     \* graphs a user may draw, valid or not
    MaxVersions,    \* bound on workflow_versions
    Outcomes,       \* terminal outcomes the provider may report
    Polled,         \* IMAP is configured
    Hooked,         \* the mail provider calls the inbound webhook
    MaxCrashes      \* bound on worker crashes

\* What the request model lets through: lists of nodes and of edges, each a record.
Drawable(g) ==
    /\ g.nodes \in Seq([id : STRING, type : STRING, config : STRING, source : STRING])
    /\ g.edges \in Seq([source : STRING, target : STRING, condition : STRING])
    /\ \A i \in DOMAIN g.nodes :
          /\ g.nodes[i].id # NoNode
          /\ g.nodes[i].type = "CONDITION" =>
                g.nodes[i].config \in CONDITION_TYPES \cup {"unknown"}

ASSUME GraphAssumption ==
    /\ \A g \in Candidates : Drawable(g)
    /\ MaxVersions \in Nat \ {0} /\ MaxCrashes \in Nat
    /\ Outcomes \subseteq Outcome
    /\ Polled \in BOOLEAN /\ Hooked \in BOOLEAN

VARIABLES
    campaign,   \* campaigns.status
    setup,      \* dialing enabled; what the lead can be reached by
    versions,   \* workflow_versions; the last one is what workflows holds
    row,        \* the executions row; trail is a history variable
    run,        \* the worker
    call,       \* the call under way, how many were placed, whether one connected
    mail,       \* mails sent per node, the lead's reply, the conversation
    lead,       \* leads.status
    crashes

vars == <<campaign, setup, versions, row, run, call, mail, lead, crashes>>

Graph  == Last(versions)
AllIds == UNION {NodeIds(g) : g \in Candidates}

Setup == [telephony : BOOLEAN, phone : BOOLEAN, email : BOOLEAN]
Row   == [status : ExecStatus, retry_status : RetryStatus,
          attempt_number : 1..MaxAttempts, next_retry_at : NextRetryAt,
          context : [retry_history : SUBSET (1..MaxAttempts)],
          node : AllIds, outputs : [AllIds -> SUBSET Fact],
          thread : BOOLEAN, trail : Seq(AllIds)]

TypeOK ==
    /\ campaign \in {"draft", "active", "completed"}
    /\ setup \in Setup
    /\ versions \in Seq(Candidates) /\ Len(versions) \in 1..MaxVersions
    /\ row \in Row
    /\ run \in [pc : {"idle", "node", "plan", "post"}, graph : Candidates, work : Row]
    /\ call \in [leg : {"none", "live"}, dials : Nat, connected : BOOLEAN]
    /\ mail \in [sent : [AllIds -> Nat], reply : {"none", "positive", "negative"},
                 hook : {"none", "sent", "done"}]
    /\ lead \in {"open", "lost"}
    /\ crashes \in 0..MaxCrashes

\* CampaignService._enqueue_leads stamps the entry node on the new row.
NewRow(g) == [status |-> "queued", retry_status |-> "pending", attempt_number |-> 1,
              next_retry_at |-> "none", context |-> [retry_history |-> {}],
              node |-> EntryNode(g), outputs |-> [n \in AllIds |-> {}],
              thread |-> FALSE, trail |-> <<>>]

IdleRun(g, r) == [pc |-> "idle", graph |-> g, work |-> r]

WalkStarts(status, graphs) ==
    /\ campaign = status
    /\ setup \in Setup
    /\ \E g \in graphs :
          /\ ValidGraph(g)
          /\ versions = <<g>>
          /\ row = NewRow(g)
          /\ run = IdleRun(g, NewRow(g))
    /\ call = [leg |-> "none", dials |-> 0, connected |-> FALSE]
    /\ mail = [sent |-> [n \in AllIds |-> 0], reply |-> "none", hook |-> "none"]
    /\ lead = "open"
    /\ crashes = 0

Init == WalkStarts("active", Candidates)

-----------------------------------------------------------------------------
(* The run loop. *)

Here == run.work.node
This == Node(run.graph, Here)
Runs(type) == run.pc = "node" /\ Here \in NodeIds(run.graph) /\ This.type = type

\* The work row once the node's handler has run and its output is stored.
Ran(facts) == [run.work EXCEPT !.trail = Append(@, Here), !.outputs[Here] = facts]

Commit(r) == /\ row' = r
             /\ run' = IdleRun(run.graph, r)

Completed(r) == [r EXCEPT !.status = "completed", !.retry_status = "completed"]
Failed(r)    == [r EXCEPT !.status = "failed"]

\* advance = True: on to a node in the same run, or completed after the last.
\* ExecutionService.advance_execution.
Advance(r) ==
    LET next == NextNode(run.graph, Here)
    IN  IF next = NoNode THEN Commit(Completed(r))
        ELSE /\ run' = [run EXCEPT !.pc = "node", !.work = [r EXCEPT !.node = next]]
             /\ UNCHANGED row

\* A tick hands the due row to dispatch_execution, which loads the graph.
Dispatch ==
    /\ run.pc = "idle" /\ campaign = "active"
    /\ row.status = "queued" /\ row.next_retry_at # "later"
    /\ run' = [pc |-> "node", graph |-> Graph, work |-> row]
    /\ UNCHANGED <<campaign, setup, versions, row, call, mail, lead, crashes>>

\* The graph has lost the node the row stands on.
NodeMissing ==
    /\ run.pc = "node" /\ Here \notin NodeIds(run.graph)
    /\ Commit(Failed(run.work))
    /\ UNCHANGED <<campaign, setup, versions, call, mail, lead, crashes>>

\* CALL with dialing enabled: _dispatch_dial_http commits "running" before it
\* posts.  It writes no output, then or later.
CallDial ==
    /\ Runs("CALL") /\ setup.telephony
    /\ LET r == [run.work EXCEPT !.trail = Append(@, Here)]
       IN  IF setup.phone
           THEN /\ row' = [r EXCEPT !.status = "running"]
                /\ run' = [run EXCEPT !.pc = "post", !.work = row']
           ELSE Commit(ProcessOutcome(r, "failed"))
    /\ UNCHANGED <<campaign, setup, versions, call, mail, lead, crashes>>

CallPlaced ==
    /\ run.pc = "post"
    /\ call' = [call EXCEPT !.leg = "live", !.dials = @ + 1]
    /\ Commit(row)
    /\ UNCHANGED <<campaign, setup, versions, mail, lead, crashes>>

\* _fail_dial.
CallRefused ==
    /\ run.pc = "post"
    /\ Commit(ProcessOutcome(row, "failed"))
    /\ UNCHANGED <<campaign, setup, versions, call, mail, lead, crashes>>

\* CALL without dialing: the planning stub commits "running", asks the model,
\* and goes on; its commit makes the session read the graph again.
CallPlan ==
    /\ Runs("CALL") /\ ~setup.telephony
    /\ row' = [run.work EXCEPT !.status = "running"]
    /\ run' = [run EXCEPT !.pc = "plan", !.work = row']
    /\ UNCHANGED <<campaign, setup, versions, call, mail, lead, crashes>>

CallPlanned ==
    /\ run.pc = "plan"
    /\ LET next == NextNode(Graph, Here)
           r    == Ran({"completed"})
       IN  IF next = NoNode THEN Commit(Completed(r))
           ELSE /\ run' = [pc |-> "node", graph |-> Graph,
                           work |-> [r EXCEPT !.node = next]]
                /\ UNCHANGED row
    /\ UNCHANGED <<campaign, setup, versions, call, mail, lead, crashes>>

CallPlanFailed ==
    /\ run.pc = "plan"
    /\ Commit(Failed(Ran({"failed"})))
    /\ UNCHANGED <<campaign, setup, versions, call, mail, lead, crashes>>

\* EMAIL: skipped, failed or sent; the walk goes on in each case.  The thread
\* record is part of the open transaction.
EmailSkipOrFail ==
    /\ Runs("EMAIL")
    /\ Advance(Ran({}))
    /\ UNCHANGED <<campaign, setup, versions, call, mail, lead, crashes>>

EmailSend ==
    /\ Runs("EMAIL") /\ setup.email
    /\ mail' = [mail EXCEPT !.sent[Here] = @ + 1]
    /\ Advance([Ran({"sent"}) EXCEPT !.thread = TRUE])
    /\ UNCHANGED <<campaign, setup, versions, call, lead, crashes>>

\* LINKEDIN: done, failed or skipped; no evaluator reads the output.
LinkedInAct ==
    /\ Runs("LINKEDIN")
    /\ Advance(Ran({}))
    /\ UNCHANGED <<campaign, setup, versions, call, mail, lead, crashes>>

\* Slip: the parked row keeps the status the run loop found.
ParkedRunning(r, next) ==
    [r EXCEPT !.node = next, !.next_retry_at = "later", !.retry_status = "pending",
              !.status = "running"]

\* WAIT moves the pointer itself, so that the row wakes at the node after it.
Parked(r, next) ==
    [r EXCEPT !.node = next, !.next_retry_at = "later", !.retry_status = "pending",
              !.status = "queued"]

WaitPark ==
    /\ Runs("WAIT") /\ This.config = "later"
    /\ LET next == NextNode(run.graph, Here)
       IN  Commit(IF next = NoNode THEN Completed(Ran({})) ELSE Parked(Ran({}), next))
    /\ UNCHANGED <<campaign, setup, versions, call, mail, lead, crashes>>

WaitSkip ==
    /\ Runs("WAIT") /\ This.config = "zero"
    /\ Advance(Ran({}))
    /\ UNCHANGED <<campaign, setup, versions, call, mail, lead, crashes>>

WaitBadUnit ==
    /\ Runs("WAIT") /\ This.config = "bad unit"
    /\ Commit(Failed(Ran({})))
    /\ UNCHANGED <<campaign, setup, versions, call, mail, lead, crashes>>

\* check_for_reply: what IMAP shows now; an error or no IMAP shows nothing.
ReplySeen == IF Polled THEN {mail.reply, "none"} ELSE {"none"}

ReplyFacts(seen) ==
    (IF seen = "none" THEN {} ELSE {"replied"})
    \cup (IF seen = "negative" THEN {"negative_reply"} ELSE {})

\* Slip: an earlier finding does not stop the poll.
PolledAgain(type, output, seen) ==
    IF type \in {"EMAIL_REPLIED", "NEGATIVE_REPLY"}
    THEN (output \ {"replied", "negative_reply"})
         \cup (IF "sent" \in output THEN ReplyFacts(seen) ELSE {})
    ELSE output

\* _enrich_with_reply_check, unless a reply is on record already; a source
\* that has sent nothing is not polled for.
Enriched(type, output, seen) ==
    IF type \in {"EMAIL_REPLIED", "NEGATIVE_REPLY"} /\ "replied" \notin output
    THEN (output \ {"negative_reply"})
         \cup (IF "sent" \in output THEN ReplyFacts(seen) ELSE {})
    ELSE output

\* What is on record of a node: nothing, when no graph has it.
OutputOf(outputs, n) == IF n \in AllIds THEN outputs[n] ELSE {}

\* The keys _enqueue_leads freezes into context and context.lead.
ContextKeys == {"campaign_id", "playbook_id", "lead"}
LeadKeys    == {"id", "name", "first_name", "last_name", "phone", "company",
                "email", "job_title", "linkedin_url"}

\* condition_handler._handle_negative_reply: without an organization in the
\* context it returns before it touches the lead.
LeadAfter(type, output) ==
    IF /\ type = "NEGATIVE_REPLY" /\ "negative_reply" \in output
       /\ "org_id" \in ContextKeys \/ "organization_id" \in LeadKeys
    THEN "lost" ELSE lead

\* CONDITION: enrich the source's output, evaluate, jump along the label.
Condition ==
    /\ Runs("CONDITION") /\ This.config \in CONDITION_TYPES
    /\ \E seen \in ReplySeen :
          LET output == Enriched(This.config, OutputOf(run.work.outputs, This.source), seen)
              r      == [Ran({}) EXCEPT !.outputs[This.source] = output]
              result == EvaluateCondition(This.config, output)
              next   == ConditionTarget(run.graph, Here, Label(result))
          IN  IF next = NoNode
              THEN Commit(Failed(r)) /\ UNCHANGED lead
              ELSE /\ run' = [run EXCEPT !.work = [r EXCEPT !.node = next]]
                   /\ lead' = LeadAfter(This.config, output)
                   /\ UNCHANGED row
    /\ UNCHANGED <<campaign, setup, versions, call, mail, crashes>>

\* No source, no type, or a type nobody evaluates (drawn as config "unknown"):
\* validation does not look at it.
ConditionUnknown ==
    /\ Runs("CONDITION") /\ This.config \notin CONDITION_TYPES
    /\ Commit(Failed(Ran({})))
    /\ UNCHANGED <<campaign, setup, versions, call, mail, lead, crashes>>

Stop ==
    /\ Runs("STOP")
    /\ Commit(Completed([run.work EXCEPT !.trail = Append(@, Here)]))
    /\ UNCHANGED <<campaign, setup, versions, call, mail, lead, crashes>>

RunStep ==
    \/ NodeMissing \/ CallDial \/ CallPlaced \/ CallRefused
    \/ CallPlan \/ CallPlanned \/ CallPlanFailed
    \/ EmailSkipOrFail \/ EmailSend \/ LinkedInAct
    \/ WaitPark \/ WaitSkip \/ WaitBadUnit
    \/ Condition \/ ConditionUnknown \/ Stop

\* The worker dies; the open transaction is rolled back.
Crash ==
    /\ run.pc # "idle" /\ crashes < MaxCrashes
    /\ run' = IdleRun(run.graph, row)
    /\ crashes' = crashes + 1
    /\ UNCHANGED <<campaign, setup, versions, row, call, mail, lead>>

-----------------------------------------------------------------------------
(* The provider's callback: TelephonyService._run_execution_outcome. *)

\* Slips: a call that failed sends the walk back to its start; the next node gets
\* a fresh attempt number.
RestartedWalk(g, r, outcome) ==
    LET done == ProcessOutcome(r, outcome)
    IN  IF done.status = "failed" THEN [done EXCEPT !.node = EntryNode(g)] ELSE done

MovedOnAfresh(g, r, outcome) ==
    LET done == ProcessOutcome(r, outcome)
        next == NextNode(g, r.node)
    IN  IF done.status = "completed" /\ next # NoNode
        THEN [done EXCEPT !.node = next, !.status = "queued",
                          !.retry_status = "pending", !.attempt_number = 1]
        ELSE done

\* A non-retryable outcome, an opt-out as well, moves the row to the next node
\* and queues it again; attempt_number stays what it was.
MovedOn(g, r, outcome) ==
    LET done == ProcessOutcome(r, outcome)
        next == NextNode(g, r.node)
    IN  IF done.status = "completed" /\ next # NoNode
        THEN [done EXCEPT !.node = next, !.status = "queued", !.retry_status = "pending"]
        ELSE done

Webhook ==
    /\ call.leg = "live"
    /\ \E o \in Outcomes :
          /\ row' = MovedOn(Graph, row, o)
          /\ call' = [call EXCEPT !.leg = "none", !.connected = @ \/ o = "completed"]
    /\ UNCHANGED <<campaign, setup, versions, run, mail, lead, crashes>>

-----------------------------------------------------------------------------
(* The lead's reply and the inbound webhook. *)

Reply ==
    /\ mail.reply = "none" /\ \E n \in AllIds : mail.sent[n] > 0
    /\ \E kind \in {"positive", "negative"} :
          mail' = [mail EXCEPT !.reply = kind, !.hook = IF Hooked THEN "sent" ELSE @]
    /\ UNCHANGED <<campaign, setup, versions, row, run, call, lead, crashes>>

\* receive_inbound_email finds the conversation only once the worker has
\* committed it.  A negative reply marks the lead; for another one
\* mark_replied_on_execution changes the loaded JSON in place and assigns an
\* equal copy, which the session does not write back.
InboundWebhook ==
    /\ mail.hook = "sent"
    /\ mail' = [mail EXCEPT !.hook = "done"]
    /\ lead' = IF row.thread /\ mail.reply = "negative" THEN "lost" ELSE lead
    /\ UNCHANGED <<campaign, setup, versions, row, run, call, crashes>>

-----------------------------------------------------------------------------
(* Graph edits: put_workflow and restore_workflow_version, atomic on the one *)
(* event loop of the API process.                                            *)

\* _graph_changed: an equal graph makes no version.
GraphChanged(g) == g # Graph

\* The next workflow_versions row, and the workflow's own copy of it.
CreateVersion(g) == versions' = Append(versions, g)

UpdateGraph(g) == ValidGraph(g) /\ GraphChanged(g) /\ CreateVersion(g)

\* Every edit of the graph: an API call about a campaign that is not over.
EditGraph ==
    /\ campaign # "completed" /\ Len(versions) < MaxVersions
    /\ UNCHANGED <<campaign, setup, row, run, call, mail, lead, crashes>>

PutWorkflow == EditGraph /\ \E g \in Candidates : UpdateGraph(g)

\* restore_version checks the snapshot again and always makes a version.
RestoreGraph(v) == ValidGraph(versions[v]) /\ CreateVersion(versions[v])

RestoreVersion == EditGraph /\ \E v \in DOMAIN versions : RestoreGraph(v)

-----------------------------------------------------------------------------
(* The scheduler around it. *)

Elapse ==
    /\ row.next_retry_at = "later"
    /\ row' = [row EXCEPT !.next_retry_at = "due"]
    /\ UNCHANGED <<campaign, setup, versions, run, call, mail, lead, crashes>>

Requeue ==
    /\ campaign = "active" /\ row.retry_status = "scheduled" /\ row.next_retry_at = "due"
    /\ row' = [row EXCEPT !.status = "queued", !.retry_status = "pending",
                          !.next_retry_at = "none"]
    /\ UNCHANGED <<campaign, setup, versions, run, call, mail, lead, crashes>>

Complete ==
    /\ campaign = "active" /\ Settled(row)
    /\ campaign' = "completed"
    /\ UNCHANGED <<setup, versions, row, run, call, mail, lead, crashes>>

Next ==
    \/ Dispatch \/ RunStep \/ Crash \/ Webhook \/ Reply \/ InboundWebhook
    \/ PutWorkflow \/ RestoreVersion \/ Elapse \/ Requeue \/ Complete

Spec == Init /\ [][Next]_vars

\* Ticks keep coming, a run goes on until it stops, the provider's callback is
\* delivered, time passes.  Users, leads and crashes owe nothing.
Fairness ==
    /\ WF_vars(Dispatch) /\ WF_vars(RunStep) /\ WF_vars(Webhook)
    /\ WF_vars(Elapse) /\ WF_vars(Requeue) /\ WF_vars(Complete)

FairSpec == Spec /\ Fairness

-----------------------------------------------------------------------------
(* Properties. *)

Edited == Len(versions) > 1

\* What validation does not ask for and the promises below need, stated by numbers
\* for the nodes.  No cycle: an edge leads to a higher number, and a CONDITION looks
\* at a node with a lower one.
Layered(layer) ==
    /\ layer \in [Candidates -> [AllIds -> Nat]]
    /\ \A g \in Candidates : ValidGraph(g) =>
          /\ \A e \in DOMAIN g.edges :
                layer[g][g.edges[e].source] < layer[g][g.edges[e].target]
          /\ \A i \in DOMAIN g.nodes : g.nodes[i].type = "CONDITION" =>
                /\ g.nodes[i].source \in NodeIds(g)
                /\ layer[g][g.nodes[i].source] < layer[g][g.nodes[i].id]

\* No cycle through a mail: an edge leads to no lower number, and out of an EMAIL
\* node to a higher one.
MailsForward(layer) ==
    /\ layer \in [Candidates -> [AllIds -> Nat]]
    /\ \A g \in Candidates : ValidGraph(g) =>
          \A e \in DOMAIN g.edges :
              LET from == layer[g][g.edges[e].source]
                  to   == layer[g][g.edges[e].target]
              IN  from < to \/ (from = to /\ Node(g, g.edges[e].source).type # "EMAIL")

\* The mails come in the same order in every graph one may be edited into.
SameOrder(layer) == \A g, h \in Candidates : layer[g] = layer[h]

\* An edge the walk may take from n: out of a CONDITION a labelled one, and the
\* TRUE one only if the output on record says so.  (A reply that arrives after a
\* FALSE is put on record by the next CONDITION.)
MayFollow(g, n, m, outputs) ==
    \E e \in Outbound(g, n) :
        /\ g.edges[e].target = m
        /\ Node(g, n).type = "CONDITION" =>
              \/ g.edges[e].condition = "FALSE"
              \/ /\ g.edges[e].condition = "TRUE"
                 /\ EvaluateCondition(Node(g, n).config, OutputOf(outputs, Node(g, n).source))

\* Committed work is a walk of the graph from its entry: each node follows the
\* one before it by an edge, a TRUE branch once taken stays justified by the
\* recorded outputs, and only a CALL is run again.  Later polls rewrite outputs,
\* callbacks and WAIT move the pointer, and crashes drop what was not committed.
TrailIsAWalk ==
    ~Edited =>
        /\ row.trail # <<>> => row.trail[1] = EntryNode(Graph)
        /\ \A i \in 1..(Len(row.trail) - 1) :
              \/ MayFollow(Graph, row.trail[i], row.trail[i + 1], row.outputs)
              \/ /\ row.trail[i] = row.trail[i + 1]
                 /\ Node(Graph, row.trail[i]).type = "CALL"

\* A mail is sent again only by the run after a crash: the send comes before the
\* commit that records it.
MailRepeatsOnlyAfterCrash ==
    \A n \in AllIds : mail.sent[n] <= 1 + crashes

CallNodesBehind == {row.trail[i] : i \in {j \in DOMAIN row.trail :
                        Node(Graph, row.trail[j]).type = "CALL"}}

\* The CALL nodes of a graph share one attempt budget: a second CALL begins at
\* the attempt number the first one ended with.
SharedCallBudget ==
    ~Edited => call.dials <= MaxAttempts + Cardinality(CallNodesBehind) - 1
                             \/ call.dials = 0

Configured(g) ==
    \A i \in DOMAIN g.nodes : g.nodes[i].config \notin {"bad unit", "unknown"}

\* What the API accepts does not strand a lead: with dialing enabled, a failed
\* execution is parked for a retry or out of attempts, never failed with
\* retry_status "pending", which nothing requeues.  Graph edits and node fields
\* that validation does not look at are excepted.
NeverStranded ==
    setup.telephony /\ ~Edited /\ Configured(Graph) /\ row.status = "failed" =>
        row.retry_status # "pending"

\* Every walk of an acyclic graph ends and the campaign with it, unless a crash
\* left the row "running".
EveryWalkEnds == <>(campaign # "active" \/ crashes > 0)
=============================================================================
