# A verification development of the Afficient-ai campaign engine

Afficient-ai runs outbound calling campaigns: a FastAPI process serves the API,
places calls through Twilio or LiveKit and hosts one AI agent per call; a Celery
worker runs the *campaign scheduler* once a minute; Postgres and Redis hold the
state they share. This directory holds TLA+ models of that system, the TLC runs
that check them and proofs, checked by TLAPS, of what matters most. Paths below
are relative to `src/backend/modules/`.

## 1. Inventory

| component | state | operations | what is hard |
|---|---|---|---|
| Retry engine, `campaign/retry.py` | columns of one `executions` row | `process_outcome` | applied by the worker, the API handler and the webhook, to a row each has read at another time; applied twice when a callback is repeated |
| Pacing and calendar, `campaign/scheduling.py` | none | `pacing_allowance`, `is_within_business_hours` | rounding; fed with counts inferred from rows |
| Scheduler, `campaign/scheduler.py`, `tasks.py` | what one tick has read | activate due campaigns, requeue, count, complete, select, dispatch | several statements, each seeing a newer database; long ticks |
| Worker, `campaign/worker.py` | a session with a loaded row | dial over HTTP, walk a graph | an HTTP call between read and write; the client's timeout; crash |
| Telephony, `telephony/` | `telephony_calls`, background tasks, agents | originate, fall back, status, voice, AMD and recording webhooks, cancel, delete, redial | the provider acts between the row and its sid; callbacks early, late, repeated, crossing |
| Campaign lifecycle, `campaign/service.py`, `router.py` | `campaigns.status`, `workflows.state` | create, activate, put_workflow, pause, resume, patch, execute | users act while a tick runs; two records that must agree |
| Workflow graph, `campaign/worker.py`, `node_handlers/`, `router.py` | current_node_id, node_outputs | node loop, WAIT parking, callback advance, test run | side effects before commit; graph edited under executions |
| Email conversations, `campaign/email_conversation_service.py`, `inbound_email_router.py` | conversations, messages | receive, answer, opt out | letters that cross the answer, or arrive twice |
| AI conversation, `ai/orchestrator.py`, `tts/`, `stt/`, `livekit/` | state machine, speak task, sockets, queues | turns, barge-in, recovery, reconnect, stop | coroutines and timers of one event loop; bounded queues |
| AI turns, `ai/service.py`, `memory.py`, `qualification.py` | Redis memory, transcript | a turn, its retries, its deadline | a chain of awaits that may be cut anywhere |
| Booking and calendar, `ai/booking_handler.py`, `calendar/` | booking phase in Redis, events and tokens at Google | ask, confirm, check, book; connect, refresh, disconnect | no lock between free/busy and insert; threads that outlive a call |
| Members and organizations, `members/`, `organization/`, `auth/` | memberships, accounts | create, re-rank, remove, transfer, delete | counts read before the write, without a lock |
| Leads, `leads/` | leads, lists | create, rename, import CSV | unique index met by concurrent imports |
| Playbooks, `playbook/` | rows, fields, versions | edit, publish, archive, load for a call | a version number counted in Python |
| Reports, `analytics/`, scheduler metrics | none | replies made of several queries | every query sees a newer database |
| Frontend, migrations, scripts, health, language model, speech wire formats | — | — | external or pure I/O |

How they interact: Beat enqueues `scheduler_tick`; the tick reads campaigns and
executions and calls the worker for each row of its batch; the worker posts to
`POST /telephony/calls` or walks a graph; the handler inserts a call row, asks the
provider and answers; the provider posts webhooks, from which the handler finds the
execution and applies the retry engine to it, and which start and stop the agent of
the call. The agent hears through Deepgram, asks the model, speaks, and books in
the organization's calendar. Users change the same rows all the while. Nothing
takes a lock across these steps (only `activate` locks a workflow row, with SKIP
LOCKED): what keeps the system together are unique indexes, the order of commits,
and values compared when written.

What makes them correct: a lead has one call at a time and at most `max_attempts`
of them; what is finished stays finished; the pacing limits hold; a campaign
completes when, and only when, its leads are settled; a walk follows the graph it
was drawn on and ends; a person who answers keeps the agent and a machine gets the
recording; the agent never talks over itself and never goes deaf for good; what the
lead has answered is not lost and an opt-out holds; a meeting is booked once and
where the lead agreed; an organization keeps an owner; the version a call records
tells what it went by.

`PROJECT.json` lists every component with its status and every hazard at the line
where it bites.

## 2. Modules

A variant of a definition commented *Slip* is what a plausible mistake in the code
would look like. No action uses it; `PROJECT.json` records which property of which
run notices it.

### The campaign engine

* **Retry**: `process_outcome` as an operator from row to row: which outcomes are
  dialled again, every column assigned. `next_retry_at` is `none`, `later` or
  `due`: all that the SQL compares.
* **Scheduling**: `pacing_allowance`, and what `ORDER BY ... LIMIT` hands a tick.
* **Dialing** (extends both): the pipeline of one active campaign. `rows` are the
  executions, `calls` the `telephony_calls` rows with the handler working for each
  and the leg behind it, `tick` what each Celery task has read so far. `TickStart`
  to `TickEnd` are the statements of `_advance_active` and `_dispatch_dial_http`
  between which others act; `TwilioCreate/Refuse`, `SetSid`, `Sip*`, `DeleteCall`
  are the API handlers; `ProviderEnd`, `Webhook`, `WebhookUnknown` the provider and
  its callback. `Flush` is what a session commits for an object it loaded before:
  the columns that differ. `Faults` selects what may go wrong: `timeout`, `crash`,
  `early` and `duplicate` callbacks, `delete`.
* **LeadLifecycle**: the abstract specification. Each lead waits, is claimed, is
  called once, is then settled for good or parked for one more attempt of its
  budget; the campaign closes when all are settled. **DialingLifecycle** maps
  Dialing to it (`INSTANCE ... WITH`): where a lead is follows from its row and
  from the calls that still owe it an outcome.
* **Pacing**: calls per rolling hour. Nothing counts dispatches: the code infers them
  from rows, so each row has the age of its `updated_at` and, as history, there is the
  age of every dispatch.
* **CampaignLifecycle**: `campaigns.status`, workflow states and executions, users'
  requests as one transaction each, and the tick as the sequence of its queries.
  `ActivateIn`, `EditIn`, `PatchTo`, `ByHand` say what users do, because the API
  hardly restricts it.
* **Activation** (extends it): `activate` not as one transaction but as its
  statements, in several sessions at once: `LookUp` is the query with SKIP LOCKED,
  `CountRows` the count under the lock, `InsertWorkflow` waits for the unique index
  or is refused by it (`RefuseInsert`), `Commit...` ends the transaction and `Abort`
  rolls it back. Everybody else is CampaignLifecycle, waiting where a row or the
  index is held.
* **WorkflowGraph**: entry node, next edge, CONDITION, validation.
  **GraphExecution**: the run loop with its six handlers; `run.work` is the
  uncommitted row that a crash throws away while mails sent stay sent; the status
  callback, reply mailbox, graph edits and versions act in between. **Templates**:
  the six built-in graphs. **DryRun**: the test run, which alone guards cycles.
* **EmailThread**: deliveries of letters as coroutines that work on a copy of the
  conversation across the model's and the mailer's awaits.

### A call

* **VoiceCall**: one outbound call with everybody who writes to its row, leg and
  agent: origination over both paths, status, voice and AMD webhooks in any order,
  cancel, delete. **CallRecords**: the table of calls, where redials, inbound calls,
  doubled and early webhooks, recordings and restarts meet.
* **Conversation**: the orchestrator's event loop, the speak task with its pump and
  `run()`, on the state machine of `ai/state.py`. A turn waits first for the model
  (`ModelAnswers`, or `TurnFails` at the deadline) and then, in "booking", for the
  booking handler, which is awaited outside `with_timeout` and has no deadline. **Hearing**: transport, audio
  pump, Deepgram sockets, reconnects, bounded queue, shutdown.
* **AiTurn**: `respond_turn` with its retries and deadline over Redis and the
  transcript, qualification and playbook branches.
* **Booking**: the booking dialogue, its state in Redis, availability, the insert in
  a thread; two calls and an owner compete for the diary. **CalendarLink**: how the
  organization's calendar is connected (OAuth with a PKCE verifier in Redis), used
  (the access token refreshed in a thread) and disconnected.

### The workspace

* **Members**, **Leads**, **Playbooks**: concurrent requests under READ COMMITTED;
  what a request has read is kept in its record, and constraints decide at the
  commit. A playbook's `saves` is history: how many updates its row has had, noted with
  all that is read of it. **Reports**: each reply of a dashboard as a sequence of
  queries; a query with a LIMIT returns any list it may be cut to (`Limited`).

### Instances and proofs

MCSpeech (Dialing without faults, Conversation, Hearing), MCActivation (Dialing with
all faults, Activation, Reports), MCWorkspace (Leads, Playbooks, GraphExecution,
DryRun), MCCalls (CampaignLifecycle, Pacing, VoiceCall), MCAgent (AiTurn, Booking,
CalendarLink, EmailThread, Members, CallRecords), MCDialing, MCGraphExecution,
MCHearing and MCMembers give the constants values. Where an MC module has several
parts, they share no state: an additional variable `subject`, chosen initially, says
which of them a behaviour is about; the others stand still, and fairness is required
of the chosen one only. So the number of states is a sum, not a product, and the parts
do not constrain one another; they are checked in one run because they take the same
kind of checking, not because one needs the other. Proofs are in the modules named `*_proofs` (section 5).

## 3. Runs

| run | instance | states | shows |
|---|---|---|---|
| dialing_reliable | 3 leads (one without a phone number), 4 calls, cap 2, 2 attempts, 1 tick, Twilio, calling window opens and closes, no fault; a phone call and a browser room with 3 transcript events; 3 frames over 2 sockets and a queue of 2 | 311,522 | `OneLiveCall`, the refinement `ImplementsLifecycle`, `CampaignCompletes` (as `DialledMeansCompleted`); `VoiceKeepsOrder`, `TurnEnds`; `HearsInOrder`, `DeadSocketNoticed` |
| dialing_hostile | 3 leads, 2 calls, cap 2, 1 tick, both paths, every fault; a launch: 1 lead, 2 workflows, 2 API sessions and the tick's in every statement of `activate`, all user actions; dashboards over 2 campaigns and 2 contacts, 3 writes, 2 days, lists cut off at 1 | 2,196,819 | `TypeOK`; `ConcurrencyCap` and `RetryWakeable` (a parked row can be found again) whatever goes wrong; `ActivatesOnce`; `ActivatesAsIfAlone`: what is committed among others is what one transaction would commit; `RepliesAddUp` |
| workspace | 3 requests of 2 users on leads and lists; 2 playbooks, 3 edits, a call; walks over 8 graphs and the 6 templates with one crash, one edit, replies; test runs, of a cyclic graph too | 240,260 | `AloneLosesNothing`, `RequestsEnd`; `CallsRunWhatWasPublished`; `TrailIsAWalk`, `MailRepeatsOnlyAfterCrash`, `SharedCallBudget`, `NeverStranded`, `WalksEnd` |
| calls | 2 leads, 2 workflows, all user actions; 3 leads at 2 calls an hour of 4 ticks, retries after 1; one call under every setup, callbacks up to twice, in any order | 567,338 | `CompletedMeansDone`, `LeadsSettle`; `NewLeadsCapped`, `EveryLeadSettles`; `PlayedMeansVoicemail`, `HumanKeepsAgent`, `OutcomeArrives` |
| agent | 3 turns of 2 attempts; 2 calls that book; 3 OAuth flows and 2 uses of a calendar; 3 letters in 4 deliveries, 2 turns; 2 requests about members; a call and its redial, or a call whose webhooks come twice | 2,946,371 | `AnsweredIsKept`, `OnceIsOnce`, `NoReplyAfterOptOut`; `BookingAgrees`; `LinkIsOneAccount`, `LoneFlowConnects`; `ReplyFitsItsLetter`, `OptOutHeeded`, `ClosedForGood`; `MembershipsHold`; `OneAgentPerLeg`, `RecordingKept` |

Runs that exhibit a disagreement between the code and what it says of itself (the
quotes are in `PROJECT.json`, "findings"):

* **dialing_livekit**: a campaign call over the LiveKit SIP trunk never reconciles
  its execution: the row is `running` for ever, keeps a concurrency slot and keeps
  the campaign from completing.
* **hearing_reconnect**: `_reopen` abandons the context manager of the socket it
  opens; the event loop finalises it and closes the socket in use.
* **hearing_close**: `disconnect` puts a sentinel on a full queue whose consumer
  has just been cancelled, and `run()` never returns. The queue has 256 frames of
  10 ms; with Deepgram gone the pump pauses 50 ms for each frame refused, so the
  queue is full some seconds later.
* **hourly_cap**: at the default retry interval of 15 minutes three calls go out in an
  hour with `calls_per_hour` = 2: requeueing a row takes its dispatch out of the count
  of what already went out. What is left of the limit is `NewLeadsCapped`: the leads
  called for the first time.
* **playbook_edited**: an update of an active playbook changes the row that calls load
  and leaves its version, so a call goes by a script that was never published under
  the number it records. Without such an edit the two agree
  (`CallsRunWhatWasPublished`).
* **members_owner**: two requests, each of which finds an owner left, leave an
  organization without one.
* **template_missed**: with the Qualification template a lead whose call connected
  gets the missed-call mail, and one whose call was never answered gets nothing,
  because nothing writes `node_outputs` for a real call.

### Bounds

* `Calls` in Dialing is a supply: when it is used up no further dial is posted. In
  dialing_reliable 4 is two dialable leads with two attempts each, so it cannot run
  out within the attempt budget; that the budget is kept is part of
  `ImplementsLifecycle`. In dialing_hostile three dialable leads are more than the
  cap and two calls give a retry and a repeated and a late callback.
* Two attempts are enough for each branch of the decision table (retry, exhausted,
  terminal); `Outcomes` needs one retryable and one terminal member.
* Pacing's hour is 4 ticks instead of 60, and a retry comes after 1, the 15 minutes
  that are the default: what matters is the number of ticks relative to
  `calls_per_hour` and the backoff. Half a call a tick must be rounded.
* `MostUsed = 1` and `MonitorLimit = 1` stand for the 5 workflows and 200 executions
  of the code: with two campaigns and two leads the lists are below, at and beyond
  their limits.
* Two workflows, users, books or uses are what a race needs; three requests of
  Leads let an import meet two others; three flows are two of one user and one of
  another. `MAX_STEPS` (20 in the code) is 5, so that
  a long graph meets it as well as a cyclic one. Edits under a walk lead into
  one of three graphs (`EditedInto`): conditions swapped, no pause, most nodes gone.
* Frames are few because only their order and loss matter; the queue of 2 stands
  for 256, `MAX_RECONNECT = 2` for 3: one that works and one that fails.
* `KindsOf` lets one of two requests about members be of any kind and the other
  change or remove a member, which is where owners get lost.
* In agent the members' part stops at the first request that commits after a commit
  it has not seen: `MembershipsHold` is about the behaviours before, members_owner
  about one after.
* The launch in dialing_hostile has one lead: an activation enqueues all of them or
  none in one statement's time. Users launch drafts and, once more, active
  campaigns; a scheduled one is activated by the tick. It is the only run with a
  symmetry (of the two API sessions): its properties are invariants and a condition
  on single steps. The other runs check liveness or finish without.

### Fairness

No fault, user request or deletion is ever fair; what is fair is what a live
process, the provider or the clock does of itself.

* `Dialing!Fairness`: a started tick or handler proceeds; the provider ends every
  call and delivers its terminal callback; clocks advance; ticks keep starting in
  the calling window (Beat fires every minute, a window lasts for hours).
  `CampaignFairness` says the same of its coarser steps,
  `PacingFairness` of the tick and a call's end. That ticks meet the open window
  again and again is said of the state in which they have sampled it
  (`TickedInHours`, `ListedWhileOpen`).
* `GraphExecution!Fairness`: dispatch, the run loop, the webhook of a call, the end
  of a wait, requeue and completion. DryRun adds the test request.
* `VoiceCall!Fairness`: coroutines proceed, webhooks arrive, calls end.
* Conversation: the speak task, the event loop and the leaving of `run()` proceed,
  and the deadline of the model strikes. Neither the model nor the booking handler has
  to answer: a handler that hangs ends only when the call is stopped and the loop
  cancelled, and `TurnEnds` promises no more.
  `HearFair`: the coroutines proceed, and a socket that is gone is noticed by its
  reader. `LeadsFair`: a request proceeds; one that waits for a row goes on when
  the holder commits.

What must not last for ever (a turn, a dead socket, a queued lead) is stated as `[]<>`
of its opposite, which says the same as that it leads to its end.

Liveness is stated for fault-free dialing only: under faults a row may be left
running for ever (dialing_livekit and the first hazards). `WalksEnd` of a live walk
is for campaigns that stay active and workers that do not crash; both walks end for
any graph that the API accepts.

## 4. Abstractions, and why they are sound

* A webhook's or API request's transaction is one step when it reads, decides and
  commits without awaiting, or when the module says so (CampaignLifecycle);
  `async` endpoints that never await (CalendarLink, sign-in) are one step because
  the event loop runs nothing else meanwhile. Where a handler awaits or goes through
  `asyncio.to_thread`, each commit is a step.
* Dialing has no hourly limit: the limit only shrinks a batch, and a smaller batch
  is a behaviour some instance already has. Pacing has the limit and, in exchange,
  runs each tick as one step. CampaignLifecycle's executions go queued, running,
  done: retries are Dialing's, graph walks GraphExecution's.
* Failures before the provider is asked look to the worker like `TwilioRefuse`; a
  failed fallback is `SipClose`. `DeleteCall` is of a call whose sid is stored.
* A lead that cannot be dialled is settled on its current row, which is the one the
  tick listed as long as ticks do not overlap (`DialingAssumption`).
* Texts, prompts, playbook fields' contents, e-mail headers other than the ids that
  thread, audio and wire formats are model values or left out; what a model or a
  speech service returns is any value the code tells apart.
* Time is counted in ticks, half hours or days where it is compared, and is a
  choice elsewhere (a deadline may always strike).
* Google, Twilio, LiveKit, Deepgram, Redis and Postgres are modelled from how the
  code uses them (the entries marked external in the map): constraints and READ
  COMMITTED, a request that may fail or whose answer may be lost.

## 5. Proofs

For every value of the constants (the assumptions `...Assumption` of the modules
included); every invariant and every action property of the passing runs has a
theorem. `CompletedMeansSettled` and `ProgressIsMonotonic` have one and no run: the
first follows from `ImplementsLifecycle`, which closes a campaign only when all leads
are settled.

| module | theorem | assumes | says |
|---|---|---|---|
| Dialing_proofs | `TypeCorrect` | — | `TypeOK`, under every fault and any number of ticks |
| | `ConcurrencyCapCorrect` | `OneTick` | the cap holds, whatever faults occur |
| | `RetryWakeableCorrect` | `OneTick` | a parked row has its wake-up time, whatever faults occur |
| | `ExhaustedMeansSpentCorrect` | `OneTick`, `NoStaleWrite` | a lead given up on is at its last attempt |
| Owner_proofs | `OwnerCorrect` | `Calm` | the inductive invariant `OneOwner` |
| | `OneLiveCallCorrect`, `LiveLegCountedCorrect` | `Calm` | a lead has one call up at a time, counted as running |
| | `SettledIsFinalCorrect` | `Calm` | no step revives a settled row |
| | `CompletedMeansSettledCorrect` | `Calm` | a completed campaign has nothing left |
| | `ImplementsLifecycleCorrect` | `Calm` | Dialing implements LeadLifecycle |
| | `DialsWithinBudgetCorrect` | `Calm` | no lead is called more than `max_attempts` times |
| GraphExecution_proofs | `NeverStrandedCorrect` | — | `TypeOK`; what the API accepts strands nobody |
| | `MailOnceCorrect` | `MailsForward` | `MailRepeatsOnlyAfterCrash`, up to an edit that reorders the mails |
| | `TrailIsAWalkCorrect`, `SharedCallBudgetCorrect` | `Layered` | the trail is a walk; its calls keep to the budget |
| VoiceCall_proofs | `VoiceTypeCorrect` | — | types |
| | `PlayedMeansVoicemailCorrect`, `HumanKeepsAgentCorrect` | — | a recording means voicemail; a person keeps the agent |
| | `NewLeadsCappedCorrect` | — | `calls_per_hour` bounds the first calls of every rolling hour, for any backoff |
| Speech_proofs | `ConversationTypeCorrect`, `VoiceKeepsOrderCorrect` | — | the agent speaks one line at a time and stops for good |
| | `HearsInOrderCorrect` | — | what people say arrives in order, once, without the agent's own voice |
| | `OneAgentPerLegCorrect`, `RecordingKeptCorrect` | — | one agent for a leg; no recording lost |
| Agent_proofs | `AiTurnTypeCorrect`, `OnceIsOnceCorrect`, `ProgressCorrect`, `NoReplyCorrect`, `AnsweredIsKeptCorrect` | — | the properties of AiTurn |
| | `BookingTypeCorrect`, `BookingAgreesCorrect` | — | promises, replies and calendar agree |
| | `LinkIsOneAccountCorrect`, `LoneFlowConnectsCorrect` | — | the row of a calendar is of one account; a flow that fails was disturbed |
| | `ReplyFitsCorrect`, `OptOutHeededCorrect`, `ClosedForGoodCorrect` | — | the properties of EmailThread |
| | `MembersTypeCorrect`, `MembershipsHoldCorrect` | — | types; owners and memberships, up to the first stale commit |
| Workspace_proofs | `AloneLosesNothingCorrect`, `OneLeadPerPhoneCorrect` | — | an undisturbed import stores what it counted; no number twice |
| | `CallsRunWhatWasPublishedCorrect` | — | a call goes by a version published once, and by its script unless edited since |
| | `CampaignSettledCorrect` | `CarefulUsers` | a completed campaign has no execution left |
| | `ActivatesOnceCorrect`, `ActivatesAsIfAloneCorrect` | — | activations that overlap enqueue each lead once and commit what one alone would |
| Reports_proofs | `RepliesAddUpCorrect` | — | a reply that met no write agrees with itself and the tables, for limits of any size |

### What they assume

* `OneTick`: ticks do not overlap. `Calm`: `OneTick`, and no fault. `NoStaleWrite`:
  no request times out and no callback comes twice (crashes, early callbacks and
  deletions remain); section 6 says what happens otherwise.
* `Layered(layer)`: the graphs have no cycle, which the API does not check
  (MAX_STEPS bounds the run instead). `MailsForward(layer)` is weaker: no cycle
  leads through an EMAIL node. `layer` numbers the nodes of each graph; the
  configuration of workspace gives one (`Layer`) and TLC evaluates both conditions
  on its graphs and on the six templates (`GraphsAreLayered`). After an edit
  `MailOnceCorrect` speaks only of graphs with one numbering (`SameOrder`), since a
  mail moved ahead of the walk does go out again; for the edits of workspace TLC
  checks the rest.
* `CarefulUsers`: users launch and edit drafts and active campaigns, and patch the
  status only to archive; the campaign of the run calls is
  such an instance.

### Along which argument

*Owner.* `OneLiveCall` is not inductive: it says nothing of a call that has been
requested and has no leg yet, nor of the batch a tick holds. `OneOwner` calls a
call *owing* from the request until its outcome has reached the row, and says that
owing calls have running rows, one each; that rows in a batch are still queued;
that a tick about to post holds a running row nobody owes anything; and that no
queued or running row is parked. There is a lemma for each kind of step:
`CallStep` for the handlers, `QuietTick` for the scheduler, `OwnerTickDispatch`,
`OwnerTickPost`, `OwnerTickResponse`, `OwnerTickFailDial` and `OwnerWebhook` for
the steps that move an obligation. `FlushColumns` states what a commit of a stale
object does to the columns; it is why the response may arrive after the callback.

*Concurrency.* Only `TickDispatch` makes a row running. `CapInv` says that what a
tick has counted, or holds in its batch, still fits under the cap; `RunningShrinks`
that every other step, faults included, only lowers the number.

*Retry columns.* `WakeInv`: the rows a tick may load, and its copy, are parked with a
wake-up time or neither; that a late `_fail_dial` may leave `next_retry_at` on a row
that is not parked is harmless, because such a row is never loaded again. `SpentInv`
relates the copy a tick holds to the row, and each call under way to its row, as
`OneOwner` does, but survives crashes, early callbacks and deletions.

*Completion.* `CompletionInv`: once completed every row is settled and no tick is
at work; a tick between its two queries that has counted nothing may rely on it,
because meanwhile only calls end and backoffs run out (`OthersFinish`).

*Refinement.* Under `OneOwner` each step of Dialing moves at most one lead, and only
as LeadLifecycle allows; the budget is proved in LeadLifecycle and carried over.

*Graph walks.* `WalkInv` says which of row, run and call holds the execution, and
that every stored version is a valid graph. `MailInv` says that from where the row
stands no mail has gone out but those of crashed runs; it needs the numbering to
speak of *from where the row stands*. `TrailInv` says that the row stands behind the
end of its trail, in no lower layer than any of it, and a row under a call on its
CALL node. `BudgetInv` says that the calls placed so far are paid for by attempts
and by CALL nodes passed, and that a CALL node about to be dialled again has an
attempt to pay with. `SharedCallBudget` alone is not inductive: a retry adds an
attempt long before it dials.

*A call.* `VoiceInv`: nothing of the end of a call is told before the leg is over,
the drop is on record before the recording plays and in every copy of the row taken
since (`DropInv`), and the agent of a person on a Twilio call is told to stop only
by a user, an ended leg or a failed origination (`StopInv`).

*Pacing.* `PaceInv`: a row that is not queued was updated since its first call, and
the leads that have been called are the oldest. The queue is first in, first out, so a
batch that takes up a new lead takes every requeued row before it; no lead called
within the hour is then left queued, all of them are counted, and a batch fits into
the rest (`BatchWithinHour`). For all dispatches there is no such argument: a requeued
row that is dialled again leaves only one of its dispatches in the count.

*Speech.* `TalkInv` relates runner, pump, loop and the leaving of `run()`.
`HearingInv`: what has been sent was spoken before what waits in the queue, which
`HearsInOrder` does not say and the flush of the queue into a new socket needs.
`RecordsInv` says which row a webhook finds by SID, that an agent belongs to that
row, and how far a recording has come.

*Turns, booking, mail.* `ReadIsCurrent` (a turn works on what Redis holds, since the
turns of a call follow one another), `OnceInv`, `RowsInv` and `MemoryInv` give the
properties of AiTurn. `BookingInv` says that events are of slots both agreed upon and
seen free, one for a call. `LinkInv` needs `UsesAreCurrent`: a use that no connection
has overtaken holds the refresh token of the row it is about to write; `VerifierWaits`
that an undisturbed flow's verifier is still in Redis. `ThreadInv`: each delivery
works on a copy of its own letter's references, and the chain starts at the mail.
`ReadingInv`: what a request about members has read is still so, unless somebody
committed since.

*Leads, playbooks, campaigns.* The rows an import holds back are disjoint from those
committed and from other imports', because each flush meets the unique index; an
import that no commit has disturbed has counted only rows it holds. Snapshots are
unique and never removed while their playbook stands, and a call's playbook has been
a row once. `ScriptInv`: whatever was read of a playbook after so many of its updates,
by a publish, by a call or into a snapshot, is what its row still says as long as there
was no further one; so a call and a snapshot with the same number of updates agree.
`LifeInv`: an active campaign with executions has an active workflow, so
that a launch enqueues nobody new; what a tick has counted as finished stays so.

*Activations that overlap.* `LockInv`: there is at most one active workflow, at most
one session has locked it, and while one session has inserted a workflow none is
active; so the lock, the index and the waiting of everybody else exclude one another.
`RowInv`: what the holder of the lock has counted is still so at its commit, a
workflow beyond the list has no rows, one of the list has all leads or none, and a
batch holds only rows that exist. `CommitsAsIfAlone` follows from the two and
gives both theorems, the types by way of CampaignLifecycle's own lemmas.

*Reports.* The library adds up with a recursive function on the subsets of a set.
`SubsetInduction` is induction over those subsets for a family of sets, from the
least number of a set of numbers (`LeastNumber`); with it `SumRemove`, `SumUnion`,
`SumAgree` and `CountParts` say what the sums are: one element taken out, two
disjoint sets, equal values, and a set counted by its classes. `TablesInv` types the
tables and relates the columns of a row (a parked row has failed, a queued one is
not parked; only a voicemail has the recording played to it). `ReplyInv`: as long
as nothing was written, each query of a reply saw what it would see now, and the
summary of a finalized AI call counts its turns. `HomeInv`: an execution goes with its
campaign, so that the workflows in use are among those whose nodes are counted.
`RepliesAddUpFrom` has the same from any executions that are there at first, which is
how dialing_hostile starts.

### Only model-checked

* Liveness (`CampaignCompletes`, `LeadsSettle`, `EveryLeadSettles`,
  `OutcomeArrives`, `RequestsEnd`, `WalksEnd`, `TurnEnds`, `DeadSocketNoticed`),
  which is out of the prover's reach.
* DryRun, of which the runs check only that it ends.

## 6. What is not claimed, and not modelled

Known counterexamples that are not kept as runs, because (but for the IntegrityError)
no text of the repository contradicts them; each can be had from the modules by the
change named:

* Two ticks that overlap (`Ticks` of two): both read the same queued rows and dial
  them, and the completion test's two queries straddle the other's requeue, so
  `OneLiveCall` and `CompletedMeansSettled` fail.
* An exhausted row may show an `attempt_number` below the last (`ExhaustedMeansSpent`
  as an invariant of dialing_hostile with one lead and `MaxAttempts = 5`; with
  timeouts alone it takes eight attempts and five calls): while a tick dials a row
  that is still marked `scheduled`, late or repeated callbacks of earlier calls use
  up its attempts, and `_fail_dial` then writes the older number back. With two
  attempts, which the runs have, it cannot happen; the proof showed that it can with
  more.
* Launch on a paused campaign (`ActivateIn` with "paused") makes a second active
  workflow and strands the queue of the first.
* Two activations of a draft at once, one before and one after the calling window
  closes: the second, which does not see the first one's workflow, commits
  `scheduled` after the first one's `active`. Its leads are enqueued and the tick's
  activation, which finds the workflow, leaves a scheduled campaign as it is, so
  nobody is called (`~(status = "scheduled" /\ Enqueued # {})` in
  dialing_hostile with `ActivateIn` and `EditIn` of drafts). `ActivatesAsIfAlone`
  excepts an activation that defers for this reason.
* An activation that takes as long as a whole campaign (loaded while it was active,
  looked up after it was completed) enqueues all leads anew
  (`CompletedMeansDone` fails in dialing_hostile).
* Two activations that both find no active workflow: the INSERT that comes second
  meets the unique index, nothing catches the IntegrityError, and it reaches the
  client or ends the tick (`tx[s].told # "IntegrityError"` in dialing_hostile). The
  comment at `campaign/service.py:328` says that the lookup "surfaces a clean
  response rather than letting the IntegrityError bubble up".
* Activating a draft whose workflow was saved first ignores its start time.
* A callback that beats the response of the POST loses its record in
  `retry_history` (no decision reads it; `attempt_number` survives).
* With two requests at a time an import loses rows silently: the rollback of one
  refused row undoes those flushed before it.
* A use of the calendar that loaded the row before another account was connected
  writes the old account's access token into the new connection, until it expires;
  two flows of one user at the same time both fail (the second overwrites the first
  one's verifier, the first callback deletes it).
* A repeated mail webhook is answered twice; the booking handler may speak after an
  opt-out; the account of a removed member made anew for the same address is taken
  for the old one.
* Deleting a call's row while its voice webhook is handled gives the leg a second
  agent, which is why `OneAgentPerLeg` excepts deleted legs. `retry` of a call
  checks nothing of the status of the call it repeats.
* In a room without a target participant everybody is heard, not only the caller.

Not modelled:

* the in-process dial of the worker (`run_execution`, `_dial_execution`), used when
  no HTTP dispatch is configured, and `POST /execute` over it, which may dial a
  queued row that a tick already holds;
* time zones and weekday tables (`is_within_business_hours` is an input);
* speech and media formats, language model calls, prompts, mail delivery, parsing of
  dates and addresses from speech: external I/O or text;
* the Message-ID made up for a letter that comes without one
  (`campaign/inbound_email_router.py:190`): the deliveries of EmailThread have one;
* the order of the rows of the monitor (`updated_at`), of which a page is any subset;
* CRUD without races of its own (wizard fields, objections, company profile,
  templates of an organization), health checks, migrations, scripts;
* login, tokens and password resets beyond the sessions of Members;
* the frontend, used only to learn what users can do.
