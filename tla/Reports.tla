------------------------------- MODULE Reports -------------------------------
(***************************************************************************)
(* The dashboards: analytics/repository.py, the scheduler's metrics, the   *)
(* campaign monitor and list, the list of AI calls.  A reply is made of    *)
(* several queries that run one after the other under READ COMMITTED,      *)
(* while workers, callbacks and users write: each query is a step, and a   *)
(* write may fall between any two.                                         *)
(* One organization; one workflow and at most one execution per lead in a  *)
(* campaign; a date is the number of a day.                                *)
(***************************************************************************)
EXTENDS Retry, Sequences, FiniteSetsExt

CONSTANTS
    Campaigns,
    Contacts,       \* the leads on every campaign's list
    CallOutcomes,   \* outcomes of the calls
    Activities,     \* lead_activities.activity_type values that are logged
    Kinds,          \* the replies asked for
    days,           \* the length of the window a reply covers
    MostUsed,       \* how many workflows most_used_workflows lists: 5
    MonitorLimit,   \* how many executions the monitor lists: 200
    MaxDay,         \* bound on the days that pass
    MaxWrites       \* bound on the writes before and during the reply

ASSUME ReportsAssumption ==
    /\ IsFiniteSet(Campaigns) /\ IsFiniteSet(Contacts)
    /\ days \in Nat /\ MaxDay \in Nat
    /\ MostUsed \in Nat /\ MonitorLimit \in Nat

VARIABLES
    camps,      \* campaigns.status, or "gone"
    execRows,      \* executions, per campaign and lead
    contacts,   \* leads.status
    activity,   \* lead_activities, counted per type, lead and day
    phoneLog,   \* telephony_calls of the campaigns, by id: the write that made it
    aiCall,     \* one AI call: its transcript and its summary row
    today,
    reply,      \* the reply being made: its kind, since, what its queries saw
    writes

tables  == <<camps, execRows, contacts, activity, phoneLog, aiCall, today>>
repVars == <<tables, reply, writes>>

NoRow     == [status |-> "absent"]
NoReply    == [kind |-> "none", since |-> 0, saw |-> <<>>, quiet |-> TRUE]
CampStatus == {"draft", "scheduled", "active", "paused", "completed", "archived"}
LeadStatus == {"new", "contacted", "qualified", "converted", "lost"}

FreshRow(d) == [status |-> "queued", retry_status |-> "pending", attempt_number |-> 1,
               next_retry_at |-> "none", context |-> [retry_history |-> {}],
               outcome |-> "none", day |-> d]

\* begun are the executions that are there at first.
ReportsBegin(begun) ==
    /\ camps = [c \in Campaigns |-> "active"]
    /\ execRows = [x \in Campaigns \X Contacts |->
                  IF x \in DOMAIN begun THEN begun[x] ELSE NoRow]
    /\ contacts = [l \in Contacts |-> "new"]
    /\ activity = [x \in Activities \X Contacts \X (0..MaxDay) |-> 0]
    /\ phoneLog = <<>>
    /\ aiCall = [turns |-> 0, final |-> FALSE, summary |-> 0, late |-> FALSE]
    /\ today = 0 /\ reply = NoReply /\ writes = 0

ReportsInit == ReportsBegin(<<>>)

-----------------------------------------------------------------------------
(* The writers. *)

Writes ==
    /\ writes < MaxWrites
    /\ writes' = writes + 1
    /\ reply' = [reply EXCEPT !.quiet = FALSE]

RowsOfLeads == {x \in Campaigns \X Contacts : execRows[x] # NoRow}

EnqueueLead(x) ==
    /\ camps[x[1]] = "active" /\ execRows[x] = NoRow
    /\ execRows' = [execRows EXCEPT ![x] = FreshRow(today)]
    /\ Writes /\ UNCHANGED <<camps, contacts, activity, phoneLog, aiCall, today>>

StartCall(x) ==
    /\ execRows[x].status = "queued"
    /\ execRows' = [execRows EXCEPT ![x].status = "running"]
    /\ Writes /\ UNCHANGED <<camps, contacts, activity, phoneLog, aiCall, today>>

\* process_outcome keeps the outcome; requeue_due_retries leaves it.
Ended(r, o)  == [ProcessOutcome(r, o) EXCEPT !.outcome = o]
Restarted(r) == [r EXCEPT !.status = "queued", !.retry_status = "pending",
                          !.next_retry_at = "none"]

EndCall(x) ==
    /\ execRows[x].status = "running"
    /\ \E o \in CallOutcomes : execRows' = [execRows EXCEPT ![x] = Ended(@, o)]
    /\ Writes /\ UNCHANGED <<camps, contacts, activity, phoneLog, aiCall, today>>

RequeueRetry(x) ==
    /\ execRows[x] # NoRow /\ execRows[x].retry_status = "scheduled"
    /\ execRows' = [execRows EXCEPT ![x] = Restarted(@)]
    /\ Writes /\ UNCHANGED <<camps, contacts, activity, phoneLog, aiCall, today>>

LogActivity(type, l) ==
    /\ activity' = [activity EXCEPT ![<<type, l, today>>] = @ + 1]
    /\ Writes /\ UNCHANGED <<camps, execRows, contacts, phoneLog, aiCall, today>>

QualifyLead(l) ==
    /\ contacts[l] = "new"
    /\ contacts' = [contacts EXCEPT ![l] = "qualified"]
    /\ Writes /\ UNCHANGED <<camps, execRows, activity, phoneLog, aiCall, today>>

\* A call row, a manual retry's with its parent, then what the detection says.
AddCall(c, parent) ==
    /\ camps[c] # "gone"
    /\ phoneLog' = [i \in DOMAIN phoneLog \cup {writes + 1} |->
                       IF i \in DOMAIN phoneLog THEN phoneLog[i]
                       ELSE [campaign |-> c, amd_result |-> "none",
                             dropped |-> FALSE, parent |-> parent]]
    /\ Writes /\ UNCHANGED <<camps, execRows, contacts, activity, aiCall, today>>

ClassifyCall(i) ==
    /\ phoneLog[i].amd_result = "none"
    /\ \E result \in {"human", "voicemail"} :
          phoneLog' = [phoneLog EXCEPT ![i].amd_result = result,
                                       ![i].dropped = result = "voicemail"]
    /\ Writes /\ UNCHANGED <<camps, execRows, contacts, activity, aiCall, today>>

\* late: a turn of the REST API was saved after the call was finalized.
SaveTurn ==
    /\ aiCall' = [aiCall EXCEPT !.turns = @ + 1, !.late = aiCall.final]
    /\ Writes /\ UNCHANGED <<camps, execRows, contacts, activity, phoneLog, today>>

FinalizeCall ==
    /\ ~aiCall.final
    /\ aiCall' = [aiCall EXCEPT !.final = TRUE, !.summary = aiCall.turns]
    /\ Writes /\ UNCHANGED <<camps, execRows, contacts, activity, phoneLog, today>>

\* CampaignRepository.delete: the campaign with its executions and calls.
DeleteCampaign(c) ==
    /\ camps[c] # "gone"
    /\ camps' = [camps EXCEPT ![c] = "gone"]
    /\ execRows' = [x \in DOMAIN execRows |-> IF x[1] = c THEN NoRow ELSE execRows[x]]
    /\ phoneLog' = Restrict(phoneLog, {i \in DOMAIN phoneLog : phoneLog[i].campaign # c})
    /\ Writes /\ UNCHANGED <<contacts, activity, aiCall, today>>

Midnight ==
    /\ today < MaxDay /\ today' = today + 1
    /\ Writes /\ UNCHANGED <<camps, execRows, contacts, activity, phoneLog, aiCall>>

Writer ==
    \/ \E x \in Campaigns \X Contacts :
          EnqueueLead(x) \/ StartCall(x) \/ EndCall(x) \/ RequeueRetry(x)
    \/ \E type \in Activities, l \in Contacts : LogActivity(type, l)
    \/ \E l \in Contacts : QualifyLead(l)
    \/ \E c \in Campaigns, parent \in {0} \cup DOMAIN phoneLog : AddCall(c, parent)
    \/ \E i \in DOMAIN phoneLog : ClassifyCall(i)
    \/ \E c \in Campaigns : DeleteCampaign(c)
    \/ SaveTurn \/ FinalizeCall \/ Midnight

-----------------------------------------------------------------------------
(* The queries of AnalyticsRepository. *)

_COMPLETED_CALL_OUTCOMES ==
    {"qualified", "meeting_booked", "completed", "opted_out", "do_not_call"}

Window     == reply.since..today
Recent     == {x \in RowsOfLeads : execRows[x].day \in Window}
Finished   == {x \in Recent : execRows[x].outcome # "none"}
LeadsOf(S) == Cardinality({x[2] : x \in S})

CampaignSummary ==
    [s \in CampStatus |-> Cardinality({c \in Campaigns : camps[c] = s})]

ExecutionSummary ==
    [total |-> Cardinality(Recent),
     by    |-> [s \in ExecStatus |-> Cardinality({x \in Recent : execRows[x].status = s})]]

LeadSummary ==
    [s \in LeadStatus |-> Cardinality({l \in Contacts : contacts[l] = s})]

Logged(type, ds) ==
    SumFunctionOnSet(activity, (Activities \cap {type}) \X Contacts \X ds)

\* The totals of a reply, then its daily trend.
EmailTotals == [type \in {"email_sent", "email_failed"} |-> Logged(type, Window)]
EmailTrend  == [d \in Window |-> [type \in {"email_sent", "email_failed"} |->
                                    Logged(type, {d})]]

LinkedInTotals == [type \in {"li_connect", "li_message", "li_failed"} |->
                    Logged(type, Window)]
LinkedInTrend  == [d \in Window |-> [type \in {"li_connect", "li_message", "li_failed"} |->
                                        Logged(type, {d})]]

\* Slip: the outcomes that are not retried are not told apart from the others.
CallClassLoose(o) == IF o \in {"completed", "voicemail"} THEN o ELSE "failed"

CallClass(o) == IF o = "voicemail" THEN "voicemail"
                ELSE IF o \in _COMPLETED_CALL_OUTCOMES THEN "completed" ELSE "failed"

ByClass(S, classes) ==
    [k \in classes |-> Cardinality({x \in S : CallClass(execRows[x].outcome) = k})]

CallTotals ==
    [attempted |-> Cardinality(Finished),
     by        |-> ByClass(Finished, {"completed", "failed", "voicemail"})]

CallTrend ==
    [d \in Window |->
        LET rows == {x \in Finished : execRows[x].day = d}
        IN  [attempted |-> Cardinality(rows),
             by        |-> ByClass(rows, {"completed", "voicemail"})]]

\* The funnel's six counts, in the order they are read.
Funnel(i) ==
    CASE i = 1 -> Cardinality(Contacts)
      [] i = 2 -> LeadsOf(Recent)
      [] i = 3 -> Cardinality({l \in Contacts : \E d \in Window :
                        activity[<<"email_sent", l, d>>] > 0})
      [] i = 4 -> LeadsOf({x \in Recent : execRows[x].outcome \in
                        {"qualified", "meeting_booked", "completed"}})
      [] i = 5 -> Cardinality({l \in Contacts : contacts[l] = "qualified"})
      [] i = 6 -> LeadsOf({x \in Recent : execRows[x].outcome = "meeting_booked"})

\* Slip: the query has no limit.
Slip_Unlimited(limit, S) == {S}

\* What a query with a limit may return of S.
Limited(limit, S) == kSubset(Min({limit, Cardinality(S)}), S)

\* The workflows with most executions in the window, of those that have any; which of
\* two with as many comes first is the database's choice.
UsesOf(c) == Cardinality({x \in Recent : x[1] = c})
Used      == {c \in Campaigns : \E x \in Recent : x[1] = c}
MostUsedWorkflows ==
    {[c \in top |-> UsesOf(c)] : top \in
        {T \in Limited(MostUsed, Used) : \A c \in T, d \in Used \ T : UsesOf(c) >= UsesOf(d)}}

\* Then the workflows whose nodes are counted, the executions in the window and the
\* workflows there are.
WorkflowAnalytics(i) ==
    CASE i = 2 -> {c \in Campaigns : camps[c] # "gone"}
      [] i = 3 -> Cardinality(Recent)
      [] i = 4 -> Cardinality({c \in Campaigns : camps[c] # "gone"})

MeetingsTrend ==
    [d \in Window |-> [c \in Campaigns |->
        Cardinality({x \in Recent : /\ x[1] = c /\ execRows[x].day = d
                                    /\ execRows[x].outcome = "meeting_booked"})]]

Trends ==
    [d \in Window |->
        LET rows == {x \in Recent : execRows[x].day = d}
        IN  [total |-> Cardinality(rows),
             by    |-> [s \in {"completed", "failed"} |->
                            Cardinality({x \in rows : execRows[x].status = s})]]]

-----------------------------------------------------------------------------
(* The queries about one campaign: CampaignScheduler.metrics, retries, the *)
(* monitor, the campaign list; and the list of AI calls.                   *)

The      == CHOOSE c \in Campaigns : TRUE
Rows     == {x \in RowsOfLeads : x[1] = The}
OfStatus(s)  == {x \in Rows : execRows[x].status = s}
OfRetry(s)   == {x \in Rows : execRows[x].retry_status = s}
TheCalls     == {i \in DOMAIN phoneLog : phoneLog[i].campaign = The}
Detected(amd) == {i \in TheCalls : phoneLog[i].amd_result = amd}

StatusCounts == [s \in ExecStatus |-> Cardinality(OfStatus(s))]

RetryStats ==
    LET attempts == SumFunction([x \in Rows |-> execRows[x].attempt_number])
        total    == Cardinality(Rows)
    IN  [total_executions   |-> total,
         total_retries      |-> Max({0, attempts - total}),
         pending_retries    |-> Cardinality(OfRetry("scheduled")),
         exhausted_retries  |-> Cardinality(OfRetry("exhausted")),
         successful_retries |-> Cardinality({x \in OfRetry("completed") :
                                                execRows[x].attempt_number > 1})]

\* voicemail_metrics: four counts in turn.
VoicemailMetrics(i) ==
    CASE i = 1 -> Cardinality(Detected("human"))
      [] i = 2 -> Cardinality(Detected("voicemail"))
      [] i = 3 -> Cardinality({k \in TheCalls : phoneLog[k].dropped})
      [] i = 4 -> Cardinality({k \in TheCalls : \E p \in DOMAIN phoneLog :
                        p = phoneLog[k].parent /\ phoneLog[p].amd_result = "voicemail"})

Metrics(i) ==
    CASE i = 1 -> StatusCounts
      [] i = 2 -> Cardinality(OfRetry("scheduled"))
      [] i = 3 -> Cardinality(Contacts)
      [] i = 4 -> RetryStats
      [] i \in 5..8 -> VoicemailMetrics(i - 4)

\* metrics' arithmetic on what its queries saw.
QueuedActiveDone(counts) == SumFunctionOnSet(counts, ExecStatus)
FailedExecutions(saw)    == Max({0, saw[1]["failed"] - saw[2]})
PendingLeads(saw)        == Max({0, saw[3] - QueuedActiveDone(saw[1])})

\* The monitor adds the rows with their leads.  The newest ones come first; updated_at
\* is left out, so any page of the rows will do.
MonitorRows == {[x \in page |-> execRows[x]] : page \in Limited(MonitorLimit, Rows)}

\* _enrich: completed calls and meetings of each campaign, in one query.
BulkOutcomeCounts ==
    [c \in Campaigns |->
        [completed |-> Cardinality({x \in RowsOfLeads : /\ x[1] = c
                            /\ execRows[x].outcome \in _COMPLETED_CALL_OUTCOMES}),
         meetings_booked |-> Cardinality({x \in RowsOfLeads : /\ x[1] = c
                            /\ execRows[x].outcome = "meeting_booked"})]]

\* list_calls: the summaries, then the transcript aggregates; the turns shown are
\* the summary's when there is one.
ListCalls(i) == IF i = 1 THEN [final |-> aiCall.final, turns |-> aiCall.summary]
                ELSE aiCall.turns
TurnsShown(saw) == IF saw[1].final THEN saw[1].turns ELSE saw[2]

-----------------------------------------------------------------------------
(* The replies. *)

Length(kind) ==
    CASE kind \in {"email", "linkedin", "call", "list_calls"} -> 2
      [] kind = "overview"  -> 3
      [] kind = "workflows" -> 4
      [] kind = "funnel"    -> 6
      [] kind = "metrics"   -> 8
      [] kind = "monitor"   -> 9
      [] kind \in {"meetings", "trends", "campaigns"} -> 1

Query(kind, i) ==
    CASE kind = "overview"  -> IF i = 1 THEN CampaignSummary
                               ELSE IF i = 2 THEN ExecutionSummary ELSE LeadSummary
      [] kind = "email"     -> IF i = 1 THEN EmailTotals ELSE EmailTrend
      [] kind = "linkedin"  -> IF i = 1 THEN LinkedInTotals ELSE LinkedInTrend
      [] kind = "call"      -> IF i = 1 THEN CallTotals ELSE CallTrend
      [] kind = "funnel"    -> Funnel(i)
      [] kind = "workflows" -> WorkflowAnalytics(i)
      [] kind = "meetings"  -> MeetingsTrend
      [] kind = "trends"    -> Trends
      [] kind = "metrics"   -> Metrics(i)
      [] kind = "monitor"   -> Metrics(i)
      [] kind = "campaigns" -> BulkOutcomeCounts
      [] kind = "list_calls" -> ListCalls(i)

\* A list that is cut off is one of several.
Answers(kind, i) ==
    IF kind = "workflows" /\ i = 1 THEN MostUsedWorkflows
    ELSE IF kind = "monitor" /\ i = 9 THEN MonitorRows
    ELSE {Query(kind, i)}

Ask ==
    /\ reply.kind = "none"
    /\ \E kind \in Kinds :
          reply' = [NoReply EXCEPT !.kind = kind,
                                   !.since = Max({0, today - days})]
    /\ UNCHANGED <<tables, writes>>

Read ==
    /\ reply.kind # "none" /\ Len(reply.saw) < Length(reply.kind)
    /\ \E answer \in Answers(reply.kind, Len(reply.saw) + 1) :
          reply' = [reply EXCEPT !.saw = Append(@, answer)]
    /\ UNCHANGED <<tables, writes>>

ReportsNext == Writer \/ Ask \/ Read

ReportsSpec == ReportsInit /\ [][ReportsNext]_repVars

-----------------------------------------------------------------------------
(* Properties. *)

Replied(kind) == reply.kind = kind /\ Len(reply.saw) = Length(kind)

DailySum(type) == SumFunction([d \in DOMAIN reply.saw[2] |-> reply.saw[2][d][type]])

\* Parked for another attempt, or over for good.
OverForGood == {x \in OfStatus("failed") : Settled(execRows[x])}

\* With no write between its queries a reply agrees with itself and with the
\* tables: the days of a trend add up to the totals; every ended call has one
\* class, the same as on the campaign's page; each step of the funnel from
\* "Workflow Started" over "Call Connected" to "Meeting Booked" is part of the
\* one before it; failed_executions are the ones no retry waits for; the leads
\* of the list are pending or enqueued; and a list that is cut off stays within the
\* counts beside it - the executions of the workflows that are used most within all
\* of the window, the monitor's rows within each status - and has all of them when
\* it is not full.  A call of the list shows all its turns, finalized or not, with
\* writes between the queries as well.
RepliesAddUp ==
    /\ Replied("list_calls") /\ ~aiCall.late => TurnsShown(reply.saw) = reply.saw[2]
    /\ reply.quiet =>
      /\ \A kind \in {"email", "linkedin"} : Replied(kind) =>
            \A type \in DOMAIN reply.saw[1] : reply.saw[1][type] = DailySum(type)
      /\ Replied("call") =>
            /\ reply.saw[1].attempted = DailySum("attempted")
            /\ reply.saw[1].attempted = SumFunction(reply.saw[1].by)
            /\ reply.since = 0 => reply.saw[1].by["completed"] =
                  SumFunction([c \in Campaigns |-> BulkOutcomeCounts[c].completed])
      /\ Replied("funnel") =>
            reply.saw[2] >= reply.saw[4] /\ reply.saw[4] >= reply.saw[6]
      /\ Replied("workflows") =>
            LET listed == DOMAIN reply.saw[1]
            IN  /\ SumFunction(reply.saw[1]) <= reply.saw[3]
                /\ Cardinality(listed) < MostUsed => SumFunction(reply.saw[1]) = reply.saw[3]
                /\ listed \subseteq reply.saw[2] /\ Cardinality(reply.saw[2]) = reply.saw[4]
      /\ (Replied("metrics") \/ Replied("monitor")) =>
            /\ FailedExecutions(reply.saw) = Cardinality(OverForGood)
            /\ PendingLeads(reply.saw) = Cardinality(Contacts) - Cardinality(Rows)
            /\ reply.saw[4].successful_retries <= reply.saw[1]["completed"]
            /\ reply.saw[7] <= reply.saw[6]
      /\ Replied("monitor") =>
            LET shown == DOMAIN reply.saw[9]
            IN  /\ Cardinality(shown) = Min({MonitorLimit, QueuedActiveDone(reply.saw[1])})
                /\ \A s \in ExecStatus :
                      Cardinality({x \in shown : reply.saw[9][x].status = s}) <= reply.saw[1][s]
=============================================================================
