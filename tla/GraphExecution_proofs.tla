------------------------ MODULE GraphExecution_proofs ------------------------
(***************************************************************************)
(* Proofs about GraphExecution, for any graphs the users may draw, any     *)
(* policy for retries, any outcomes, replies, edits and crashes: what the  *)
(* API accepts strands nobody, and - for graphs without cycles - mails go  *)
(* out once, the trail is a walk, and calls keep to their budget.          *)
(***************************************************************************)
EXTENDS GraphExecution, SequenceTheorems, FiniteSetTheorems, WellFoundedInduction, TLAPS

\* The row goes on, or somebody may yet go on with it.
Waits(r) == r.status \in {"queued", "running"} \/ r.retry_status = "scheduled"

\* The row and the run that has taken it from the table.
RunInv ==
    /\ \A i \in 1..Len(versions) : ValidGraph(versions[i])
    /\ ValidGraph(run.graph)
    /\ ~Edited => run.graph = Graph
    /\ ~Edited => row.node \in NodeIds(Graph) /\ run.work.node \in NodeIds(Graph)
    /\ row.status \in {"queued", "running"} => row.retry_status = "pending"
    /\ call.leg = "live" => run.pc = "idle" /\ row.status = "running" /\ setup.telephony
    /\ run.pc # "idle" =>
          /\ row.status \in {"queued", "running"} /\ row.next_retry_at # "later"
          /\ run.work.retry_status = "pending" /\ run.work.next_retry_at # "later"
          /\ run.work.attempt_number = row.attempt_number
    /\ run.pc \in {"plan", "post"} =>
          /\ run.work = row /\ row.status = "running"
          /\ Node(run.graph, row.node).type = "CALL"
    /\ run.pc = "plan" => ~setup.telephony
    /\ run.pc = "post" => setup.telephony

WalkInv == TypeOK /\ RunInv /\ NeverStranded

-----------------------------------------------------------------------------

\* From pos on no mail has gone out but those of runs that crashed.
Ahead(rank, pos, sent, crashed) == \A n \in AllIds : rank[n] >= rank[pos] => sent[n] <= crashed

MailInv(layer) ==
    ~Edited \/ SameOrder(layer) =>
        /\ MailRepeatsOnlyAfterCrash
        /\ Waits(row) /\ run.pc = "idle" => Ahead(layer[Graph], row.node, mail.sent, crashes)
        /\ run.pc # "idle" => Ahead(layer[run.graph], run.work.node, mail.sent, crashes)

\* What TrailIsAWalk says of a trail and the outputs.
Walked(g, trail, outputs) ==
    /\ trail # <<>> => trail[1] = EntryNode(g)
    /\ \A i \in 1..(Len(trail) - 1) :
          \/ MayFollow(g, trail[i], trail[i + 1], outputs)
          \/ trail[i] = trail[i + 1] /\ Node(g, trail[i]).type = "CALL"

\* The walk has come to node n, and to no later layer.
Stands(g, rank, trail, outputs, n) ==
    /\ IF trail = <<>> THEN n = EntryNode(g)
       ELSE \/ MayFollow(g, trail[Len(trail)], n, outputs)
            \/ trail[Len(trail)] = n /\ Node(g, n).type = "CALL"
    /\ \A i \in 1..Len(trail) : rank[trail[i]] <= rank[n]

\* A negative reply is a reply.
Replies(outputs) == \A n \in AllIds : "negative_reply" \in outputs[n] => "replied" \in outputs[n]

TrailInv(layer) ==
    ~Edited =>
        /\ Walked(Graph, row.trail, row.outputs) /\ Replies(row.outputs)
        /\ Walked(Graph, run.work.trail, run.work.outputs) /\ Replies(run.work.outputs)
        /\ Waits(row) => Stands(Graph, layer[Graph], row.trail, row.outputs, row.node)
        /\ run.pc # "idle" =>
              Stands(Graph, layer[Graph], run.work.trail, run.work.outputs, run.work.node)
        /\ call.leg = "live" \/ run.pc = "post" =>
              /\ row.trail # <<>> /\ row.trail[Len(row.trail)] = row.node
              /\ Node(Graph, row.node).type = "CALL"

CallsOf(g, trail) == {trail[i] : i \in {j \in DOMAIN trail : Node(g, trail[j]).type = "CALL"}}

\* Calls placed: at most one for each attempt, and one more for each further CALL.
Spent(g, r, used) == used <= r.attempt_number - 1 + Cardinality(CallsOf(g, r.trail))

\* The CALL the row stands on may be placed once more.
Affords(g, r, used) == r.node \in CallsOf(g, r.trail) => Spent(g, r, used + 1)

BudgetInv ==
    /\ ~setup.telephony => call.dials = 0
    /\ ~Edited /\ setup.telephony =>
          /\ Spent(Graph, row, call.dials)
          /\ row.status = "queued" \/ row.retry_status = "scheduled" => Affords(Graph, row, call.dials)
          /\ run.pc = "node" => Spent(Graph, run.work, call.dials) /\ Affords(Graph, run.work, call.dials)
          /\ run.pc = "post" => Spent(Graph, row, call.dials + 1)

-----------------------------------------------------------------------------
(* Graphs. *)

\* A set of positions has a least one.
LEMMA LeastIsIn == ASSUME NEW T, T \subseteq Nat, T # {} PROVE Min(T) \in T
<1>1. PICK R : R = OpToRel(<, Nat)
  OBVIOUS
<1>2. IsWellFoundedOn(R, Nat)
  BY <1>1, NatLessThanWellFounded
<1>3. PICK x \in T : \A y \in T : ~ (<<y, x>> \in R)
  BY <1>2, WFMin
<1>4. ASSUME NEW y \in T PROVE x =< y
  <2>1. x \in Nat /\ y \in Nat
    OBVIOUS
  <2>2. y < x => <<y, x>> \in R
    BY <1>1, <2>1 DEF OpToRel
  <2>3. ~ (y < x)
    BY <1>3, <2>2
  <2> QED BY <2>1, <2>3
<1> QED BY <1>4 DEF Min

\* What a graph is made of.
LEMMA GraphIs ==
    ASSUME NEW g \in Candidates
    PROVE  /\ DOMAIN g.nodes \subseteq Nat /\ DOMAIN g.edges \subseteq Nat
           /\ NoNode \notin NodeIds(g)
           /\ NodeIds(g) \subseteq AllIds
           /\ \A n \in NodeIds(g) : Node(g, n).id = n
                                    /\ \E i \in DOMAIN g.nodes : g.nodes[i] = Node(g, n)
<1>1. Drawable(g)
  BY GraphAssumption
<1>2. DOMAIN g.nodes \subseteq Nat
  BY <1>1 DEF Drawable
<1>3. DOMAIN g.edges \subseteq Nat
  BY <1>1 DEF Drawable
<1>4. NoNode \notin NodeIds(g)
  BY <1>1 DEF Drawable, NodeIds
<1>5. NodeIds(g) \subseteq AllIds
  BY DEF AllIds
<1>6. ASSUME NEW n \in NodeIds(g)
      PROVE  Node(g, n).id = n /\ \E i \in DOMAIN g.nodes : g.nodes[i] = Node(g, n)
  <2>1. PICK i \in DOMAIN g.nodes : g.nodes[i].id = n
    BY DEF NodeIds
  <2>2. g.nodes[i] \in {g.nodes[j] : j \in DOMAIN g.nodes}
    OBVIOUS
  <2>3. Node(g, n) \in {g.nodes[j] : j \in DOMAIN g.nodes} /\ Node(g, n).id = n
    BY <2>1, <2>2 DEF Node
  <2> QED BY <2>3
<1> QED BY <1>2, <1>3, <1>4, <1>5, <1>6

\* Where edges lead.
LEMMA FollowIs ==
    ASSUME NEW g \in Candidates, NEW es, es \subseteq DOMAIN g.edges
    PROVE  /\ Follow(g, es) # NoNode => /\ Follow(g, es) \in NodeIds(g)
                                        /\ \E e \in es : g.edges[e].target = Follow(g, es)
           /\ es # {} /\ (\A e \in es : g.edges[e].target \in NodeIds(g)) => Follow(g, es) # NoNode
<1>1. es # {} => Min(es) \in es
  BY GraphIs, LeastIsIn
<1>2. ASSUME Follow(g, es) # NoNode
      PROVE  Follow(g, es) \in NodeIds(g) /\ \E e \in es : g.edges[e].target = Follow(g, es)
  BY <1>1, <1>2 DEF Follow
<1>3. ASSUME es # {}, \A e \in es : g.edges[e].target \in NodeIds(g)
      PROVE  Follow(g, es) # NoNode
  BY <1>1, <1>3, GraphIs DEF Follow
<1> QED BY <1>2, <1>3

\* The next node is one of the graph, at the end of an edge.
LEMMA NextNodeIs ==
    ASSUME NEW g \in Candidates, NEW n, NEW next, next = NextNode(g, n), next # NoNode
    PROVE  next \in NodeIds(g) /\ \E e \in Outbound(g, n) : g.edges[e].target = next
<1>1. PICK es : es = {e \in Outbound(g, n) : g.edges[e].target \in NodeIds(g)}
  OBVIOUS
<1>2. es \subseteq DOMAIN g.edges /\ es \subseteq Outbound(g, n) /\ next = Follow(g, es)
  BY <1>1 DEF NextNode, Outbound
<1> QED BY <1>2, FollowIs

\* A CONDITION of a valid graph has an edge for its result, and it leads to a node.
LEMMA ConditionTargetIs ==
    ASSUME NEW g \in Candidates, ValidGraph(g), NEW n \in NodeIds(g), Node(g, n).type = "CONDITION",
           NEW label \in {"TRUE", "FALSE"}, NEW next, next = ConditionTarget(g, n, label)
    PROVE  /\ next # NoNode /\ next \in NodeIds(g)
           /\ \E e \in Outbound(g, n) : g.edges[e].target = next /\ g.edges[e].condition = label
<1>1. HasBranches(g, n)
  BY GraphIs DEF ValidGraph
<1>2. PICK es : es = {e \in Outbound(g, n) : g.edges[e].condition = label}
  OBVIOUS
<1>3. es # {} /\ es \subseteq DOMAIN g.edges /\ es \subseteq Outbound(g, n)
  BY <1>1, <1>2 DEF HasBranches, Outbound
<1>4. next = Follow(g, es)
  BY <1>2, <1>3 DEF ConditionTarget
<1>5. \A e \in es : g.edges[e].target \in NodeIds(g)
  BY <1>3 DEF ValidGraph, WellFormed
<1>6. next # NoNode /\ next \in NodeIds(g) /\ \E e \in es : g.edges[e].target = next
  BY <1>3, <1>4, <1>5, FollowIs
<1> QED BY <1>2, <1>3, <1>6

\* A valid graph has an entry.
LEMMA EntryNodeIs == ASSUME NEW g \in Candidates, ValidGraph(g) PROVE EntryNode(g) \in NodeIds(g)
<1>1. Roots(g) # {} /\ Roots(g) \subseteq DOMAIN g.nodes
  BY DEF ValidGraph, Roots
<1>2. Min(Roots(g)) \in Roots(g)
  BY <1>1, GraphIs, LeastIsIn
<1> QED BY <1>1, <1>2 DEF EntryNode, NodeIds

-----------------------------------------------------------------------------
(* Rows. *)

\* The row of a node whose handler has run, and one with other outputs.
WentOn(w, facts)   == [w EXCEPT !.trail = Append(w.trail, w.node),
                                !.outputs = [w.outputs EXCEPT ![w.node] = facts]]
Learnt(w, outputs) == [w EXCEPT !.outputs = outputs]

\* A handler runs: the trail and one output have changed.
LEMMA WentOnIs ==
    ASSUME NEW w \in Row, NEW facts \in SUBSET Fact, NEW v, v = WentOn(w, facts)
    PROVE  /\ v \in Row /\ v.node = w.node /\ v.status = w.status /\ v.retry_status = w.retry_status
           /\ v.attempt_number = w.attempt_number /\ v.next_retry_at = w.next_retry_at
           /\ v.trail = Append(w.trail, w.node) /\ v.outputs = [w.outputs EXCEPT ![w.node] = facts]
<1>1. PICK trail : trail = Append(w.trail, w.node)
  OBVIOUS
<1>2. PICK outputs : outputs = [w.outputs EXCEPT ![w.node] = facts]
  OBVIOUS
<1>3. w.node \in AllIds /\ w.trail \in Seq(AllIds) /\ w.outputs \in [AllIds -> SUBSET Fact]
  BY DEF Row
<1>4. trail \in Seq(AllIds)
  BY <1>1, <1>3, AppendProperties
<1>5. outputs \in [AllIds -> SUBSET Fact]
  BY <1>2, <1>3
<1>6. v = [w EXCEPT !.trail = trail, !.outputs = outputs]
  BY <1>1, <1>2 DEF WentOn
<1>7. /\ v \in Row /\ v.node = w.node /\ v.status = w.status /\ v.retry_status = w.retry_status
      /\ v.attempt_number = w.attempt_number /\ v.next_retry_at = w.next_retry_at
      /\ v.trail = trail /\ v.outputs = outputs
  BY <1>4, <1>5, <1>6 DEF Row
<1> QED BY <1>1, <1>2, <1>7

\* Other facts of the nodes become known.
LEMMA LearntIs ==
    ASSUME NEW w \in Row, NEW outputs \in [AllIds -> SUBSET Fact], NEW v, v = Learnt(w, outputs)
    PROVE  /\ v \in Row /\ v.node = w.node /\ v.status = w.status /\ v.retry_status = w.retry_status
           /\ v.attempt_number = w.attempt_number /\ v.next_retry_at = w.next_retry_at
           /\ v.trail = w.trail /\ v.outputs = outputs
BY DEF Row, Learnt

\* The row is pointed at another node.
At(v, n) == [v EXCEPT !.node = n]

\* A row pointed elsewhere is otherwise what it was.
LEMMA AtIs ==
    ASSUME NEW w \in Row, NEW n \in AllIds, NEW v, v = At(w, n)
    PROVE  /\ v \in Row /\ v.node = n /\ v.status = w.status /\ v.retry_status = w.retry_status
           /\ v.attempt_number = w.attempt_number /\ v.next_retry_at = w.next_retry_at
           /\ v.trail = w.trail /\ v.outputs = w.outputs
BY DEF Row, At

\* A row that is over.
LEMMA CompletedIs ==
    ASSUME NEW w \in Row, NEW v, v = Completed(w)
    PROVE  /\ v \in Row /\ v.trail = w.trail /\ v.outputs = w.outputs /\ v.node = w.node
           /\ v.attempt_number = w.attempt_number
           /\ v.status = "completed" /\ v.retry_status = "completed"
BY DEF Row, Completed, ExecStatus, RetryStatus

\* A row that has failed, and is over unless a retry is scheduled.
LEMMA FailedIs ==
    ASSUME NEW w \in Row, NEW v, v = Failed(w)
    PROVE  /\ v \in Row /\ v.trail = w.trail /\ v.outputs = w.outputs /\ v.node = w.node
           /\ v.attempt_number = w.attempt_number
           /\ v.status = "failed" /\ v.retry_status = w.retry_status
BY DEF Row, Failed, ExecStatus

\* A row that WAIT has parked.
LEMMA ParkedIs ==
    ASSUME NEW w \in Row, NEW n \in AllIds, NEW v, v = Parked(w, n)
    PROVE  /\ v \in Row /\ v.trail = w.trail /\ v.outputs = w.outputs /\ v.node = n
           /\ v.attempt_number = w.attempt_number
           /\ v.status = "queued" /\ v.retry_status = "pending"
BY DEF Row, Parked, ExecStatus, RetryStatus, NextRetryAt

\* What an outcome makes of a row: it is parked for another attempt, with the next
\* number, or it is over.
LEMMA OutcomeIs ==
    ASSUME NEW w \in Row, NEW o, NEW v, v = ProcessOutcome(w, o)
    PROVE  /\ v \in Row /\ v.trail = w.trail /\ v.outputs = w.outputs /\ v.node = w.node
           /\ v.status \in {"completed", "failed"} /\ v.retry_status # "pending"
           /\ IF v.retry_status = "scheduled" THEN v.attempt_number = w.attempt_number + 1
              ELSE v.attempt_number = w.attempt_number
           /\ v.status = "completed" => v.retry_status = "completed"
<1>1. PICK status \in {"completed", "failed"} : status = IF IsRetryable(o) THEN "failed" ELSE "completed"
  BY Zenon
<1>2. PICK retry : retry = RetryStatusAfter(w, o)
  OBVIOUS
<1>3. PICK number : number = IF Again(w, o) THEN w.attempt_number + 1 ELSE w.attempt_number
  OBVIOUS
<1>4. PICK at \in {"later", "none"} : at = IF Again(w, o) THEN "later" ELSE "none"
  BY Zenon
<1>5. PICK context : context = [w.context EXCEPT !.retry_history = w.context.retry_history \cup {AttemptThatRan(w)}]
  OBVIOUS
<1>6. w.attempt_number \in 1..MaxAttempts /\ w.context \in [retry_history : SUBSET (1..MaxAttempts)]
  BY DEF Row
<1>7. /\ retry \in {"completed", "none", "scheduled", "exhausted"}
      /\ retry = "scheduled" <=> Again(w, o)
      /\ status = "completed" => retry = "completed"
  BY <1>1, <1>2 DEF RetryStatusAfter, Again
<1>8. number \in 1..MaxAttempts /\ number = IF retry = "scheduled" THEN w.attempt_number + 1 ELSE w.attempt_number
  BY <1>3, <1>6, <1>7, RetryAssumption DEF Again, AttemptsLeft
<1>9. context \in [retry_history : SUBSET (1..MaxAttempts)]
  <2>1. PICK c : c = w.context
    OBVIOUS
  <2>2. PICK h : h = c.retry_history \cup {w.attempt_number}
    OBVIOUS
  <2>3. c.retry_history \in SUBSET (1..MaxAttempts) /\ c \in [retry_history : SUBSET (1..MaxAttempts)]
    BY <1>6, <2>1
  <2>4. h \in SUBSET (1..MaxAttempts)
    BY <1>6, <2>2, <2>3
  <2>5. context = [c EXCEPT !.retry_history = h]
    BY <1>5, <2>1, <2>2 DEF AttemptThatRan
  <2> QED BY <2>3, <2>4, <2>5
<1>10. v = [w EXCEPT !.status = status, !.retry_status = retry, !.attempt_number = number,
                     !.next_retry_at = at, !.context = context]
  BY <1>1, <1>2, <1>3, <1>4, <1>5 DEF ProcessOutcome
<1>11. /\ v \in Row /\ v.trail = w.trail /\ v.outputs = w.outputs /\ v.node = w.node
       /\ v.status = status /\ v.retry_status = retry /\ v.attempt_number = number
  BY <1>7, <1>8, <1>9, <1>10 DEF Row, ExecStatus, RetryStatus, NextRetryAt
<1> QED BY <1>7, <1>8, <1>11

\* The callback moves a row on that is over with its CALL.
LEMMA MovedOnIs ==
    ASSUME NEW w \in Row, NEW g \in Candidates, NEW o, NEW v, v = MovedOn(g, w, o)
    PROVE  /\ v \in Row /\ v.trail = w.trail /\ v.outputs = w.outputs
           /\ \/ /\ v.node = w.node /\ v.status \in {"completed", "failed"} /\ v.retry_status # "pending"
                 /\ IF v.retry_status = "scheduled" THEN v.attempt_number = w.attempt_number + 1
                    ELSE v.attempt_number = w.attempt_number
              \/ /\ v.node = NextNode(g, w.node) /\ v.node # NoNode
                 /\ v.status = "queued" /\ v.retry_status = "pending"
                 /\ v.attempt_number = w.attempt_number
<1>1. PICK done : done = ProcessOutcome(w, o)
  OBVIOUS
<1>2. PICK next : next = NextNode(g, w.node)
  OBVIOUS
<1>3. /\ done \in Row /\ done.trail = w.trail /\ done.outputs = w.outputs /\ done.node = w.node
      /\ done.status \in {"completed", "failed"} /\ done.retry_status # "pending"
      /\ IF done.retry_status = "scheduled" THEN done.attempt_number = w.attempt_number + 1
         ELSE done.attempt_number = w.attempt_number
      /\ done.status = "completed" => done.retry_status = "completed"
  BY <1>1, OutcomeIs
<1>4. CASE done.status = "completed" /\ next # NoNode
  <2>1. v = [done EXCEPT !.node = next, !.status = "queued", !.retry_status = "pending"]
    BY <1>1, <1>2, <1>4 DEF MovedOn
  <2>2. next \in AllIds
    BY <1>2, <1>4, NextNodeIs, GraphIs
  <2>3. /\ v \in Row /\ v.trail = done.trail /\ v.outputs = done.outputs /\ v.node = next
        /\ v.status = "queued" /\ v.retry_status = "pending" /\ v.attempt_number = done.attempt_number
    BY <1>3, <2>1, <2>2 DEF Row, ExecStatus, RetryStatus
  <2> QED BY <1>2, <1>3, <1>4, <2>3
<1>5. CASE ~(done.status = "completed" /\ next # NoNode)
  <2>1. v = done
    BY <1>1, <1>2, <1>5 DEF MovedOn
  <2> QED BY <1>3, <2>1
<1> QED BY <1>4, <1>5

-----------------------------------------------------------------------------
(* The steps of the run loop, by what they do to the row it works on. *)

\* The run goes on with v in graph g; it has stopped, and committed r.
Moves(g, v) == run' = [pc |-> "node", graph |-> g, work |-> v] /\ row' = row
Rests(r)    == run' = [pc |-> "idle", graph |-> run.graph, work |-> r] /\ row' = r

\* The state before a step.
LEMMA StateIs ==
    ASSUME TypeOK
    PROVE  /\ Graph \in Candidates /\ run.graph \in Candidates /\ row \in Row /\ run.work \in Row
           /\ run.pc \in {"idle", "node", "plan", "post"}
           /\ run = [pc |-> run.pc, graph |-> run.graph, work |-> run.work]
           /\ versions \in Seq(Candidates) /\ Len(versions) \in 1..MaxVersions
           /\ Here \in AllIds /\ row.node \in AllIds
<1>1. run \in [pc : {"idle", "node", "plan", "post"}, graph : Candidates, work : Row] /\ row \in Row
  BY DEF TypeOK
<1>2. versions \in Seq(Candidates) /\ Len(versions) \in 1..MaxVersions
  BY DEF TypeOK
<1>3. Graph \in Candidates
  <2>1. Len(versions) \in 1..Len(versions)
    BY <1>2
  <2>2. versions[Len(versions)] \in Candidates
    BY <1>2, <2>1, ElementOfSeq
  <2> QED BY <2>2 DEF Graph, Last
<1>4. row.node \in AllIds /\ \A w \in Row : w.node \in AllIds
  BY <1>1 DEF Row
<1> QED BY <1>1, <1>2, <1>3, <1>4 DEF Here

\* The handler of the node has run, and advance_execution is called.
LEMMA AdvanceIs ==
    ASSUME TypeOK, NEW v \in Row, v.node = Here, Here \in NodeIds(run.graph), run.pc = "node", Advance(v)
    PROVE  \/ Rests(Completed(v))
           \/ \E next \in NodeIds(run.graph) :
                 /\ \E e \in Outbound(run.graph, Here) : run.graph.edges[e].target = next
                 /\ Moves(run.graph, At(v, next))
<1>1. PICK next : next = NextNode(run.graph, Here)
  OBVIOUS
<1>2. CASE next = NoNode
  BY <1>1, <1>2 DEF Advance, Commit, IdleRun, Rests
<1>3. CASE next # NoNode
  <2>1. next \in NodeIds(run.graph) /\ \E e \in Outbound(run.graph, Here) : run.graph.edges[e].target = next
    BY <1>1, <1>3, StateIs, NextNodeIs
  <2>2. run' = [run EXCEPT !.pc = "node", !.work = [v EXCEPT !.node = next]] /\ row' = row
    BY <1>1, <1>3 DEF Advance
  <2>3. run' = [pc |-> "node", graph |-> run.graph, work |-> [v EXCEPT !.node = next]]
    BY <2>2, StateIs
  <2> QED BY <2>1, <2>2, <2>3 DEF Moves, At
<1> QED BY <1>2, <1>3

\* Ran is WentOn of the row the run works on.
LEMMA RanIs == ASSUME TypeOK, NEW facts PROVE Ran(facts) = WentOn(run.work, facts)
<1>1. PICK w : w = run.work
  OBVIOUS
<1>2. w \in Row
  BY <1>1, StateIs
<1>3. [w EXCEPT !.trail = Append(@, w.node), !.outputs[w.node] = facts]
      = [w EXCEPT !.trail = Append(w.trail, w.node), !.outputs = [w.outputs EXCEPT ![w.node] = facts]]
  BY <1>2 DEF Row
<1> QED BY <1>1, <1>3 DEF Ran, Here, WentOn

\* What a handler leaves of the other nodes' outputs: a later poll may add a reply,
\* and takes none away.
Keeps(old, new, n) ==
    /\ \A m \in AllIds : m # n =>
          /\ \A f \in {"sent", "completed", "failed"} : f \in old[m] <=> f \in new[m]
          /\ Replies(old) => \A f \in {"replied", "negative_reply"} : f \in old[m] => f \in new[m]
    /\ Replies(old) => Replies(new)

\* The work row once the handler of its node has run.
Handled(w, v) ==
    /\ v \in Row /\ v.node = w.node
    /\ v.retry_status = w.retry_status /\ v.attempt_number = w.attempt_number
    /\ v.next_retry_at = w.next_retry_at
    /\ v.trail = Append(w.trail, w.node)
    /\ Keeps(w.outputs, v.outputs, w.node)

\* An edge leads from n to next, and if the run has come upon n as a CONDITION that
\* looks at another node, the edge is the one for its result.
Leads(g, n, next, outputs) ==
    /\ next \in NodeIds(g)
    /\ \E e \in Outbound(g, n) :
          /\ g.edges[e].target = next
          /\ g = run.graph /\ Node(g, n).type = "CONDITION" /\ Node(g, n).source # n =>
                \/ g.edges[e].condition = "FALSE"
                \/ /\ g.edges[e].condition = "TRUE"
                   /\ EvaluateCondition(Node(g, n).config, OutputOf(outputs, Node(g, n).source))

\* Where the run is after the handler: at an end, at the next node, or parked there.
WentTo(v) ==
    \/ Rests(Completed(v))
    \/ Rests(Failed(v)) /\ (run.pc = "plan" \/ This.config \in {"bad unit", "unknown"})
    \/ \E g \in {run.graph, Graph} : \E next \in AllIds :
          /\ run.pc = "node" => g = run.graph
          /\ Leads(g, Here, next, v.outputs)
          /\ Moves(g, At(v, next)) \/ Rests(Parked(v, next))

\* Any handler but the dial's has run.
HandlerStep ==
    /\ run.pc \in {"node", "plan"}
    /\ run.pc = "node" => Here \in NodeIds(run.graph) /\ This.type # "CALL"
    /\ \E v \in Row : Handled(run.work, v) /\ WentTo(v)
    /\ lead' \in {"open", "lost"}
    /\ mail' = mail \/ (This.type = "EMAIL" /\ mail' = [mail EXCEPT !.sent[Here] = @ + 1])
    /\ UNCHANGED <<campaign, setup, versions, call, crashes>>

\* The row of a handler that looks at no other output.
LEMMA RanIsHandled ==
    ASSUME TypeOK, NEW facts \in SUBSET Fact, "replied" \notin facts, "negative_reply" \notin facts,
           NEW v, v = Ran(facts)
    PROVE  v \in Row /\ Handled(run.work, v) /\ v.node = Here
<1>1. PICK w \in Row : w = run.work
  BY StateIs
<1>2. v = WentOn(w, facts)
  BY <1>1, RanIs
<1>3. /\ v \in Row /\ v.node = w.node /\ v.status = w.status /\ v.retry_status = w.retry_status
      /\ v.attempt_number = w.attempt_number /\ v.next_retry_at = w.next_retry_at
      /\ v.trail = Append(w.trail, w.node) /\ v.outputs = [w.outputs EXCEPT ![w.node] = facts]
  BY <1>2, WentOnIs
<1>4. w.outputs \in [AllIds -> SUBSET Fact] /\ w.node \in AllIds
  BY DEF Row
<1>5. Keeps(w.outputs, v.outputs, w.node)
  <2>1. \A m \in AllIds : v.outputs[m] = IF m = w.node THEN facts ELSE w.outputs[m]
    BY <1>3, <1>4
  <2>2. Replies(w.outputs) => Replies(v.outputs)
    BY <2>1 DEF Replies
  <2> QED BY <2>1, <2>2 DEF Keeps
<1> QED BY <1>1, <1>3, <1>5 DEF Handled, Here

\* After a handler that advances and is no CONDITION, the run has gone to one of the places.
LEMMA AdvancedIs ==
    ASSUME TypeOK, NEW v \in Row, v.node = Here, Here \in NodeIds(run.graph), run.pc = "node",
           This.type # "CONDITION", Advance(v)
    PROVE  WentTo(v)
<1>1. CASE Rests(Completed(v))
  BY <1>1 DEF WentTo
<1>2. CASE \E next \in NodeIds(run.graph) :
              /\ \E e \in Outbound(run.graph, Here) : run.graph.edges[e].target = next
              /\ Moves(run.graph, At(v, next))
  <2>1. PICK next \in NodeIds(run.graph) :
              /\ \E e \in Outbound(run.graph, Here) : run.graph.edges[e].target = next
              /\ Moves(run.graph, At(v, next))
    BY <1>2
  <2>2. next \in AllIds
    BY StateIs, GraphIs
  <2>3. Leads(run.graph, Here, next, v.outputs)
    BY <2>1 DEF Leads, This
  <2> QED BY <2>1, <2>2, <2>3 DEF WentTo
<1> QED BY <1>1, <1>2, AdvanceIs

\* EMAIL, whether it sends or not.
LEMMA EmailIsHandler == ASSUME TypeOK, EmailSkipOrFail \/ EmailSend PROVE HandlerStep
<1>1. run.pc = "node" /\ Here \in NodeIds(run.graph) /\ This.type = "EMAIL"
  BY DEF EmailSkipOrFail, EmailSend, Runs
<1>2. lead \in {"open", "lost"}
  BY DEF TypeOK
<1>3. CASE EmailSkipOrFail
  <2>1. PICK v : v = Ran({})
    OBVIOUS
  <2>2. v \in Row /\ Handled(run.work, v) /\ v.node = Here
    BY <2>1, RanIsHandled
  <2>3. WentTo(v)
    BY <1>1, <1>3, <2>1, <2>2, AdvancedIs DEF EmailSkipOrFail
  <2> QED BY <1>1, <1>2, <1>3, <2>2, <2>3 DEF HandlerStep, EmailSkipOrFail
<1>4. CASE EmailSend
  <2>1. PICK u : u = Ran({"sent"})
    OBVIOUS
  <2>2. u \in Row /\ Handled(run.work, u) /\ u.node = Here
    BY <2>1, RanIsHandled DEF Fact
  <2>3. PICK v : v = [u EXCEPT !.thread = TRUE]
    OBVIOUS
  <2>4. /\ v \in Row /\ v.node = u.node /\ v.retry_status = u.retry_status
        /\ v.attempt_number = u.attempt_number /\ v.next_retry_at = u.next_retry_at
        /\ v.trail = u.trail /\ v.outputs = u.outputs
    BY <2>2, <2>3 DEF Row
  <2>5. Handled(run.work, v)
    BY <2>2, <2>4 DEF Handled
  <2>6. Advance(v)
    BY <1>4, <2>1, <2>3 DEF EmailSend
  <2>7. WentTo(v)
    BY <1>1, <2>2, <2>4, <2>6, AdvancedIs
  <2>8. mail' = [mail EXCEPT !.sent[Here] = @ + 1] /\ UNCHANGED <<campaign, setup, versions, call, lead, crashes>>
    BY <1>4 DEF EmailSend
  <2> QED BY <1>1, <1>2, <2>4, <2>5, <2>7, <2>8 DEF HandlerStep
<1> QED BY <1>3, <1>4

\* LINKEDIN, and a WAIT of no length.
LEMMA SkipIsHandler == ASSUME TypeOK, LinkedInAct \/ WaitSkip PROVE HandlerStep
<1>1. run.pc = "node" /\ Here \in NodeIds(run.graph) /\ This.type \in {"LINKEDIN", "WAIT"}
  BY DEF LinkedInAct, WaitSkip, Runs
<1>2. PICK v : v = Ran({})
  OBVIOUS
<1>3. v \in Row /\ Handled(run.work, v) /\ v.node = Here
  BY <1>2, RanIsHandled
<1>4. Advance(v)
  BY <1>2 DEF LinkedInAct, WaitSkip
<1>5. WentTo(v)
  BY <1>1, <1>3, <1>4, AdvancedIs
<1>6. lead \in {"open", "lost"} /\ UNCHANGED <<campaign, setup, versions, call, mail, lead, crashes>>
  BY DEF TypeOK, LinkedInAct, WaitSkip
<1> QED BY <1>1, <1>3, <1>5, <1>6 DEF HandlerStep

\* A WAIT parks the row at the node after it, or is the last.
LEMMA ParkIsHandler == ASSUME TypeOK, WaitPark PROVE HandlerStep
<1>1. run.pc = "node" /\ Here \in NodeIds(run.graph) /\ This.type = "WAIT"
  BY DEF WaitPark, Runs
<1>2. PICK v : v = Ran({})
  OBVIOUS
<1>3. v \in Row /\ Handled(run.work, v) /\ v.node = Here
  BY <1>2, RanIsHandled
<1>4. PICK next : next = NextNode(run.graph, Here)
  OBVIOUS
<1>5. WentTo(v)
  <2>1. CASE next = NoNode
    <3>1. Rests(Completed(v))
      BY <1>2, <1>4, <2>1 DEF WaitPark, Commit, IdleRun, Rests
    <3> QED BY <3>1 DEF WentTo
  <2>2. CASE next # NoNode
    <3>1. Rests(Parked(v, next))
      BY <1>2, <1>4, <2>2 DEF WaitPark, Commit, IdleRun, Rests
    <3>2. /\ next \in NodeIds(run.graph)
          /\ \E e \in Outbound(run.graph, Here) : run.graph.edges[e].target = next
      BY <1>4, <2>2, StateIs, NextNodeIs
    <3>3. next \in AllIds
      BY <3>2, StateIs, GraphIs
    <3>4. Leads(run.graph, Here, next, v.outputs)
      BY <1>1, <3>2 DEF Leads, This
    <3> QED BY <3>1, <3>3, <3>4 DEF WentTo
  <2> QED BY <2>1, <2>2
<1>6. lead \in {"open", "lost"} /\ UNCHANGED <<campaign, setup, versions, call, mail, lead, crashes>>
  BY DEF TypeOK, WaitPark
<1> QED BY <1>1, <1>3, <1>5, <1>6 DEF HandlerStep

\* A node whose fields nobody can use.
LEMMA FailIsHandler ==
    ASSUME TypeOK, WaitBadUnit \/ ConditionUnknown
    PROVE  HandlerStep
<1>1. run.pc = "node" /\ Here \in NodeIds(run.graph) /\ This.type \in {"WAIT", "CONDITION"}
  BY DEF WaitBadUnit, ConditionUnknown, Runs
<1>2. PICK v : v = Ran({})
  OBVIOUS
<1>3. v \in Row /\ Handled(run.work, v) /\ v.node = Here
  BY <1>2, RanIsHandled
<1>4. Rests(Failed(v))
  BY <1>2 DEF WaitBadUnit, ConditionUnknown, Commit, IdleRun, Rests
<1>5. This.config \in {"bad unit", "unknown"}
  <2>1. CASE WaitBadUnit
    BY <2>1 DEF WaitBadUnit
  <2>2. CASE ConditionUnknown
    <3>1. PICK i \in DOMAIN run.graph.nodes : run.graph.nodes[i] = This
      BY <1>1, StateIs, GraphIs DEF This
    <3>2. Drawable(run.graph)
      BY StateIs, GraphAssumption
    <3>3. This.type = "CONDITION" /\ This.config \notin CONDITION_TYPES
      BY <2>2 DEF ConditionUnknown, Runs
    <3> QED BY <3>1, <3>2, <3>3 DEF Drawable
  <2> QED BY <2>1, <2>2
<1>6. WentTo(v)
  BY <1>4, <1>5 DEF WentTo
<1>7. lead \in {"open", "lost"} /\ UNCHANGED <<campaign, setup, versions, call, mail, lead, crashes>>
  BY DEF TypeOK, WaitBadUnit, ConditionUnknown
<1> QED BY <1>1, <1>3, <1>6, <1>7 DEF HandlerStep

\* STOP writes no output.
LEMMA StopIsHandler == ASSUME TypeOK, Stop PROVE HandlerStep
<1>1. PICK w \in Row : w = run.work
  BY StateIs
<1>2. PICK v : v = [w EXCEPT !.trail = Append(w.trail, w.node)]
  OBVIOUS
<1>3. w.trail \in Seq(AllIds) /\ w.node \in AllIds
  BY DEF Row
<1>4. PICK trail \in Seq(AllIds) : trail = Append(w.trail, w.node)
  BY <1>3, AppendProperties
<1>5. /\ v \in Row /\ v.node = w.node /\ v.retry_status = w.retry_status
      /\ v.attempt_number = w.attempt_number /\ v.next_retry_at = w.next_retry_at
      /\ v.trail = trail /\ v.outputs = w.outputs
  BY <1>2, <1>4 DEF Row
<1>6. Handled(w, v)
  BY <1>4, <1>5 DEF Handled, Keeps
<1>7. [w EXCEPT !.trail = Append(@, w.node)] = v
  BY <1>2
<1>8. Rests(Completed(v))
  BY <1>1, <1>7 DEF Stop, Here, Commit, IdleRun, Rests
<1>9. WentTo(v)
  BY <1>8 DEF WentTo
<1>10. run.pc = "node" /\ Here \in NodeIds(run.graph) /\ This.type = "STOP"
  BY DEF Stop, Runs
<1>11. lead \in {"open", "lost"} /\ UNCHANGED <<campaign, setup, versions, call, mail, lead, crashes>>
  BY DEF TypeOK, Stop
<1> QED BY <1>1, <1>5, <1>6, <1>9, <1>10, <1>11 DEF HandlerStep

\* The planning stub has gone on, in the graph it read again, or has failed.
LEMMA PlanIsHandler == ASSUME TypeOK, CallPlanned \/ CallPlanFailed, This.type = "CALL" PROVE HandlerStep
<1>1. run.pc = "plan"
  BY DEF CallPlanned, CallPlanFailed
<1>2. lead \in {"open", "lost"} /\ UNCHANGED <<campaign, setup, versions, call, mail, lead, crashes>>
  BY DEF TypeOK, CallPlanned, CallPlanFailed
<1>3. CASE CallPlanned
  <2>1. PICK v : v = Ran({"completed"})
    OBVIOUS
  <2>2. v \in Row /\ Handled(run.work, v) /\ v.node = Here
    BY <2>1, RanIsHandled DEF Fact
  <2>3. PICK next : next = NextNode(Graph, Here)
    OBVIOUS
  <2>4. CASE next = NoNode
    <3>1. Rests(Completed(v))
      BY <1>3, <2>1, <2>3, <2>4 DEF CallPlanned, Commit, IdleRun, Rests
    <3>2. WentTo(v)
      BY <3>1 DEF WentTo
    <3> QED BY <1>1, <1>2, <2>2, <3>2 DEF HandlerStep
  <2>5. CASE next # NoNode
    <3>1. Moves(Graph, At(v, next))
      BY <1>3, <2>1, <2>3, <2>5 DEF CallPlanned, Moves, At
    <3>2. next \in NodeIds(Graph) /\ \E e \in Outbound(Graph, Here) : Graph.edges[e].target = next
      BY <2>3, <2>5, StateIs, NextNodeIs
    <3>3. next \in AllIds
      BY <3>2, StateIs, GraphIs
    <3>4. Leads(Graph, Here, next, v.outputs)
      BY <3>2 DEF Leads, This
    <3>5. WentTo(v)
      BY <1>1, <3>1, <3>3, <3>4 DEF WentTo
    <3> QED BY <1>1, <1>2, <2>2, <3>5 DEF HandlerStep
  <2> QED BY <2>4, <2>5
<1>4. CASE CallPlanFailed
  <2>1. PICK v : v = Ran({"failed"})
    OBVIOUS
  <2>2. v \in Row /\ Handled(run.work, v) /\ v.node = Here
    BY <2>1, RanIsHandled DEF Fact
  <2>3. Rests(Failed(v))
    BY <1>4, <2>1 DEF CallPlanFailed, Commit, IdleRun, Rests
  <2>4. WentTo(v)
    BY <1>1, <2>3 DEF WentTo
  <2> QED BY <1>1, <1>2, <2>2, <2>4 DEF HandlerStep
<1> QED BY <1>3, <1>4

\* A poll of the mailbox changes what is known of a reply, and takes none away.
LEMMA EnrichedIs ==
    ASSUME NEW type, NEW old \in SUBSET Fact, NEW seen, NEW new, new = Enriched(type, old, seen)
    PROVE  /\ new \in SUBSET Fact
           /\ \A f \in {"sent", "completed", "failed"} : f \in old <=> f \in new
           /\ "replied" \in old => "replied" \in new
           /\ "replied" \in old /\ "negative_reply" \in old => "negative_reply" \in new
           /\ ("negative_reply" \in old => "replied" \in old)
                 => ("negative_reply" \in new => "replied" \in new)
<1>1. PICK facts : facts = ReplyFacts(seen)
  OBVIOUS
<1>2. facts \subseteq {"replied", "negative_reply"} /\ ("negative_reply" \in facts => "replied" \in facts)
  BY <1>1 DEF ReplyFacts
<1>3. {"replied", "negative_reply"} \subseteq Fact
  BY DEF Fact
<1>4. \/ new = old
      \/ "replied" \notin old /\ new = (old \ {"negative_reply"}) \cup facts
      \/ "replied" \notin old /\ new = old \ {"negative_reply"}
  BY <1>1 DEF Enriched
<1> QED BY <1>2, <1>3, <1>4

\* CONDITION.
LEMMA ConditionIsHandler == ASSUME TypeOK, ValidGraph(run.graph), Condition PROVE HandlerStep
<1>1. run.pc = "node" /\ Here \in NodeIds(run.graph) /\ This.type = "CONDITION"
  BY DEF Condition, Runs
<1>2. PICK w \in Row : w = run.work
  BY StateIs
<1>3. PICK from : from = This.source
  OBVIOUS
<1>4. PICK seen, output, u, v, result, next :
          /\ output = Enriched(This.config, OutputOf(w.outputs, from), seen)
          /\ u = Ran({}) /\ v = [u EXCEPT !.outputs[from] = output]
          /\ result = EvaluateCondition(This.config, output)
          /\ next = ConditionTarget(run.graph, Here, Label(result))
          /\ IF next = NoNode THEN Commit(Failed(v)) /\ UNCHANGED lead
             ELSE /\ run' = [run EXCEPT !.work = [v EXCEPT !.node = next]]
                  /\ lead' = LeadAfter(This.config, output)
                  /\ UNCHANGED row
  BY <1>2, <1>3 DEF Condition
<1>5. w.outputs \in [AllIds -> SUBSET Fact] /\ w.node \in AllIds
  BY DEF Row
<1>6. OutputOf(w.outputs, from) \in SUBSET Fact
  BY <1>5 DEF OutputOf
<1>7. PICK old \in SUBSET Fact : old = OutputOf(w.outputs, from)
  BY <1>6
<1>8. /\ output \in SUBSET Fact
      /\ \A f \in {"sent", "completed", "failed"} : f \in old <=> f \in output
      /\ "replied" \in old => "replied" \in output
      /\ "replied" \in old /\ "negative_reply" \in old => "negative_reply" \in output
      /\ ("negative_reply" \in old => "replied" \in old)
            => ("negative_reply" \in output => "replied" \in output)
  BY <1>4, <1>7, EnrichedIs
<1>9. /\ u \in Row /\ u.node = w.node /\ u.status = w.status /\ u.retry_status = w.retry_status
      /\ u.attempt_number = w.attempt_number /\ u.next_retry_at = w.next_retry_at
      /\ u.trail = Append(w.trail, w.node) /\ u.outputs = [w.outputs EXCEPT ![w.node] = {}]
  <2>1. PICK none \in SUBSET Fact : none = {}
    OBVIOUS
  <2>2. u = WentOn(w, none)
    BY <1>2, <1>4, <2>1, RanIs
  <2>3. /\ u \in Row /\ u.node = w.node /\ u.status = w.status /\ u.retry_status = w.retry_status
        /\ u.attempt_number = w.attempt_number /\ u.next_retry_at = w.next_retry_at
        /\ u.trail = Append(w.trail, w.node) /\ u.outputs = [w.outputs EXCEPT ![w.node] = none]
    BY <2>2, WentOnIs
  <2> QED BY <2>1, <2>3
<1>10. PICK learnt : learnt = [u.outputs EXCEPT ![from] = output]
  OBVIOUS
<1>11. /\ v \in Row /\ v.node = u.node /\ v.status = u.status /\ v.retry_status = u.retry_status
       /\ v.attempt_number = u.attempt_number /\ v.next_retry_at = u.next_retry_at
       /\ v.trail = u.trail /\ v.outputs = learnt
  <2>1. PICK p \in Row : p = u
    BY <1>9
  <2>2. p.outputs \in [AllIds -> SUBSET Fact]
    BY DEF Row
  <2>3. learnt \in [AllIds -> SUBSET Fact]
    BY <1>8, <1>10, <2>1, <2>2
  <2>4. v = Learnt(p, learnt)
    BY <1>4, <1>10, <2>1 DEF Learnt, Row
  <2>5. /\ v \in Row /\ v.node = p.node /\ v.status = p.status /\ v.retry_status = p.retry_status
        /\ v.attempt_number = p.attempt_number /\ v.next_retry_at = p.next_retry_at
        /\ v.trail = p.trail /\ v.outputs = learnt
    BY <2>3, <2>4, LearntIs
  <2> QED BY <2>1, <2>5
<1>12. \A m \in AllIds : v.outputs[m] = IF m = from THEN output ELSE IF m = w.node THEN {} ELSE w.outputs[m]
  BY <1>5, <1>9, <1>10, <1>11
<1>13. from \in AllIds => old = w.outputs[from]
  BY <1>7 DEF OutputOf
<1>14. Keeps(w.outputs, v.outputs, w.node)
  <2>1. ASSUME NEW m \in AllIds, m # w.node
        PROVE  \A f \in {"sent", "completed", "failed"} : f \in w.outputs[m] <=> f \in v.outputs[m]
    BY <1>8, <1>12, <1>13, <2>1
  <2>2. ASSUME Replies(w.outputs), NEW m \in AllIds, m # w.node
        PROVE  \A f \in {"replied", "negative_reply"} : f \in w.outputs[m] => f \in v.outputs[m]
    BY <1>8, <1>12, <1>13, <2>2 DEF Replies
  <2>3. ASSUME Replies(w.outputs) PROVE Replies(v.outputs)
    BY <1>8, <1>12, <1>13, <2>3 DEF Replies
  <2> QED BY <2>1, <2>2, <2>3 DEF Keeps
<1>15. Handled(w, v)
  BY <1>9, <1>11, <1>14 DEF Handled
<1>16. Label(result) \in {"TRUE", "FALSE"} /\ (Label(result) = "TRUE" => result)
  BY DEF Label
<1>17. PICK label \in {"TRUE", "FALSE"} : label = Label(result)
  BY <1>16
<1>18. /\ next # NoNode /\ next \in NodeIds(run.graph)
       /\ \E e \in Outbound(run.graph, Here) :
             run.graph.edges[e].target = next /\ run.graph.edges[e].condition = label
  BY <1>1, <1>4, <1>17, StateIs, ConditionTargetIs DEF This
<1>19. next \in AllIds
  BY <1>18, StateIs, GraphIs
<1>20. from # Here => OutputOf(v.outputs, from) = output \/ from \notin AllIds
  BY <1>12 DEF OutputOf
<1>21. from \notin AllIds => OutputOf(v.outputs, from) = {} /\ old = {}
  BY <1>7 DEF OutputOf
<1>22. from \notin AllIds => EvaluateCondition(This.config, output) = EvaluateCondition(This.config, {})
  <2>1. PICK facts : facts = ReplyFacts(seen)
    OBVIOUS
  <2>2. old = {} => output = {}
    BY <1>4, <1>7 DEF Enriched
  <2> QED BY <1>21, <2>2
<1>23. from # Here /\ label = "TRUE" => EvaluateCondition(This.config, OutputOf(v.outputs, from))
  BY <1>4, <1>16, <1>17, <1>20, <1>21, <1>22
<1>24. Leads(run.graph, Here, next, v.outputs)
  BY <1>3, <1>18, <1>23 DEF Leads, This
<1>25. Moves(run.graph, At(v, next))
  <2>1. run' = [run EXCEPT !.work = [v EXCEPT !.node = next]] /\ row' = row
    BY <1>4, <1>18
  <2>2. run' = [pc |-> "node", graph |-> run.graph, work |-> [v EXCEPT !.node = next]]
    BY <1>1, <2>1, StateIs
  <2> QED BY <2>1, <2>2 DEF Moves, At
<1>26. WentTo(v)
  BY <1>1, <1>19, <1>24, <1>25 DEF WentTo
<1>27. lead' \in {"open", "lost"}
  BY <1>4, <1>18 DEF TypeOK, LeadAfter
<1>28. UNCHANGED <<campaign, setup, versions, call, mail, crashes>>
  BY DEF Condition
<1> QED BY <1>1, <1>2, <1>11, <1>15, <1>26, <1>27, <1>28 DEF HandlerStep

\* What a step of the run loop is: a handler's, or one of those around the dial.
LEMMA RunStepIs ==
    ASSUME TypeOK, RunInv, RunStep
    PROVE  HandlerStep \/ NodeMissing \/ CallDial \/ CallPlaced \/ CallRefused \/ CallPlan
<1>1. CASE CallPlanned \/ CallPlanFailed
  <2>1. This.type = "CALL"
    BY <1>1 DEF CallPlanned, CallPlanFailed, RunInv, This, Here
  <2> QED BY <1>1, <2>1, PlanIsHandler
<1>2. CASE Condition
  BY <1>2, ConditionIsHandler DEF RunInv
<1> QED
  BY <1>1, <1>2, EmailIsHandler, SkipIsHandler, ParkIsHandler, FailIsHandler, StopIsHandler DEF RunStep

-----------------------------------------------------------------------------
(* The type, the row and its run. *)

\* The run has stopped, and committed a row that may wait, or may be over.
LEMMA RestIs ==
    ASSUME TypeOK, RunInv, NEW r \in Row, Rests(r), UNCHANGED <<setup, versions>>,
           call'.leg = "live" => r.status = "running" /\ setup.telephony,
           ~Edited => r.node \in NodeIds(Graph),
           r.status \in {"queued", "running"} => r.retry_status = "pending",
           setup.telephony /\ ~Edited /\ Configured(Graph) /\ r.status = "failed" => r.retry_status # "pending"
    PROVE  /\ RunInv' /\ NeverStranded'
           /\ run' \in [pc : {"idle", "node", "plan", "post"}, graph : Candidates, work : Row]
           /\ row' \in Row
<1>1. run'.pc = "idle" /\ run'.graph = run.graph /\ run'.work = r /\ row' = r
  BY DEF Rests
<1>2. run' \in [pc : {"idle", "node", "plan", "post"}, graph : Candidates, work : Row]
  BY StateIs DEF Rests
<1>3. Graph' = Graph /\ Edited' = Edited /\ setup' = setup /\ versions' = versions
  BY DEF Graph, Edited
<1>4. RunInv'
  BY <1>1, <1>3 DEF RunInv
<1>5. NeverStranded'
  BY <1>1, <1>3 DEF NeverStranded
<1> QED BY <1>1, <1>2, <1>4, <1>5

\* The run goes on, and has committed nothing.
LEMMA MoveIs ==
    ASSUME TypeOK, RunInv, NeverStranded, run.pc # "idle", NEW g \in {run.graph, Graph}, NEW v \in Row,
           Moves(g, v), UNCHANGED <<setup, versions, call>>,
           ~Edited => v.node \in NodeIds(Graph),
           v.retry_status = "pending", v.attempt_number = row.attempt_number, v.next_retry_at # "later"
    PROVE  /\ RunInv' /\ NeverStranded'
           /\ run' \in [pc : {"idle", "node", "plan", "post"}, graph : Candidates, work : Row]
           /\ row' \in Row
<1>1. run'.pc = "node" /\ run'.graph = g /\ run'.work = v /\ row' = row
  BY DEF Moves
<1>2. run' \in [pc : {"idle", "node", "plan", "post"}, graph : Candidates, work : Row]
  BY StateIs DEF Moves
<1>3. /\ Graph' = Graph /\ Edited' = Edited /\ setup' = setup /\ versions' = versions
      /\ call' = call
  BY DEF Graph, Edited
<1>4. ValidGraph(g) /\ (~Edited => g = Graph)
  <2>1. ValidGraph(Graph)
    <3>1. Len(versions) \in 1..Len(versions)
      BY StateIs
    <3> QED BY <3>1 DEF RunInv, Graph, Last
  <2> QED BY <2>1 DEF RunInv
<1>5. RunInv'
  BY <1>1, <1>3, <1>4 DEF RunInv
<1>6. NeverStranded'
  BY <1>1, <1>3 DEF NeverStranded
<1> QED BY <1>1, <1>2, <1>5, <1>6, StateIs

\* What HandlerStep does to the mails and the lead keeps their types.
LEMMA HandlerKeepsRest ==
    ASSUME TypeOK, HandlerStep
    PROVE  /\ campaign' \in {"draft", "active", "completed"} /\ setup' \in Setup
           /\ versions' \in Seq(Candidates) /\ Len(versions') \in 1..MaxVersions
           /\ call' \in [leg : {"none", "live"}, dials : Nat, connected : BOOLEAN]
           /\ mail' \in [sent : [AllIds -> Nat], reply : {"none", "positive", "negative"},
                         hook : {"none", "sent", "done"}]
           /\ lead' \in {"open", "lost"} /\ crashes' \in 0..MaxCrashes
<1>1. UNCHANGED <<campaign, setup, versions, call, crashes>> /\ lead' \in {"open", "lost"}
  BY DEF HandlerStep
<1>2. mail' \in [sent : [AllIds -> Nat], reply : {"none", "positive", "negative"}, hook : {"none", "sent", "done"}]
  <2>1. PICK m \in [sent : [AllIds -> Nat], reply : {"none", "positive", "negative"},
                    hook : {"none", "sent", "done"}] : m = mail
    BY DEF TypeOK
  <2>2. PICK n \in AllIds : n = Here
    BY StateIs
  <2>3. PICK sent \in [AllIds -> Nat] : sent = [m.sent EXCEPT ![n] = @ + 1]
    <3>1. [m.sent EXCEPT ![n] = @ + 1] \in [AllIds -> Nat]
      OBVIOUS
    <3> QED BY <3>1
  <2>4. mail' = m \/ mail' = [m EXCEPT !.sent = sent]
    BY <2>1, <2>2, <2>3 DEF HandlerStep
  <2> QED BY <2>4
<1>3. UNCHANGED <<campaign, setup, versions, call, crashes>> => 
          /\ campaign' \in {"draft", "active", "completed"} /\ setup' \in Setup
          /\ versions' \in Seq(Candidates) /\ Len(versions') \in 1..MaxVersions
          /\ call' \in [leg : {"none", "live"}, dials : Nat, connected : BOOLEAN]
          /\ crashes' \in 0..MaxCrashes
  BY DEF TypeOK
<1> QED BY <1>1, <1>2, <1>3

\* A node's handler advances, ends or fails the uncommitted row of the run.
LEMMA HandlerKeepsWalk == ASSUME WalkInv, HandlerStep PROVE WalkInv'
<1>1. TypeOK /\ RunInv /\ NeverStranded
  BY DEF WalkInv
<1>2. PICK w \in Row : w = run.work
  BY <1>1, StateIs
<1>3. PICK v \in Row : Handled(w, v) /\ WentTo(v)
  BY <1>2 DEF HandlerStep
<1>4. /\ v.node = w.node /\ v.retry_status = w.retry_status /\ v.attempt_number = w.attempt_number
      /\ v.next_retry_at = w.next_retry_at
  BY <1>3 DEF Handled
<1>5. /\ run.pc \in {"node", "plan"} /\ UNCHANGED <<setup, versions, call>>
      /\ run.pc = "node" => Here \in NodeIds(run.graph)
  BY DEF HandlerStep
<1>6. /\ w.retry_status = "pending" /\ w.attempt_number = row.attempt_number /\ w.next_retry_at # "later"
      /\ call.leg # "live" /\ call'.leg # "live"
      /\ ~Edited => w.node \in NodeIds(Graph) /\ run.graph = Graph
      /\ run.pc = "plan" => ~setup.telephony
      /\ Here = w.node
  BY <1>1, <1>2, <1>5 DEF RunInv, Here
<1> DEFINE Kept == /\ RunInv' /\ NeverStranded' /\ row' \in Row
                   /\ run' \in [pc : {"idle", "node", "plan", "post"}, graph : Candidates, work : Row]
<1>7. ASSUME Rests(Completed(v)) PROVE Kept
  <2>1. PICK r \in Row : r = Completed(v) /\ r.node = v.node /\ r.status = "completed"
    BY CompletedIs
  <2> QED BY <1>1, <1>4, <1>5, <1>6, <1>7, <2>1, RestIs
<1>8. ASSUME Rests(Failed(v)), run.pc = "plan" \/ This.config \in {"bad unit", "unknown"} PROVE Kept
  <2>1. PICK r \in Row : r = Failed(v) /\ r.node = v.node /\ r.status = "failed"
    BY FailedIs
  <2>2. setup.telephony /\ ~Edited => ~Configured(Graph)
    <3>1. SUFFICES ASSUME setup.telephony, ~Edited PROVE ~Configured(Graph)
      OBVIOUS
    <3>2. run.pc = "node" /\ Here \in NodeIds(run.graph) /\ run.graph = Graph
      BY <1>5, <1>6, <3>1
    <3>3. PICK i \in DOMAIN Graph.nodes : Graph.nodes[i] = This
      BY <1>1, <3>2, StateIs, GraphIs DEF This
    <3> QED BY <1>8, <3>2, <3>3 DEF Configured
  <2>3. Rests(r)
    BY <1>8, <2>1
  <2>4. ~Edited => r.node \in NodeIds(Graph)
    BY <1>4, <1>6, <2>1
  <2> QED BY <1>1, <1>5, <1>6, <2>1, <2>2, <2>3, <2>4, RestIs
<1>9. ASSUME NEW g \in {run.graph, Graph}, NEW next \in AllIds, run.pc = "node" => g = run.graph,
             Leads(g, Here, next, v.outputs), Moves(g, At(v, next)) \/ Rests(Parked(v, next))
      PROVE  Kept
  <2>1. next \in NodeIds(g) /\ (~Edited => g = Graph)
    BY <1>6, <1>9 DEF Leads
  <2>2. CASE Moves(g, At(v, next))
    <3>1. PICK r \in Row : r = At(v, next) /\ r.node = next /\ r.retry_status = v.retry_status
                           /\ r.attempt_number = v.attempt_number /\ r.next_retry_at = v.next_retry_at
      BY AtIs
    <3>2. Moves(g, r)
      BY <2>2, <3>1
    <3>3. r.retry_status = "pending" /\ r.attempt_number = row.attempt_number /\ run.pc # "idle"
          /\ r.next_retry_at # "later"
          /\ (~Edited => r.node \in NodeIds(Graph))
      BY <1>4, <1>5, <1>6, <2>1, <3>1
    <3> QED BY <1>1, <1>5, <3>2, <3>3, MoveIs
  <2>3. CASE Rests(Parked(v, next))
    <3>1. PICK r \in Row : r = Parked(v, next) /\ r.node = next /\ r.status = "queued" /\ r.retry_status = "pending"
      BY ParkedIs
    <3>2. Rests(r)
      BY <2>3, <3>1
    <3> QED BY <1>1, <1>5, <1>6, <2>1, <3>1, <3>2, RestIs
  <2> QED BY <1>9, <2>2, <2>3
<1>10. Kept
  BY <1>3, <1>7, <1>8, <1>9 DEF WentTo
<1>11. TypeOK'
  BY <1>1, <1>10, HandlerKeepsRest DEF TypeOK
<1> QED BY <1>10, <1>11 DEF WalkInv

\* The row of a CALL that is being dialled.
Tried(w) == [w EXCEPT !.trail = Append(w.trail, w.node)]

\* CALL with dialing enabled: the row is committed and the call is about to be placed,
\* or there is no number and the row carries the outcome of a failed call.
LEMMA CallDialIs ==
    ASSUME TypeOK, CallDial
    PROVE  \E r \in Row :
              /\ r.node = Here /\ r.trail = Append(run.work.trail, Here) /\ r.outputs = run.work.outputs
              /\ r.retry_status = run.work.retry_status /\ r.attempt_number = run.work.attempt_number
              /\ r.next_retry_at = run.work.next_retry_at
              /\ \/ Rests(ProcessOutcome(r, "failed"))
                 \/ r.status = "running" /\ row' = r /\ run' = [pc |-> "post", graph |-> run.graph, work |-> r]
<1>1. PICK w \in Row : w = run.work
  BY StateIs
<1>2. PICK v : v = Tried(w)
  OBVIOUS
<1>3. w.trail \in Seq(AllIds) /\ w.node \in AllIds
  BY DEF Row
<1>4. PICK trail \in Seq(AllIds) : trail = Append(w.trail, w.node)
  BY <1>3, AppendProperties
<1>5. /\ v \in Row /\ v.node = w.node /\ v.trail = trail /\ v.outputs = w.outputs
      /\ v.retry_status = w.retry_status /\ v.attempt_number = w.attempt_number
      /\ v.next_retry_at = w.next_retry_at
  BY <1>2, <1>4 DEF Row, Tried
<1>6. [w EXCEPT !.trail = Append(@, w.node)] = v
  BY <1>2 DEF Tried
<1>7. CASE setup.phone
  <2>1. PICK r : r = [v EXCEPT !.status = "running"]
    OBVIOUS
  <2>2. /\ r \in Row /\ r.node = v.node /\ r.trail = v.trail /\ r.outputs = v.outputs
        /\ r.retry_status = v.retry_status /\ r.attempt_number = v.attempt_number
        /\ r.next_retry_at = v.next_retry_at /\ r.status = "running"
    BY <1>5, <2>1 DEF Row, ExecStatus
  <2>3. row' = r /\ run' = [run EXCEPT !.pc = "post", !.work = r]
    BY <1>1, <1>6, <1>7, <2>1 DEF CallDial, Here
  <2>4. run' = [pc |-> "post", graph |-> run.graph, work |-> r]
    BY <2>3, StateIs
  <2> QED BY <1>1, <1>4, <1>5, <2>2, <2>3, <2>4 DEF Here
<1>8. CASE ~setup.phone
  <2>1. Rests(ProcessOutcome(v, "failed"))
    BY <1>1, <1>6, <1>8 DEF CallDial, Here, Commit, IdleRun, Rests
  <2> QED BY <1>1, <1>4, <1>5, <2>1 DEF Here
<1> QED BY <1>7, <1>8

\* A CALL node to be dialled commits the row as running before the POST, or fails.
LEMMA CallDialKeepsWalk == ASSUME WalkInv, CallDial PROVE WalkInv'
<1>1. TypeOK /\ RunInv /\ NeverStranded
  BY DEF WalkInv
<1>2. PICK r \in Row :
              /\ r.node = Here /\ r.trail = Append(run.work.trail, Here) /\ r.outputs = run.work.outputs
              /\ r.retry_status = run.work.retry_status /\ r.attempt_number = run.work.attempt_number
              /\ r.next_retry_at = run.work.next_retry_at
              /\ \/ Rests(ProcessOutcome(r, "failed"))
                 \/ r.status = "running" /\ row' = r /\ run' = [pc |-> "post", graph |-> run.graph, work |-> r]
  BY <1>1, CallDialIs
<1>3. /\ run.pc = "node" /\ Here \in NodeIds(run.graph) /\ This.type = "CALL" /\ setup.telephony
      /\ UNCHANGED <<campaign, setup, versions, call, mail, lead, crashes>>
  BY DEF CallDial, Runs
<1>4. /\ call.leg # "live" /\ r.retry_status = "pending" /\ r.next_retry_at # "later"
      /\ ~Edited => r.node \in NodeIds(Graph)
  BY <1>1, <1>2, <1>3 DEF RunInv
<1>5. RunInv' /\ NeverStranded' /\ row' \in Row
      /\ run' \in [pc : {"idle", "node", "plan", "post"}, graph : Candidates, work : Row]
  <2>1. CASE Rests(ProcessOutcome(r, "failed"))
    <3>1. PICK v \in Row : v = ProcessOutcome(r, "failed") /\ v.node = r.node
                           /\ v.status \in {"completed", "failed"} /\ v.retry_status # "pending"
      BY OutcomeIs
    <3>2. Rests(v)
      BY <2>1, <3>1
    <3> QED BY <1>1, <1>3, <1>4, <3>1, <3>2, RestIs
  <2>2. CASE r.status = "running" /\ row' = r /\ run' = [pc |-> "post", graph |-> run.graph, work |-> r]
    <3>1. /\ run'.pc = "post" /\ run'.graph = run.graph /\ run'.work = r /\ row' = r
          /\ run' \in [pc : {"idle", "node", "plan", "post"}, graph : Candidates, work : Row]
      BY <1>1, <2>2, StateIs
    <3>2. Graph' = Graph /\ Edited' = Edited /\ setup' = setup /\ versions' = versions /\ call' = call
      BY <1>3 DEF Graph, Edited
    <3>3. Node(run.graph, r.node).type = "CALL"
      BY <1>2, <1>3 DEF This
    <3>4. RunInv'
      BY <1>1, <1>3, <1>4, <2>2, <3>1, <3>2, <3>3 DEF RunInv
    <3>5. NeverStranded'
      BY <2>2, <3>1, <3>2 DEF NeverStranded
    <3> QED BY <3>1, <3>4, <3>5
  <2> QED BY <1>2, <2>1, <2>2
<1>6. TypeOK'
  BY <1>1, <1>3, <1>5 DEF TypeOK
<1> QED BY <1>5, <1>6 DEF WalkInv

\* The answer of the POST leaves the row to the callback, or fails it.
LEMMA DialKeepsWalk == ASSUME WalkInv, CallPlaced \/ CallRefused PROVE WalkInv'
<1>1. TypeOK /\ RunInv /\ NeverStranded /\ run.pc = "post"
  BY DEF WalkInv, CallPlaced, CallRefused
<1>2. /\ row.status = "running" /\ setup.telephony /\ row.retry_status = "pending" /\ call.leg # "live"
      /\ ~Edited => row.node \in NodeIds(Graph)
  BY <1>1 DEF RunInv
<1>3. PICK r \in Row : r = row
  BY <1>1, StateIs
<1>4. CASE CallPlaced
  <2>1. Rests(r) /\ UNCHANGED <<campaign, setup, versions, mail, lead, crashes>>
        /\ call' = [call EXCEPT !.leg = "live", !.dials = @ + 1]
    BY <1>3, <1>4 DEF CallPlaced, Commit, IdleRun, Rests
  <2>2. RunInv' /\ NeverStranded' /\ row' \in Row
        /\ run' \in [pc : {"idle", "node", "plan", "post"}, graph : Candidates, work : Row]
    BY <1>1, <1>2, <1>3, <2>1, RestIs
  <2>3. call' \in [leg : {"none", "live"}, dials : Nat, connected : BOOLEAN]
    <3>1. PICK c \in [leg : {"none", "live"}, dials : Nat, connected : BOOLEAN] : c = call
      BY <1>1 DEF TypeOK
    <3>2. PICK dials \in Nat : dials = c.dials + 1
      OBVIOUS
    <3>3. PICK connected \in BOOLEAN : connected = c.connected
      OBVIOUS
    <3>4. call' = [c EXCEPT !.leg = "live", !.dials = dials]
      BY <2>1, <3>1, <3>2
    <3>5. call' = [leg |-> "live", dials |-> dials, connected |-> connected]
      BY <3>3, <3>4
    <3> QED BY <3>5
  <2>4. TypeOK'
    BY <1>1, <2>1, <2>2, <2>3 DEF TypeOK
  <2> QED BY <2>2, <2>4 DEF WalkInv
<1>5. CASE CallRefused
  <2>1. PICK v \in Row : v = ProcessOutcome(r, "failed") /\ v.node = r.node
                         /\ v.status \in {"completed", "failed"} /\ v.retry_status # "pending"
    BY OutcomeIs
  <2>2. Rests(v) /\ UNCHANGED <<campaign, setup, versions, call, mail, lead, crashes>>
    BY <1>3, <1>5, <2>1 DEF CallRefused, Commit, IdleRun, Rests
  <2>3. RunInv' /\ NeverStranded' /\ row' \in Row
        /\ run' \in [pc : {"idle", "node", "plan", "post"}, graph : Candidates, work : Row]
    BY <1>1, <1>2, <1>3, <2>1, <2>2, RestIs
  <2>4. TypeOK'
    BY <1>1, <2>2, <2>3 DEF TypeOK
  <2> QED BY <2>3, <2>4 DEF WalkInv
<1> QED BY <1>4, <1>5

\* A row whose node is gone from the graph fails for good.
LEMMA NodeMissingKeepsWalk == ASSUME WalkInv, NodeMissing PROVE WalkInv'
<1>1. TypeOK /\ RunInv /\ NeverStranded
  BY DEF WalkInv
<1>2. /\ run.pc = "node" /\ Here \notin NodeIds(run.graph)
      /\ UNCHANGED <<campaign, setup, versions, call, mail, lead, crashes>>
  BY DEF NodeMissing
<1>3. Edited /\ call.leg # "live"
  BY <1>1, <1>2 DEF RunInv, Here
<1>4. PICK w \in Row : w = run.work
  BY <1>1, StateIs
<1>5. PICK r \in Row : r = Failed(w) /\ r.status = "failed"
  BY FailedIs
<1>6. Rests(r)
  BY <1>4, <1>5 DEF NodeMissing, Commit, IdleRun, Rests
<1>7. RunInv' /\ NeverStranded' /\ row' \in Row
      /\ run' \in [pc : {"idle", "node", "plan", "post"}, graph : Candidates, work : Row]
  BY <1>1, <1>2, <1>3, <1>5, <1>6, RestIs
<1>8. TypeOK'
  BY <1>1, <1>2, <1>7 DEF TypeOK
<1> QED BY <1>7, <1>8 DEF WalkInv

\* Without telephony a CALL node commits the row as running and plans.
LEMMA CallPlanKeepsWalk == ASSUME WalkInv, CallPlan PROVE WalkInv'
<1>1. TypeOK /\ RunInv /\ NeverStranded
  BY DEF WalkInv
<1>2. PICK w \in Row : w = run.work
  BY <1>1, StateIs
<1>3. PICK r : r = [w EXCEPT !.status = "running"]
  OBVIOUS
<1>4. /\ r \in Row /\ r.node = w.node /\ r.status = "running" /\ r.retry_status = w.retry_status
      /\ r.attempt_number = w.attempt_number /\ r.next_retry_at = w.next_retry_at
  BY <1>3 DEF Row, ExecStatus
<1>5. /\ run.pc = "node" /\ Here \in NodeIds(run.graph) /\ This.type = "CALL" /\ ~setup.telephony
      /\ UNCHANGED <<campaign, setup, versions, call, mail, lead, crashes>>
      /\ row' = r /\ run' = [run EXCEPT !.pc = "plan", !.work = r]
  BY <1>2, <1>3 DEF CallPlan, Runs
<1>6. /\ run'.pc = "plan" /\ run'.graph = run.graph /\ run'.work = r /\ row' = r
      /\ run' \in [pc : {"idle", "node", "plan", "post"}, graph : Candidates, work : Row]
  <2>1. run' = [pc |-> "plan", graph |-> run.graph, work |-> r]
    BY <1>1, <1>5, StateIs
  <2> QED BY <1>1, <1>4, <1>5, <2>1, StateIs
<1>7. Graph' = Graph /\ Edited' = Edited /\ setup' = setup /\ versions' = versions /\ call' = call
  BY <1>5 DEF Graph, Edited
<1>8. Node(run.graph, r.node).type = "CALL" /\ r.node = Here
  BY <1>2, <1>4, <1>5 DEF This, Here
<1>9. RunInv'
  BY <1>1, <1>2, <1>4, <1>5, <1>6, <1>7, <1>8 DEF RunInv
<1>10. NeverStranded'
  BY <1>4, <1>6, <1>7 DEF NeverStranded
<1>11. TypeOK'
  BY <1>1, <1>4, <1>5, <1>6 DEF TypeOK
<1> QED BY <1>9, <1>10, <1>11 DEF WalkInv

\* The scheduler hands a queued row to a run.
LEMMA DispatchKeepsWalk == ASSUME WalkInv, Dispatch PROVE WalkInv'
<1>1. TypeOK /\ RunInv /\ NeverStranded
  BY DEF WalkInv
<1>2. /\ run.pc = "idle" /\ row.status = "queued" /\ row.next_retry_at # "later"
      /\ run' = [pc |-> "node", graph |-> Graph, work |-> row]
      /\ UNCHANGED <<campaign, setup, versions, row, call, mail, lead, crashes>>
  BY DEF Dispatch
<1>3. PICK r \in Row : r = row
  BY <1>1, StateIs
<1>4. run'.pc = "node" /\ run'.graph = Graph /\ run'.work = r /\ row' = r
      /\ run' \in [pc : {"idle", "node", "plan", "post"}, graph : Candidates, work : Row]
  BY <1>1, <1>2, <1>3, StateIs
<1>5. Graph' = Graph /\ Edited' = Edited /\ setup' = setup /\ versions' = versions /\ call' = call
  BY <1>2 DEF Graph, Edited
<1>6. ValidGraph(Graph)
  <2>1. Len(versions) \in 1..Len(versions)
    BY <1>1, StateIs
  <2> QED BY <1>1, <2>1 DEF RunInv, Graph, Last
<1>7. call.leg # "live" /\ r.retry_status = "pending"
  BY <1>1, <1>2, <1>3 DEF RunInv
<1>8. RunInv'
  BY <1>1, <1>2, <1>3, <1>4, <1>5, <1>6, <1>7 DEF RunInv
<1>9. NeverStranded'
  BY <1>1, <1>3, <1>4, <1>5 DEF NeverStranded
<1>10. TypeOK'
  BY <1>1, <1>2, <1>4 DEF TypeOK
<1> QED BY <1>8, <1>9, <1>10 DEF WalkInv

\* A crash throws the uncommitted work away and leaves the row as committed.
LEMMA CrashKeepsWalk == ASSUME WalkInv, Crash PROVE WalkInv'
<1>1. TypeOK /\ RunInv /\ NeverStranded
  BY DEF WalkInv
<1>2. /\ run.pc # "idle" /\ crashes < MaxCrashes /\ crashes' = crashes + 1
      /\ UNCHANGED <<campaign, setup, versions, row, call, mail, lead>>
      /\ run' = [pc |-> "idle", graph |-> run.graph, work |-> row]
  BY DEF Crash, IdleRun
<1>3. PICK r \in Row : r = row
  BY <1>1, StateIs
<1>4. Rests(r)
  BY <1>2, <1>3 DEF Rests
<1>5. /\ call.leg # "live" /\ (r.status \in {"queued", "running"} => r.retry_status = "pending")
      /\ (~Edited => r.node \in NodeIds(Graph))
      /\ (setup.telephony /\ ~Edited /\ Configured(Graph) /\ r.status = "failed" => r.retry_status # "pending")
  BY <1>1, <1>2, <1>3 DEF RunInv, NeverStranded
<1>6. RunInv' /\ NeverStranded' /\ row' \in Row
      /\ run' \in [pc : {"idle", "node", "plan", "post"}, graph : Candidates, work : Row]
  BY <1>1, <1>2, <1>4, <1>5, RestIs
<1>7. crashes' \in 0..MaxCrashes
  BY <1>1, <1>2, GraphAssumption DEF TypeOK
<1>8. TypeOK'
  BY <1>1, <1>2, <1>6, <1>7 DEF TypeOK
<1> QED BY <1>6, <1>8 DEF WalkInv

\* Steps of others that change the row while no run has taken it.
LEMMA RowStepKeepsWalk ==
    ASSUME WalkInv, NEW r \in Row, row' = r, run.pc = "idle", UNCHANGED <<setup, versions, run>>,
           call'.leg = "live" => r.status = "running" /\ setup.telephony,
           ~Edited => r.node \in NodeIds(Graph),
           r.status \in {"queued", "running"} => r.retry_status = "pending",
           setup.telephony /\ ~Edited /\ Configured(Graph) /\ r.status = "failed" => r.retry_status # "pending"
    PROVE  RunInv' /\ NeverStranded'
<1>1. TypeOK /\ RunInv /\ NeverStranded
  BY DEF WalkInv
<1>2. Graph' = Graph /\ Edited' = Edited /\ setup' = setup /\ versions' = versions /\ run' = run
  BY DEF Graph, Edited
<1>3. RunInv'
  BY <1>1, <1>2 DEF RunInv
<1>4. NeverStranded'
  BY <1>1, <1>2 DEF NeverStranded
<1> QED BY <1>3, <1>4

\* The status callback advances, parks or ends the row of its call.
LEMMA WebhookKeepsWalk == ASSUME WalkInv, Webhook PROVE WalkInv'
<1>1. TypeOK /\ RunInv /\ NeverStranded
  BY DEF WalkInv
<1>2. call.leg = "live" /\ UNCHANGED <<campaign, setup, versions, run, mail, lead, crashes>>
  BY DEF Webhook
<1>3. PICK o \in Outcomes :
          /\ row' = MovedOn(Graph, row, o)
          /\ call' = [call EXCEPT !.leg = "none", !.connected = @ \/ o = "completed"]
  BY DEF Webhook
<1>4. run.pc = "idle" /\ (~Edited => row.node \in NodeIds(Graph))
  BY <1>1, <1>2 DEF RunInv
<1>5. PICK w \in Row : w = row
  BY <1>1, StateIs
<1>6. PICK g \in Candidates : g = Graph
  BY <1>1, StateIs
<1>7. PICK v \in Row : v = MovedOn(g, w, o)
           /\ \/ v.node = w.node /\ v.status \in {"completed", "failed"} /\ v.retry_status # "pending"
              \/ /\ v.node = NextNode(g, w.node) /\ v.node # NoNode
                 /\ v.status = "queued" /\ v.retry_status = "pending"
  BY MovedOnIs
<1>8. call' \in [leg : {"none", "live"}, dials : Nat, connected : BOOLEAN] /\ call'.leg = "none"
  <2>1. PICK c \in [leg : {"none", "live"}, dials : Nat, connected : BOOLEAN] : c = call
    BY <1>1 DEF TypeOK
  <2>2. PICK b \in BOOLEAN : b = (c.connected \/ o = "completed")
    OBVIOUS
  <2>3. PICK dials \in Nat : dials = c.dials
    OBVIOUS
  <2>4. call' = [c EXCEPT !.leg = "none", !.connected = b]
    BY <1>3, <2>1, <2>2
  <2>5. call' = [leg |-> "none", dials |-> dials, connected |-> b]
    BY <2>3, <2>4
  <2> QED BY <2>5
<1>9. ~Edited => v.node \in NodeIds(Graph)
  BY <1>4, <1>5, <1>6, <1>7, NextNodeIs
<1>10. row' = v
  BY <1>3, <1>5, <1>6, <1>7
<1>11. RunInv' /\ NeverStranded'
  BY <1>2, <1>4, <1>7, <1>8, <1>9, <1>10, RowStepKeepsWalk
<1>12. TypeOK'
  BY <1>1, <1>2, <1>8, <1>10 DEF TypeOK
<1> QED BY <1>11, <1>12 DEF WalkInv

\* A wait or a backoff runs out, and the row is queued again.
LEMMA TimeKeepsWalk == ASSUME WalkInv, Elapse \/ Requeue PROVE WalkInv'
<1>1. TypeOK /\ RunInv /\ NeverStranded
  BY DEF WalkInv
<1>2. UNCHANGED <<campaign, setup, versions, run, call, mail, lead, crashes>>
  BY DEF Elapse, Requeue
<1>3. run.pc = "idle"
  BY <1>1 DEF Elapse, Requeue, RunInv
<1>4. PICK w \in Row : w = row
  BY <1>1, StateIs
<1>5. PICK r \in Row :
        /\ row' = r /\ r.node = w.node
        /\ \/ r.status = w.status /\ r.retry_status = w.retry_status
           \/ w.retry_status = "scheduled" /\ r.status = "queued" /\ r.retry_status = "pending"
  <2>1. CASE Elapse
    <3>1. PICK r : r = [w EXCEPT !.next_retry_at = "due"]
      OBVIOUS
    <3>2. r \in Row /\ r.node = w.node /\ r.status = w.status /\ r.retry_status = w.retry_status
      BY <3>1 DEF Row, NextRetryAt
    <3> QED BY <1>4, <2>1, <3>1, <3>2 DEF Elapse
  <2>2. CASE Requeue
    <3>1. PICK r : r = [w EXCEPT !.status = "queued", !.retry_status = "pending", !.next_retry_at = "none"]
      OBVIOUS
    <3>2. r \in Row /\ r.node = w.node /\ r.status = "queued" /\ r.retry_status = "pending"
      BY <3>1 DEF Row, NextRetryAt, ExecStatus, RetryStatus
    <3> QED BY <1>4, <2>2, <3>1, <3>2 DEF Requeue
  <2> QED BY <2>1, <2>2
<1>6. /\ call'.leg = "live" => r.status = "running" /\ setup.telephony
      /\ ~Edited => r.node \in NodeIds(Graph)
      /\ r.status \in {"queued", "running"} => r.retry_status = "pending"
      /\ setup.telephony /\ ~Edited /\ Configured(Graph) /\ r.status = "failed" => r.retry_status # "pending"
  BY <1>1, <1>2, <1>4, <1>5 DEF RunInv, NeverStranded
<1>7. RunInv' /\ NeverStranded'
  BY <1>2, <1>3, <1>5, <1>6, RowStepKeepsWalk
<1>8. TypeOK'
  BY <1>1, <1>2, <1>5 DEF TypeOK
<1> QED BY <1>7, <1>8 DEF WalkInv

\* Steps that touch neither row nor run nor graph.
LEMMA OtherKeepsWalk == ASSUME WalkInv, Reply \/ InboundWebhook \/ Complete PROVE WalkInv'
<1>1. TypeOK /\ RunInv /\ NeverStranded
  BY DEF WalkInv
<1>2. UNCHANGED <<setup, versions, row, run, call, crashes>>
  BY DEF Reply, InboundWebhook, Complete
<1>3. Graph' = Graph /\ Edited' = Edited
  BY <1>2 DEF Graph, Edited
<1>4. RunInv'
  BY <1>1, <1>2, <1>3 DEF RunInv
<1>5. NeverStranded'
  BY <1>1, <1>2, <1>3 DEF NeverStranded
<1>6. mail' \in [sent : [AllIds -> Nat], reply : {"none", "positive", "negative"}, hook : {"none", "sent", "done"}]
      /\ lead' \in {"open", "lost"} /\ campaign' \in {"draft", "active", "completed"}
  <2>1. PICK m \in [sent : [AllIds -> Nat], reply : {"none", "positive", "negative"},
                    hook : {"none", "sent", "done"}] : m = mail
    BY <1>1 DEF TypeOK
  <2>2. CASE Reply
    <3>1. PICK kind \in {"positive", "negative"} :
              mail' = [m EXCEPT !.reply = kind, !.hook = IF Hooked THEN "sent" ELSE @]
      BY <2>1, <2>2 DEF Reply
    <3>2. PICK hook \in {"none", "sent", "done"} : hook = IF Hooked THEN "sent" ELSE m.hook
      OBVIOUS
    <3>3. mail' = [m EXCEPT !.reply = kind, !.hook = hook]
      BY <3>1, <3>2
    <3> QED BY <1>1, <2>2, <3>3 DEF TypeOK, Reply
  <2>3. CASE InboundWebhook
    BY <1>1, <2>1, <2>3 DEF TypeOK, InboundWebhook
  <2>4. CASE Complete
    BY <1>1, <2>4 DEF TypeOK, Complete
  <2> QED BY <2>2, <2>3, <2>4
<1>7. TypeOK'
  BY <1>1, <1>2, <1>6 DEF TypeOK
<1> QED BY <1>4, <1>5, <1>7 DEF WalkInv

\* The user draws another graph, or takes an earlier one back.
LEMMA EditIs ==
    ASSUME TypeOK, RunInv, PutWorkflow \/ RestoreVersion
    PROVE  /\ \E g \in Candidates : ValidGraph(g) /\ versions' = Append(versions, g)
           /\ Edited' /\ versions' \in Seq(Candidates) /\ Len(versions') \in 1..MaxVersions
           /\ \A i \in 1..Len(versions') : ValidGraph(versions'[i])
           /\ Graph' \in Candidates
           /\ UNCHANGED <<campaign, setup, row, run, call, mail, lead, crashes>>
<1>1. PICK old \in Seq(Candidates) : old = versions
  BY StateIs
<1>2. PICK g \in Candidates : ValidGraph(g) /\ versions' = Append(old, g)
  <2>1. CASE PutWorkflow
    BY <1>1, <2>1 DEF PutWorkflow, UpdateGraph, CreateVersion
  <2>2. CASE RestoreVersion
    <3>1. PICK v \in DOMAIN old : ValidGraph(old[v]) /\ versions' = Append(old, old[v])
      BY <1>1, <2>2 DEF RestoreVersion, RestoreGraph, CreateVersion
    <3>2. old[v] \in Candidates
      OBVIOUS
    <3> QED BY <3>1, <3>2
  <2> QED BY <2>1, <2>2
<1>3. PICK new : new = Append(old, g)
  OBVIOUS
<1>4. /\ new \in Seq(Candidates) /\ Len(new) = Len(old) + 1 /\ new[Len(new)] = g
      /\ \A i \in 1..Len(old) : new[i] = old[i]
  BY <1>3, AppendProperties
<1>5. Len(old) \in 1..MaxVersions /\ Len(old) < MaxVersions
      /\ UNCHANGED <<campaign, setup, row, run, call, mail, lead, crashes>>
  BY <1>1, StateIs DEF PutWorkflow, RestoreVersion, EditGraph
<1>6. Len(new) \in 1..MaxVersions /\ Len(new) > 1
  BY <1>4, <1>5, GraphAssumption
<1>7. ASSUME NEW i \in 1..Len(new) PROVE ValidGraph(new[i])
  <2>1. \A j \in 1..Len(old) : ValidGraph(old[j])
    BY <1>1 DEF RunInv
  <2>2. i \in 1..Len(old) \/ i = Len(new)
    BY <1>4, <1>5
  <2> QED BY <1>2, <1>4, <2>1, <2>2
<1>8. Graph' = g
  BY <1>2, <1>3, <1>4 DEF Graph, Last
<1> QED BY <1>1, <1>2, <1>3, <1>4, <1>5, <1>6, <1>7, <1>8 DEF Edited

\* An edit stores a graph that the API accepts; the next run goes by it.
LEMMA EditKeepsWalk == ASSUME WalkInv, PutWorkflow \/ RestoreVersion PROVE WalkInv'
<1>1. TypeOK /\ RunInv /\ NeverStranded
  BY DEF WalkInv
<1>2. /\ Edited' /\ versions' \in Seq(Candidates) /\ Len(versions') \in 1..MaxVersions
      /\ \A i \in 1..Len(versions') : ValidGraph(versions'[i])
      /\ UNCHANGED <<campaign, setup, row, run, call, mail, lead, crashes>>
  BY <1>1, EditIs
<1>3. RunInv'
  BY <1>1, <1>2 DEF RunInv
<1>4. NeverStranded'
  BY <1>2 DEF NeverStranded
<1>5. TypeOK'
  BY <1>1, <1>2 DEF TypeOK
<1> QED BY <1>3, <1>4, <1>5 DEF WalkInv

\* The row that _enqueue_leads makes.
LEMMA NewRowIs ==
    ASSUME NEW g \in Candidates, ValidGraph(g), NEW r, r = NewRow(g)
    PROVE  /\ r \in Row /\ r.node = EntryNode(g) /\ r.trail = <<>> /\ r.status = "queued"
           /\ r.retry_status = "pending" /\ r.attempt_number = 1 /\ r.next_retry_at = "none"
           /\ r.outputs = [n \in AllIds |-> {}]
<1>1. PICK entry \in AllIds : entry = EntryNode(g)
  BY EntryNodeIs, GraphIs
<1>2. PICK outputs \in [AllIds -> SUBSET Fact] : outputs = [n \in AllIds |-> {}]
  OBVIOUS
<1>3. PICK context \in [retry_history : SUBSET (1..MaxAttempts)] : context = [retry_history |-> {}]
  OBVIOUS
<1>4. r = [status |-> "queued", retry_status |-> "pending", attempt_number |-> 1,
           next_retry_at |-> "none", context |-> context, node |-> entry, outputs |-> outputs,
           thread |-> FALSE, trail |-> <<>>]
  BY <1>1, <1>2, <1>3 DEF NewRow
<1>5. 1 \in 1..MaxAttempts /\ <<>> \in Seq(AllIds)
  BY RetryAssumption
<1>6. r \in Row
  BY <1>4, <1>5 DEF Row, ExecStatus, RetryStatus, NextRetryAt
<1> QED BY <1>1, <1>2, <1>4, <1>6

\* Where a walk begins.
LEMMA InitIs ==
    ASSUME Init
    PROVE  \E g \in Candidates :
              /\ ValidGraph(g) /\ versions = <<g>> /\ Graph = g /\ ~Edited
              /\ row = NewRow(g) /\ run = [pc |-> "idle", graph |-> g, work |-> NewRow(g)]
              /\ campaign = "active" /\ setup \in Setup /\ lead = "open" /\ crashes = 0
              /\ call = [leg |-> "none", dials |-> 0, connected |-> FALSE]
              /\ mail = [sent |-> [n \in AllIds |-> 0], reply |-> "none", hook |-> "none"]
<1>1. PICK g \in Candidates :
          /\ ValidGraph(g) /\ versions = <<g>> /\ row = NewRow(g) /\ run = IdleRun(g, NewRow(g))
  BY DEF Init, WalkStarts
<1>2. Graph = g /\ ~Edited
  BY <1>1 DEF Graph, Last, Edited
<1> QED BY <1>1, <1>2 DEF Init, WalkStarts, IdleRun

\* The walk begins queued at the entry node of a valid graph.
LEMMA WalkBegins == Init => WalkInv
<1> SUFFICES ASSUME Init PROVE WalkInv
  OBVIOUS
<1>1. PICK g \in Candidates :
              /\ ValidGraph(g) /\ versions = <<g>> /\ Graph = g /\ ~Edited
              /\ row = NewRow(g) /\ run = [pc |-> "idle", graph |-> g, work |-> NewRow(g)]
              /\ campaign = "active" /\ setup \in Setup /\ lead = "open" /\ crashes = 0
              /\ call = [leg |-> "none", dials |-> 0, connected |-> FALSE]
              /\ mail = [sent |-> [n \in AllIds |-> 0], reply |-> "none", hook |-> "none"]
  BY InitIs
<1>2. PICK r \in Row : r = NewRow(g) /\ r.node = EntryNode(g) /\ r.trail = <<>> /\ r.status = "queued"
                       /\ r.retry_status = "pending"
  BY <1>1, NewRowIs
<1>3. RunInv
  <2>1. \A i \in 1..Len(versions) : ValidGraph(versions[i])
    BY <1>1
  <2>2. r.node \in NodeIds(g)
    BY <1>1, <1>2, EntryNodeIs
  <2> QED BY <1>1, <1>2, <2>1, <2>2 DEF RunInv
<1>4. NeverStranded
  BY <1>1, <1>2 DEF NeverStranded
<1>5. TypeOK
  <2>1. versions \in Seq(Candidates) /\ Len(versions) \in 1..MaxVersions
    BY <1>1, GraphAssumption
  <2>2. crashes \in 0..MaxCrashes
    BY <1>1, GraphAssumption
  <2>3. mail \in [sent : [AllIds -> Nat], reply : {"none", "positive", "negative"}, hook : {"none", "sent", "done"}]
    <3>1. PICK sent \in [AllIds -> Nat] : sent = [n \in AllIds |-> 0]
      OBVIOUS
    <3> QED BY <1>1, <3>1
  <2> QED BY <1>1, <1>2, <2>1, <2>2, <2>3 DEF TypeOK
<1> QED BY <1>3, <1>4, <1>5 DEF WalkInv

\* Every step keeps the walk.
LEMMA WalkStays == WalkInv /\ [Next]_vars => WalkInv'
<1> SUFFICES ASSUME WalkInv, [Next]_vars PROVE WalkInv'
  OBVIOUS
<1>1. CASE RunStep
  BY <1>1, RunStepIs, HandlerKeepsWalk, NodeMissingKeepsWalk, CallDialKeepsWalk, DialKeepsWalk, CallPlanKeepsWalk
     DEF WalkInv
<1>2. CASE UNCHANGED vars
  <2>1. TypeOK /\ RunInv /\ NeverStranded
    BY DEF WalkInv
  <2>2. UNCHANGED <<campaign, setup, versions, row, run, call, mail, lead, crashes>>
    BY <1>2 DEF vars
  <2>3. Graph' = Graph /\ Edited' = Edited
    BY <2>2 DEF Graph, Edited
  <2>4. TypeOK'
    BY <2>1, <2>2 DEF TypeOK
  <2>5. RunInv'
    BY <2>1, <2>2, <2>3 DEF RunInv
  <2>6. NeverStranded'
    BY <2>1, <2>2, <2>3 DEF NeverStranded
  <2> QED BY <2>4, <2>5, <2>6 DEF WalkInv
<1> QED
  BY <1>1, <1>2, DispatchKeepsWalk, CrashKeepsWalk, WebhookKeepsWalk, OtherKeepsWalk, EditKeepsWalk,
     TimeKeepsWalk DEF Next

\* The walk's variables keep their types, and what the API accepts strands nobody: a
\* row that failed is parked for a retry or out of attempts (the run loop, the node
\* handlers, process_outcome and the scheduler's requeue together).
THEOREM NeverStrandedCorrect == Spec => [](TypeOK /\ NeverStranded)
<1>1. WalkInv => TypeOK /\ NeverStranded
  BY DEF WalkInv
<1> QED BY <1>1, WalkBegins, WalkStays, PTL DEF Spec

-----------------------------------------------------------------------------
(* Mails. *)

\* Along an edge of a valid graph the mails still to come lie ahead.
LEMMA AheadAlong ==
    ASSUME NEW layer, MailsForward(layer), NEW g \in Candidates, ValidGraph(g), NEW n \in AllIds,
           NEW next \in NodeIds(g), NEW e \in Outbound(g, n), g.edges[e].target = next
    PROVE  /\ layer[g][n] \in Nat /\ layer[g][next] \in Nat /\ \A m \in AllIds : layer[g][m] \in Nat
           /\ layer[g][n] <= layer[g][next]
           /\ Node(g, n).type = "EMAIL" => layer[g][n] < layer[g][next]
<1>1. e \in DOMAIN g.edges /\ g.edges[e].source = n
  BY DEF Outbound
<1>2. next \in AllIds
  BY GraphIs
<1>3. \A m \in AllIds : layer[g][m] \in Nat
  BY DEF MailsForward
<1>4. layer[g][n] < layer[g][next] \/ (layer[g][n] = layer[g][next] /\ Node(g, n).type # "EMAIL")
  BY <1>1 DEF MailsForward
<1> QED BY <1>2, <1>3, <1>4

\* The mails of the state are numbers.
LEMMA MailIs ==
    ASSUME TypeOK
    PROVE  mail.sent \in [AllIds -> Nat] /\ crashes \in Nat
BY GraphAssumption DEF TypeOK

\* A handler has sent at most one mail, from its node, and has gone forward.
LEMMA HandlerKeepsMail ==
    ASSUME NEW layer, MailsForward(layer), WalkInv, MailInv(layer), HandlerStep, ~Edited \/ SameOrder(layer)
    PROVE  MailInv(layer)'
<1>1. TypeOK /\ RunInv
  BY DEF WalkInv
<1>2. PICK w \in Row : w = run.work
  BY <1>1, StateIs
<1>3. PICK v \in Row : Handled(w, v) /\ WentTo(v)
  BY <1>2 DEF HandlerStep
<1>4. /\ run.pc \in {"node", "plan"} /\ UNCHANGED <<versions, crashes>>
      /\ mail' = mail \/ (This.type = "EMAIL" /\ mail' = [mail EXCEPT !.sent[Here] = @ + 1])
  BY DEF HandlerStep
<1>5. PICK here \in AllIds : here = Here /\ here = w.node
  BY <1>1, <1>2, StateIs DEF Here
<1>6. PICK sent \in [AllIds -> Nat] : sent = mail.sent
  BY <1>1, MailIs
<1>7. PICK c \in Nat : c = crashes
  BY <1>1, MailIs
<1>8. PICK g0 \in Candidates : g0 = run.graph
  BY <1>1, StateIs
<1>9. /\ \A n \in AllIds : sent[n] <= 1 + c
      /\ Ahead(layer[g0], here, sent, c)
  BY <1>2, <1>4, <1>5, <1>6, <1>7, <1>8 DEF MailInv, MailRepeatsOnlyAfterCrash
<1>10. ValidGraph(g0) /\ w.retry_status = "pending"
  BY <1>1, <1>2, <1>4, <1>8 DEF RunInv
<1>11. PICK type : type = This.type
  OBVIOUS
<1>12. PICK later \in [AllIds -> Nat] :
          /\ later = mail'.sent
          /\ \A n \in AllIds : later[n] = sent[n] \/ (n = here /\ type = "EMAIL" /\ later[n] = sent[n] + 1)
  <2>1. CASE mail' = mail
    BY <1>6, <2>1
  <2>2. CASE type = "EMAIL" /\ mail' = [mail EXCEPT !.sent[Here] = @ + 1]
    <3>1. PICK m \in [sent : [AllIds -> Nat], reply : {"none", "positive", "negative"},
                      hook : {"none", "sent", "done"}] : m = mail
      BY <1>1 DEF TypeOK
    <3>2. PICK new \in [AllIds -> Nat] : new = [sent EXCEPT ![here] = sent[here] + 1]
      <4>1. [sent EXCEPT ![here] = sent[here] + 1] \in [AllIds -> Nat]
        OBVIOUS
      <4> QED BY <4>1
    <3>3. mail' = [m EXCEPT !.sent = new]
      BY <1>5, <1>6, <2>2, <3>1, <3>2
    <3>4. mail'.sent = new
      BY <3>3
    <3> QED BY <2>2, <3>2, <3>4
  <2> QED BY <1>4, <1>11, <2>1, <2>2
<1>13. \A n \in AllIds : layer[g0][n] \in Nat
  BY DEF MailsForward
<1>14. sent[here] <= c
  BY <1>9, <1>13 DEF Ahead
<1>15. MailRepeatsOnlyAfterCrash'
  <2>1. \A n \in AllIds : later[n] <= 1 + c
    BY <1>9, <1>12, <1>14
  <2> QED BY <1>4, <1>7, <1>12, <2>1 DEF MailRepeatsOnlyAfterCrash
<1>16. ASSUME NEW g \in {run.graph, Graph}, NEW next \in AllIds, run.pc = "node" => g = run.graph,
              Leads(g, Here, next, v.outputs)
       PROVE  Ahead(layer[g], next, later, c) /\ layer[g] = layer[Graph]
  <2>1. g \in Candidates /\ layer[g] = layer[g0] /\ layer[g] = layer[Graph]
    BY <1>1, <1>8, StateIs DEF RunInv, SameOrder
  <2>2. ValidGraph(g)
    <3>1. Len(versions) \in 1..Len(versions)
      BY <1>1, StateIs
    <3>2. ValidGraph(Graph)
      BY <1>1, <3>1 DEF RunInv, Graph, Last
    <3> QED BY <1>8, <1>10, <3>2
  <2>3. PICK e \in Outbound(g, here) : g.edges[e].target = next
    BY <1>5, <1>16 DEF Leads
  <2>4. next \in NodeIds(g)
    BY <1>16 DEF Leads
  <2>5. /\ layer[g][here] \in Nat /\ layer[g][next] \in Nat /\ \A m \in AllIds : layer[g][m] \in Nat
        /\ layer[g][here] <= layer[g][next]
        /\ Node(g, here).type = "EMAIL" => layer[g][here] < layer[g][next]
    BY <2>1, <2>2, <2>3, <2>4, AheadAlong
  <2>6. type = "EMAIL" => Node(g, here).type = "EMAIL"
    BY <1>1, <1>2, <1>4, <1>5, <1>11, <1>16 DEF RunInv, This
  <2>7. PICK rank : rank = layer[g]
    OBVIOUS
  <2>8. ASSUME NEW n \in AllIds, rank[n] >= rank[next] PROVE later[n] <= c
    <3>1. sent[n] <= c
      BY <1>9, <2>1, <2>5, <2>7, <2>8 DEF Ahead
    <3>2. ~ (n = here /\ type = "EMAIL")
      BY <2>5, <2>6, <2>7, <2>8
    <3> QED BY <1>12, <3>1, <3>2
  <2> QED BY <2>1, <2>7, <2>8 DEF Ahead
<1>17. Graph' = Graph /\ crashes' = c /\ mail'.sent = later
  BY <1>4, <1>7, <1>12 DEF Graph
<1> DEFINE Goal == /\ Waits(row') /\ run'.pc = "idle" => Ahead(layer[Graph'], row'.node, later, c)
                   /\ run'.pc # "idle" => Ahead(layer[run'.graph], run'.work.node, later, c)
<1>18. Goal
  <2>1. CASE Rests(Completed(v))
    BY <2>1, CompletedIs DEF Rests, Waits
  <2>2. CASE Rests(Failed(v))
    BY <1>3, <1>10, <2>2, FailedIs DEF Rests, Waits, Handled
  <2>3. ASSUME NEW g \in {run.graph, Graph}, NEW next \in AllIds, run.pc = "node" => g = run.graph,
               Leads(g, Here, next, v.outputs), Moves(g, At(v, next)) \/ Rests(Parked(v, next))
        PROVE  Goal
    <3>1. Ahead(layer[g], next, later, c) /\ layer[g] = layer[Graph]
      BY <1>16, <2>3
    <3>2. CASE Moves(g, At(v, next))
      <4>1. run'.pc = "node" /\ run'.graph = g /\ run'.work = At(v, next)
        BY <3>2 DEF Moves
      <4>2. At(v, next).node = next
        BY AtIs
      <4> QED BY <3>1, <4>1, <4>2
    <3>3. CASE Rests(Parked(v, next))
      <4>1. run'.pc = "idle" /\ row' = Parked(v, next)
        BY <3>3 DEF Rests
      <4>2. Parked(v, next).node = next
        BY ParkedIs
      <4> QED BY <1>17, <3>1, <4>1, <4>2
    <3> QED BY <2>3, <3>2, <3>3
  <2> QED BY <1>3, <2>1, <2>2, <2>3 DEF WentTo
<1> QED BY <1>15, <1>17, <1>18 DEF MailInv

\* A step that sends no mail, and leads to no earlier place.
LEMMA SameMail ==
    ASSUME NEW layer, MailInv(layer), ~Edited \/ SameOrder(layer),
           mail'.sent = mail.sent, UNCHANGED <<versions, crashes>>,
           Waits(row') /\ run'.pc = "idle" => Ahead(layer[Graph], row'.node, mail.sent, crashes),
           run'.pc # "idle" => Ahead(layer[run'.graph], run'.work.node, mail.sent, crashes)
    PROVE  MailInv(layer)'
<1>1. Graph' = Graph
  BY DEF Graph
<1>2. MailRepeatsOnlyAfterCrash
  BY DEF MailInv
<1>3. MailRepeatsOnlyAfterCrash'
  BY <1>2 DEF MailRepeatsOnlyAfterCrash
<1> QED BY <1>1, <1>3 DEF MailInv

\* The steps around the dial, and one that finds its node gone.
LEMMA DialKeepsMail ==
    ASSUME NEW layer, WalkInv, MailInv(layer), ~Edited \/ SameOrder(layer),
           NodeMissing \/ CallDial \/ CallPlaced \/ CallRefused \/ CallPlan
    PROVE  MailInv(layer)'
<1>1. TypeOK /\ RunInv
  BY DEF WalkInv
<1>2. /\ run.pc # "idle" /\ UNCHANGED <<versions, mail, crashes>>
  BY DEF NodeMissing, CallDial, CallPlaced, CallRefused, CallPlan, Runs
<1>3. PICK w \in Row : w = run.work
  BY <1>1, StateIs
<1>4. Ahead(layer[run.graph], w.node, mail.sent, crashes) /\ layer[run.graph] = layer[Graph]
  <2>1. layer[run.graph] = layer[Graph]
    BY <1>1, StateIs DEF RunInv, SameOrder
  <2> QED BY <1>2, <1>3, <2>1 DEF MailInv
<1>5. w.retry_status = "pending" /\ (run.pc = "post" => w = row)
  BY <1>1, <1>2, <1>3 DEF RunInv
<1>6. \/ row'.node = w.node /\ run'.work.node = w.node /\ run'.graph = run.graph
      \/ ~Waits(row') /\ run'.pc = "idle"
  <2>1. CASE NodeMissing
    <3>1. row' = Failed(w) /\ run'.pc = "idle"
      BY <1>3, <2>1 DEF NodeMissing, Commit, IdleRun
    <3> QED BY <1>5, <3>1, FailedIs DEF Waits
  <2>2. CASE CallDial
    <3>1. PICK r \in Row :
              /\ r.node = Here
              /\ \/ Rests(ProcessOutcome(r, "failed"))
                 \/ r.status = "running" /\ row' = r /\ run' = [pc |-> "post", graph |-> run.graph, work |-> r]
      BY <1>1, <2>2, CallDialIs
    <3>2. PICK v : v = ProcessOutcome(r, "failed")
      OBVIOUS
    <3>3. v.node = r.node
      BY <3>2, OutcomeIs
    <3> QED BY <1>3, <3>1, <3>2, <3>3 DEF Rests, Here
  <2>3. CASE CallPlaced
    BY <1>5, <2>3 DEF CallPlaced, Commit, IdleRun
  <2>4. CASE CallRefused
    <3>1. PICK v : v = ProcessOutcome(w, "failed")
      OBVIOUS
    <3>2. v.node = w.node
      BY <3>1, OutcomeIs
    <3> QED BY <1>5, <2>4, <3>1, <3>2 DEF CallRefused, Commit, IdleRun
  <2>5. CASE CallPlan
    <3>1. PICK r : r = [w EXCEPT !.status = "running"]
      OBVIOUS
    <3>2. r.node = w.node
      BY <3>1 DEF Row
    <3>3. row' = r /\ run' = [run EXCEPT !.pc = "plan", !.work = r]
      BY <1>3, <2>5, <3>1 DEF CallPlan
    <3>4. run' = [pc |-> "plan", graph |-> run.graph, work |-> r]
      BY <1>1, <3>3, StateIs
    <3> QED BY <3>2, <3>3, <3>4
  <2> QED BY <2>1, <2>2, <2>3, <2>4, <2>5
<1> QED BY <1>2, <1>4, <1>6, SameMail

\* The worker takes the row, or dies.
LEMMA WorkerKeepsMail ==
    ASSUME NEW layer, MailsForward(layer), WalkInv, MailInv(layer), ~Edited \/ SameOrder(layer), Dispatch \/ Crash
    PROVE  MailInv(layer)'
<1>1. TypeOK /\ RunInv
  BY DEF WalkInv
<1>2. CASE Dispatch
  <2>1. /\ run.pc = "idle" /\ row.status = "queued" /\ run' = [pc |-> "node", graph |-> Graph, work |-> row]
        /\ UNCHANGED <<versions, mail, crashes>>
    BY <1>2 DEF Dispatch
  <2>2. Ahead(layer[Graph], row.node, mail.sent, crashes)
    BY <2>1 DEF MailInv, Waits
  <2> QED BY <2>1, <2>2, SameMail
<1>3. CASE Crash
  <2>1. /\ UNCHANGED <<versions, mail>> /\ crashes' = crashes + 1 /\ run'.pc = "idle"
    BY <1>3 DEF Crash, IdleRun
  <2>2. PICK sent \in [AllIds -> Nat] : sent = mail.sent
    BY <1>1, MailIs
  <2>3. PICK c \in Nat : c = crashes
    BY <1>1, MailIs
  <2>4. \A n \in AllIds : sent[n] <= 1 + c
    BY <2>2, <2>3 DEF MailInv, MailRepeatsOnlyAfterCrash
  <2>5. mail'.sent = sent /\ crashes' = 1 + c
    BY <2>1, <2>2, <2>3
  <2>6. MailRepeatsOnlyAfterCrash'
    <3>1. \A n \in AllIds : sent[n] <= 1 + (1 + c)
      BY <2>4
    <3> QED BY <2>5, <3>1 DEF MailRepeatsOnlyAfterCrash
  <2>7. Ahead(layer[Graph'], row'.node, sent, 1 + c)
    BY <2>4 DEF Ahead
  <2> QED BY <2>1, <2>5, <2>6, <2>7 DEF MailInv
<1> QED BY <1>2, <1>3

\* The callback moves the row on, along an edge.
LEMMA WebhookKeepsMail ==
    ASSUME NEW layer, MailsForward(layer), WalkInv, MailInv(layer), ~Edited \/ SameOrder(layer), Webhook
    PROVE  MailInv(layer)'
<1>1. TypeOK /\ RunInv
  BY DEF WalkInv
<1>2. call.leg = "live" /\ UNCHANGED <<versions, run, mail, crashes>>
  BY DEF Webhook
<1>3. run.pc = "idle" /\ row.status = "running"
  BY <1>1, <1>2 DEF RunInv
<1>4. PICK w \in Row : w = row
  BY <1>1, StateIs
<1>5. PICK g \in Candidates : g = Graph /\ ValidGraph(g)
  <2>1. Len(versions) \in 1..Len(versions)
    BY <1>1, StateIs
  <2> QED BY <1>1, <2>1, StateIs DEF RunInv, Graph, Last
<1>6. PICK o : row' = MovedOn(g, w, o)
  BY <1>4, <1>5 DEF Webhook
<1>7. PICK v : /\ v = MovedOn(g, w, o)
               /\ \/ v.node = w.node
                  \/ v.node = NextNode(g, w.node) /\ v.node # NoNode
  BY MovedOnIs
<1>8. PICK rank : rank = layer[g]
  OBVIOUS
<1>9. PICK sent \in [AllIds -> Nat] : sent = mail.sent
  BY <1>1, MailIs
<1>10. Ahead(rank, w.node, sent, crashes)
  BY <1>3, <1>4, <1>5, <1>8, <1>9 DEF MailInv, Waits
<1>11. Ahead(rank, v.node, sent, crashes)
  <2>1. CASE v.node = w.node
    BY <1>10, <2>1
  <2>2. CASE v.node = NextNode(g, w.node) /\ v.node # NoNode
    <3>1. PICK next \in NodeIds(g) : next = v.node /\ \E e \in Outbound(g, w.node) : g.edges[e].target = next
      BY <2>2, NextNodeIs
    <3>2. PICK n \in AllIds : n = w.node
      BY DEF Row
    <3>3. PICK e \in Outbound(g, n) : g.edges[e].target = next
      BY <3>1, <3>2
    <3>4. /\ rank[n] \in Nat /\ rank[next] \in Nat /\ \A m \in AllIds : rank[m] \in Nat
          /\ rank[n] <= rank[next]
      BY <1>5, <1>8, <3>3, AheadAlong
    <3> QED BY <1>10, <3>1, <3>2, <3>4 DEF Ahead
  <2> QED BY <1>7, <2>1, <2>2
<1> QED BY <1>2, <1>3, <1>5, <1>6, <1>7, <1>8, <1>9, <1>11, SameMail

\* Time passes, the scheduler requeues, the lead replies, the campaign ends.
LEMMA OthersKeepMail ==
    ASSUME NEW layer, WalkInv, MailInv(layer), ~Edited \/ SameOrder(layer),
           Elapse \/ Requeue \/ Reply \/ InboundWebhook \/ Complete
    PROVE  MailInv(layer)'
<1>1. TypeOK /\ RunInv
  BY DEF WalkInv
<1>2. PICK w \in Row : w = row
  BY <1>1, StateIs
<1>3. UNCHANGED <<versions, run, crashes>> /\ mail'.sent = mail.sent
  <2>1. PICK m \in [sent : [AllIds -> Nat], reply : {"none", "positive", "negative"},
                    hook : {"none", "sent", "done"}] : m = mail
    BY <1>1 DEF TypeOK
  <2>2. CASE Reply
    <3>1. PICK kind, hook : mail' = [m EXCEPT !.reply = kind, !.hook = hook]
      BY ZenonT(60), <2>1, <2>2 DEF Reply
    <3> QED BY <2>1, <2>2, <3>1 DEF Reply
  <2>3. CASE InboundWebhook
    <3>1. mail' = [m EXCEPT !.hook = "done"]
      BY <2>1, <2>3 DEF InboundWebhook
    <3> QED BY <2>1, <2>3, <3>1 DEF InboundWebhook
  <2>4. CASE Elapse \/ Requeue \/ Complete
    BY <2>4 DEF Elapse, Requeue, Complete
  <2> QED BY <2>2, <2>3, <2>4
<1>4. row'.node = w.node /\ (Waits(row') => Waits(w))
  <2>1. CASE Elapse
    <3>1. row' = [w EXCEPT !.next_retry_at = "due"]
      BY <1>2, <2>1 DEF Elapse
    <3> QED BY <3>1 DEF Row, Waits
  <2>2. CASE Requeue
    <3>1. row' = [w EXCEPT !.status = "queued", !.retry_status = "pending", !.next_retry_at = "none"]
          /\ w.retry_status = "scheduled"
      BY <1>2, <2>2 DEF Requeue
    <3> QED BY <3>1 DEF Row, Waits
  <2>3. CASE Reply \/ InboundWebhook \/ Complete
    BY <1>2, <2>3 DEF Reply, InboundWebhook, Complete
  <2> QED BY <2>1, <2>2, <2>3
<1>5. Waits(row') /\ run'.pc = "idle" => Ahead(layer[Graph], row'.node, mail.sent, crashes)
  BY <1>2, <1>3, <1>4 DEF MailInv
<1>6. run'.pc # "idle" => Ahead(layer[run'.graph], run'.work.node, mail.sent, crashes)
  BY <1>3 DEF MailInv
<1> QED BY <1>3, <1>5, <1>6, SameMail

\* An edit keeps the order of the mails.
LEMMA EditKeepsMail ==
    ASSUME NEW layer, WalkInv, MailInv(layer), SameOrder(layer), PutWorkflow \/ RestoreVersion
    PROVE  MailInv(layer)'
<1>1. TypeOK /\ RunInv
  BY DEF WalkInv
<1>2. Graph' \in Candidates /\ UNCHANGED <<row, run, mail, crashes>>
  BY <1>1, EditIs
<1>3. layer[Graph'] = layer[Graph]
  BY <1>1, <1>2, StateIs DEF SameOrder
<1>4. MailRepeatsOnlyAfterCrash'
  BY <1>2 DEF MailInv, MailRepeatsOnlyAfterCrash
<1> QED BY <1>2, <1>3, <1>4 DEF MailInv

\* Only an edit makes a version.
LEMMA VersionsStay ==
    ASSUME Next, ~(PutWorkflow \/ RestoreVersion)
    PROVE  versions' = versions
BY DEF Next, Dispatch, RunStep, Crash, Webhook, Reply, InboundWebhook, Elapse, Requeue, Complete,
       NodeMissing, CallDial, CallPlaced, CallRefused, CallPlan, CallPlanned, CallPlanFailed,
       EmailSkipOrFail, EmailSend, LinkedInAct, WaitPark, WaitSkip, WaitBadUnit, Condition,
       ConditionUnknown, Stop

\* No step sends a mail behind the row again: what lies ahead has gone out only in runs
\* that crashed.
LEMMA MailStays ==
    ASSUME NEW layer, MailsForward(layer), WalkInv, MailInv(layer), [Next]_vars
    PROVE  MailInv(layer)'
<1>1. SUFFICES ASSUME ~Edited' \/ SameOrder(layer) PROVE MailInv(layer)'
  BY DEF MailInv
<1>2. TypeOK /\ RunInv
  BY DEF WalkInv
<1>3. CASE PutWorkflow \/ RestoreVersion
  <2>1. SameOrder(layer)
    BY <1>1, <1>2, <1>3, EditIs
  <2> QED BY <1>3, <2>1, EditKeepsMail
<1>4. CASE UNCHANGED vars
  <2>1. UNCHANGED <<versions, row, run, mail, crashes>>
    BY <1>4 DEF vars
  <2>2. Edited' = Edited /\ Graph' = Graph
    BY <2>1 DEF Edited, Graph
  <2>3. MailRepeatsOnlyAfterCrash'
    BY <1>1, <2>1, <2>2 DEF MailInv, MailRepeatsOnlyAfterCrash
  <2> QED BY <1>1, <2>1, <2>2, <2>3 DEF MailInv
<1>5. CASE ~(PutWorkflow \/ RestoreVersion) /\ Next
  <2>1. versions' = versions
    BY <1>5, VersionsStay
  <2>2. ~Edited \/ SameOrder(layer)
    BY <1>1, <2>1 DEF Edited
  <2>3. CASE RunStep
    BY <1>2, <2>2, <2>3, RunStepIs, HandlerKeepsMail, DialKeepsMail
  <2> QED BY <1>5, <2>2, <2>3, WorkerKeepsMail, WebhookKeepsMail, OthersKeepMail DEF Next
<1> QED BY <1>3, <1>4, <1>5

\* At the start nothing has been sent.
LEMMA MailBegins == ASSUME NEW layer, Init PROVE MailInv(layer)
<1>1. mail.sent = [n \in AllIds |-> 0] /\ crashes = 0
  BY InitIs
<1>2. \A n \in AllIds : mail.sent[n] <= 1 + crashes /\ mail.sent[n] <= crashes
  BY <1>1
<1> QED BY <1>2 DEF MailInv, MailRepeatsOnlyAfterCrash, Ahead

\* Where no cycle leads through a mail, a node's mail goes out once, and once more for
\* each crash of the worker (email_handler sends before the run loop commits); edits
\* between graphs that list their mails in one order change nothing about it.
THEOREM MailOnceCorrect ==
    ASSUME NEW CONSTANT layer, MailsForward(layer)
    PROVE  Spec => [](~Edited \/ SameOrder(layer) => MailRepeatsOnlyAfterCrash)
<1>1. Init => WalkInv /\ MailInv(layer)
  BY WalkBegins, MailBegins
<1>2. WalkInv /\ MailInv(layer) /\ [Next]_vars => WalkInv' /\ MailInv(layer)'
  BY WalkStays, MailStays
<1>3. MailInv(layer) => (~Edited \/ SameOrder(layer) => MailRepeatsOnlyAfterCrash)
  BY DEF MailInv
<1> QED BY <1>1, <1>2, <1>3, PTL DEF Spec

-----------------------------------------------------------------------------
(* The trail. *)

\* An edge the walk may take stays one when other outputs change.
LEMMA MayFollowStays ==
    ASSUME NEW layer, Layered(layer), NEW g \in Candidates, ValidGraph(g), NEW old, NEW new, NEW here \in AllIds,
           Keeps(old, new, here), Replies(old), NEW n, NEW m, MayFollow(g, n, m, old),
           layer[g][n] <= layer[g][here]
    PROVE  MayFollow(g, n, m, new)
<1>1. PICK e \in Outbound(g, n) :
        /\ g.edges[e].target = m
        /\ Node(g, n).type = "CONDITION" =>
              \/ g.edges[e].condition = "FALSE"
              \/ /\ g.edges[e].condition = "TRUE"
                 /\ EvaluateCondition(Node(g, n).config, OutputOf(old, Node(g, n).source))
  BY DEF MayFollow
<1>2. n \in NodeIds(g)
  BY DEF Outbound, ValidGraph, WellFormed
<1>3. PICK i \in DOMAIN g.nodes : g.nodes[i] = Node(g, n) /\ g.nodes[i].id = n
  BY <1>2, GraphIs
<1>4. CASE Node(g, n).type # "CONDITION"
  BY <1>1, <1>4 DEF MayFollow
<1>5. CASE Node(g, n).type = "CONDITION"
  <2>1. PICK from : from = Node(g, n).source
    OBVIOUS
  <2>2. from \in NodeIds(g) /\ layer[g][from] < layer[g][n]
    BY <1>3, <1>5, <2>1 DEF Layered
  <2>3. from \in AllIds /\ n \in AllIds
    BY <1>2, <2>2, GraphIs
  <2>4. layer[g][from] \in Nat /\ layer[g][n] \in Nat /\ layer[g][here] \in Nat
    BY <2>3 DEF Layered
  <2>5. from # here
    BY <2>2, <2>4
  <2>6. OutputOf(old, from) = old[from] /\ OutputOf(new, from) = new[from]
    BY <2>3 DEF OutputOf
  <2>7. /\ \A f \in {"sent", "completed", "failed"} : f \in old[from] <=> f \in new[from]
        /\ \A f \in {"replied", "negative_reply"} : f \in old[from] => f \in new[from]
    BY <2>3, <2>5 DEF Keeps
  <2>8. EvaluateCondition(Node(g, n).config, old[from]) => EvaluateCondition(Node(g, n).config, new[from])
    BY <2>7 DEF EvaluateCondition
  <2> QED BY <1>1, <2>1, <2>6, <2>8 DEF MayFollow
<1> QED BY <1>4, <1>5

\* A walk stays a walk when its last node's handler has run.
LEMMA WalkedOn ==
    ASSUME NEW layer, Layered(layer), NEW g \in Candidates, ValidGraph(g), NEW w \in Row, NEW v \in Row,
           v.trail = Append(w.trail, w.node), Keeps(w.outputs, v.outputs, w.node),
           Walked(g, w.trail, w.outputs), Replies(w.outputs),
           Stands(g, layer[g], w.trail, w.outputs, w.node)
    PROVE  /\ Walked(g, v.trail, v.outputs) /\ Replies(v.outputs)
           /\ Len(v.trail) > 0 /\ v.trail[Len(v.trail)] = w.node
           /\ \A i \in 1..Len(v.trail) : layer[g][v.trail[i]] <= layer[g][w.node]
<1>1. PICK old \in Seq(AllIds) : old = w.trail
  BY DEF Row
<1>2. PICK here \in AllIds : here = w.node
  BY DEF Row
<1>3. PICK new : new = v.trail
  OBVIOUS
<1>4. /\ new \in Seq(AllIds) /\ Len(new) = Len(old) + 1 /\ new[Len(new)] = here
      /\ \A i \in 1..Len(old) : new[i] = old[i]
      /\ Len(old) \in Nat
  BY <1>1, <1>2, <1>3, AppendProperties
<1>5. PICK rank : rank = layer[g]
  OBVIOUS
<1>6. rank \in [AllIds -> Nat]
  BY <1>5 DEF Layered
<1>7. PICK p : p = w.outputs
  OBVIOUS
<1>8. PICK q : q = v.outputs
  OBVIOUS
<1>9. /\ IF old = <<>> THEN here = EntryNode(g)
         ELSE \/ MayFollow(g, old[Len(old)], here, p)
              \/ old[Len(old)] = here /\ Node(g, here).type = "CALL"
      /\ \A i \in 1..Len(old) : rank[old[i]] <= rank[here]
  BY <1>1, <1>2, <1>5, <1>7 DEF Stands
<1>10. \A i \in 1..Len(new) : rank[new[i]] <= rank[here]
  <2>1. rank[here] <= rank[here]
    BY <1>6
  <2>2. \A i \in 1..Len(new) : i \in 1..Len(old) \/ i = Len(new)
    BY <1>4
  <2> QED BY <1>4, <1>9, <2>1, <2>2
<1>11. ASSUME NEW i \in 1..Len(old), NEW m, MayFollow(g, old[i], m, p) PROVE MayFollow(g, old[i], m, q)
  <2>1. layer[g][old[i]] <= layer[g][here]
    BY <1>5, <1>9
  <2> QED BY <1>2, <1>7, <1>8, <1>11, <2>1, MayFollowStays
<1>12. new # <<>> => new[1] = EntryNode(g)
  <2>1. CASE old = <<>>
    BY <1>4, <1>9, <2>1
  <2>2. CASE old # <<>>
    <3>1. 1 \in 1..Len(old)
      BY <1>1, <2>2
    <3>2. old[1] = EntryNode(g)
      BY <1>1, <2>2 DEF Walked
    <3> QED BY <1>4, <3>1, <3>2
  <2> QED BY <2>1, <2>2
<1>13. ASSUME NEW i \in 1..(Len(new) - 1)
       PROVE  MayFollow(g, new[i], new[i + 1], q) \/ (new[i] = new[i + 1] /\ Node(g, new[i]).type = "CALL")
  <2>1. i \in 1..Len(old) /\ new[i] = old[i]
    BY <1>4
  <2>2. CASE i < Len(old)
    <3>1. i \in 1..(Len(old) - 1) /\ i + 1 \in 1..Len(old) /\ new[i + 1] = old[i + 1]
      BY <1>4, <2>1, <2>2
    <3>2. MayFollow(g, old[i], old[i + 1], p) \/ (old[i] = old[i + 1] /\ Node(g, old[i]).type = "CALL")
      BY <1>1, <1>7, <3>1 DEF Walked
    <3> QED BY <1>11, <2>1, <3>1, <3>2
  <2>3. CASE i = Len(old)
    <3>1. new[i + 1] = here /\ old # <<>>
      BY <1>4, <2>1, <2>3
    <3>2. MayFollow(g, old[i], here, p) \/ (old[i] = here /\ Node(g, old[i]).type = "CALL")
      BY <1>9, <2>3, <3>1
    <3> QED BY <1>11, <2>1, <3>1, <3>2
  <2> QED BY <1>4, <2>1, <2>2, <2>3
<1>14. Walked(g, new, q)
  BY <1>12, <1>13 DEF Walked
<1>15. Replies(q)
  BY <1>7, <1>8 DEF Keeps
<1> QED BY <1>2, <1>3, <1>4, <1>5, <1>8, <1>10, <1>14, <1>15

\* From the last node of the trail along an edge the walk comes to a later layer.
LEMMA StandsNext ==
    ASSUME NEW layer, Layered(layer), NEW g \in Candidates, ValidGraph(g), NEW trail \in Seq(AllIds), NEW outputs,
           Len(trail) > 0, NEW here \in AllIds, trail[Len(trail)] = here,
           \A i \in 1..Len(trail) : layer[g][trail[i]] <= layer[g][here],
           NEW next \in AllIds, MayFollow(g, here, next, outputs)
    PROVE  /\ Stands(g, layer[g], trail, outputs, next)
           /\ \A i \in 1..Len(trail) : layer[g][trail[i]] < layer[g][next]
<1>1. PICK rank \in [AllIds -> Nat] : rank = layer[g]
  BY DEF Layered
<1>2. rank[here] < rank[next]
  BY <1>1 DEF MayFollow, Outbound, Layered
<1>3. ASSUME NEW i \in 1..Len(trail) PROVE rank[trail[i]] < rank[next]
  <2>1. trail[i] \in AllIds
    OBVIOUS
  <2>2. rank[trail[i]] <= rank[here]
    BY <1>1
  <2>3. rank[trail[i]] \in Nat /\ rank[here] \in Nat /\ rank[next] \in Nat
    BY <2>1
  <2> QED BY <1>2, <2>2, <2>3
<1>4. ASSUME NEW i \in 1..Len(trail) PROVE rank[trail[i]] <= rank[next]
  <2>1. trail[i] \in AllIds
    OBVIOUS
  <2>2. rank[trail[i]] \in Nat /\ rank[next] \in Nat
    BY <2>1
  <2> QED BY <1>3, <2>2
<1>5. trail # <<>>
  OBVIOUS
<1> QED BY <1>1, <1>3, <1>4, <1>5 DEF Stands

\* Where a handler leads the walk may follow.
LEMMA LeadsOn ==
    ASSUME NEW layer, Layered(layer), NEW g \in Candidates, ValidGraph(g), g = run.graph,
           NEW here \in AllIds, NEW next, NEW outputs, Leads(g, here, next, outputs)
    PROVE  MayFollow(g, here, next, outputs)
<1>1. PICK e \in Outbound(g, here) :
    /\ g.edges[e].target = next
    /\ Node(g, here).type = "CONDITION" /\ Node(g, here).source # here =>
          \/ g.edges[e].condition = "FALSE"
          \/ /\ g.edges[e].condition = "TRUE"
             /\ EvaluateCondition(Node(g, here).config, OutputOf(outputs, Node(g, here).source))
  BY DEF Leads
<1>2. here \in NodeIds(g)
  BY <1>1 DEF Outbound, ValidGraph, WellFormed
<1>3. PICK i \in DOMAIN g.nodes : g.nodes[i] = Node(g, here) /\ g.nodes[i].id = here
  BY <1>2, GraphIs
<1>4. ASSUME Node(g, here).type = "CONDITION" PROVE Node(g, here).source # here
  <2>1. layer[g][Node(g, here).source] < layer[g][here]
    BY <1>3, <1>4 DEF Layered
  <2>2. layer[g][here] \in Nat
    BY DEF Layered
  <2> QED BY <2>1, <2>2
<1> QED BY <1>1, <1>4 DEF MayFollow

\* The walk after a handler.
LEMMA HandlerKeepsTrail ==
    ASSUME NEW layer, Layered(layer), WalkInv, TrailInv(layer), HandlerStep, ~Edited
    PROVE  TrailInv(layer)'
<1>1. TypeOK /\ RunInv
  BY DEF WalkInv
<1>2. PICK w \in Row : w = run.work
  BY <1>1, StateIs
<1>3. PICK v \in Row : Handled(w, v) /\ WentTo(v)
  BY <1>2 DEF HandlerStep
<1>4. run.pc \in {"node", "plan"} /\ UNCHANGED <<versions, call>>
  BY DEF HandlerStep
<1>5. PICK here \in AllIds : here = w.node /\ here = Here
  BY <1>1, <1>2, StateIs DEF Here
<1>6. PICK g \in Candidates : g = Graph /\ g = run.graph /\ ValidGraph(g)
  BY <1>1, StateIs DEF RunInv
<1>7. w.retry_status = "pending" /\ call.leg # "live"
  BY <1>1, <1>2, <1>4 DEF RunInv
<1>8. /\ Walked(g, w.trail, w.outputs) /\ Replies(w.outputs)
      /\ Stands(g, layer[g], w.trail, w.outputs, w.node)
      /\ Walked(g, row.trail, row.outputs) /\ Replies(row.outputs)
      /\ Waits(row) => Stands(g, layer[g], row.trail, row.outputs, row.node)
  BY <1>2, <1>4, <1>6 DEF TrailInv
<1>9. v.trail = Append(w.trail, w.node) /\ Keeps(w.outputs, v.outputs, w.node) /\ v.retry_status = w.retry_status
  BY <1>3 DEF Handled
<1>10. /\ Walked(g, v.trail, v.outputs) /\ Replies(v.outputs)
       /\ Len(v.trail) > 0 /\ v.trail[Len(v.trail)] = here
       /\ \A i \in 1..Len(v.trail) : layer[g][v.trail[i]] <= layer[g][here]
  BY <1>5, <1>6, <1>8, <1>9, WalkedOn
<1>11. Graph' = g /\ call'.leg # "live" /\ ~Edited'
  BY <1>4, <1>6, <1>7 DEF Graph, Edited
<1> DEFINE Goal ==
        /\ Walked(g, row'.trail, row'.outputs) /\ Replies(row'.outputs)
        /\ Walked(g, run'.work.trail, run'.work.outputs) /\ Replies(run'.work.outputs)
        /\ Waits(row') => Stands(g, layer[g], row'.trail, row'.outputs, row'.node)
        /\ run'.pc # "idle" => Stands(g, layer[g], run'.work.trail, run'.work.outputs, run'.work.node)
        /\ run'.pc # "post"
<1>12. Goal
  <2>1. CASE Rests(Completed(v))
    <3>1. PICK r : r = Completed(v) /\ r.trail = v.trail /\ r.outputs = v.outputs
                   /\ r.status = "completed" /\ r.retry_status = "completed"
      BY CompletedIs
    <3>2. row' = r /\ run'.work = r /\ run'.pc = "idle"
      BY <2>1, <3>1 DEF Rests
    <3> QED BY <1>10, <3>1, <3>2 DEF Waits
  <2>2. CASE Rests(Failed(v))
    <3>1. PICK r : r = Failed(v) /\ r.trail = v.trail /\ r.outputs = v.outputs
                   /\ r.status = "failed" /\ r.retry_status = v.retry_status
      BY FailedIs
    <3>2. row' = r /\ run'.work = r /\ run'.pc = "idle"
      BY <2>2, <3>1 DEF Rests
    <3> QED BY <1>7, <1>9, <1>10, <3>1, <3>2 DEF Waits
  <2>3. ASSUME NEW next \in AllIds, Leads(g, Here, next, v.outputs),
               Moves(g, At(v, next)) \/ Rests(Parked(v, next))
        PROVE  Goal
    <3>1. MayFollow(g, here, next, v.outputs)
      BY <1>5, <1>6, <2>3, LeadsOn
    <3>2. v.trail \in Seq(AllIds)
      BY DEF Row
    <3>3. Stands(g, layer[g], v.trail, v.outputs, next)
      BY <1>6, <1>10, <3>1, <3>2, StandsNext
    <3>4. CASE Moves(g, At(v, next))
      <4>1. PICK r : r = At(v, next) /\ r.trail = v.trail /\ r.outputs = v.outputs /\ r.node = next
        BY AtIs
      <4>2. row' = row /\ run'.work = r /\ run'.pc = "node"
        BY <3>4, <4>1 DEF Moves
      <4> QED BY <1>8, <1>10, <3>3, <4>1, <4>2
    <3>5. CASE Rests(Parked(v, next))
      <4>1. PICK r : r = Parked(v, next) /\ r.trail = v.trail /\ r.outputs = v.outputs /\ r.node = next
        BY ParkedIs
      <4>2. row' = r /\ run'.work = r /\ run'.pc = "idle"
        BY <3>5, <4>1 DEF Rests
      <4> QED BY <1>10, <3>3, <4>1, <4>2
    <3> QED BY <2>3, <3>4, <3>5
  <2> QED BY <1>3, <1>6, <2>1, <2>2, <2>3 DEF WentTo
<1> QED BY <1>11, <1>12 DEF TrailInv

\* The walk after the steps around the dial.
LEMMA CallDialKeepsTrail ==
    ASSUME NEW layer, Layered(layer), WalkInv, TrailInv(layer), CallDial, ~Edited
    PROVE  TrailInv(layer)'
<1>1. TypeOK /\ RunInv
  BY DEF WalkInv
<1>2. PICK r \in Row :
              /\ r.node = Here /\ r.trail = Append(run.work.trail, Here) /\ r.outputs = run.work.outputs
              /\ \/ Rests(ProcessOutcome(r, "failed"))
                 \/ r.status = "running" /\ row' = r /\ run' = [pc |-> "post", graph |-> run.graph, work |-> r]
  BY <1>1, CallDialIs
<1>3. PICK w \in Row : w = run.work
  BY <1>1, StateIs
<1>4. PICK here \in AllIds : here = w.node /\ here = Here
  BY <1>1, <1>3, StateIs DEF Here
<1>5. PICK g \in Candidates : g = Graph /\ g = run.graph /\ ValidGraph(g)
  BY <1>1, StateIs DEF RunInv
<1>6. run.pc = "node" /\ Node(g, here).type = "CALL" /\ UNCHANGED <<versions, call>>
  BY <1>4, <1>5 DEF CallDial, Runs, This
<1>7. Walked(g, w.trail, w.outputs) /\ Replies(w.outputs) /\ Stands(g, layer[g], w.trail, w.outputs, w.node)
  BY <1>3, <1>5, <1>6 DEF TrailInv
<1>8. r.trail = Append(w.trail, w.node) /\ Keeps(w.outputs, r.outputs, w.node)
  BY <1>2, <1>3, <1>4 DEF Keeps
<1>9. /\ Walked(g, r.trail, r.outputs) /\ Replies(r.outputs)
      /\ Len(r.trail) > 0 /\ r.trail[Len(r.trail)] = here
      /\ \A i \in 1..Len(r.trail) : layer[g][r.trail[i]] <= layer[g][here]
  BY <1>4, <1>5, <1>7, <1>8, WalkedOn
<1>10. r.trail # <<>>
  BY <1>9
<1>11. Stands(g, layer[g], r.trail, r.outputs, here)
  BY <1>6, <1>9, <1>10 DEF Stands
<1>12. Graph' = g /\ call' = call /\ call.leg # "live"
  BY <1>1, <1>5, <1>6 DEF Graph, RunInv
<1>13. CASE Rests(ProcessOutcome(r, "failed"))
  <2>1. PICK v : v = ProcessOutcome(r, "failed") /\ v.trail = r.trail /\ v.outputs = r.outputs /\ v.node = r.node
    BY OutcomeIs
  <2>2. row' = v /\ run'.work = v /\ run'.pc = "idle"
    BY <1>13, <2>1 DEF Rests
  <2> QED BY <1>2, <1>4, <1>9, <1>11, <1>12, <2>1, <2>2 DEF TrailInv
<1>14. CASE r.status = "running" /\ row' = r /\ run' = [pc |-> "post", graph |-> run.graph, work |-> r]
  <2>1. row' = r /\ run'.work = r
    BY <1>14
  <2> QED BY <1>2, <1>4, <1>6, <1>9, <1>10, <1>11, <1>12, <2>1 DEF TrailInv
<1> QED BY <1>2, <1>13, <1>14

\* A dial or a plan leaves the trail as committed, with the CALL node at its end.
LEMMA DialKeepsTrail ==
    ASSUME NEW layer, WalkInv, TrailInv(layer), CallPlaced \/ CallRefused \/ CallPlan, ~Edited
    PROVE  TrailInv(layer)'
<1>1. TypeOK /\ RunInv
  BY DEF WalkInv
<1>2. PICK w \in Row : w = run.work
  BY <1>1, StateIs
<1>3. PICK g \in Candidates : g = Graph
  BY <1>1, StateIs
<1>4. UNCHANGED versions /\ run.pc # "idle" /\ Graph' = g
  BY <1>3 DEF CallPlaced, CallRefused, CallPlan, Runs, Graph
<1>5. /\ Walked(g, w.trail, w.outputs) /\ Replies(w.outputs)
      /\ Stands(g, layer[g], w.trail, w.outputs, w.node)
      /\ run.pc = "post" => /\ w.trail # <<>> /\ w.trail[Len(w.trail)] = w.node
                            /\ Node(g, w.node).type = "CALL"
  <2>1. run.pc = "post" => row = w
    BY <1>1, <1>2 DEF RunInv
  <2> QED BY <1>2, <1>3, <1>4, <2>1 DEF TrailInv
<1>6. PICK r : /\ row' = r /\ run'.work = r /\ r.trail = w.trail /\ r.outputs = w.outputs /\ r.node = w.node
               /\ run'.pc \in {"idle", "plan"}
  <2>1. CASE CallPlaced
    BY <1>1, <1>2, <2>1 DEF CallPlaced, Commit, IdleRun, RunInv
  <2>2. CASE CallRefused
    <3>1. PICK v : v = ProcessOutcome(w, "failed") /\ v.trail = w.trail /\ v.outputs = w.outputs /\ v.node = w.node
      BY OutcomeIs
    <3>2. row = w
      BY <1>1, <1>2, <2>2 DEF CallRefused, RunInv
    <3> QED BY <2>2, <3>1, <3>2 DEF CallRefused, Commit, IdleRun
  <2>3. CASE CallPlan
    <3>1. PICK r : r = [w EXCEPT !.status = "running"]
      OBVIOUS
    <3>2. r.trail = w.trail /\ r.outputs = w.outputs /\ r.node = w.node
      BY <3>1 DEF Row
    <3>3. row' = r /\ run' = [run EXCEPT !.pc = "plan", !.work = r]
      BY <1>2, <2>3, <3>1 DEF CallPlan
    <3>4. run' = [pc |-> "plan", graph |-> run.graph, work |-> r]
      BY <1>1, <3>3, StateIs
    <3> QED BY <3>2, <3>3, <3>4
  <2> QED BY <2>1, <2>2, <2>3
<1>7. call'.leg = "live" => run.pc = "post"
  BY <1>1, <1>4 DEF RunInv, CallPlaced, CallRefused, CallPlan
<1> QED BY <1>4, <1>5, <1>6, <1>7 DEF TrailInv

\* The worker takes the row, or dies.
LEMMA WorkerKeepsTrail ==
    ASSUME NEW layer, WalkInv, TrailInv(layer), Dispatch \/ Crash, ~Edited
    PROVE  TrailInv(layer)'
<1>1. UNCHANGED <<versions, row, call>> /\ run'.work = row /\ run'.pc \in {"idle", "node"}
      /\ (run'.pc = "node" => row.status = "queued")
  BY DEF Dispatch, Crash, IdleRun
<1>2. Graph' = Graph
  BY <1>1 DEF Graph
<1>3. call.leg = "live" => row.trail # <<>> /\ row.trail[Len(row.trail)] = row.node /\ Node(Graph, row.node).type = "CALL"
  BY DEF TrailInv
<1>4. run'.pc = "node" => Waits(row)
  BY <1>1 DEF Waits
<1> QED BY <1>1, <1>2, <1>3, <1>4 DEF TrailInv

\* The callback moves the row on from the CALL at the end of its trail.
LEMMA WebhookKeepsTrail ==
    ASSUME NEW layer, Layered(layer), WalkInv, TrailInv(layer), Webhook, ~Edited
    PROVE  TrailInv(layer)' 
<1>1. TypeOK /\ RunInv
  BY DEF WalkInv
<1>2. call.leg = "live" /\ UNCHANGED <<versions, run>>
  BY DEF Webhook
<1>3. run.pc = "idle" /\ row.status = "running"
  BY <1>1, <1>2 DEF RunInv
<1>4. PICK w \in Row : w = row
  BY <1>1, StateIs
<1>5. PICK g \in Candidates : g = Graph /\ ValidGraph(g)
  BY <1>1, StateIs DEF RunInv
<1>6. PICK o : row' = MovedOn(g, w, o) /\ call'.leg = "none"
  <2>1. PICK c \in [leg : {"none", "live"}, dials : Nat, connected : BOOLEAN] : c = call
    BY <1>1 DEF TypeOK
  <2>2. PICK o : row' = MovedOn(g, w, o) /\ \E b : call' = [c EXCEPT !.leg = "none", !.connected = b]
    BY <1>4, <1>5, <2>1 DEF Webhook
  <2> QED BY <2>2
<1>7. PICK v : /\ v = MovedOn(g, w, o) /\ v.trail = w.trail /\ v.outputs = w.outputs
               /\ \/ v.node = w.node
                  \/ v.node = NextNode(g, w.node) /\ v.node # NoNode
  BY MovedOnIs
<1>8. /\ Walked(g, w.trail, w.outputs) /\ Replies(w.outputs)
      /\ Stands(g, layer[g], w.trail, w.outputs, w.node)
      /\ w.trail # <<>> /\ w.trail[Len(w.trail)] = w.node /\ Node(g, w.node).type = "CALL"
  BY <1>2, <1>3, <1>4, <1>5 DEF TrailInv, Waits
<1>9. Stands(g, layer[g], v.trail, v.outputs, v.node)
  <2>1. CASE v.node = w.node
    BY <1>7, <1>8, <2>1
  <2>2. CASE v.node = NextNode(g, w.node) /\ v.node # NoNode
    <3>1. PICK next \in NodeIds(g) : next = v.node /\ \E e \in Outbound(g, w.node) : g.edges[e].target = next
      BY <2>2, NextNodeIs
    <3>2. MayFollow(g, w.node, next, w.outputs)
      BY <1>8, <3>1 DEF MayFollow
    <3>3. w.trail \in Seq(AllIds) /\ w.node \in AllIds
      BY DEF Row
    <3>4. Len(w.trail) > 0 /\ \A i \in 1..Len(w.trail) : layer[g][w.trail[i]] <= layer[g][w.node]
      BY <1>8, <3>3 DEF Stands
    <3>5. next \in AllIds
      BY GraphIs
    <3>6. Stands(g, layer[g], w.trail, w.outputs, next)
      BY <1>5, <1>8, <3>2, <3>3, <3>4, <3>5, StandsNext
    <3> QED BY <1>7, <3>1, <3>6
  <2> QED BY <1>7, <2>1, <2>2
<1>10. Graph' = g
  BY <1>2, <1>5 DEF Graph
<1>11. Walked(g, run.work.trail, run.work.outputs) /\ Replies(run.work.outputs)
  BY <1>5 DEF TrailInv
<1> QED BY <1>2, <1>3, <1>6, <1>7, <1>8, <1>9, <1>10, <1>11 DEF TrailInv

\* Time passes, the scheduler requeues, the lead replies, the campaign ends.
LEMMA OthersKeepTrail ==
    ASSUME NEW layer, WalkInv, TrailInv(layer), Elapse \/ Requeue \/ Reply \/ InboundWebhook \/ Complete, ~Edited
    PROVE  TrailInv(layer)'
<1>1. TypeOK /\ RunInv
  BY DEF WalkInv
<1>2. PICK w \in Row : w = row
  BY <1>1, StateIs
<1>3. UNCHANGED <<versions, run, call>>
  BY DEF Reply, InboundWebhook, Elapse, Requeue, Complete
<1>4. PICK r : row' = r /\ r.node = w.node /\ r.trail = w.trail /\ r.outputs = w.outputs /\ (Waits(r) => Waits(w))
  <2>1. CASE Elapse
    <3>1. PICK r : r = [w EXCEPT !.next_retry_at = "due"]
      OBVIOUS
    <3>2. /\ r.node = w.node /\ r.trail = w.trail /\ r.outputs = w.outputs
          /\ r.status = w.status /\ r.retry_status = w.retry_status
      BY <3>1 DEF Row
    <3> QED BY <1>2, <2>1, <3>1, <3>2 DEF Elapse, Waits
  <2>2. CASE Requeue
    <3>1. PICK r : r = [w EXCEPT !.status = "queued", !.retry_status = "pending", !.next_retry_at = "none"]
      OBVIOUS
    <3>2. r.node = w.node /\ r.trail = w.trail /\ r.outputs = w.outputs
      BY <3>1 DEF Row
    <3> QED BY <1>2, <2>2, <3>1, <3>2 DEF Requeue, Waits
  <2>3. CASE Reply \/ InboundWebhook \/ Complete
    BY <1>2, <2>3 DEF Reply, InboundWebhook, Complete
  <2> QED BY <2>1, <2>2, <2>3
<1>5. Graph' = Graph
  BY <1>3 DEF Graph
<1> QED BY <1>2, <1>3, <1>4, <1>5 DEF TrailInv

\* The trail begins empty, at the entry node.
LEMMA TrailBegins == ASSUME NEW layer, Init PROVE TrailInv(layer)
<1>1. PICK g \in Candidates :
          /\ ValidGraph(g) /\ Graph = g /\ row = NewRow(g)
          /\ run = [pc |-> "idle", graph |-> g, work |-> NewRow(g)]
          /\ call = [leg |-> "none", dials |-> 0, connected |-> FALSE]
  BY InitIs
<1>2. PICK r : /\ r = NewRow(g) /\ r.trail = <<>> /\ r.outputs = [n \in AllIds |-> {}] /\ r.node = EntryNode(g)
  BY <1>1, NewRowIs
<1>3. Walked(g, <<>>, r.outputs) /\ Replies(r.outputs)
  BY <1>2 DEF Walked, Replies
<1>4. Stands(g, layer[g], <<>>, r.outputs, r.node)
  BY <1>2 DEF Stands
<1> QED BY <1>1, <1>2, <1>3, <1>4 DEF TrailInv

\* Every step keeps the trail a walk.
LEMMA TrailStays ==
    ASSUME NEW layer, Layered(layer), WalkInv, TrailInv(layer), [Next]_vars
    PROVE  TrailInv(layer)'
<1>1. SUFFICES ASSUME ~Edited' PROVE TrailInv(layer)'
  BY DEF TrailInv
<1>2. TypeOK /\ RunInv
  BY DEF WalkInv
<1>3. CASE UNCHANGED vars
  <2>1. UNCHANGED <<versions, row, run, call>>
    BY <1>3 DEF vars
  <2>2. Edited' = Edited /\ Graph' = Graph
    BY <2>1 DEF Edited, Graph
  <2> QED BY <1>1, <2>1, <2>2 DEF TrailInv
<1>4. CASE Next
  <2>1. ~(PutWorkflow \/ RestoreVersion)
    BY <1>1, <1>2, EditIs
  <2>2. ~Edited
    BY <1>1, <1>4, <2>1, VersionsStay DEF Edited
  <2>3. ~NodeMissing
    BY <1>2, <2>2 DEF NodeMissing, RunInv, Here
  <2>4. CASE RunStep
    BY <1>2, <2>2, <2>3, <2>4, RunStepIs, HandlerKeepsTrail, CallDialKeepsTrail, DialKeepsTrail
  <2> QED BY <1>4, <2>1, <2>2, <2>4, WorkerKeepsTrail, WebhookKeepsTrail, OthersKeepTrail DEF Next
<1> QED BY <1>3, <1>4

\* Committed work is a walk of an acyclic graph: the run loop, later polls that rewrite
\* outputs, callbacks, WAIT and crashes together leave a trail in which every step
\* follows an edge, a TRUE branch stays justified, and only a CALL repeats.
THEOREM TrailIsAWalkCorrect ==
    ASSUME NEW CONSTANT layer, Layered(layer)
    PROVE  Spec => []TrailIsAWalk
<1>1. Init => WalkInv /\ TrailInv(layer)
  BY WalkBegins, TrailBegins
<1>2. WalkInv /\ TrailInv(layer) /\ [Next]_vars => WalkInv' /\ TrailInv(layer)'
  BY WalkStays, TrailStays
<1>3. TrailInv(layer) => TrailIsAWalk
  BY DEF TrailInv, Walked, TrailIsAWalk
<1> QED BY <1>1, <1>2, <1>3, PTL DEF Spec

-----------------------------------------------------------------------------
(* Calls. *)

\* The CALL nodes of a trail can be counted, and one more node adds at most itself.
LEMMA CallsAre ==
    ASSUME NEW g, NEW trail \in Seq(AllIds)
    PROVE  IsFiniteSet(CallsOf(g, trail)) /\ Cardinality(CallsOf(g, trail)) \in Nat
<1>1. PICK S : S = {j \in DOMAIN trail : Node(g, trail[j]).type = "CALL"}
  OBVIOUS
<1>2. IsFiniteSet(S)
  <2>1. Len(trail) \in Nat /\ DOMAIN trail = 1..Len(trail)
    OBVIOUS
  <2>2. IsFiniteSet(1..Len(trail))
    BY <2>1, FS_Interval
  <2>3. S \in SUBSET (1..Len(trail))
    BY <1>1, <2>1
  <2> QED BY <2>2, <2>3, FS_Subset
<1>3. PICK T : T = CallsOf(g, trail)
  OBVIOUS
<1>4. PICK f : f = [i \in S |-> trail[i]]
  OBVIOUS
<1>5. T = {trail[i] : i \in S}
  BY <1>1, <1>3 DEF CallsOf
<1>6. f \in Surjection(S, T)
  BY <1>4, <1>5 DEF Surjection
<1>7. IsFiniteSet(T)
  BY <1>2, <1>6, FS_Surjection
<1>8. Cardinality(T) \in Nat
  BY <1>7, FS_CardinalityType
<1> QED BY <1>3, <1>7, <1>8

\* A longer trail has the CALL nodes of the shorter one and the last node if it is one.
LEMMA CallsOfMore ==
    ASSUME NEW g, NEW trail \in Seq(AllIds), NEW n \in AllIds, NEW more, more = Append(trail, n)
    PROVE  CallsOf(g, more) = IF Node(g, n).type = "CALL" THEN CallsOf(g, trail) \cup {n} ELSE CallsOf(g, trail)
<1>1. /\ more \in Seq(AllIds) /\ Len(more) = Len(trail) + 1 /\ more[Len(more)] = n
      /\ \A i \in 1..Len(trail) : more[i] = trail[i]
      /\ Len(trail) \in Nat
  BY AppendProperties
<1>2. DOMAIN more = 1..Len(more) /\ DOMAIN trail = 1..Len(trail)
  BY <1>1
<1>3. \A i \in DOMAIN more : i \in DOMAIN trail \/ i = Len(more)
  BY <1>1, <1>2
<1>4. \A i \in DOMAIN trail : i \in DOMAIN more /\ more[i] = trail[i]
  BY <1>1, <1>2
<1>5. Len(more) \in DOMAIN more
  BY <1>1, <1>2
<1>6. ASSUME NEW m PROVE m \in CallsOf(g, more) <=> m \in CallsOf(g, trail) \/ (m = n /\ Node(g, n).type = "CALL")
  <2>1. m \in CallsOf(g, more) <=> \E i \in DOMAIN more : more[i] = m /\ Node(g, more[i]).type = "CALL"
    BY DEF CallsOf
  <2>2. m \in CallsOf(g, trail) <=> \E i \in DOMAIN trail : trail[i] = m /\ Node(g, trail[i]).type = "CALL"
    BY DEF CallsOf
  <2>3. ASSUME NEW i \in DOMAIN more, more[i] = m, Node(g, more[i]).type = "CALL"
        PROVE  m \in CallsOf(g, trail) \/ (m = n /\ Node(g, n).type = "CALL")
    BY <1>1, <1>3, <1>4, <2>2, <2>3
  <2>4. ASSUME NEW i \in DOMAIN trail, trail[i] = m, Node(g, trail[i]).type = "CALL"
        PROVE  m \in CallsOf(g, more)
    BY <1>4, <2>1, <2>4
  <2>5. m = n /\ Node(g, n).type = "CALL" => m \in CallsOf(g, more)
    BY <1>1, <1>5, <2>1
  <2> QED BY <2>1, <2>2, <2>3, <2>4, <2>5
<1> QED BY <1>6

\* Placing the call that the row affords stays within the budget.
LEMMA DialIsAfforded ==
    ASSUME NEW g, NEW w \in Row, NEW r \in Row, r.trail = Append(w.trail, w.node),
           r.attempt_number = w.attempt_number, Node(g, w.node).type = "CALL",
           NEW used \in Nat, Spent(g, w, used), Affords(g, w, used)
    PROVE  Spent(g, r, used) /\ Spent(g, r, used + 1)
<1>1. w.trail \in Seq(AllIds) /\ w.node \in AllIds /\ w.attempt_number \in Nat
  BY DEF Row
<1>2. PICK S : S = CallsOf(g, w.trail)
  OBVIOUS
<1>3. IsFiniteSet(S) /\ Cardinality(S) \in Nat
  BY <1>1, <1>2, CallsAre
<1>4. CallsOf(g, r.trail) = S \cup {w.node}
  <2>1. PICK n \in AllIds : n = w.node
    BY <1>1
  <2>2. PICK trail \in Seq(AllIds) : trail = w.trail
    BY <1>1
  <2>3. r.trail = Append(trail, n) /\ Node(g, n).type = "CALL"
    BY <2>1, <2>2
  <2>4. PICK more : more = r.trail /\ more = Append(trail, n)
    BY <2>3
  <2>5. CallsOf(g, more) = IF Node(g, n).type = "CALL" THEN CallsOf(g, trail) \cup {n} ELSE CallsOf(g, trail)
    BY <2>4, CallsOfMore
  <2> QED BY <1>2, <2>1, <2>2, <2>3, <2>4, <2>5
<1>5. Cardinality(S \cup {w.node}) = IF w.node \in S THEN Cardinality(S) ELSE Cardinality(S) + 1
  BY <1>3, FS_AddElement
<1>6. used <= w.attempt_number - 1 + Cardinality(S)
  BY <1>2 DEF Spent
<1>7. w.node \in S => used + 1 <= w.attempt_number - 1 + Cardinality(S)
  BY <1>2 DEF Affords, Spent
<1>8. PICK size : size = Cardinality(S \cup {w.node})
  OBVIOUS
<1>9. used + 1 <= w.attempt_number - 1 + size
  BY <1>1, <1>3, <1>5, <1>6, <1>7, <1>8
<1>10. size \in Nat
  BY <1>3, <1>5, <1>8
<1>11. used <= w.attempt_number - 1 + size
  BY <1>1, <1>9, <1>10
<1> QED BY <1>4, <1>8, <1>9, <1>11 DEF Spent

\* A row with the same trail, and at least the same attempt number, has spent no more.
LEMMA SpentLess ==
    ASSUME NEW g, NEW w \in Row, NEW v \in Row, v.trail = w.trail, NEW used \in Nat
    PROVE  /\ v.attempt_number >= w.attempt_number /\ Spent(g, w, used) => Spent(g, v, used)
           /\ v.attempt_number = w.attempt_number + 1 /\ Spent(g, w, used) => Spent(g, v, used + 1)
           /\ Spent(g, w, used + 1) => Spent(g, w, used)
<1>1. w.trail \in Seq(AllIds) /\ w.attempt_number \in Nat /\ v.attempt_number \in Nat
  BY DEF Row
<1>2. PICK size \in Nat : size = Cardinality(CallsOf(g, w.trail))
  BY <1>1, CallsAre
<1>3. /\ Spent(g, w, used) <=> used <= w.attempt_number - 1 + size
      /\ Spent(g, v, used) <=> used <= v.attempt_number - 1 + size
      /\ Spent(g, v, used + 1) <=> used + 1 <= v.attempt_number - 1 + size
      /\ Spent(g, w, used + 1) <=> used + 1 <= w.attempt_number - 1 + size
  BY <1>2 DEF Spent
<1> QED BY <1>1, <1>2, <1>3

\* A node beyond every node of the trail is none of its CALLs.
LEMMA NotYetCalled ==
    ASSUME NEW layer, Layered(layer), NEW g \in Candidates, NEW trail \in Seq(AllIds), NEW next \in AllIds,
           \A i \in 1..Len(trail) : layer[g][trail[i]] < layer[g][next]
    PROVE  next \notin CallsOf(g, trail)
<1>1. layer[g][next] \in Nat
  BY DEF Layered
<1>2. ASSUME NEW i \in DOMAIN trail PROVE trail[i] # next
  <2>1. i \in 1..Len(trail)
    OBVIOUS
  <2> QED BY <1>1, <2>1
<1> QED BY <1>2 DEF CallsOf

\* How many calls were placed, and whether one is under way, is known.
LEMMA CallIs == ASSUME TypeOK PROVE call.dials \in Nat
BY DEF TypeOK

\* A handler places no call, and goes on to a node that has not been called.
LEMMA HandlerKeepsBudget ==
    ASSUME NEW layer, Layered(layer), WalkInv, TrailInv(layer), BudgetInv, HandlerStep,
           ~Edited, setup.telephony
    PROVE  BudgetInv'
<1>1. TypeOK /\ RunInv
  BY DEF WalkInv
<1>2. PICK w \in Row : w = run.work
  BY <1>1, StateIs
<1>3. PICK v \in Row : Handled(w, v) /\ WentTo(v)
  BY <1>2 DEF HandlerStep
<1>4. UNCHANGED <<setup, versions, call>> /\ run.pc = "node" /\ This.type # "CALL"
  BY <1>1 DEF HandlerStep, RunInv
<1>5. PICK here \in AllIds : here = w.node /\ here = Here
  BY <1>1, <1>2, StateIs DEF Here
<1>6. PICK g \in Candidates : g = Graph /\ g = run.graph /\ ValidGraph(g)
  BY <1>1, StateIs DEF RunInv
<1>7. PICK used \in Nat : used = call.dials
  BY <1>1, CallIs
<1>8. /\ Spent(g, w, used) /\ Spent(g, row, used)
      /\ row.status = "queued" \/ row.retry_status = "scheduled" => Affords(g, row, used)
  BY <1>2, <1>4, <1>6, <1>7 DEF BudgetInv
<1>9. /\ Walked(g, w.trail, w.outputs) /\ Replies(w.outputs)
      /\ Stands(g, layer[g], w.trail, w.outputs, w.node)
  BY <1>2, <1>4, <1>6 DEF TrailInv
<1>10. /\ v.trail = Append(w.trail, w.node) /\ Keeps(w.outputs, v.outputs, w.node)
       /\ v.retry_status = w.retry_status /\ v.attempt_number = w.attempt_number
  BY <1>3 DEF Handled
<1>11. /\ Walked(g, v.trail, v.outputs) /\ Replies(v.outputs)
       /\ Len(v.trail) > 0 /\ v.trail[Len(v.trail)] = here
       /\ \A i \in 1..Len(v.trail) : layer[g][v.trail[i]] <= layer[g][here]
  <2>1. v.trail = Append(w.trail, w.node) /\ Keeps(w.outputs, v.outputs, w.node)
    BY <1>10
  <2>2. /\ Walked(g, v.trail, v.outputs) /\ Replies(v.outputs)
        /\ Len(v.trail) > 0 /\ v.trail[Len(v.trail)] = w.node
        /\ \A i \in 1..Len(v.trail) : layer[g][v.trail[i]] <= layer[g][w.node]
    BY <1>6, <1>9, <2>1, WalkedOn
  <2> QED BY <1>5, <2>2
<1>12. Spent(g, v, used)
  <2>1. PICK trail \in Seq(AllIds) : trail = w.trail
    BY DEF Row
  <2>2. PICK more : more = v.trail /\ more = Append(trail, here)
    BY <1>5, <1>10, <2>1
  <2>3. CallsOf(g, more) = IF Node(g, here).type = "CALL" THEN CallsOf(g, trail) \cup {here} ELSE CallsOf(g, trail)
    BY <2>2, CallsOfMore
  <2>4. CallsOf(g, v.trail) = CallsOf(g, w.trail)
    BY <1>4, <1>5, <1>6, <2>1, <2>2, <2>3 DEF This
  <2> QED BY <1>8, <1>10, <2>4 DEF Spent
<1>13. w.retry_status = "pending"
  BY <1>1, <1>2, <1>4 DEF RunInv
<1>14. Graph' = g /\ call'.dials = used /\ setup' = setup /\ Edited' = Edited
  BY <1>4, <1>6, <1>7 DEF Graph, Edited
<1> DEFINE Goal ==
          /\ Spent(g, row', used)
          /\ row'.status = "queued" \/ row'.retry_status = "scheduled" => Affords(g, row', used)
          /\ run'.pc = "node" => Spent(g, run'.work, used) /\ Affords(g, run'.work, used)
          /\ run'.pc # "post"
<1>15. Goal
  <2>1. CASE Rests(Completed(v))
    <3>1. PICK r : r = Completed(v) /\ r.trail = v.trail /\ r.attempt_number = v.attempt_number
                   /\ r.status = "completed" /\ r.retry_status = "completed"
      BY CompletedIs
    <3>2. row' = r /\ run'.pc = "idle"
      BY <2>1, <3>1 DEF Rests
    <3> QED BY <1>12, <3>1, <3>2 DEF Spent
  <2>2. CASE Rests(Failed(v))
    <3>1. PICK r : r = Failed(v) /\ r.trail = v.trail /\ r.attempt_number = v.attempt_number
                   /\ r.status = "failed" /\ r.retry_status = v.retry_status
      BY FailedIs
    <3>2. row' = r /\ run'.pc = "idle"
      BY <2>2, <3>1 DEF Rests
    <3> QED BY <1>10, <1>12, <1>13, <3>1, <3>2 DEF Spent
  <2>3. ASSUME NEW next \in AllIds, Leads(g, Here, next, v.outputs),
               Moves(g, At(v, next)) \/ Rests(Parked(v, next))
        PROVE  Goal
    <3>1. MayFollow(g, here, next, v.outputs)
      BY <1>5, <1>6, <2>3, LeadsOn
    <3>2. v.trail \in Seq(AllIds)
      BY DEF Row
    <3>3. \A i \in 1..Len(v.trail) : layer[g][v.trail[i]] < layer[g][next]
      BY <1>6, <1>11, <3>1, <3>2, StandsNext
    <3>4. next \notin CallsOf(g, v.trail)
      BY <3>2, <3>3, NotYetCalled
    <3>5. CASE Moves(g, At(v, next))
      <4>1. PICK r : r = At(v, next) /\ r.trail = v.trail /\ r.attempt_number = v.attempt_number /\ r.node = next
        BY AtIs
      <4>2. row' = row /\ run'.work = r /\ run'.pc = "node"
        BY <3>5, <4>1 DEF Moves
      <4>3. Spent(g, r, used) /\ Affords(g, r, used)
        BY <1>12, <3>4, <4>1 DEF Spent, Affords
      <4> QED BY <1>8, <4>2, <4>3
    <3>6. CASE Rests(Parked(v, next))
      <4>1. PICK r : r = Parked(v, next) /\ r.trail = v.trail /\ r.attempt_number = v.attempt_number /\ r.node = next
        BY ParkedIs
      <4>2. row' = r /\ run'.pc = "idle"
        BY <3>6, <4>1 DEF Rests
      <4>3. Spent(g, r, used) /\ Affords(g, r, used)
        BY <1>12, <3>4, <4>1 DEF Spent, Affords
      <4> QED BY <4>2, <4>3
    <3> QED BY <2>3, <3>5, <3>6
  <2> QED BY <1>3, <1>6, <2>1, <2>2, <2>3 DEF WentTo
<1> QED BY <1>14, <1>15 DEF BudgetInv

\* The dial: the call that the row affords.
LEMMA DialKeepsBudget ==
    ASSUME WalkInv, BudgetInv, CallDial \/ CallPlaced \/ CallRefused, ~Edited, setup.telephony
    PROVE  BudgetInv'
<1>1. TypeOK /\ RunInv
  BY DEF WalkInv
<1>2. PICK w \in Row : w = run.work
  BY <1>1, StateIs
<1>3. PICK g \in Candidates : g = Graph /\ g = run.graph
  BY <1>1, StateIs DEF RunInv
<1>4. PICK used \in Nat : used = call.dials
  BY <1>1, CallIs
<1>5. UNCHANGED <<setup, versions>>
  BY DEF CallDial, CallPlaced, CallRefused
<1>6. Graph' = g /\ setup' = setup /\ Edited' = Edited
  BY <1>3, <1>5 DEF Graph, Edited
<1>7. CASE CallDial
  <2>1. PICK r \in Row :
              /\ r.node = Here /\ r.trail = Append(run.work.trail, Here)
              /\ r.retry_status = run.work.retry_status /\ r.attempt_number = run.work.attempt_number
              /\ \/ Rests(ProcessOutcome(r, "failed"))
                 \/ r.status = "running" /\ row' = r /\ run' = [pc |-> "post", graph |-> run.graph, work |-> r]
    BY <1>1, <1>7, CallDialIs
  <2>2. call' = call /\ run.pc = "node" /\ Node(g, w.node).type = "CALL" /\ Here = w.node
    BY <1>2, <1>3, <1>7 DEF CallDial, Runs, This, Here
  <2>3. Spent(g, w, used) /\ Affords(g, w, used) /\ w.retry_status = "pending"
    BY <1>1, <1>2, <1>3, <1>4, <2>2 DEF BudgetInv, RunInv
  <2>4. r.trail = Append(w.trail, w.node) /\ r.attempt_number = w.attempt_number
    BY <1>2, <2>1, <2>2
  <2>5. Spent(g, r, used) /\ Spent(g, r, used + 1)
    BY <2>2, <2>3, <2>4, DialIsAfforded
  <2>6. CASE Rests(ProcessOutcome(r, "failed"))
    <3>1. PICK v \in Row : v = ProcessOutcome(r, "failed") /\ v.trail = r.trail
                           /\ IF v.retry_status = "scheduled" THEN v.attempt_number = r.attempt_number + 1
                              ELSE v.attempt_number = r.attempt_number
      BY OutcomeIs
    <3>2. row' = v /\ run'.pc = "idle"
      BY <2>6, <3>1 DEF Rests
    <3>3. v.attempt_number >= r.attempt_number
      BY <3>1 DEF Row
    <3>4. Spent(g, v, used) /\ Spent(g, v, used + 1)
      <4>1. used + 1 \in Nat
        OBVIOUS
      <4> QED BY <2>5, <3>1, <3>3, <4>1, SpentLess
    <3> QED BY <1>4, <1>6, <2>2, <3>2, <3>4 DEF BudgetInv, Affords
  <2>7. CASE r.status = "running" /\ row' = r /\ run' = [pc |-> "post", graph |-> run.graph, work |-> r]
    <3>1. row' = r /\ run'.pc = "post" /\ r.status = "running" /\ r.retry_status = "pending"
      BY <1>2, <2>1, <2>3, <2>7
    <3> QED BY <1>4, <1>6, <2>2, <2>5, <3>1 DEF BudgetInv
  <2> QED BY <2>1, <2>6, <2>7
<1>8. CASE CallPlaced \/ CallRefused
  <2>1. PICK r \in Row : r = row
    BY <1>1, StateIs
  <2>2. run.pc = "post"
    BY <1>8 DEF CallPlaced, CallRefused
  <2>3. Spent(g, r, used + 1) /\ r.status = "running" /\ r.retry_status = "pending"
    BY <1>1, <1>3, <1>4, <2>1, <2>2 DEF BudgetInv, RunInv
  <2>4. CASE CallPlaced
    <3>1. row' = r /\ run'.pc = "idle"
      BY <2>1, <2>4 DEF CallPlaced, Commit, IdleRun
    <3>2. call'.dials = used + 1
      <4>1. PICK c \in [leg : {"none", "live"}, dials : Nat, connected : BOOLEAN] : c = call
        BY <1>1 DEF TypeOK
      <4>2. call' = [c EXCEPT !.leg = "live", !.dials = c.dials + 1]
        BY <2>4, <4>1 DEF CallPlaced
      <4> QED BY <1>4, <4>1, <4>2
    <3> QED BY <1>6, <2>3, <3>1, <3>2 DEF BudgetInv
  <2>5. CASE CallRefused
    <3>1. PICK v \in Row : v = ProcessOutcome(r, "failed") /\ v.trail = r.trail
                           /\ IF v.retry_status = "scheduled" THEN v.attempt_number = r.attempt_number + 1
                              ELSE v.attempt_number = r.attempt_number
      BY OutcomeIs
    <3>2. row' = v /\ run'.pc = "idle" /\ call' = call
      BY <2>1, <2>5, <3>1 DEF CallRefused, Commit, IdleRun
    <3>3. v.attempt_number >= r.attempt_number
      BY <3>1 DEF Row
    <3>4. Spent(g, v, used) /\ Spent(g, v, used + 1)
      <4>1. used + 1 \in Nat
        OBVIOUS
      <4>2. Spent(g, r, used)
        BY <2>3, SpentLess
      <4> QED BY <2>3, <3>1, <3>3, <4>1, <4>2, SpentLess
    <3> QED BY <1>4, <1>6, <3>2, <3>4 DEF BudgetInv, Affords
  <2> QED BY <1>8, <2>4, <2>5
<1> QED BY <1>7, <1>8

\* The worker takes the row, or dies.
LEMMA WorkerKeepsBudget ==
    ASSUME WalkInv, BudgetInv, Dispatch \/ Crash, ~Edited, setup.telephony
    PROVE  BudgetInv'
<1>1. TypeOK /\ RunInv
  BY DEF WalkInv
<1>2. UNCHANGED <<setup, versions, row, call>> /\ run'.work = row /\ run'.pc \in {"idle", "node"}
      /\ (run'.pc = "node" => row.status = "queued")
  BY DEF Dispatch, Crash, IdleRun
<1>3. Graph' = Graph
  BY <1>2 DEF Graph
<1> QED BY <1>2, <1>3 DEF BudgetInv

\* An outcome, or the edge out of a CALL, leaves a call only to a row that affords it.
LEMMA WebhookKeepsBudget ==
    ASSUME NEW layer, Layered(layer), WalkInv, TrailInv(layer), BudgetInv, Webhook, ~Edited, setup.telephony
    PROVE  BudgetInv'
<1>1. TypeOK /\ RunInv
  BY DEF WalkInv
<1>2. call.leg = "live" /\ UNCHANGED <<setup, versions, run>>
  BY DEF Webhook
<1>3. run.pc = "idle" /\ row.status = "running"
  BY <1>1, <1>2 DEF RunInv
<1>4. PICK w \in Row : w = row
  BY <1>1, StateIs
<1>5. PICK g \in Candidates : g = Graph /\ ValidGraph(g)
  BY <1>1, StateIs DEF RunInv
<1>6. PICK used \in Nat : used = call.dials
  BY <1>1, CallIs
<1>7. PICK o : row' = MovedOn(g, w, o) /\ call'.dials = used
  <2>1. PICK c \in [leg : {"none", "live"}, dials : Nat, connected : BOOLEAN] : c = call
    BY <1>1 DEF TypeOK
  <2>2. PICK o : row' = MovedOn(g, w, o) /\ \E b : call' = [c EXCEPT !.leg = "none", !.connected = b]
    BY <1>4, <1>5, <2>1 DEF Webhook
  <2> QED BY <1>6, <2>1, <2>2
<1>8. PICK v \in Row :
          /\ v = MovedOn(g, w, o) /\ v.trail = w.trail
          /\ \/ /\ v.node = w.node /\ v.status \in {"completed", "failed"} /\ v.retry_status # "pending"
                /\ IF v.retry_status = "scheduled" THEN v.attempt_number = w.attempt_number + 1
                   ELSE v.attempt_number = w.attempt_number
             \/ /\ v.node = NextNode(g, w.node) /\ v.node # NoNode
                /\ v.status = "queued" /\ v.retry_status = "pending"
                /\ v.attempt_number = w.attempt_number
  BY MovedOnIs
<1>9. Spent(g, w, used)
  BY <1>4, <1>5, <1>6 DEF BudgetInv
<1>10. /\ Stands(g, layer[g], w.trail, w.outputs, w.node)
       /\ w.trail # <<>> /\ w.trail[Len(w.trail)] = w.node /\ Node(g, w.node).type = "CALL"
  BY <1>2, <1>3, <1>4, <1>5 DEF TrailInv, Waits
<1>11. Graph' = g
  BY <1>2, <1>5 DEF Graph
<1>12. v.attempt_number \in Nat /\ w.attempt_number \in Nat
  BY DEF Row
<1>13. CASE v.node = w.node /\ v.status \in {"completed", "failed"}
  <2>1. IF v.retry_status = "scheduled" THEN v.attempt_number = w.attempt_number + 1
        ELSE v.attempt_number = w.attempt_number
    BY <1>8, <1>13
  <2>2. v.attempt_number >= w.attempt_number
    BY <1>12, <2>1
  <2>3. Spent(g, v, used) /\ (v.retry_status = "scheduled" => Spent(g, v, used + 1))
    BY <1>8, <1>9, <2>1, <2>2, SpentLess
  <2>4. row' = v /\ run'.pc = "idle"
    BY <1>2, <1>3, <1>7, <1>8
  <2> QED BY <1>2, <1>7, <1>11, <1>13, <2>3, <2>4 DEF BudgetInv, Affords
<1>14. CASE v.node = NextNode(g, w.node) /\ v.node # NoNode /\ v.attempt_number = w.attempt_number
  <2>1. PICK next \in NodeIds(g) : next = v.node /\ \E e \in Outbound(g, w.node) : g.edges[e].target = next
    BY <1>14, NextNodeIs
  <2>2. MayFollow(g, w.node, next, w.outputs)
    BY <1>10, <2>1 DEF MayFollow
  <2>3. w.trail \in Seq(AllIds) /\ w.node \in AllIds
    BY DEF Row
  <2>4. Len(w.trail) > 0 /\ \A i \in 1..Len(w.trail) : layer[g][w.trail[i]] <= layer[g][w.node]
    BY <1>10, <2>3 DEF Stands
  <2>5. next \in AllIds
    BY GraphIs
  <2>6. \A i \in 1..Len(w.trail) : layer[g][w.trail[i]] < layer[g][next]
    BY <1>5, <1>10, <2>2, <2>3, <2>4, <2>5, StandsNext
  <2>7. next \notin CallsOf(g, w.trail)
    BY <2>3, <2>5, <2>6, NotYetCalled
  <2>8. Spent(g, v, used) /\ Affords(g, v, used)
    BY <1>8, <1>9, <1>14, <2>1, <2>7 DEF Spent, Affords
  <2>9. row' = v /\ run'.pc = "idle"
    BY <1>2, <1>3, <1>7, <1>8
  <2> QED BY <1>2, <1>7, <1>11, <2>8, <2>9 DEF BudgetInv
<1> QED BY <1>8, <1>13, <1>14

\* Time passes, the scheduler requeues, the lead replies, the campaign ends.
LEMMA OthersKeepBudget ==
    ASSUME WalkInv, BudgetInv, Elapse \/ Requeue \/ Reply \/ InboundWebhook \/ Complete, ~Edited, setup.telephony
    PROVE  BudgetInv'
<1>1. TypeOK /\ RunInv
  BY DEF WalkInv
<1>2. PICK w \in Row : w = row
  BY <1>1, StateIs
<1>3. UNCHANGED <<setup, versions, call>> /\ (run' = run)
  BY DEF Reply, InboundWebhook, Elapse, Requeue, Complete
<1>4. PICK r : /\ row' = r /\ r.node = w.node /\ r.trail = w.trail /\ r.attempt_number = w.attempt_number
               /\ \/ r.status = w.status /\ r.retry_status = w.retry_status
                  \/ w.retry_status = "scheduled"
  <2>1. CASE Elapse
    <3>1. PICK r : r = [w EXCEPT !.next_retry_at = "due"]
      OBVIOUS
    <3>2. /\ r.node = w.node /\ r.trail = w.trail /\ r.attempt_number = w.attempt_number
          /\ r.status = w.status /\ r.retry_status = w.retry_status
      BY <3>1 DEF Row
    <3> QED BY <1>2, <2>1, <3>1, <3>2 DEF Elapse
  <2>2. CASE Requeue
    <3>1. PICK r : r = [w EXCEPT !.status = "queued", !.retry_status = "pending", !.next_retry_at = "none"]
      OBVIOUS
    <3>2. r.node = w.node /\ r.trail = w.trail /\ r.attempt_number = w.attempt_number
      BY <3>1 DEF Row
    <3> QED BY <1>2, <2>2, <3>1, <3>2 DEF Requeue
  <2>3. CASE Reply \/ InboundWebhook \/ Complete
    BY <1>2, <2>3 DEF Reply, InboundWebhook, Complete
  <2> QED BY <2>1, <2>2, <2>3
<1>5. Graph' = Graph
  BY <1>3 DEF Graph
<1>6. run.pc = "post" => row' = row
  BY <1>1 DEF RunInv, Reply, InboundWebhook, Elapse, Requeue, Complete
<1>7. /\ Spent(Graph, w, call.dials)
      /\ w.status = "queued" \/ w.retry_status = "scheduled" => Affords(Graph, w, call.dials)
      /\ run.pc = "node" => Spent(Graph, run.work, call.dials) /\ Affords(Graph, run.work, call.dials)
      /\ run.pc = "post" => Spent(Graph, row, call.dials + 1)
  BY <1>2 DEF BudgetInv
<1>8. Spent(Graph, r, call.dials) /\ (Affords(Graph, w, call.dials) => Affords(Graph, r, call.dials))
  BY <1>4, <1>7 DEF Spent, Affords
<1> QED BY <1>3, <1>4, <1>5, <1>6, <1>7, <1>8 DEF BudgetInv

\* Without dialing no call is placed, and with it setup stays.
LEMMA SetupStays ==
    ASSUME WalkInv, [Next]_vars
    PROVE  setup' = setup /\ (~setup.telephony => call'.dials = call.dials)
<1>1. TypeOK /\ RunInv
  BY DEF WalkInv
<1>2. ~setup.telephony => ~CallPlaced /\ ~Webhook
  BY <1>1 DEF RunInv, CallPlaced, Webhook
<1>3. setup' = setup
  BY DEF vars, Next, Dispatch, RunStep, Crash, Webhook, Reply, InboundWebhook, Elapse, Requeue, Complete,
       NodeMissing, CallDial, CallPlaced, CallRefused, CallPlan, CallPlanned, CallPlanFailed,
       EmailSkipOrFail, EmailSend, LinkedInAct, WaitPark, WaitSkip, WaitBadUnit, Condition,
       ConditionUnknown, Stop, PutWorkflow, RestoreVersion, EditGraph
<1>4. CallPlaced \/ Webhook \/ call' = call
  BY DEF vars, Next, Dispatch, RunStep, Crash, Reply, InboundWebhook, Elapse, Requeue, Complete,
       NodeMissing, CallDial, CallRefused, CallPlan, CallPlanned, CallPlanFailed,
       EmailSkipOrFail, EmailSend, LinkedInAct, WaitPark, WaitSkip, WaitBadUnit, Condition,
       ConditionUnknown, Stop, PutWorkflow, RestoreVersion, EditGraph
<1> QED BY <1>2, <1>3, <1>4

\* Every step keeps the calls within what attempts and CALL nodes pay for.
LEMMA BudgetStays ==
    ASSUME NEW layer, Layered(layer), WalkInv, TrailInv(layer), BudgetInv, [Next]_vars
    PROVE  BudgetInv'
<1>1. TypeOK /\ RunInv
  BY DEF WalkInv
<1>2. setup' = setup /\ (~setup.telephony => call'.dials = 0)
  BY SetupStays DEF BudgetInv
<1>3. SUFFICES ASSUME ~Edited', setup.telephony PROVE BudgetInv'
  BY <1>2 DEF BudgetInv
<1>4. CASE UNCHANGED vars
  <2>1. UNCHANGED <<setup, versions, row, run, call>>
    BY <1>4 DEF vars
  <2>2. Edited' = Edited /\ Graph' = Graph
    BY <2>1 DEF Edited, Graph
  <2> QED BY <1>3, <2>1, <2>2 DEF BudgetInv
<1>5. CASE Next
  <2>1. ~(PutWorkflow \/ RestoreVersion)
    BY <1>1, <1>3, EditIs
  <2>2. ~Edited
    BY <1>3, <1>5, <2>1, VersionsStay DEF Edited
  <2>3. ~NodeMissing /\ ~CallPlan
    BY <1>1, <1>3, <2>2 DEF NodeMissing, CallPlan, RunInv, Here
  <2>4. CASE RunStep
    BY <1>1, <1>3, <2>2, <2>3, <2>4, RunStepIs, HandlerKeepsBudget, DialKeepsBudget
  <2> QED BY <1>3, <1>5, <2>1, <2>2, <2>4, WorkerKeepsBudget, WebhookKeepsBudget, OthersKeepBudget DEF Next
<1> QED BY <1>4, <1>5

\* No call has been placed at first.
LEMMA BudgetBegins == Init => BudgetInv
<1> SUFFICES ASSUME Init PROVE BudgetInv
  OBVIOUS
<1>1. PICK g \in Candidates :
          /\ ValidGraph(g) /\ Graph = g /\ row = NewRow(g)
          /\ run = [pc |-> "idle", graph |-> g, work |-> NewRow(g)]
          /\ call = [leg |-> "none", dials |-> 0, connected |-> FALSE]
  BY InitIs
<1>2. PICK r : r = NewRow(g) /\ r.trail = <<>> /\ r.attempt_number = 1
  BY <1>1, NewRowIs
<1>3. CallsOf(g, <<>>) = {}
  BY DEF CallsOf
<1>4. Cardinality({}) = 0
  BY FS_EmptySet
<1>5. Spent(g, r, 0) /\ Affords(g, r, 0)
  <2>1. CallsOf(g, r.trail) = {} /\ r.attempt_number = 1
    BY <1>2, <1>3
  <2>2. Affords(g, r, 0)
    BY <2>1 DEF Affords
  <2>3. Spent(g, r, 0)
    BY <1>4, <2>1 DEF Spent
  <2> QED BY <2>2, <2>3
<1> QED BY <1>1, <1>2, <1>5 DEF BudgetInv

\* Calls are paid for: over all its CALL nodes an execution places no more calls than
\* max_attempts and one for each CALL node after the first (the dial, process_outcome's
\* attempt_number, the callback that moves on, and the retry's requeue together).
THEOREM SharedCallBudgetCorrect ==
    ASSUME NEW CONSTANT layer, Layered(layer)
    PROVE  Spec => []SharedCallBudget
<1>1. Init => WalkInv /\ TrailInv(layer) /\ BudgetInv
  BY WalkBegins, TrailBegins, BudgetBegins
<1>2. WalkInv /\ TrailInv(layer) /\ BudgetInv /\ [Next]_vars => WalkInv' /\ TrailInv(layer)' /\ BudgetInv'
  BY WalkStays, TrailStays, BudgetStays
<1>3. WalkInv /\ BudgetInv => SharedCallBudget
  <2> SUFFICES ASSUME WalkInv, BudgetInv, ~Edited, call.dials # 0
               PROVE  call.dials <= MaxAttempts + Cardinality(CallNodesBehind) - 1
    BY DEF SharedCallBudget
  <2>1. TypeOK /\ setup.telephony
    BY DEF WalkInv, BudgetInv
  <2>2. PICK w \in Row : w = row
    BY <2>1, StateIs
  <2>3. PICK size \in Nat : size = Cardinality(CallsOf(Graph, w.trail))
    <3>1. w.trail \in Seq(AllIds)
      BY DEF Row
    <3> QED BY <3>1, CallsAre
  <2>4. CallNodesBehind = CallsOf(Graph, w.trail)
    BY <2>2 DEF CallNodesBehind, CallsOf
  <2>5. call.dials <= w.attempt_number - 1 + size
    BY <2>1, <2>2, <2>3 DEF BudgetInv, Spent
  <2>6. w.attempt_number \in 1..MaxAttempts /\ call.dials \in Nat
    BY <2>1, CallIs DEF Row
  <2> QED BY <2>3, <2>4, <2>5, <2>6, RetryAssumption
<1> QED BY <1>1, <1>2, <1>3, PTL DEF Spec
=============================================================================
