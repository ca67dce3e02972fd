-------------------------------- MODULE DryRun --------------------------------
(***************************************************************************)
(* The test run of a campaign's workflow (campaign/router.test_workflow): a *)
(* request that walks the graph with the live handlers on an execution that *)
(* is never stored, mails the tester and may place a real call.  It stops  *)
(* where the live walk would park, and it alone guards against cycles:     *)
(* validation accepts a cycle behind a root.                               *)
(***************************************************************************)
EXTENDS GraphExecution

CONSTANT MAX_STEPS      \* the bound on visited nodes; 20 in the code

ASSUME DryRunAssumption == MAX_STEPS \in Nat \ {0}

VARIABLE test

testVars == <<test>>

TestStarts == test = [pc |-> "idle", graph |-> Graph, at |-> NoNode, visited |-> {},
                      outputs |-> [n \in AllIds |-> {}], skip_wait |-> FALSE]

TestBegins ==
    /\ test.pc = "idle"
    /\ \E skip \in BOOLEAN :
          test' = [test EXCEPT !.pc = "node", !.graph = Graph,
                               !.at = EntryNode(Graph), !.skip_wait = skip]

TestNode == Node(test.graph, test.at)

\* Slip: the visited nodes only count.
NeverSeen(n) == TRUE

\* The loop's cycle check.
Unseen(n) == n \notin test.visited

TestLoops == test.pc = "node" /\ test.at # NoNode
             /\ Cardinality(test.visited) < MAX_STEPS
TestRuns(type) == TestLoops /\ Unseen(test.at) /\ TestNode.type = type

TestStores(facts, next) ==
    test' = [test EXCEPT !.pc = "node", !.at = next, !.visited = @ \cup {test.at},
                         !.outputs[test.at] = facts]
TestEnds == test' = [test EXCEPT !.pc = "done", !.visited = @ \cup {test.at}]

\* No entry node, the last node is behind, or too many steps.
TestOver ==
    /\ test.pc = "node" /\ ~TestLoops
    /\ TestEnds

TestCycle == TestLoops /\ ~Unseen(test.at) /\ TestEnds

TestStop == TestRuns("STOP") /\ TestEnds

\* skip_wait passes by any WAIT, one with a unit nobody knows as well; the
\* handler would park the row or fail it, and the run ends there.
TestWait ==
    /\ TestRuns("WAIT")
    /\ IF test.skip_wait \/ TestNode.config = "zero"
       THEN TestStores({}, NextNode(test.graph, test.at)) ELSE TestEnds

TestEmail ==
    /\ TestRuns("EMAIL")
    /\ \E facts \in {{}, {"sent"}} : TestStores(facts, NextNode(test.graph, test.at))

TestLinkedIn ==
    /\ TestRuns("LINKEDIN")
    /\ TestStores({}, NextNode(test.graph, test.at))

\* A dial, placed or failed, leaves the rest to a callback that finds no execution.
TestDial == TestRuns("CALL") /\ setup.telephony /\ TestEnds

\* The planning stub waits for the model after a commit, so that the request
\* reads the graph again.
TestPlan ==
    /\ TestRuns("CALL") /\ ~setup.telephony
    /\ test' = [test EXCEPT !.pc = "plan"]

TestPlanned ==
    /\ test.pc = "plan"
    /\ test' = [test EXCEPT !.pc = "node", !.graph = Graph,
                            !.at = NextNode(Graph, test.at),
                            !.visited = @ \cup {test.at},
                            !.outputs[test.at] = {"completed"}]

TestPlanFails == test.pc = "plan" /\ TestEnds

TestCondition ==
    /\ TestRuns("CONDITION")
    /\ IF TestNode.config \notin CONDITION_TYPES THEN TestEnds
       ELSE \E seen \in IF Polled THEN {"none", "positive", "negative"} ELSE {"none"} :
              LET source == TestNode.source
                  output == Enriched(TestNode.config, test.outputs[source], seen)
                  next   == ConditionTarget(test.graph, test.at,
                                Label(EvaluateCondition(TestNode.config, output)))
              IN  IF next = NoNode THEN TestEnds
                  ELSE test' = [test EXCEPT !.at = next,
                                            !.visited = @ \cup {test.at},
                                            !.outputs[source] = output]

\* A handler raises.
TestBreaks ==
    /\ \E type \in {"EMAIL", "LINKEDIN", "CALL", "CONDITION"} : TestRuns(type)
    /\ TestEnds

TestStep ==
    \/ TestOver \/ TestCycle \/ TestStop \/ TestWait \/ TestEmail \/ TestLinkedIn
    \/ TestDial \/ TestPlan \/ TestPlanned \/ TestPlanFails \/ TestCondition
    \/ TestBreaks

\* A user tests the workflow, another one edits it.
TestNext ==
    \/ (TestBegins \/ TestStep) /\ UNCHANGED vars
    \/ (PutWorkflow \/ RestoreVersion) /\ UNCHANGED testVars

\* The request goes on until it answers.
TestFairness == WF_test(TestStep /\ UNCHANGED vars)

-----------------------------------------------------------------------------
\* Every walk over the graph ends.  An execution's does although the graph is
\* edited under it; a test run answers, whatever graph it is given: a cycle the
\* API accepted, a long graph, and one that is edited into a cycle behind the
\* run's back.  (What it would not end, it would mail and dial forever.)
WalksEnd == EveryWalkEnds /\ (test.pc = "node" ~> test.pc = "done")
===============================================================================
