--------------------------- MODULE WorkflowGraph ---------------------------
(***************************************************************************)
(* The workflow graph of a campaign (campaign/workflow_service.py): which  *)
(* node a walk starts at, where it goes next, how a CONDITION chooses, and *)
(* which graphs the API accepts.                                           *)
(* workflows.nodes and workflows.edges are sequences of records.  An       *)
(* edge's condition is "" when unlabelled.  A node's config is its WAIT    *)
(* duration or its CONDITION type, its source the CONDITION's source node. *)
(***************************************************************************)
EXTENDS Naturals, Sequences, FiniteSetsExt

NoNode == "no node"

VALID_NODE_TYPES == {"CALL", "WAIT", "EMAIL", "LINKEDIN", "CONDITION", "STOP"}

NodeIds(g) == {g.nodes[i].id : i \in DOMAIN g.nodes}
Node(g, n) == CHOOSE m \in {g.nodes[i] : i \in DOMAIN g.nodes} : m.id = n

\* get_entry_node: of several roots, the first in node order.
Roots(g) == {i \in DOMAIN g.nodes :
                \A e \in DOMAIN g.edges : g.edges[e].target # g.nodes[i].id}

EntryNode(g) == IF Roots(g) = {} THEN NoNode ELSE g.nodes[Min(Roots(g))].id

Outbound(g, n) == {e \in DOMAIN g.edges : g.edges[e].source = n}

\* Where the first of these edges leads; an edge to nowhere leads nowhere.
Follow(g, es) ==
    IF es = {} \/ g.edges[Min(es)].target \notin NodeIds(g) THEN NoNode
    ELSE g.edges[Min(es)].target

\* get_next_nodes(...)[0]: edges to unknown nodes are skipped; labels are not
\* looked at.
NextNode(g, n) ==
    Follow(g, {e \in Outbound(g, n) : g.edges[e].target \in NodeIds(g)})

\* get_condition_target: the labelled edge, else the first unlabelled one.
ConditionTarget(g, n, label) ==
    LET exact == {e \in Outbound(g, n) : g.edges[e].condition = label}
    IN  Follow(g, IF exact # {} THEN exact
                  ELSE {e \in Outbound(g, n) : g.edges[e].condition = ""})

-----------------------------------------------------------------------------
(* _CONDITION_EVALUATORS: node_outputs[source] is the set of the facts that *)
(* are true of the source node's output dict.                               *)

Fact == {"sent", "replied", "negative_reply", "completed", "failed"}

CONDITION_TYPES == {"EMAIL_SENT", "EMAIL_FAILED", "EMAIL_REPLIED",
                    "NEGATIVE_REPLY", "CALL_COMPLETED", "CALL_FAILED"}

EvaluateCondition(type, output) ==
    \/ type = "EMAIL_SENT" /\ "sent" \in output
    \/ type = "EMAIL_FAILED" /\ "sent" \notin output
    \/ type = "EMAIL_REPLIED" /\ "replied" \in output
    \/ type = "NEGATIVE_REPLY" /\ "negative_reply" \in output
    \/ type = "CALL_COMPLETED" /\ "completed" \in output
    \/ type = "CALL_FAILED" /\ "failed" \in output

Label(result) == IF result THEN "TRUE" ELSE "FALSE"

-----------------------------------------------------------------------------
(* validate_graph_detailed: what makes a graph an error.  Orphans and extra *)
(* roots are warnings, and a cycle behind a root is accepted.               *)

WellFormed(g) ==
    /\ \A i, j \in DOMAIN g.nodes : g.nodes[i].id = g.nodes[j].id => i = j
    /\ \A i \in DOMAIN g.nodes : g.nodes[i].type \in VALID_NODE_TYPES
    /\ \A e \in DOMAIN g.edges :
          /\ g.edges[e].source \in NodeIds(g)
          /\ g.edges[e].target \in NodeIds(g)
          /\ g.edges[e].source # g.edges[e].target

HasBranches(g, n) ==
    \A label \in {"TRUE", "FALSE"} :
        \E e \in Outbound(g, n) : g.edges[e].condition = label

\* Slip: a CONDITION may lack a branch.
ValidWithoutBranches(g) ==
    /\ WellFormed(g)
    /\ Roots(g) # {}
    /\ \A i \in DOMAIN g.nodes :
          g.nodes[i].type = "STOP" => Outbound(g, g.nodes[i].id) = {}

ValidGraph(g) ==
    /\ WellFormed(g)
    /\ Roots(g) # {}
    /\ \A i \in DOMAIN g.nodes :
          /\ g.nodes[i].type = "CONDITION" => HasBranches(g, g.nodes[i].id)
          /\ g.nodes[i].type = "STOP" => Outbound(g, g.nodes[i].id) = {}
=============================================================================
