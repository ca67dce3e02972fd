------------------------------ MODULE Templates ------------------------------
(***************************************************************************)
(* The six built-in workflow templates (campaign/template_service.py,      *)
(* SYSTEM_TEMPLATES), as the graphs a campaign gets when it is drawn from  *)
(* one: texts, labels and the lengths of the waits are left out.  Nothing  *)
(* validates a template before it is seeded or cloned.                     *)
(***************************************************************************)
EXTENDS WorkflowGraph

\* A node with its WAIT duration or CONDITION type, and its source node.
N(id, type, config, source) ==
    [id |-> id, type |-> type, config |-> config, source |-> source]
E(source, target, condition) ==
    [source |-> source, target |-> target, condition |-> condition]

Email(id)    == N(id, "EMAIL", "", NoNode)
LinkedIn(id) == N(id, "LINKEDIN", "", NoNode)
Wait(id)     == N(id, "WAIT", "later", NoNode)
Phone(id)    == N(id, "CALL", "", NoNode)
Done(id)     == N(id, "STOP", "", NoNode)

ColdOutreach ==
    [nodes |-> <<Phone("call_1"), Wait("wait_1"), Email("email_1"), Done("stop_1")>>,
     edges |-> <<E("call_1", "wait_1", ""), E("wait_1", "email_1", ""),
                 E("email_1", "stop_1", "")>>]

FollowUpSequence ==
    [nodes |-> <<Email("email_1"), Wait("wait_1"), Email("email_2"),
                 N("cond_1", "CONDITION", "EMAIL_SENT", "email_2"),
                 Phone("call_1"), Done("stop_1")>>,
     edges |-> <<E("email_1", "wait_1", ""), E("wait_1", "email_2", ""),
                 E("email_2", "cond_1", ""),
                 E("cond_1", "call_1", "TRUE"), E("cond_1", "stop_1", "FALSE")>>]

LinkedInOutreach ==
    [nodes |-> <<LinkedIn("li_connect"), Wait("wait_1"), LinkedIn("li_msg"),
                 Done("stop_1")>>,
     edges |-> <<E("li_connect", "wait_1", ""), E("wait_1", "li_msg", ""),
                 E("li_msg", "stop_1", "")>>]

Qualification ==
    [nodes |-> <<Email("email_1"), Wait("wait_1"), Phone("call_1"),
                 N("cond_1", "CONDITION", "CALL_COMPLETED", "call_1"),
                 Done("stop_1"), Email("email_2"), Done("stop_2")>>,
     edges |-> <<E("email_1", "wait_1", ""), E("wait_1", "call_1", ""),
                 E("call_1", "cond_1", ""),
                 E("cond_1", "stop_1", "TRUE"), E("cond_1", "email_2", "FALSE"),
                 E("email_2", "stop_2", "")>>]

EmailReplyCall ==
    [nodes |-> <<Email("email_1"), Wait("wait_1"),
                 N("cond_1", "CONDITION", "EMAIL_REPLIED", "email_1"),
                 Phone("call_1"), Done("stop_1"), Done("stop_2")>>,
     edges |-> <<E("email_1", "wait_1", ""), E("wait_1", "cond_1", ""),
                 E("cond_1", "call_1", "TRUE"), E("cond_1", "stop_2", "FALSE"),
                 E("call_1", "stop_1", "")>>]

DemoBooking ==
    [nodes |-> <<Email("email_1"), Wait("wait_1"), Phone("call_1"),
                 N("cond_1", "CONDITION", "CALL_COMPLETED", "call_1"),
                 Done("stop_1"), Wait("wait_2"), Email("email_2"), Done("stop_2")>>,
     edges |-> <<E("email_1", "wait_1", ""), E("wait_1", "call_1", ""),
                 E("call_1", "cond_1", ""),
                 E("cond_1", "stop_1", "TRUE"), E("cond_1", "wait_2", "FALSE"),
                 E("wait_2", "email_2", ""), E("email_2", "stop_2", "")>>]

SystemTemplates == {ColdOutreach, FollowUpSequence, LinkedInOutreach,
                    Qualification, EmailReplyCall, DemoBooking}

\* create_template and the workflow API refuse an invalid graph; the seeds are
\* inserted as they are, so they had better be valid.
ASSUME TemplatesAreValid == \A t \in SystemTemplates : ValidGraph(t)
=============================================================================
