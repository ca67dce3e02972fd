------------------------------ MODULE MCAgent ------------------------------
(* Values for TLC's instances of AiTurn, Booking, CalendarLink, EmailThread,   *)
(* Members and CallRecords: what the agent remembers and says on a call, the   *)
(* meetings it books, the calendar it books them in, the letters it answers,   *)
(* the people it works for, and the table of its calls.  They share no state,  *)
(* so a behaviour is about one of them.                                        *)
EXTENDS AiTurn, Booking, CalendarLink, EmailThread, MCMembers, CallRecords

CONSTANTS a, b, budget, need

VARIABLE subject

\* Of one call's lead the CRM holds no address, of the other's no valid one.
NoneAndBad == (a :> "none") @@ (b :> "bad")


TwoFields == {budget, need}

\* A hint when the budget is told, once; one whenever the need is told; and the
\* end of the call when both are known.
ThreeRules == {[all |-> {budget}, set |-> {}, once |-> TRUE, end_call |-> FALSE],
               [all |-> {}, set |-> {need}, once |-> FALSE, end_call |-> FALSE],
               [all |-> {budget, need}, set |-> {}, once |-> TRUE, end_call |-> TRUE]}

\* Ann starts to connect the calendar twice, Bob once.
AnnTwice == <<ann, ann, bob>>

Dialled == {"a", "b"}
Inward  == {"x"}

\* A call and its redial, one of them with a webhook; a call, ours or not, whose
\* webhooks come twice.
SomeLegs ==
    \/ RecordsBegin({"a", "b"}, {<<"a", 1>>})
    \/ RecordsBegin({"a"}, {<<"a", 1>>, <<"a", 2>>})
    \/ RecordsBegin({"x"}, {<<"x", 1>>, <<"x", 2>>})

AgentInit ==
    /\ Init /\ BookingInit /\ CalendarInit /\ MailInit /\ MembersInit
    /\ subject \in {"turn", "booking", "calendar", "mail", "members", "records"}
    /\ subject # "turn" => playbook = "none"
    /\ subject # "booking" => diary = {}
    /\ IF subject = "records" THEN SomeLegs ELSE RecordsBegin({}, {})

\* The properties say nothing once a request has overlooked another.
AgentNext ==
    \/ /\ subject = "turn" /\ Next
       /\ UNCHANGED <<bookingVars, calendarVars, mailVars, membersVars, recordVars, subject>>
    \/ /\ subject = "booking" /\ BookingNext
       /\ UNCHANGED <<vars, calendarVars, mailVars, membersVars, recordVars, subject>>
    \/ /\ subject = "calendar" /\ CalendarNext
       /\ UNCHANGED <<vars, bookingVars, mailVars, membersVars, recordVars, subject>>
    \/ /\ subject = "mail" /\ MailNext
       /\ UNCHANGED <<vars, bookingVars, calendarVars, membersVars, recordVars, subject>>
    \/ /\ subject = "members" /\ clean /\ MembersNext
       /\ UNCHANGED <<vars, bookingVars, calendarVars, mailVars, recordVars, subject>>
    \/ /\ subject = "records" /\ RecordsNext
       /\ UNCHANGED <<vars, bookingVars, calendarVars, mailVars, membersVars, subject>>

agentVars == <<vars, bookingVars, calendarVars, mailVars, membersVars, recordVars>>

AgentSpec == AgentInit /\ [][AgentNext]_<<agentVars, subject>>
=============================================================================
