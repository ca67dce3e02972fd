-------------------------- MODULE MCGraphExecution --------------------------
(* Values for TLC's instances of GraphExecution: a follow-up sequence of mail, *)
(* wait, two conditions and two calls, drawn with some edges missing or wrong. *)
EXTENDS GraphExecution, Templates

Mail    == N("mail", "EMAIL", "", NoNode)
Pause   == N("pause", "WAIT", "later", NoNode)
NoPause == N("pause", "WAIT", "zero", NoNode)
Oops    == N("pause", "WAIT", "bad unit", NoNode)
OptOut  == N("optout", "CONDITION", "NEGATIVE_REPLY", "mail")
Replied == N("replied", "CONDITION", "EMAIL_REPLIED", "mail")
Odd     == N("replied", "CONDITION", "unknown", "mail")
First   == N("first", "CALL", "", NoNode)
Second  == N("second", "CALL", "", NoNode)
Connect == N("connect", "LINKEDIN", "", NoNode)
End     == N("end", "STOP", "", NoNode)

Backbone == <<E("mail", "pause", ""), E("pause", "optout", ""),
              E("optout", "end", "TRUE"), E("optout", "replied", "FALSE"),
              E("replied", "first", "TRUE")>>
Branch   == <<E("replied", "connect", "FALSE"), E("connect", "second", "")>>
Swapped  == <<E("mail", "pause", ""), E("pause", "replied", ""),
              E("replied", "optout", "TRUE"), E("replied", "second", "FALSE"),
              E("optout", "end", "TRUE"), E("optout", "first", "FALSE")>>
Calls2   == <<E("first", "second", ""), E("first", "end", "")>>
Default  == <<E("optout", "first", "")>>
Astray   == <<E("end", "mail", "")>>

Draw(pause, replied, edges) ==
    [nodes |-> <<Mail, pause, OptOut, replied, First, Second, Connect, End>>,
     edges |-> edges]

Drawn == {Draw(Pause, Replied, Backbone \o Branch \o Default \o Calls2),
          Draw(NoPause, Replied, Backbone \o Branch \o Calls2),
          Draw(Oops, Replied, Backbone \o Branch),
          Draw(NoPause, Odd, Backbone \o Branch \o Calls2),
          Draw(Pause, Replied, Swapped),
          Draw(Pause, Replied, Backbone \o Calls2),
          Draw(Pause, Replied, Backbone \o Branch \o Astray)}

\* A cycle behind a root.
Nagging == [nodes |-> <<Connect, Mail, NoPause, Replied, End>>,
            edges |-> <<E("connect", "mail", ""), E("mail", "pause", ""),
                        E("pause", "replied", ""), E("replied", "end", "TRUE"),
                        E("replied", "mail", "FALSE")>>]

CallOnly == [nodes |-> <<Pause, End>>, edges |-> <<>>]

Graphs     == Drawn \cup {CallOnly} \cup SystemTemplates
OneTemplate == {Qualification}
\* The drawn graphs in the order of their edges; the templates list their nodes so.
InOrder(g) ==
    CASE g = Draw(Pause, Replied, Swapped) ->
            <<"mail", "pause", "replied", "optout", "connect", "first", "second", "end">>
      [] g \in (Drawn \cup {CallOnly}) \ {Draw(Pause, Replied, Swapped)} ->
            <<"mail", "pause", "optout", "replied", "connect", "first", "second", "end">>
      [] OTHER -> [i \in DOMAIN g.nodes |-> g.nodes[i].id]

Layer == [g \in Candidates |-> [n \in AllIds |->
             CHOOSE i \in 0..Len(InOrder(g)) :
                 IF n \in ToSet(InOrder(g)) THEN i > 0 /\ InOrder(g)[i] = n ELSE i = 0]]

\* What the theorems about GraphExecution assume of the graphs holds of these.
ASSUME GraphsAreLayered == Layered(Layer) /\ MailsForward(Layer)

Answers    == {"completed", "no_answer"}
AnyOutcome == Outcome

\* The description of the Qualification template: "If the call connects the lead
\* is qualified.  Otherwise a missed-call email is sent before closing."
MissedCallMailOnlyIfMissed ==
    Graph = Qualification /\ call.connected => mail.sent["email_2"] = 0
=============================================================================
