----------------------------- MODULE EmailThread -----------------------------
(***************************************************************************)
(* One email conversation with a lead: the inbound webhook                 *)
(* (campaign/inbound_email_router.py) and the AI reply it makes            *)
(* (campaign/email_conversation_service.py).                               *)
(*                                                                         *)
(* A delivery is a coroutine of the one event loop.  It runs to its first  *)
(* commit without a break, reads the conversation back, and from then on   *)
(* works on that copy across two awaits, the model's and the mailer's,     *)
(* while other deliveries run: jobs[j].seen is the copy.                   *)
(***************************************************************************)
EXTENDS Naturals, SequencesExt

CONSTANTS
    max_turns,      \* email_conversations.max_turns, 10 in production
    MaxLetters,     \* bound on the lead's letters
    MaxDeliveries   \* bound on webhook calls, redeliveries included

ASSUME EmailAssumption ==
    /\ max_turns \in Nat \ {0}
    /\ MaxLetters \in Nat /\ MaxDeliveries \in Nat

VARIABLES
    conv,       \* the email_conversations row
    messages,   \* email_messages, in order
    outbox,     \* what the mail server took for the lead
    letters,    \* what the lead has written
    jobs,       \* one webhook call each
    lead        \* leads.status

mailVars == <<conv, messages, outbox, letters, jobs, lead>>

(* Message-IDs: make_msgid never repeats one. *)
Root      == <<"root", 0>>
LetterId(l) == <<"letter", l>>
ReplyId(j)  == <<"reply", j>>
NoParent  == <<"none", 0>>

MessageId == {Root} \cup {LetterId(l) : l \in 1..MaxLetters}
                    \cup {ReplyId(j) : j \in 1..MaxDeliveries}

\* The headers of a message, and what _parse_payload makes of a letter.
Header == [id : MessageId, parent : MessageId \cup {NoParent}, refs : Seq(MessageId)]
Letter == [id : MessageId, parent : MessageId \cup {NoParent}, refs : Seq(MessageId),
           negative : BOOLEAN]

ThreadCopy == [last : MessageId, chain : Seq(MessageId)]
ThreadPhase    == {"ignored", "replying", "mailed", "answered", "unanswered", "opt-out"}

MailTypeOK ==
    /\ conv \in [status : {"active", "closed"}, last : MessageId,
                 chain : Seq(MessageId), turns : Nat]
    /\ messages \in Seq(Header)
    /\ outbox \in Seq(Header)
    /\ letters \in Seq(Letter) /\ Len(letters) <= MaxLetters
    /\ jobs \in Seq([letter : 1..MaxLetters, pc : ThreadPhase, seen : ThreadCopy])
    /\ Len(jobs) <= MaxDeliveries
    /\ lead \in {"open", "lost"}

\* create_from_sent_email: the thread begins with the EMAIL node's mail.
Opening == [id |-> Root, parent |-> NoParent, refs |-> <<>>]

MailInit ==
    /\ conv = [status |-> "active", last |-> Root, chain |-> <<Root>>, turns |-> 0]
    /\ messages = <<Opening>>
    /\ outbox = <<Opening>>
    /\ letters = <<>>
    /\ jobs = <<>>
    /\ lead = "open"

-----------------------------------------------------------------------------
(* The lead answers a mail it has, or its own.  A mail program may drop      *)
(* References, and then a later letter has no chain to go on from; a fresh   *)
(* letter has no thread headers at all.                                      *)

Chained(m) == IF m.refs = <<>> /\ m.id # Root THEN {<<>>} ELSE {Append(m.refs, m.id), <<>>}

Write ==
    /\ Len(letters) < MaxLetters
    /\ \E m \in Range(outbox) \cup Range(letters), negative \in BOOLEAN :
          \E headers \in [parent : {m.id}, refs : Chained(m)]
                         \cup {[parent |-> NoParent, refs |-> <<>>]} :
              letters' = Append(letters,
                  [id |-> LetterId(Len(letters) + 1), parent |-> headers.parent,
                   refs |-> headers.refs, negative |-> negative])
    /\ UNCHANGED <<conv, messages, outbox, jobs, lead>>

-----------------------------------------------------------------------------
(* receive_inbound_email up to its first commit. *)

\* find_conversation_by_message_id, and find_conversation_by_references.
FoundById(m)   == conv.status = "active" /\ m.parent \in {Root, conv.last}
FoundByRefs(m) == conv.status = "active" /\ Root \in Range(m.refs)

Found(m) == FoundById(m) \/ FoundByRefs(m)

\* record_inbound_reply.
Recorded(m) == [conv EXCEPT !.last = m.id, !.chain = Append(@, m.id), !.turns = @ + 1]

\* _handle_negative_reply on the conversation.
OptedOut == [conv EXCEPT !.status = "closed"]

\* generate_and_send_reply's guard, read back right after the commit.
OutOfTurns(c) == c.turns >= max_turns

Job(l, pc, c) == [letter |-> l, pc |-> pc, seen |-> [last |-> c.last, chain |-> c.chain]]

\* The provider calls the webhook, and calls it again when it saw no answer.
Deliver(l) ==
    /\ Len(jobs) < MaxDeliveries
    /\ LET m == letters[l]
           c == Recorded(m)
       IN  \/ /\ ~Found(m)
              /\ jobs' = Append(jobs, Job(l, "ignored", conv))
              /\ UNCHANGED <<conv, messages, lead>>
           \/ /\ Found(m) /\ m.negative
              /\ conv' = OptedOut
              /\ lead' = "lost"
              /\ jobs' = Append(jobs, Job(l, "opt-out", conv))
              /\ UNCHANGED messages
           \/ /\ Found(m) /\ ~m.negative
              /\ messages' = Append(messages, [id |-> m.id, parent |-> m.parent, refs |-> m.refs])
              /\ IF OutOfTurns(c)
                 THEN /\ conv' = [c EXCEPT !.status = "closed"]
                      /\ jobs' = Append(jobs, Job(l, "unanswered", c))
                 ELSE /\ conv' = c
                      /\ jobs' = Append(jobs, Job(l, "replying", c))
              /\ UNCHANGED lead
    /\ UNCHANGED <<outbox, letters>>

-----------------------------------------------------------------------------
(* generate_and_send_reply past its first await. *)

Goto(j, pc) == jobs' = [jobs EXCEPT ![j] = [@ EXCEPT !.pc = pc]]

\* The model or the mailer fails, or the process dies: the letter stays stored
\* and unanswered, and a redelivery counts as another turn.
Failed(j) ==
    /\ jobs[j].pc = "replying"
    /\ Goto(j, "unanswered")
    /\ UNCHANGED <<conv, messages, outbox, letters, lead>>

\* Slips: References names the answered letter alone; the conversation is read
\* again when the model has answered.
ParentOnly(j) ==
    [id |-> ReplyId(j), parent |-> jobs[j].seen.last, refs |-> <<jobs[j].seen.last>>]
HeadersNow(j) == [id |-> ReplyId(j), parent |-> conv.last, refs |-> conv.chain]

\* _smtp_send_reply's headers come from the copy.
ReplyHeaders(j) ==
    [id |-> ReplyId(j), parent |-> jobs[j].seen.last, refs |-> jobs[j].seen.chain]

Mailed(j) ==
    /\ jobs[j].pc = "replying"
    /\ outbox' = Append(outbox, ReplyHeaders(j))
    /\ Goto(j, "mailed")
    /\ UNCHANGED <<conv, messages, letters, lead>>

\* Slip: every column is written back.
WrittenWhole(j) ==
    [conv EXCEPT !.status = "active", !.last = ReplyId(j),
                 !.chain = Append(jobs[j].seen.chain, ReplyId(j))]

\* Two columns are written back, the chain built on the copy's: what other
\* deliveries appended in between is lost.
Threaded(j) ==
    [conv EXCEPT !.last = ReplyId(j), !.chain = Append(jobs[j].seen.chain, ReplyId(j))]

Persist(j) ==
    /\ jobs[j].pc = "mailed"
    /\ conv' = Threaded(j)
    /\ messages' = Append(messages, ReplyHeaders(j))
    /\ Goto(j, "answered")
    /\ UNCHANGED <<outbox, letters, lead>>

\* The database refuses, or the process dies: rolled back, the mail is out.
PersistFailed(j) ==
    /\ jobs[j].pc = "mailed"
    /\ Goto(j, "unanswered")
    /\ UNCHANGED <<conv, messages, outbox, letters, lead>>

MailNext ==
    \/ Write
    \/ \E l \in DOMAIN letters : Deliver(l)
    \/ \E j \in DOMAIN jobs :
          Failed(j) \/ Mailed(j) \/ Persist(j) \/ PersistFailed(j)

MailSpec == MailInit /\ [][MailNext]_mailVars

-----------------------------------------------------------------------------
(* Properties. *)

Replies == {m \in Range(outbox) : m.id # Root}

\* Whatever arrives while the model writes or the mail is sent, a reply goes out
\* under the letter it answers: In-Reply-To names that letter and References
\* leads from the root to it.
ReplyFitsItsLetter ==
    \A j \in DOMAIN jobs : \A m \in Range(outbox) :
        m.id = ReplyId(j) =>
            /\ m.parent = LetterId(jobs[j].letter)
            /\ m.refs[1] = Root /\ Last(m.refs) = m.parent

\* A lead's opt-out with References is put on record; only a conversation that
\* max_turns closed is deaf to it.
OptOutHeeded ==
    \A j \in DOMAIN jobs :
        letters[jobs[j].letter].negative /\ letters[jobs[j].letter].refs # <<>> =>
            lead = "lost" \/ conv.turns >= max_turns

\* Closing is for good: a delivery still under way does not open the
\* conversation again, and no letter is stored in it any more.
ClosedForGood ==
    [][conv.status = "closed" =>
         /\ conv'.status = "closed"
         /\ \A r \in Range(messages') \ Range(messages) : \E j \in DOMAIN jobs : r.id = ReplyId(j)]_mailVars
=============================================================================
