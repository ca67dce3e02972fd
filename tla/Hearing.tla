------------------------------- MODULE Hearing -------------------------------
(***************************************************************************)
(* How the agent of one call hears: its connection to the LiveKit room     *)
(* (livekit/transport.py), the pump that sends what it receives to         *)
(* Deepgram and the reconnects (stt/streamer.py), and one Deepgram session *)
(* (stt/deepgram_client.py), opened and closed by the orchestrator's run().*)
(*                                                                         *)
(* The coroutines are the transport's track pumps, STTSession's audio pump,*)
(* the consumer of events(), the reader of each socket, run(), and the     *)
(* event loop's finalisation of an abandoned context manager.  What        *)
(* happens between two awaits is one step.  The frames of a track are      *)
(* numbers; transcript events have no content.                             *)
(***************************************************************************)
EXTENDS Naturals, Sequences

CONSTANTS
    People,         \* identities that may join the room besides agents
    Ignored,        \* ignore_identities: the agents
    Targets,        \* target_participant may be Everyone or one of these
    Sockets,        \* 1..n, Deepgram sockets that can be opened (bounds the model)
    QueueSize,      \* maxsize of the inbound queue
    MaxFrames,      \* bound on the frames spoken
    MaxHeard,      \* bound on the transcript events of a socket
    MAX_RECONNECT   \* settings.STT_MAX_RECONNECT_ATTEMPTS

Everyone == "*"
NoSocket == 0
Sentinel == "sentinel"
Transcript == "event"

ASSUME HearingAssumption ==
    /\ Everyone \notin People \cup Ignored /\ People \cap Ignored = {}
    /\ Targets \subseteq People \cup {Everyone}
    /\ Sockets \subseteq Nat \ {0} /\ 1 \in Sockets
    /\ QueueSize \in Nat \ {0}
    /\ MaxFrames \in Nat /\ MaxHeard \in Nat /\ MAX_RECONNECT \in Nat

VARIABLES
    room,       \* remote participants of the LiveKit room
    joined,     \* the transport: "no", "yes" or "left"
    target,     \* key: the queue's; human: whom run() took for the caller
    inbox,      \* the inbound queue, once iter_audio has made it
    spoken,     \* frames spoken so far
    sent,       \* the frames Deepgram got
    sock,       \* Deepgram sessions and their sockets
    cur,        \* STTSession._deepgram
    feed,       \* STTSession._pump_task
    ear,        \* the consumer of events()
    life        \* run(), from the connection to the end of its async with

hearVars == <<room, joined, target, inbox, spoken, sent, sock, cur, feed, ear, life>>

\* up: the provider's side.  reader: the reader task.  closed: _closed.
\* closer: who is inside close().  orphan: the context manager was dropped.
Unopened == [up |-> "no", reader |-> "off", events |-> <<>>, heard |-> 0,
             closed |-> FALSE, closer |-> "none", orphan |-> FALSE]

Fresh(orphan) == [Unopened EXCEPT !.up = "open", !.reader = "reading", !.orphan = orphan]

NoInbox == [made |-> FALSE, frames |-> <<>>]

HearStarts(at) ==
    /\ room = Ignored
    /\ joined = "no"
    /\ target \in {[key |-> k, human |-> k] : k \in Targets}
    /\ inbox = NoInbox
    /\ spoken = 0 /\ sent = <<>>
    /\ sock = [s \in Sockets |-> Unopened] /\ cur = NoSocket
    /\ feed = "off"
    /\ ear = [pc |-> "off", attempt |-> 0]
    /\ life = at

HearInit == HearStarts("connecting")

-----------------------------------------------------------------------------
(* The room: AudioTransport.                                               *)

ParticipantJoins(p) ==
    /\ p \notin room
    /\ room' = room \cup {p}
    /\ UNCHANGED <<joined, target, inbox, spoken, sent, sock, cur, feed, ear, life>>

ParticipantLeaves(p) ==
    /\ p \in room \cap People
    /\ room' = room \ {p}
    /\ UNCHANGED <<joined, target, inbox, spoken, sent, sock, cur, feed, ear, life>>

\* _wire_events: the tracks with a pump.
Subscribed == room \ Ignored

\* _fanout: the queue of that participant, else the queue of everyone; a full
\* queue loses its oldest frame.
Enqueue(frames, f) == Append(IF Len(frames) >= QueueSize THEN Tail(frames) ELSE frames, f)

_fanout(p) ==
    /\ joined = "yes" /\ p \in Subscribed
    /\ spoken < MaxFrames
    /\ spoken' = spoken + 1
    /\ inbox' = IF inbox.made /\ target.key \in {p, Everyone}
                THEN [inbox EXCEPT !.frames = Enqueue(@, [n |-> spoken + 1, from |-> p])]
                ELSE inbox
    /\ UNCHANGED <<room, joined, target, sent, sock, cur, feed, ear, life>>

\* connect, or its failure.
Connects ==
    /\ life = "connecting"
    /\ \/ joined' = "yes" /\ life' = "dialing"
       \/ life' = "failed" /\ UNCHANGED joined
    /\ UNCHANGED <<room, target, inbox, spoken, sent, sock, cur, feed, ear>>

-----------------------------------------------------------------------------
(* One Deepgram session.                                                   *)

Live(s) == sock[s].up \in {"open", "told"}

\* The provider hangs up: it was told to, or the connection is lost.
SocketDrops(s) ==
    /\ Live(s)
    /\ sock' = [sock EXCEPT ![s].up = "down"]
    /\ UNCHANGED <<room, joined, target, inbox, spoken, sent, cur, feed, ear, life>>

ReaderReads(s) ==
    /\ Live(s) /\ sock[s].reader = "reading"
    /\ sock[s].heard < MaxHeard
    /\ sock' = [sock EXCEPT ![s].events = Append(@, Transcript), ![s].heard = @ + 1]
    /\ UNCHANGED <<room, joined, target, inbox, spoken, sent, cur, feed, ear, life>>

\* Slip: the sentinel is put only when the socket ends without an error.
Slip_NoSentinel(r) == [r EXCEPT !.reader = "over"]

\* _reader_loop's finally.
ReaderOver(r) == [r EXCEPT !.reader = "over", !.events = Append(@, Sentinel)]

\* The socket has ended, or a message could not be read.
ReaderEnds(s) ==
    /\ sock[s].reader = "reading"
    /\ sock' = [sock EXCEPT ![s] = ReaderOver(sock[s])]
    /\ UNCHANGED <<room, joined, target, inbox, spoken, sent, cur, feed, ear, life>>

\* close(), up to its wait for the reader: only the first caller does anything.
\* send_close_stream tells the provider.
Closing(s, who) ==
    [sock EXCEPT ![s] = IF sock[s].closed THEN sock[s]
                        ELSE [sock[s] EXCEPT !.closed = TRUE, !.closer = who,
                                !.up = IF sock[s].up = "open" THEN "told" ELSE sock[s].up]]

InClose(s, who) == sock[s].closer = who

\* The reader is over, or five seconds are and it is cancelled; then the socket
\* is torn down.
CloseEnds(s) ==
    /\ sock[s].closer # "none"
    /\ LET r == IF sock[s].reader = "over" THEN sock[s] ELSE ReaderOver(sock[s])
       IN  sock' = [sock EXCEPT ![s] = [r EXCEPT !.up = "down", !.closer = "none"]]
    /\ UNCHANGED <<room, joined, target, inbox, spoken, sent, cur, feed, ear, life>>

\* A reopened session's context manager was dropped by _reopen: the event loop
\* finalises the generator, whose finally closes the session.
Finalised(s) ==
    /\ sock[s].orphan
    /\ sock' = [Closing(s, "loop") EXCEPT ![s].orphan = FALSE]
    /\ UNCHANGED <<room, joined, target, inbox, spoken, sent, cur, feed, ear, life>>

-----------------------------------------------------------------------------
(* STTSession: the audio pump.                                             *)

PumpStarts ==
    /\ feed = "created"
    /\ feed' = "getting"
    /\ inbox' = [NoInbox EXCEPT !.made = TRUE]
    /\ UNCHANGED <<room, joined, target, spoken, sent, sock, cur, ear, life>>

Accepted == sock[cur].up = "open" /\ ~sock[cur].closed

\* Slip: the frame that could not be sent is queued again.
Slip_Requeued(f) ==
    /\ feed' = "pausing"
    /\ inbox' = [inbox EXCEPT !.frames = Enqueue(Tail(@), f)]
    /\ UNCHANGED sent

\* send_audio raises: the frame is dropped and the pump pauses.
SendFails(f) ==
    /\ feed' = "pausing"
    /\ inbox' = [inbox EXCEPT !.frames = Tail(@)]
    /\ UNCHANGED sent

\* A frame written to a connection that is going down may be lost in silence.
SendSucceeds(f) ==
    /\ ~sock[cur].closed
    /\ sent' = IF Accepted THEN Append(sent, f) ELSE sent
    /\ inbox' = [inbox EXCEPT !.frames = Tail(@)]
    /\ UNCHANGED feed

PumpSends ==
    /\ feed = "getting" /\ inbox.frames # <<>>
    /\ SendSucceeds(Head(inbox.frames)) \/ SendFails(Head(inbox.frames))
    /\ UNCHANGED <<room, joined, target, spoken, sock, cur, ear, life>>

PauseOver ==
    /\ feed = "pausing"
    /\ feed' = "getting"
    /\ UNCHANGED <<room, joined, target, inbox, spoken, sent, sock, cur, ear, life>>

-----------------------------------------------------------------------------
(* STTSession: events() and its reconnects.                                *)

EarKeeps == UNCHANGED <<room, joined, target, inbox, spoken, sent, feed, life>>

\* One transcript event is yielded; the consumer goes on, or returns.
EarTakes ==
    /\ ear.pc = "listening"
    /\ sock[cur].events # <<>> /\ Head(sock[cur].events) = Transcript
    /\ sock' = [sock EXCEPT ![cur].events = Tail(@)]
    /\ \/ UNCHANGED ear
       \/ ear' = [ear EXCEPT !.pc = "over"]
    /\ UNCHANGED cur /\ EarKeeps

\* The session is over: _reconnect, if there are attempts to make.
EarLosesSocket ==
    /\ ear.pc = "listening"
    /\ sock[cur].events # <<>> /\ Head(sock[cur].events) = Sentinel
    /\ sock' = [sock EXCEPT ![cur].events = Tail(@)]
    /\ ear' = IF MAX_RECONNECT = 0 THEN [ear EXCEPT !.pc = "over"]
              ELSE [pc |-> "closing", attempt |-> 1]
    /\ UNCHANGED cur /\ EarKeeps

ReconnectCloses ==
    /\ ear.pc = "closing"
    /\ sock' = Closing(cur, "ear")
    /\ ear' = [ear EXCEPT !.pc = "backoff"]
    /\ UNCHANGED cur /\ EarKeeps

\* After close() and the backoff, _reopen.
Reopens ==
    /\ ear.pc = "backoff" /\ ~InClose(cur, "ear")
    /\ \E s \in Sockets :
        /\ sock[s] = Unopened
        /\ sock' = [sock EXCEPT ![s] = Fresh(TRUE)]
        /\ cur' = s
    /\ ear' = [pc |-> "listening", attempt |-> 0]
    /\ EarKeeps

ReopenFails ==
    /\ ear.pc = "backoff" /\ ~InClose(cur, "ear")
    /\ ear' = IF ear.attempt < MAX_RECONNECT
              THEN [pc |-> "closing", attempt |-> ear.attempt + 1]
              ELSE [ear EXCEPT !.pc = "over"]
    /\ UNCHANGED <<sock, cur>> /\ EarKeeps

-----------------------------------------------------------------------------
(* run(): the sessions are opened, the human is awaited, the loop runs.    *)

\* DeepgramSTT.open_session, or its failure, after which nobody leaves the room.
Dials ==
    /\ life = "dialing"
    /\ \/ /\ sock' = [sock EXCEPT ![1] = Fresh(FALSE)]
          /\ cur' = 1
          /\ feed' = "created"
          /\ life' = "opening"
       \/ life' = "failed" /\ UNCHANGED <<sock, cur, feed>>
    /\ UNCHANGED <<room, joined, target, inbox, spoken, sent, ear>>

\* _await_human_then_open: the human, who is noted as the target if there is
\* none; the timeout, or no opening line to speak.  Then the event loop starts.
Opens ==
    /\ life = "opening"
    /\ life' = "talking"
    /\ ear' = [ear EXCEPT !.pc = "listening"]
    /\ \/ \E p \in room \ Ignored :
            target' = [target EXCEPT !.human = IF @ = Everyone THEN p ELSE @]
       \/ UNCHANGED target
    /\ UNCHANGED <<room, joined, inbox, spoken, sent, sock, cur, feed>>

\* The stop signal, or the end of the event loop: it is cancelled.  A
\* cancellation that meets it inside close() leaves that close undone.
Stops ==
    /\ life = "talking"
    /\ life' = "closing"
    /\ ear' = [ear EXCEPT !.pc = "over"]
    /\ sock' = IF InClose(cur, "ear")
               THEN [sock EXCEPT ![cur] =
                      [IF sock[cur].reader = "over" THEN sock[cur] ELSE ReaderOver(sock[cur])
                       EXCEPT !.closer = "none"]]
               ELSE sock
    /\ UNCHANGED <<room, joined, target, inbox, spoken, sent, cur, feed>>

\* STTSession.close: the pump is cancelled, Deepgram told.
Closes ==
    /\ life = "closing"
    /\ life' = "draining"
    /\ feed' = "over"
    /\ sock' = Closing(cur, "run")
    /\ UNCHANGED <<room, joined, target, inbox, spoken, sent, cur, ear>>

\* AudioTransport.disconnect, up to the sentinel.
Disconnects ==
    /\ life = "draining" /\ ~InClose(cur, "run")
    /\ life' = "leaving"
    /\ joined' = "left"
    /\ UNCHANGED <<room, target, inbox, spoken, sent, sock, cur, feed, ear>>

\* Its sentinel waits for room in the queue; then open_session's own close.
Leaves ==
    /\ life = "leaving"
    /\ inbox.made => Len(inbox.frames) < QueueSize
    /\ life' = "left"
    /\ inbox' = NoInbox
    /\ sock' = Closing(1, "run")
    /\ UNCHANGED <<room, joined, target, spoken, sent, cur, feed, ear>>

Runs == \/ Connects \/ Dials \/ Opens \/ Closes \/ Disconnects \/ Leaves
Feed == PumpStarts \/ PumpSends \/ PauseOver
Ear  == EarTakes \/ EarLosesSocket \/ ReconnectCloses \/ Reopens \/ ReopenFails

HearNext ==
    \/ \E p \in People : ParticipantJoins(p) \/ ParticipantLeaves(p)
    \/ \E p \in People \cup Ignored : _fanout(p)
    \/ \E s \in Sockets : \/ SocketDrops(s) \/ ReaderReads(s) \/ ReaderEnds(s)
                          \/ CloseEnds(s) \/ Finalised(s)
    \/ Runs \/ Feed \/ Ear \/ Stops

\* asyncio runs what is ready, close() waits at most five seconds, and a reader
\* ends when its socket has.  Nobody need speak, and a call may last.
HearFair ==
    /\ WF_hearVars(Runs) /\ WF_hearVars(Feed) /\ WF_hearVars(Ear)
    /\ \A s \in Sockets :
        /\ WF_hearVars(CloseEnds(s)) /\ WF_hearVars(Finalised(s))
        /\ WF_hearVars(sock[s].up = "down" /\ ReaderEnds(s))

HearSpec == HearInit /\ [][HearNext]_hearVars /\ HearFair

-----------------------------------------------------------------------------
(* Properties.                                                             *)

\* Deepgram gets what people say in the order they say it, nothing twice, and
\* never the agent's own voice: over lost frames, failed sends and reconnects.
HearsInOrder ==
    /\ \A i \in 1..Len(sent) - 1 : sent[i].n < sent[i + 1].n
    /\ \A i \in 1..Len(sent) : sent[i].from \in People

\* The consumer never waits for ever on a socket that is gone: it ends, or it
\* reconnects.
DeadSocketNoticed ==
    []<>~(ear.pc = "listening" /\ sock[cur].up = "down")

\* While the call goes on and its consumer listens, nobody on this side has
\* closed the session it listens to (stt/streamer.py: the lifetime of a reopened
\* socket is managed by STTSession, which closes the old one).
InUseIsOpen == life = "talking" /\ ear.pc = "listening" => ~sock[cur].closed

\* Once told to stop, run() gets out of its sessions, also when Deepgram has
\* gone (ai/orchestrator.py: a dead STT reconnect loop must not block the exit).
CloseReturns == life = "closing" ~> life = "left"
=============================================================================
