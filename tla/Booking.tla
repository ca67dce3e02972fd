------------------------------- MODULE Booking -------------------------------
(***************************************************************************)
(* Booking a meeting during a call: ai/booking_handler.py, the state it    *)
(* keeps in Redis (booking_state.py), the two questions it puts to the     *)
(* model (booking_intents.py) and the Google calendar of the organization  *)
(* behind calendar/service.py.                                             *)
(*                                                                         *)
(* The turns of a call follow one another, each a chain of awaits; the     *)
(* calls of an organization, and whoever else writes in its calendar, come *)
(* in between.  Time is counted in half hours.                             *)
(***************************************************************************)
EXTENDS Naturals, Sequences, FiniteSets

CONSTANTS
    Calls,          \* calls under way in one organization
    LeadEmail,      \* what the CRM knows of each lead: "none", "bad", "good"
    Horizon,        \* bound: half hours 0..Horizon - 1 exist
    DayLength,      \* half hours in a day
    Open, Close,    \* the work window of a day, 09:00-18:00 in the code
    Duration,       \* half hours a meeting takes
    Wishes,         \* the starts a lead may name
    MaxNow,         \* bound on the clock
    OwnerTakes,     \* half hours that others may hold in the calendar
    KeyKnown,       \* FreeBusy answers under the stored calendar_id
    MaxLost         \* bound on failing Redis reads and writes

Units == 0..(Horizon - 1)
Start == 0..(Horizon - Duration)
NoSlot == Horizon
_MAX_EMAIL_ATTEMPTS == 3

ASSUME BookingAssumption ==
    /\ Horizon \in Nat /\ DayLength \in Nat \ {0} /\ Duration \in Nat \ {0}
    /\ Duration <= Horizon
    /\ Open \in Nat /\ Close \in Nat /\ MaxNow \in Nat /\ MaxLost \in Nat
    /\ Wishes \subseteq Start /\ OwnerTakes \subseteq Units
    /\ KeyKnown \in BOOLEAN
    /\ LeadEmail \in [Calls -> {"none", "bad", "good"}]

VARIABLES
    now,        \* the clock
    diary,      \* half hours others hold
    events,     \* events inserted for each call
    book,       \* BookingState of each call in Redis
    handling,       \* process_turn at work: its copy of the state, what it answers
    meeting,    \* the orchestrator's meeting_status is "booked"
    over,       \* the call has ended
    lost,       \* Redis failures so far
    agreed,     \* history: starts the lead named, or said yes to
    seen        \* history: starts the calendar showed free to this call

bookingVars == <<now, diary, events, book, handling, meeting, over, lost, agreed, seen>>

TERMINAL_PHASES == {"booked", "failed"}
Phase == TERMINAL_PHASES \cup {"idle", "asking_email", "asking_time", "confirming", "suggesting"}

BookingState ==
    [phase : Phase, email : {"none", "bad", "good"}, parsed : Start \cup {NoSlot},
     suggested : SUBSET Start, attempts : 0.._MAX_EMAIL_ATTEMPTS]

BookingAnswer == {"nothing", "email?", "time?", "passed", "offer", "taken", "full", "sorry", "booked"}

Turn ==
    [pc : {"wait", "pick", "check", "alternatives", "book", "save", "cut"},
     state : BookingState, slot : Start \cup {NoSlot}, answer : BookingAnswer]

BookingTypeOK ==
    /\ now \in 0..MaxNow
    /\ diary \subseteq Units
    /\ events \in [Calls -> Seq(Start)]
    /\ book \in [Calls -> BookingState]
    /\ handling \in [Calls -> Turn]
    /\ meeting \in [Calls -> BOOLEAN]
    /\ over \in [Calls -> BOOLEAN]
    /\ lost \in 0..MaxLost
    /\ agreed \in [Calls -> SUBSET Start]
    /\ seen \in [Calls -> SUBSET Start]

\* BookingMemory.get without a blob, and the address process_turn then seeds.
Fresh(c) == [phase |-> "idle", email |-> LeadEmail[c], parsed |-> NoSlot,
             suggested |-> {}, attempts |-> 0]

Waiting(c) == [pc |-> "wait", state |-> Fresh(c), slot |-> NoSlot, answer |-> "nothing"]

BookingInit ==
    /\ now = 0
    /\ diary \in SUBSET OwnerTakes
    /\ events = [c \in Calls |-> <<>>]
    /\ book = [c \in Calls |-> Fresh(c)]
    /\ handling = [c \in Calls |-> Waiting(c)]
    /\ meeting = [c \in Calls |-> FALSE]
    /\ over = [c \in Calls |-> FALSE]
    /\ lost = 0
    /\ agreed = [c \in Calls |-> {}]
    /\ seen = [c \in Calls |-> {}]

-----------------------------------------------------------------------------
(* The calendar.                                                           *)

Booked == UNION {{events[c][i] : i \in DOMAIN events[c]} : c \in Calls}
Covers(start) == start..(start + Duration - 1)

\* The busy periods FreeBusy returns; read under an unknown key, none.
Busy == IF KeyKnown THEN diary \cup UNION {Covers(s) : s \in Booked} ELSE {}

IsFree(start) == Covers(start) \cap Busy = {}
Passed(start) == start <= now

\* The first count grid points of the day that fit the window and are free; a
\* window already begun is entered at the next half hour.
FreeSlots(day, count) ==
    LET first == day * DayLength + Open
        from  == IF first < now THEN now + 1 ELSE first
        fits  == {s \in Start : /\ from <= s
                                /\ s + Duration <= day * DayLength + Close
                                /\ IsFree(s)}
    IN  {s \in fits : Cardinality({t \in fits : t < s}) < count}

Day(unit) == unit \div DayLength

-----------------------------------------------------------------------------
(* One turn of a call.                                                         *)

\* process_turn reads the state of a call nobody else writes, and branches on its
\* phase.
Hears(c, phase) ==
    /\ handling[c].pc = "wait" /\ ~over[c]
    /\ book[c].phase = phase

\* A failed read gives a blank state, whatever is stored.
HearsBlank(c) ==
    /\ handling[c].pc = "wait" /\ ~over[c]
    /\ book[c].phase # "idle"
    /\ lost < MaxLost
    /\ lost' = lost + 1

\* In a terminal phase there is nothing left to do.
HearAfterwards(c) ==
    /\ \E phase \in TERMINAL_PHASES : Hears(c, phase)
    /\ meeting' = [meeting EXCEPT ![c] = @ \/ book[c].phase = "booked"]
    /\ UNCHANGED <<now, diary, events, book, handling, over, lost, agreed, seen>>

\* The handler goes on to an await, or has its answer.
Goes(c, pc, st, slot) ==
    handling' = [handling EXCEPT ![c] =
        [pc |-> pc, state |-> st, slot |-> slot, answer |-> "nothing"]]

Answers(c, st, answer) ==
    handling' = [handling EXCEPT ![c] =
        [pc |-> "save", state |-> st, slot |-> NoSlot, answer |-> answer]]

InPhase(st, phase) == [st EXCEPT !.phase = phase]

Agrees(c, start) == agreed' = [agreed EXCEPT ![c] = @ \cup {start}]

Elsewhere == <<now, diary, events, book, meeting, over>>

\* The intent is the model's verdict, or a yes to the agent's own offer; then the
\* calendar must be connected.  Without an address that is asked for first.
HandleIdle(c) ==
    LET st == Fresh(c) IN
    /\ \/ Hears(c, "idle") /\ UNCHANGED lost
       \/ HearsBlank(c)
    /\ \/ Answers(c, st, "nothing")
       \/ Answers(c, st, "sorry")
       \/ IF st.email = "none" THEN Answers(c, InPhase(st, "asking_email"), "email?")
                               ELSE Answers(c, InPhase(st, "asking_time"), "time?")
    /\ UNCHANGED <<Elsewhere, agreed, seen>>

HandleAskingEmail(c) ==
    LET st    == book[c]
        again == [st EXCEPT !.attempts = @ + 1] IN
    /\ Hears(c, "asking_email")
    /\ \/ Answers(c, [InPhase(st, "asking_time") EXCEPT !.email = "good", !.attempts = 0], "time?")
       \/ IF again.attempts >= _MAX_EMAIL_ATTEMPTS
          THEN Answers(c, InPhase(again, "failed"), "sorry")
          ELSE Answers(c, again, "email?")
    /\ UNCHANGED <<Elsewhere, lost, agreed, seen>>

HandleAskingTime(c) ==
    LET st == book[c] IN
    /\ Hears(c, "asking_time")
    /\ \/ /\ Goes(c, "pick", st, NoSlot)                \* flexible
          /\ UNCHANGED agreed
       \/ /\ Answers(c, st, "time?")                    \* unclear
          /\ UNCHANGED agreed
       \/ \E wish \in Wishes :                          \* specific
            /\ IF Passed(wish) THEN Answers(c, [st EXCEPT !.parsed = wish], "passed")
                               ELSE Goes(c, "check", [st EXCEPT !.parsed = wish], wish)
            /\ Agrees(c, wish)
    /\ UNCHANGED <<Elsewhere, lost, seen>>

\* _do_book, up to the request: a last look at the clock and at the address.
DoBook(c, st, start) ==
    IF Passed(start) THEN Answers(c, InPhase(st, "asking_time"), "passed")
    ELSE IF st.email # "good"
         THEN Answers(c, [InPhase(st, "asking_email") EXCEPT !.parsed = start], "email?")
         ELSE Goes(c, "book", st, start)

\* Slip: whatever the lead answers, the offer counts as accepted.
Slip_AnyAnswer(c) ==
    LET st == book[c] IN
    /\ Hears(c, "confirming")
    /\ DoBook(c, st, st.parsed)
    /\ UNCHANGED <<Elsewhere, lost, agreed, seen>>

\* A state in this phase holds the slot that was offered.
HandleConfirming(c) ==
    LET st == book[c] IN
    /\ Hears(c, "confirming")
    /\ \/ /\ IF Passed(st.parsed) THEN Answers(c, InPhase(st, "asking_time"), "passed")
                                  ELSE DoBook(c, st, st.parsed)
          /\ Agrees(c, st.parsed)
       \/ /\ Answers(c, InPhase(st, "asking_time"), "time?")
          /\ UNCHANGED agreed
    /\ UNCHANGED <<Elsewhere, lost, seen>>

\* Anything but a time repeats the offers.
HandleSuggesting(c) ==
    LET st == book[c] IN
    /\ Hears(c, "suggesting")
    /\ \/ \E wish \in Wishes :
            /\ IF Passed(wish) THEN Answers(c, InPhase(st, "asking_time"), "passed")
                               ELSE Goes(c, "check", [st EXCEPT !.parsed = wish], wish)
            /\ Agrees(c, wish)
       \/ /\ IF st.suggested # {} THEN Answers(c, st, "offer")
                                  ELSE Answers(c, InPhase(st, "asking_time"), "time?")
          /\ UNCHANGED agreed
    /\ UNCHANGED <<Elsewhere, lost, seen>>

\* The earliest free slot of today is offered.  A calendar error ends the
\* attempt; any other exception counts as no slots.
PickAndConfirm(c) ==
    LET st    == handling[c].state
        slots == FreeSlots(Day(now), 1) IN
    /\ handling[c].pc = "pick"
    /\ \/ /\ Answers(c, InPhase(st, "failed"), "sorry")
          /\ UNCHANGED seen
       \/ /\ Answers(c, InPhase(st, "asking_time"), "full")
          /\ UNCHANGED seen
       \/ \E best \in slots :
            /\ Answers(c, [InPhase(st, "confirming") EXCEPT !.parsed = best], "offer")
            /\ seen' = [seen EXCEPT ![c] = @ \cup {best}]
    /\ UNCHANGED <<Elsewhere, lost, agreed>>

\* is_slot_available: every failure ends the attempt, none reads as busy or free.
CheckAvailability(c) ==
    LET st == handling[c].state IN
    /\ handling[c].pc = "check"
    /\ \/ /\ Answers(c, InPhase(st, "failed"), "sorry")
          /\ UNCHANGED seen
       \/ /\ IsFree(handling[c].slot)
          /\ DoBook(c, st, handling[c].slot)
          /\ seen' = [seen EXCEPT ![c] = @ \cup {handling[c].slot}]
       \/ /\ ~IsFree(handling[c].slot)
          /\ Goes(c, "alternatives", st, handling[c].slot)
          /\ UNCHANGED seen
    /\ UNCHANGED <<Elsewhere, lost, agreed>>

SuggestAlternatives(c) ==
    LET st           == handling[c].state
        alternatives == FreeSlots(Day(handling[c].slot), 3) IN
    /\ handling[c].pc = "alternatives"
    /\ \/ Answers(c, InPhase(st, "failed"), "sorry")
       \/ IF alternatives = {}
          THEN Answers(c, InPhase(st, "asking_time"), "full")
          ELSE Answers(c, [InPhase(st, "suggesting") EXCEPT !.suggested = alternatives], "taken")
    /\ UNCHANGED <<Elsewhere, lost, agreed, seen>>

\* events.insert: the event is in the calendar, or is not.
Inserts(c, made) ==
    events' = IF made THEN [events EXCEPT ![c] = Append(@, handling[c].slot)] ELSE events

\* Slip: a failed request leaves the lead to say yes again.
Slip_TryAgain(c) ==
    LET st == handling[c].state IN
    /\ handling[c].pc = "book"
    /\ \E made, ok \in BOOLEAN :
         /\ ok => made
         /\ Inserts(c, made)
         /\ IF ok THEN Answers(c, InPhase(st, "booked"), "booked")
                  ELSE Answers(c, InPhase(st, "asking_time"), "sorry")
    /\ UNCHANGED <<now, diary, book, meeting, over, lost, agreed, seen>>

\* Slip: the lead is told before the request has succeeded.
Slip_ToldFirst(c) ==
    /\ handling[c].pc = "book"
    /\ \E made \in BOOLEAN : Inserts(c, made)
    /\ Answers(c, InPhase(handling[c].state, "booked"), "booked")
    /\ UNCHANGED <<now, diary, book, meeting, over, lost, agreed, seen>>

\* The request and the letters after it.  An error may hide an insertion.
BookMeeting(c) ==
    LET st == handling[c].state IN
    /\ handling[c].pc = "book"
    /\ \E made, ok \in BOOLEAN :
         /\ ok => made
         /\ Inserts(c, made)
         /\ IF ok THEN Answers(c, InPhase(st, "booked"), "booked")
                  ELSE Answers(c, InPhase(st, "failed"), "sorry")
    /\ UNCHANGED <<now, diary, book, meeting, over, lost, agreed, seen>>

\* BookingMemory.save, whose failure is only logged; then the orchestrator takes
\* over meeting_booked and speaks the answer.
Save(c) ==
    /\ handling[c].pc = "save"
    /\ \/ /\ book' = [book EXCEPT ![c] = handling[c].state]
          /\ UNCHANGED lost
       \/ /\ lost < MaxLost
          /\ lost' = lost + 1
          /\ UNCHANGED book
    /\ meeting' = [meeting EXCEPT ![c] = @ \/ handling[c].answer = "booked"]
    /\ handling' = [handling EXCEPT ![c] = Waiting(c)]
    /\ UNCHANGED <<now, diary, events, over, agreed, seen>>

\* The end of the call cancels the turn where it stands; a request to Google
\* runs on in its thread.
HangUp(c) ==
    /\ ~over[c]
    /\ over' = [over EXCEPT ![c] = TRUE]
    /\ handling' = [handling EXCEPT ![c] =
                  [Waiting(c) EXCEPT !.pc = IF handling[c].pc = "book" THEN "cut" ELSE "wait",
                                     !.slot = handling[c].slot]]
    /\ UNCHANGED <<now, diary, events, book, meeting, lost, agreed, seen>>

ThreadEnds(c) ==
    /\ handling[c].pc = "cut"
    /\ \E made \in BOOLEAN : Inserts(c, made)
    /\ handling' = [handling EXCEPT ![c] = Waiting(c)]
    /\ UNCHANGED <<now, diary, book, meeting, over, lost, agreed, seen>>

Hear(c) ==
    \/ HandleIdle(c) \/ HandleAskingEmail(c) \/ HandleAskingTime(c)
    \/ HandleConfirming(c) \/ HandleSuggesting(c) \/ HearAfterwards(c)

TurnStep(c) ==
    \/ PickAndConfirm(c) \/ CheckAvailability(c) \/ SuggestAlternatives(c)
    \/ BookMeeting(c) \/ Save(c) \/ ThreadEnds(c)

Tick ==
    /\ now < MaxNow
    /\ now' = now + 1
    /\ UNCHANGED <<diary, events, book, handling, meeting, over, lost, agreed, seen>>

BookingNext == (\E c \in Calls : Hear(c) \/ TurnStep(c) \/ HangUp(c)) \/ Tick

BookingSpec == BookingInit /\ [][BookingNext]_bookingVars

-----------------------------------------------------------------------------
(* Properties.                                                             *)

\* A call puts at most one event into the calendar, though the answer to the
\* request may be lost, the lead may say yes again and the call may end in the
\* middle of the request.  Each failure of Redis, which forgets how far the call
\* had come, costs at most one more.
OneEventPerCall == \A c \in Calls : Len(events[c]) <= 1 + lost

\* Every event stands at a time the lead named or said yes to, and the calendar
\* had shown that time free to this very call (booking_handler.py: check, then
\* book; offer, then book).  It may have been taken in between: nothing is locked.
EventsAreAgreed ==
    \A c \in Calls : \A i \in DOMAIN events[c] : events[c][i] \in agreed[c] \cap seen[c]

\* Who is told "booked" - the lead, in the answer, the next turns of the call through Redis,
\* the orchestrator's meeting status - is told so because there is an event.
BookedIsTrue ==
    \A c \in Calls :
        handling[c].answer = "booked" \/ meeting[c] \/ book[c].phase = "booked"
            => events[c] # <<>>

\* The three together: what a call promised, what it was told and what stands in
\* the calendar agree.
BookingAgrees == OneEventPerCall /\ EventsAreAgreed /\ BookedIsTrue
=============================================================================
