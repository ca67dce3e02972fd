------------------------------- MODULE AiTurn -------------------------------
(***************************************************************************)
(* What one call remembers and says: the turns of AIService.respond_turn   *)
(* (ai/service.py), driven by _handle_user_turn of the orchestrator with   *)
(* its retries and its deadline, over the conversation memory in Redis     *)
(* (ai/memory.py), the qualification tracker (ai/qualification.py), the    *)
(* playbook's branch rules (playbook/branches.py) and the transcript in    *)
(* Postgres (ai/repository.py).                                            *)
(*                                                                         *)
(* A turn is a chain of awaits, one step each.  Every Redis call may fail, *)
(* the model may fail, and the deadline may cut the chain anywhere; a      *)
(* commit that is under way in its thread goes on without the turn.        *)
(***************************************************************************)
EXTENDS Naturals, FiniteSets, SequencesExt

CONSTANTS
    Fields,         \* qualification fields
    Rules,          \* the playbook's branch rules, in order of priority
    Playbooks,      \* "none", "fields", or "bare": a playbook without fields
    MaxTurns,       \* bound on the turns of a call
    AI_TURN_MAX_ATTEMPTS,
    AI_MEMORY_MAX_TURNS     \* pairs of messages the memory keeps

\* A rule: its when-clause (fields_all_answered, field_set_this_turn), once, and
\* whether it ends the call.
ASSUME AiTurnAssumption ==
    /\ Rules \subseteq [all : SUBSET Fields, set : SUBSET Fields, once : BOOLEAN,
                        end_call : BOOLEAN]
    /\ Playbooks \subseteq {"none", "fields", "bare"}
    /\ MaxTurns \in Nat
    /\ AI_TURN_MAX_ATTEMPTS \in Nat \ {0} /\ AI_MEMORY_MAX_TURNS \in Nat \ {0}

VARIABLES
    playbook,   \* the kind of playbook
    qual,       \* qualification in Redis
    fired,      \* meta["branches_fired"] in Redis
    history,    \* messages in Redis
    rows,       \* ai_transcript_entries
    late,       \* turns whose commit goes on after they were given up
    turn,       \* the turn under way
    told,       \* what the lead heard, turn by turn
    felt,       \* how many turns that came to their end each rule has shaped
    call        \* ai_calls.status; "over": the event loop has ended

vars == <<playbook, qual, fired, history, rows, late, turn, told, felt, call>>

Qualification == [answered : SUBSET Fields, disqualified : BOOLEAN]
Empty == [answered |-> {}, disqualified |-> FALSE]

Message(role, n) == [role |-> role, turn |-> n]
IsMessage(m) == m.role \in {"user", "assistant"} /\ m.turn \in 1..MaxTurns

\* says: the fields the lead's words answer, and whether they opt out.
Idle == [pc |-> "idle", attempt |-> 1, says |-> Empty, qual |-> Empty, new |-> {},
         fires |-> {}]

Steps == {"idle", "snapshot", "ingest", "branches", "ask", "regret", "user",
          "assistant", "persist", "reread"}

Answer == {"reply", "booking", "farewell"}

TypeOK ==
    /\ playbook \in Playbooks
    /\ qual \in Qualification
    /\ fired \subseteq Rules
    /\ Len(history) <= 2 * AI_MEMORY_MAX_TURNS
    /\ \A i \in DOMAIN history : IsMessage(history[i])
    /\ \A i \in DOMAIN rows : IsMessage(rows[i])
    /\ late \subseteq 1..MaxTurns
    /\ turn \in [pc : Steps, attempt : 1..AI_TURN_MAX_ATTEMPTS, says : Qualification,
                 qual : Qualification, new : SUBSET Fields, fires : SUBSET Rules]
    /\ told \in Seq(Answer \cup {"fallback", "silence"})
    /\ felt \in [Rules -> Nat]
    /\ call \in {"active", "over", "completed", "failed"}

\* start_call has written the meta and, with a playbook, the empty tracker.
Init ==
    /\ playbook \in Playbooks
    /\ qual = Empty /\ fired = {}
    /\ history = <<>> /\ rows = <<>> /\ late = {}
    /\ turn = Idle
    /\ told = <<>> /\ felt = [r \in Rules |-> 0]
    /\ call = "active"

Current == Len(told) + 1
Under(pc) == turn.pc = pc
GoesTo(pc) == turn' = [turn EXCEPT !.pc = pc]

Remembers(m) ==
    LET all == Append(history, m)
        cap == 2 * AI_MEMORY_MAX_TURNS
    IN  history' = IF Len(all) > cap THEN SubSeq(all, Len(all) - cap + 1, Len(all)) ELSE all

-----------------------------------------------------------------------------
(* One turn. *)

\* The event loop hands a final transcript to _handle_user_turn.
UserFinal ==
    /\ Under("idle") /\ call = "active" /\ Len(told) < MaxTurns
    /\ \E words \in Qualification :
          turn' = [Idle EXCEPT !.pc = "snapshot", !.says = words]
    /\ UNCHANGED <<playbook, qual, fired, history, rows, late, told, felt, call>>

\* memory.snapshot, and "if playbook and not qual.field_configs": the tracker of
\* a playbook without fields has no field_configs on any turn.
Tracker(q) == IF playbook = "bare" THEN Empty ELSE q

Snapshot ==
    /\ Under("snapshot")
    /\ turn' = [turn EXCEPT !.pc = "ingest", !.qual = Tracker(qual)]
    /\ UNCHANGED <<playbook, qual, fired, history, rows, late, told, felt, call>>

\* ingest_user_turn: an opt-out returns before any field is looked at.
Ingested(q) ==
    IF turn.says.disqualified
    THEN [q EXCEPT !.disqualified = TRUE]
    ELSE [q EXCEPT !.answered = @ \cup turn.says.answered]

SaveQualification ==
    /\ Under("ingest")
    /\ qual' = Ingested(turn.qual)
    /\ turn' = [turn EXCEPT !.pc = "branches", !.qual = Ingested(@),
                            !.new = Ingested(turn.qual).answered \ turn.qual.answered]
    /\ UNCHANGED <<playbook, fired, history, rows, late, told, felt, call>>

\* evaluate_branches.
Matches(r) ==
    /\ r.all \subseteq turn.qual.answered
    /\ r.set = {} \/ r.set \cap turn.new # {}

Fires == IF playbook = "none" THEN {}
         ELSE {r \in Rules : ~(r.once /\ r \in fired) /\ Matches(r)}

\* Slip: what fired is not noted.
Slip_NotNoted ==
    /\ Under("branches")
    /\ turn' = [turn EXCEPT !.pc = IF \E r \in Fires : r.end_call THEN "user" ELSE "ask",
                            !.fires = Fires]
    /\ UNCHANGED <<playbook, qual, fired, history, rows, late, told, felt, call>>

\* _apply_playbook_branches writes the meta before anything is said; a rule that
\* ends the call makes the model unnecessary.
ApplyBranches ==
    /\ Under("branches")
    /\ fired' = fired \cup Fires
    /\ turn' = [turn EXCEPT !.pc = IF \E r \in Fires : r.end_call THEN "user" ELSE "ask",
                            !.fires = Fires]
    /\ UNCHANGED <<playbook, qual, history, rows, late, told, felt, call>>

\* stream_collected.
Ask ==
    /\ Under("ask")
    /\ GoesTo("user") \/ GoesTo("regret")
    /\ UNCHANGED <<playbook, qual, fired, history, rows, late, told, felt, call>>

RecordUser ==
    /\ Under("user")
    /\ Remembers(Message("user", Current))
    /\ GoesTo("assistant")
    /\ UNCHANGED <<playbook, qual, fired, rows, late, told, felt, call>>

RecordAssistant ==
    /\ Under("assistant")
    /\ Remembers(Message("assistant", Current))
    /\ GoesTo("persist")
    /\ UNCHANGED <<playbook, qual, fired, rows, late, told, felt, call>>

Pair(n) == <<Message("user", n), Message("assistant", n)>>

\* Slip: the thread is not waited for.
Slip_NotAwaited ==
    /\ Under("persist")
    /\ late' = late \cup {Current}
    /\ GoesTo("reread")
    /\ UNCHANGED <<playbook, qual, fired, history, rows, told, felt, call>>

\* _persist_turn_rows: one transaction.
PersistTurnRows ==
    /\ Under("persist")
    /\ rows' = rows \o Pair(Current)
    /\ GoesTo("reread")
    /\ UNCHANGED <<playbook, qual, fired, history, late, told, felt, call>>

LateCommit ==
    /\ \E n \in late : /\ rows' = rows \o Pair(n)
                       /\ late' = late \ {n}
    /\ UNCHANGED <<playbook, qual, fired, history, turn, told, felt, call>>

-----------------------------------------------------------------------------
(* What the lead hears, and what goes wrong. *)

Tells(what) ==
    /\ told' = Append(told, what)
    /\ turn' = Idle

\* Slip: an opt-out counts in the turn that speaks it only.
Slip_NewsOnly == turn.says.disqualified

Disqualified == turn.qual.disqualified

EndsCall == \E r \in turn.fires : r.end_call

\* The turn returned.  The booking handler may speak instead, before anybody
\* looks at the qualification or at the branches.
Return ==
    /\ Under("reread")
    /\ \/ /\ Tells("booking")
          /\ UNCHANGED call
       \/ /\ Disqualified \/ EndsCall
          /\ Tells("farewell")
          /\ call' = "over"
       \/ /\ ~Disqualified /\ ~EndsCall
          /\ Tells("reply")
          /\ UNCHANGED call
    /\ felt' = [r \in Rules |-> IF r \in turn.fires THEN felt[r] + 1 ELSE felt[r]]
    /\ UNCHANGED <<playbook, qual, fired, history, rows, late>>

\* A rate limit, a timeout or an error of the provider: the user's words are
\* recorded once more and, while attempts are left, the turn begins again.
Retry ==
    /\ Under("regret") /\ turn.attempt < AI_TURN_MAX_ATTEMPTS
    /\ Remembers(Message("user", Current))
    /\ turn' = [Idle EXCEPT !.pc = "snapshot", !.attempt = turn.attempt + 1,
                            !.says = turn.says]
    /\ UNCHANGED <<playbook, qual, fired, rows, late, told, felt, call>>

\* The last attempt, or an error that is not retried.
GiveUp ==
    /\ Under("regret")
    /\ Remembers(Message("user", Current))
    /\ Tells("fallback")
    /\ UNCHANGED <<playbook, qual, fired, rows, late, felt, call>>

\* Redis failed or the deadline passed, before the step took effect or after the
\* one before it did.  A commit under way is not stopped.
LoseTurn ==
    /\ turn.pc \notin {"idle", "persist"}
    /\ Tells("fallback")
    /\ UNCHANGED <<playbook, qual, fired, history, rows, late, felt, call>>

LoseTurnInCommit ==
    /\ Under("persist")
    /\ late' = late \cup {Current}
    /\ Tells("fallback")
    /\ UNCHANGED <<playbook, qual, fired, history, rows, felt, call>>

\* Any exception that is no AIError, a failed commit among them, ends the event
\* loop; the end of the call cancels it.
LoopEnds ==
    /\ call = "active"
    /\ turn' = Idle
    /\ call' = "over"
    /\ late' \in {late, late \cup {n \in {Current} : Under("persist")}}
    /\ told' = IF Under("idle") THEN told ELSE Append(told, "silence")
    /\ UNCHANGED <<playbook, qual, fired, history, rows, felt>>

-----------------------------------------------------------------------------
(* The end of the call: finalize_call. *)

Finalize ==
    /\ call = "over"
    /\ call' = "completed"
    /\ history' = <<>>
    /\ UNCHANGED <<playbook, qual, fired, rows, late, turn, told, felt>>

\* Redis cannot be read, which is only logged, or the commit fails.
FinalizeFails ==
    /\ call = "over"
    /\ call' = "failed"
    /\ UNCHANGED <<playbook, qual, fired, history, rows, late, turn, told, felt>>

Next ==
    \/ UserFinal \/ Snapshot \/ SaveQualification \/ ApplyBranches \/ Ask
    \/ RecordUser \/ RecordAssistant \/ PersistTurnRows \/ LateCommit
    \/ Return \/ Retry \/ GiveUp \/ LoseTurn \/ LoseTurnInCommit \/ LoopEnds
    \/ Finalize \/ FinalizeFails

Spec == Init /\ [][Next]_vars

-----------------------------------------------------------------------------
(* Properties. *)

\* "monotonic, deterministic progress" (qualification.py): whatever is retried,
\* cut or lost, Redis never forgets an answered field or an opt-out, as long as
\* the playbook has fields.
ProgressIsMonotonic ==
    [][playbook # "bare" => /\ qual.answered \subseteq qual'.answered
                            /\ qual.disqualified => qual'.disqualified]_vars

\* A rule marked once shapes what the lead hears at most once, although turns
\* are retried and their rules evaluated again.
OnceIsOnce == \A r \in Rules : r.once => felt[r] <= 1

\* Every turn the lead got an answer for is in the transcript, both rows next to
\* each other and exactly once; and the model remembers the last of them.
AnsweredIsKept ==
    \A n \in DOMAIN told :
        told[n] \in Answer =>
            /\ \E i \in DOMAIN rows : SubSeq(rows, i, i + 1) = Pair(n)
            /\ Cardinality({i \in DOMAIN rows : rows[i].turn = n}) = 2
            /\ Under("idle") /\ n = Len(told) /\ call # "completed" =>
                  IsSuffix(Pair(n), history)

\* Once the opt-out of a lead is saved, the model does not speak to it again, also
\* when the turn that saved it was lost.  (The booking handler may.)
NoReplyAfterOptOut ==
    [][playbook # "bare" /\ qual.disqualified /\ Len(told') > Len(told)
          => told'[Len(told')] # "reply"]_vars
=============================================================================
