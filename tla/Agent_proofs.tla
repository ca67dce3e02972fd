---------------------------- MODULE Agent_proofs ----------------------------
(***************************************************************************)
(* What the agent's components promise, for every value of the constants:  *)
(* the turns of a call (AiTurn), the meetings it books (Booking), the      *)
(* calendar they are booked in (CalendarLink), the letters it answers      *)
(* (EmailThread) and the people it works for (Members).  Each part has its *)
(* own inductive invariant; the parts share nothing but the library.       *)
(***************************************************************************)
EXTENDS AiTurn, Booking, CalendarLink, EmailThread, Members,
        SequenceTheorems, FiniteSetTheorems, TLAPS

-----------------------------------------------------------------------------
(* The turns of a call, for any rules, fields and bounds. *)

Messages == [role : {"user", "assistant"}, turn : 1..MaxTurns]

TurnState == [pc : Steps, attempt : 1..AI_TURN_MAX_ATTEMPTS, says : Qualification,
              qual : Qualification, new : SUBSET Fields, fires : SUBSET Rules]

Types ==
    /\ playbook \in Playbooks
    /\ qual \in Qualification /\ fired \subseteq Rules
    /\ history \in Seq(Messages) /\ Len(history) <= 2 * AI_MEMORY_MAX_TURNS
    /\ rows \in Seq(Messages)
    /\ late \subseteq 1..MaxTurns
    /\ turn \in TurnState
    /\ told \in Seq(Answer \cup {"fallback", "silence"})
    /\ Len(told) <= MaxTurns /\ (~Under("idle") => Len(told) < MaxTurns)
    /\ felt \in [Rules -> Nat]
    /\ call \in {"active", "over", "completed", "failed"}

\* What a turn has read of the qualification is what Redis has: nobody else writes
\* it while the turn is under way.
ReadIsCurrent ==
    playbook # "bare" /\ turn.pc \notin {"idle", "snapshot"} => turn.qual = qual

\* A rule that may fire once is noted before it is felt, and a turn carries it only
\* if no turn that came to its end did.
OnceInv ==
    \A r \in Rules : r.once =>
        /\ felt[r] <= 1
        /\ felt[r] = 1 => r \in fired
        /\ r \in turn.fires => r \in fired /\ felt[r] = 0

\* The two rows of a turn are next to each other, and its only ones.
StoredAt(n, i) ==
    /\ rows[i] = Message("user", n) /\ rows[i + 1] = Message("assistant", n)
    /\ \A k \in DOMAIN rows : rows[k].turn = n => k \in {i, i + 1}

Stored(n) == \E i \in 1..(Len(rows) - 1) : StoredAt(n, i)

EndsWithPair(h, n) ==
    /\ Len(h) >= 2
    /\ h[Len(h) - 1] = Message("user", n) /\ h[Len(h)] = Message("assistant", n)

\* How far the rows have come, and which turns are still to be stored.
RowsInv ==
    /\ late \subseteq 1..Len(told)
    /\ \A k \in DOMAIN rows : rows[k].turn <= Len(told) \/ (Under("reread") /\ rows[k].turn = Current)
    /\ \A n \in DOMAIN told : told[n] \in Answer => Stored(n) /\ n \notin late
    /\ Under("reread") => Stored(Current)

\* How far the memory has come.
MemoryInv ==
    /\ call # "active" => Under("idle")
    /\ Under("assistant") => Len(history) >= 1 /\ history[Len(history)] = Message("user", Current)
    /\ turn.pc \in {"persist", "reread"} => EndsWithPair(history, Current)
    /\ Under("idle") /\ Len(told) > 0 /\ told[Len(told)] \in Answer /\ call # "completed"
          => EndsWithPair(history, Len(told))

TurnInv == ReadIsCurrent /\ OnceInv /\ RowsInv /\ MemoryInv

-----------------------------------------------------------------------------
(* The operators. *)

\* A message of a turn of the call.
LEMMA MessageType ==
    ASSUME NEW n \in 1..MaxTurns, NEW role \in {"user", "assistant"}
    PROVE  /\ Message(role, n) \in Messages
           /\ Message(role, n).turn = n /\ Message(role, n).role = role
BY DEF Message, Messages

\* The pair of rows of a turn.
LEMMA PairType ==
    ASSUME NEW n \in 1..MaxTurns
    PROVE  /\ Pair(n) \in Seq(Messages) /\ Len(Pair(n)) = 2
           /\ Pair(n)[1] = Message("user", n) /\ Pair(n)[2] = Message("assistant", n)
BY MessageType DEF Pair

\* Trimming the memory keeps its end.
LEMMA RemembersEnd ==
    ASSUME history \in Seq(Messages), NEW m \in Messages, Remembers(m)
    PROVE  /\ history' \in Seq(Messages) /\ Len(history') <= 2 * AI_MEMORY_MAX_TURNS
           /\ Len(history') >= 1 /\ history'[Len(history')] = m
           /\ Len(history) >= 1 =>
                 /\ Len(history') >= 2
                 /\ history'[Len(history') - 1] = history[Len(history)]
<1> DEFINE all == Append(history, m)
           cap == 2 * AI_MEMORY_MAX_TURNS
<1>1. cap \in Nat /\ cap >= 2
  BY AiTurnAssumption
<1>2. /\ all \in Seq(Messages) /\ Len(all) = Len(history) + 1 /\ Len(history) \in Nat
      /\ all[Len(all)] = m
      /\ Len(history) >= 1 => all[Len(all) - 1] = history[Len(history)]
  BY AppendProperties, LenProperties
<1>3. history' = IF Len(all) > cap THEN SubSeq(all, Len(all) - cap + 1, Len(all)) ELSE all
  BY DEF Remembers
<1> HIDE DEF all, cap
<1>4. CASE Len(all) > cap
  <2> DEFINE from == Len(all) - cap + 1
  <2>1. from \in 1..Len(all) /\ from \in Int /\ Len(all) \in Int /\ Len(all) - from + 1 = cap
    BY <1>1, <1>2, <1>4
  <2>2. \A i \in from..Len(all) : all[i] \in Messages
    BY <1>2, <2>1, ElementOfSeq
  <2>3. history' = SubSeq(all, from, Len(all))
    BY <1>3, <1>4
  <2> HIDE DEF from
  <2>4. /\ history' \in Seq(Messages)
        /\ Len(history') = cap
        /\ \A i \in 1..cap : history'[i] = all[from + i - 1]
    BY <2>1, <2>2, <2>3, SubSeqProperties DEF from
  <2>5. from + cap - 1 = Len(all) /\ from + (cap - 1) - 1 = Len(all) - 1
        /\ cap \in 1..cap /\ cap - 1 \in 1..cap
    BY <1>1, <1>2 DEF from
  <2>6. history'[cap] = all[Len(all)] /\ history'[cap - 1] = all[Len(all) - 1]
    BY <2>4, <2>5
  <2> QED BY <1>1, <1>2, <2>4, <2>6 DEF cap
<1>5. CASE ~(Len(all) > cap)
  BY <1>1, <1>2, <1>3, <1>5 DEF cap
<1> QED BY <1>4, <1>5

\* A turn that goes on to the next step carries the rest.
LEMMA CallGoesOn ==
    ASSUME turn \in TurnState, NEW pc \in Steps, GoesTo(pc)
    PROVE  /\ turn' \in TurnState
           /\ turn'.pc = pc /\ turn'.qual = turn.qual /\ turn'.fires = turn.fires
BY DEF GoesTo, TurnState

\* The turn that is not.
LEMMA IdleType ==
    /\ Idle \in TurnState /\ Idle.pc = "idle" /\ Idle.fires = {}
    /\ Empty \in Qualification
<1>1. Empty \in Qualification
  BY DEF Empty, Qualification
<1>2. 1 \in 1..AI_TURN_MAX_ATTEMPTS /\ "idle" \in Steps
  BY AiTurnAssumption DEF Steps
<1> HIDE DEF Empty
<1> QED BY <1>1, <1>2, Zenon DEF Idle, TurnState

\* A turn that begins.
LEMMA TurnBegins ==
    ASSUME NEW says \in Qualification, NEW n \in 1..AI_TURN_MAX_ATTEMPTS,
           turn' = [Idle EXCEPT !.pc = "snapshot", !.attempt = n, !.says = says]
    PROVE  turn' \in TurnState /\ turn'.pc = "snapshot" /\ turn'.fires = {}
<1>1. Idle \in TurnState /\ Idle.fires = {} /\ "snapshot" \in Steps
  BY IdleType DEF Steps
<1> QED BY <1>1 DEF TurnState

\* A turn learns the qualification, what is new in it, and which rules fire.
LEMMA TurnLearns ==
    ASSUME turn \in TurnState, NEW pc \in Steps, NEW q \in Qualification,
           turn' = [turn EXCEPT !.pc = pc, !.qual = q]
    PROVE  turn' \in TurnState /\ turn'.pc = pc /\ turn'.qual = q /\ turn'.fires = turn.fires
BY DEF TurnState

\* A step that moves on with merged qualification changes nothing else of the turn.
LEMMA TurnSaves ==
    ASSUME turn \in TurnState, NEW pc \in Steps, NEW q \in Qualification,
           NEW new \in SUBSET Fields, turn' = [turn EXCEPT !.pc = pc, !.qual = q, !.new = new]
    PROVE  turn' \in TurnState /\ turn'.pc = pc /\ turn'.qual = q /\ turn'.fires = turn.fires
BY DEF TurnState

\* A step that moves on with the rules that fire changes nothing else of the turn.
LEMMA TurnFires ==
    ASSUME turn \in TurnState, NEW pc \in Steps, NEW fires \in SUBSET Rules,
           turn' = [turn EXCEPT !.pc = pc, !.fires = fires]
    PROVE  turn' \in TurnState /\ turn'.pc = pc /\ turn'.fires = fires /\ turn'.qual = turn.qual
BY DEF TurnState

\* What is ingested never takes anything away.
LEMMA IngestedGrows ==
    ASSUME turn \in TurnState, NEW q \in Qualification
    PROVE  /\ Ingested(q) \in Qualification
           /\ q.answered \subseteq Ingested(q).answered
           /\ q.disqualified => Ingested(q).disqualified
<1>1. turn.says \in Qualification
  BY DEF TurnState
<1> QED BY <1>1 DEF Ingested, Qualification

\* The steps that a turn does not leave as they were.
LEMMA SnapshotStep ==
    ASSUME turn \in TurnState, qual \in Qualification, Snapshot
    PROVE  /\ turn' \in TurnState /\ turn'.pc = "ingest"
           /\ turn'.qual = Tracker(qual) /\ turn'.fires = turn.fires
<1>1. Tracker(qual) \in Qualification
  BY IdleType DEF Tracker
<1>2. turn' = [turn EXCEPT !.pc = "ingest", !.qual = Tracker(qual)] /\ "ingest" \in Steps
  BY DEF Snapshot, Steps
<1> QED BY <1>1, <1>2, TurnLearns

\* save_qualification keeps what was answered, and a disqualification, in Redis.
LEMMA SaveStep ==
    ASSUME turn \in TurnState, SaveQualification
    PROVE  /\ turn' \in TurnState /\ turn'.pc = "branches" /\ turn'.fires = turn.fires
           /\ qual' \in Qualification /\ turn'.qual = qual'
           /\ turn.qual.answered \subseteq qual'.answered
           /\ turn.qual.disqualified => qual'.disqualified
<1>1. turn.qual \in Qualification
  BY DEF TurnState
<1>2. /\ Ingested(turn.qual) \in Qualification
      /\ turn.qual.answered \subseteq Ingested(turn.qual).answered
      /\ turn.qual.disqualified => Ingested(turn.qual).disqualified
  BY <1>1, IngestedGrows
<1>3. PICK new : new = Ingested(turn.qual).answered \ turn.qual.answered
  OBVIOUS
<1>4. new \in SUBSET Fields
  BY <1>2, <1>3 DEF Qualification
<1>5. /\ turn' = [turn EXCEPT !.pc = "branches", !.qual = Ingested(turn.qual), !.new = new]
      /\ qual' = Ingested(turn.qual)
  BY <1>3 DEF SaveQualification
<1>6. "branches" \in Steps
  BY DEF Steps
<1> QED BY <1>2, <1>4, <1>5, <1>6, TurnSaves

\* apply_branches fires rules and leaves the qualification alone.
LEMMA ApplyStep ==
    ASSUME turn \in TurnState, ApplyBranches
    PROVE  /\ turn' \in TurnState /\ turn'.pc \in {"user", "ask"}
           /\ turn'.qual = turn.qual /\ turn'.fires = Fires /\ Fires \subseteq Rules
<1>1. Fires \in SUBSET Rules
  BY DEF Fires
<1>2. PICK pc \in {"user", "ask"} : turn' = [turn EXCEPT !.pc = pc, !.fires = Fires]
  BY DEF ApplyBranches
<1>3. pc \in Steps
  BY DEF Steps
<1> QED BY <1>1, <1>2, <1>3, TurnFires


\* What is told is told last, and the turn is over.
LEMMA Told ==
    ASSUME Types, NEW what \in Answer \cup {"fallback", "silence"}, told' = Append(told, what)
    PROVE  /\ told' \in Seq(Answer \cup {"fallback", "silence"})
           /\ Len(told) \in Nat /\ Len(told') = Len(told) + 1 /\ told'[Len(told')] = what
           /\ \A n \in DOMAIN told : told'[n] = told[n]
           /\ DOMAIN told = 1..Len(told) /\ DOMAIN told' = DOMAIN told \cup {Len(told) + 1}
BY AppendProperties, LenProperties DEF Types

\* A turn under way has a number of its own.
LEMMA CurrentType ==
    ASSUME Types
    PROVE  /\ Len(told) \in Nat /\ Current = Len(told) + 1
           /\ ~Under("idle") => Current \in 1..MaxTurns
BY AiTurnAssumption, LenProperties DEF Types, Current

-----------------------------------------------------------------------------
(* Types. *)

\* Nothing is said or stored at first.
LEMMA TypesInit == Init => Types
BY AiTurnAssumption, IdleType DEF Init, Types, Under

\* Every step keeps the types.
LEMMA TypesNext == ASSUME Types, Next PROVE Types'
<1> USE DEF Types, Under
<1> DEFINE What == Answer \cup {"fallback", "silence"}
<1>0. /\ "idle" \in Steps /\ "snapshot" \in Steps /\ "ingest" \in Steps
      /\ "branches" \in Steps /\ "ask" \in Steps /\ "regret" \in Steps
      /\ "user" \in Steps /\ "assistant" \in Steps /\ "persist" \in Steps
      /\ "reread" \in Steps
      /\ {"reply", "booking", "farewell", "fallback", "silence"} \subseteq What
  BY DEF Steps, Answer
<1>1. CASE UserFinal
  <2>1. PICK words \in Qualification : turn' = [Idle EXCEPT !.pc = "snapshot", !.says = words]
    BY <1>1 DEF UserFinal
  <2>2. Idle.attempt = 1 /\ 1 \in 1..AI_TURN_MAX_ATTEMPTS
    BY AiTurnAssumption DEF Idle
  <2>3. turn' = [Idle EXCEPT !.pc = "snapshot", !.attempt = 1, !.says = words]
    BY <2>1, <2>2 DEF Idle
  <2>4. turn' \in TurnState /\ turn'.pc = "snapshot"
    BY <2>2, <2>3, TurnBegins
  <2> QED BY <1>1, <2>4 DEF UserFinal
<1>2. CASE Snapshot
  BY <1>2, SnapshotStep DEF Snapshot
<1>3. CASE SaveQualification
  <2>1. UNCHANGED <<playbook, fired, history, rows, late, told, felt, call>> /\ ~Under("idle")
    BY <1>3 DEF SaveQualification
  <2> QED BY <1>3, <2>1, SaveStep
<1>4. CASE ApplyBranches
  <2>1. UNCHANGED <<playbook, qual, history, rows, late, told, felt, call>> /\ ~Under("idle")
    BY <1>4 DEF ApplyBranches
  <2>2. fired' = fired \cup Fires
    BY <1>4 DEF ApplyBranches
  <2> QED BY <1>4, <2>1, <2>2, ApplyStep
<1>5. CASE Ask
  BY <1>0, <1>5, CallGoesOn DEF Ask
<1>6. CASE RecordUser
  BY <1>0, <1>6, CallGoesOn, CurrentType, MessageType, RemembersEnd DEF RecordUser
<1>7. CASE RecordAssistant
  BY <1>0, <1>7, CallGoesOn, CurrentType, MessageType, RemembersEnd DEF RecordAssistant
<1>8. CASE PersistTurnRows
  BY <1>0, <1>8, CallGoesOn, CurrentType, PairType, ConcatProperties DEF PersistTurnRows
<1>9. CASE LateCommit
  <2>1. PICK n \in late : rows' = rows \o Pair(n) /\ late' = late \ {n}
    BY <1>9 DEF LateCommit
  <2>2. rows' \in Seq(Messages)
    BY <2>1, PairType, ConcatProperties
  <2>3. UNCHANGED <<playbook, qual, fired, history, turn, told, felt, call>>
    BY <1>9 DEF LateCommit
  <2> QED BY <2>1, <2>2, <2>3
<1>10. CASE Return
  <2>1. PICK what \in {"reply", "booking", "farewell"} : Tells(what)
    BY <1>10 DEF Return
  <2>2. /\ told' \in Seq(What) /\ Len(told') = Len(told) + 1 /\ Len(told) \in Nat
        /\ turn' = Idle
    BY <1>0, <2>1, Told DEF Tells
  <2>3. felt' \in [Rules -> Nat]
    BY <1>10 DEF Return
  <2>4. call' \in {"active", "over", "completed", "failed"}
    BY <1>10 DEF Return
  <2>5. UNCHANGED <<playbook, qual, fired, history, rows, late>> /\ Under("reread")
    BY <1>10 DEF Return
  <2> QED BY <2>2, <2>3, <2>4, <2>5, IdleType, AiTurnAssumption
<1>11. CASE Retry
  <2>1. turn.says \in Qualification /\ turn.attempt + 1 \in 1..AI_TURN_MAX_ATTEMPTS
    BY <1>11, AiTurnAssumption DEF Retry, TurnState
  <2>2. turn' \in TurnState /\ turn'.pc = "snapshot"
    BY <1>11, <2>1, TurnBegins DEF Retry
  <2> QED BY <1>11, <2>2, CurrentType, MessageType, RemembersEnd DEF Retry
<1>12. CASE GiveUp
  <2>1. /\ told' \in Seq(What) /\ Len(told') = Len(told) + 1 /\ Len(told) \in Nat
        /\ turn' = Idle
    BY <1>0, <1>12, Told DEF Tells, GiveUp
  <2> QED BY <1>12, <2>1, IdleType, AiTurnAssumption, CurrentType, MessageType, RemembersEnd
          DEF GiveUp
<1>13. CASE LoseTurn \/ LoseTurnInCommit
  <2>1. /\ told' \in Seq(What) /\ Len(told') = Len(told) + 1 /\ Len(told) \in Nat
        /\ turn' = Idle
    BY <1>0, <1>13, Told DEF Tells, LoseTurn, LoseTurnInCommit
  <2>2. late' \subseteq 1..MaxTurns
    BY <1>13, CurrentType DEF LoseTurn, LoseTurnInCommit
  <2>3. UNCHANGED <<playbook, qual, fired, history, rows, felt, call>> /\ ~Under("idle")
    BY <1>13 DEF LoseTurn, LoseTurnInCommit
  <2> QED BY <2>1, <2>2, <2>3, IdleType, AiTurnAssumption
<1>14. CASE LoopEnds
  <2>1. CASE Under("idle")
    BY <1>14, <2>1, IdleType DEF LoopEnds
  <2>2. CASE ~Under("idle")
    <3>1. /\ told' \in Seq(What) /\ Len(told') = Len(told) + 1 /\ Len(told) \in Nat
          /\ turn' = Idle
      BY <1>0, <1>14, <2>2, Told DEF LoopEnds
    <3>2. late' \subseteq 1..MaxTurns
      BY <1>14, <2>2, CurrentType DEF LoopEnds
    <3>3. UNCHANGED <<playbook, qual, fired, history, rows, felt>> /\ call' = "over"
      BY <1>14 DEF LoopEnds
    <3> QED BY <2>2, <3>1, <3>2, <3>3, IdleType, AiTurnAssumption
  <2> QED BY <2>1, <2>2
<1>15. CASE Finalize \/ FinalizeFails
  <2>1. /\ UNCHANGED <<playbook, qual, fired, rows, late, turn, told, felt>>
        /\ history' = <<>> \/ history' = history
        /\ call' \in {"completed", "failed"}
    BY <1>15 DEF Finalize, FinalizeFails
  <2>2. history' \in Seq(Messages) /\ Len(history') <= 2 * AI_MEMORY_MAX_TURNS
    <3>1. <<>> \in Seq(Messages) /\ Len(<<>>) = 0
      OBVIOUS
    <3>2. 0 <= 2 * AI_MEMORY_MAX_TURNS
      BY AiTurnAssumption
    <3> QED BY <2>1, <3>1, <3>2
  <2> QED BY <2>1, <2>2
<1> QED BY <1>1, <1>2, <1>3, <1>4, <1>5, <1>6, <1>7, <1>8, <1>9, <1>10, <1>11, <1>12,
           <1>13, <1>14, <1>15 DEF Next

\* Every value is of its type and every bound is kept.
THEOREM AiTurnTypeCorrect == Spec => []TypeOK
<1>1. Types => TypeOK
  <2>1. \A m \in Messages : IsMessage(m)
    BY DEF Messages, IsMessage
  <2> QED BY <2>1, ElementOfSeq, LenProperties DEF Types, TypeOK, TurnState
<1>2. Types /\ UNCHANGED vars => Types'
  BY DEF Types, Under, vars
<1> QED BY <1>1, <1>2, TypesInit, TypesNext, PTL DEF Spec

-----------------------------------------------------------------------------
(* What a turn has read. *)

\* Who writes what, and what becomes of the turn.
LEMMA WhoWrites ==
    ASSUME Types, Next
    PROVE  /\ playbook' = playbook
           /\ qual' = qual \/ SaveQualification
           /\ fired' = fired \/ ApplyBranches
           /\ felt' = felt \/ Return
           /\ \/ turn'.pc \in {"idle", "snapshot"} /\ turn'.fires = {}
              \/ Snapshot \/ SaveQualification \/ ApplyBranches
              \/ /\ turn'.qual = turn.qual /\ turn'.fires = turn.fires
                 /\ turn.pc \notin {"idle", "snapshot"}
              \/ turn' = turn
<1>0. turn \in TurnState
  BY DEF Types
<1>1. CASE UserFinal
  <2>1. PICK words : turn' = [Idle EXCEPT !.pc = "snapshot", !.says = words]
    BY <1>1 DEF UserFinal
  <2>2. turn'.pc = "snapshot" /\ turn'.fires = {}
    BY <2>1 DEF Idle
  <2> QED BY <1>1, <2>2 DEF UserFinal
<1>2. CASE Retry
  <2>1. turn'.pc = "snapshot" /\ turn'.fires = {}
    BY <1>2 DEF Retry, Idle
  <2> QED BY <1>2, <2>1 DEF Retry
<1>3. CASE Snapshot \/ SaveQualification \/ ApplyBranches
  BY <1>3 DEF Snapshot, SaveQualification, ApplyBranches
<1>4. ASSUME NEW pc \in Steps, GoesTo(pc), turn.pc \notin {"idle", "snapshot"},
             UNCHANGED <<playbook, qual, fired, felt>>
      PROVE  /\ UNCHANGED <<playbook, qual, fired, felt>>
             /\ turn'.qual = turn.qual /\ turn'.fires = turn.fires
  BY <1>0, <1>4, CallGoesOn
<1>5. CASE Ask \/ RecordUser \/ RecordAssistant \/ PersistTurnRows
  <2>1. PICK pc \in Steps : GoesTo(pc)
    BY <1>5 DEF Ask, RecordUser, RecordAssistant, PersistTurnRows, Steps
  <2>2. turn.pc \notin {"idle", "snapshot"} /\ UNCHANGED <<playbook, qual, fired, felt>>
    BY <1>5 DEF Ask, RecordUser, RecordAssistant, PersistTurnRows, Under
  <2> QED BY <1>4, <2>1, <2>2
<1>6. CASE LateCommit \/ Finalize \/ FinalizeFails
  BY <1>6 DEF LateCommit, Finalize, FinalizeFails
<1>7. CASE Return
  BY <1>7, IdleType DEF Return, Tells
<1>8. CASE GiveUp \/ LoseTurn \/ LoseTurnInCommit \/ LoopEnds
  BY <1>8, IdleType DEF GiveUp, LoseTurn, LoseTurnInCommit, LoopEnds, Tells
<1> QED BY <1>1, <1>2, <1>3, <1>5, <1>6, <1>7, <1>8 DEF Next

\* What was read stays what is there.
LEMMA ReadNext == ASSUME Types, ReadIsCurrent, Next PROVE ReadIsCurrent'
<1>0. /\ playbook' = playbook
      /\ qual' = qual \/ SaveQualification
      /\ turn \in TurnState /\ qual \in Qualification
  BY WhoWrites DEF Types
<1>1. CASE turn'.pc \in {"idle", "snapshot"}
  BY <1>1 DEF ReadIsCurrent
<1>2. CASE Snapshot
  <2>1. turn'.qual = Tracker(qual) /\ qual' = qual
    BY <1>0, <1>2, SnapshotStep DEF Snapshot
  <2> QED BY <1>0, <2>1 DEF ReadIsCurrent, Tracker
<1>3. CASE SaveQualification
  BY <1>0, <1>3, SaveStep DEF ReadIsCurrent
<1>4. CASE ApplyBranches
  <2>1. turn'.qual = turn.qual
    BY <1>0, <1>4, ApplyStep
  <2>2. qual' = qual /\ Under("branches")
    BY <1>4 DEF ApplyBranches
  <2> QED BY <1>0, <2>1, <2>2 DEF ReadIsCurrent, Under
<1>5. CASE \/ turn'.qual = turn.qual /\ turn.pc \notin {"idle", "snapshot"}
           \/ turn' = turn
  BY <1>0, <1>3, <1>5 DEF ReadIsCurrent
<1> QED BY <1>1, <1>2, <1>3, <1>4, <1>5, WhoWrites

\* A rule marked once is felt once at most.
LEMMA OnceNext == ASSUME Types, OnceInv, Next PROVE OnceInv'
<1> SUFFICES ASSUME NEW r \in Rules, r.once
             PROVE  /\ felt'[r] <= 1
                    /\ felt'[r] = 1 => r \in fired'
                    /\ r \in turn'.fires => r \in fired' /\ felt'[r] = 0
  BY DEF OnceInv
<1>0. /\ felt[r] <= 1 /\ felt[r] \in Nat
      /\ felt[r] = 1 => r \in fired
      /\ r \in turn.fires => r \in fired /\ felt[r] = 0
      /\ turn \in TurnState
  BY DEF OnceInv, Types
<1>1. fired \subseteq fired' /\ (fired' = fired \/ ApplyBranches)
  BY WhoWrites DEF ApplyBranches
<1>2. CASE Return
  <2>1. /\ turn'.fires = {}
        /\ felt'[r] = IF r \in turn.fires THEN felt[r] + 1 ELSE felt[r]
    BY <1>2, IdleType DEF Return, Tells
  <2> QED BY <1>0, <1>1, <2>1
<1>3. CASE ApplyBranches
  <2>1. turn'.fires = Fires /\ felt' = felt /\ fired' = fired \cup Fires
    BY <1>0, <1>3, ApplyStep DEF ApplyBranches
  <2>2. r \in Fires => r \notin fired
    BY DEF Fires
  <2> QED BY <1>0, <2>1, <2>2
<1>4. CASE felt' = felt /\ (turn'.fires = {} \/ turn'.fires = turn.fires)
  BY <1>0, <1>1, <1>4
<1>5. CASE Snapshot \/ SaveQualification
  <2>1. turn'.fires = turn.fires
    BY <1>0, <1>5, SnapshotStep, SaveStep DEF Types
  <2>2. felt' = felt
    BY <1>5 DEF Snapshot, SaveQualification
  <2> QED BY <1>4, <2>1, <2>2
<1> QED BY <1>2, <1>3, <1>4, <1>5, WhoWrites

\* Both hold when the call begins.
LEMMA ReadOnceInit == Init => ReadIsCurrent /\ OnceInv
BY IdleType DEF Init, ReadIsCurrent, OnceInv

ReadOnce == Types /\ ReadIsCurrent /\ OnceInv

\* Both hold throughout.
LEMMA ReadOnceCorrect == Spec => []ReadOnce
<1>1. Init => ReadOnce
  BY TypesInit, ReadOnceInit DEF ReadOnce
<1>2. ReadOnce /\ [Next]_vars => ReadOnce'
  <2>1. ReadOnce /\ Next => ReadOnce'
    BY TypesNext, ReadNext, OnceNext DEF ReadOnce
  <2>2. ReadOnce /\ UNCHANGED vars => ReadOnce'
    BY DEF ReadOnce, Types, ReadIsCurrent, OnceInv, Under, vars
  <2> QED BY <2>1, <2>2
<1> QED BY <1>1, <1>2, PTL DEF Spec

\* A rule marked once shapes what the lead hears at most once, however often turns
\* are retried, cut or lost: for any rules and any playbook.
THEOREM OnceIsOnceCorrect == Spec => []OnceIsOnce
<1>1. ReadOnce => OnceIsOnce
  BY DEF ReadOnce, OnceInv, OnceIsOnce
<1> QED BY <1>1, ReadOnceCorrect, PTL

\* Redis never forgets an answered field or an opt-out.
THEOREM ProgressCorrect == Spec => ProgressIsMonotonic
<1>1. ReadOnce /\ [Next]_vars
         => (playbook # "bare" => /\ qual.answered \subseteq qual'.answered
                                  /\ qual.disqualified => qual'.disqualified)
  <2> SUFFICES ASSUME ReadOnce, Next, playbook # "bare"
               PROVE  /\ qual.answered \subseteq qual'.answered
                      /\ qual.disqualified => qual'.disqualified
    BY DEF vars
  <2>1. CASE SaveQualification
    <3>1. turn.qual = qual
      BY <2>1 DEF SaveQualification, Under, ReadOnce, ReadIsCurrent
    <3> QED BY <2>1, <3>1, SaveStep DEF ReadOnce, Types
  <2> QED BY <2>1, WhoWrites DEF ReadOnce
<1> QED BY <1>1, ReadOnceCorrect, PTL DEF Spec, ProgressIsMonotonic

\* Once the opt-out is saved the model does not speak to the lead again.
THEOREM NoReplyCorrect == Spec => NoReplyAfterOptOut
<1>1. ReadOnce /\ [Next]_vars
         => (playbook # "bare" /\ qual.disqualified /\ Len(told') > Len(told)
                => told'[Len(told')] # "reply")
  <2> SUFFICES ASSUME ReadOnce, Next, playbook # "bare", qual.disqualified,
                      Len(told') > Len(told)
               PROVE  told'[Len(told')] # "reply"
    BY DEF vars, ReadOnce, Types
  <2>1. CASE Return
    <3>1. turn.qual = qual
      BY <2>1 DEF Return, Under, ReadOnce, ReadIsCurrent
    <3>2. PICK what \in {"booking", "farewell"} : Tells(what)
      BY <2>1, <3>1 DEF Return, Disqualified
    <3> QED BY <3>2, Told DEF Tells, Answer, ReadOnce
  <2>2. CASE GiveUp \/ LoseTurn \/ LoseTurnInCommit
    <3>1. Tells("fallback")
      BY <2>2 DEF GiveUp, LoseTurn, LoseTurnInCommit
    <3> QED BY <3>1, Told DEF Tells, Answer, ReadOnce
  <2>3. CASE LoopEnds
    <3>1. told' = Append(told, "silence") \/ told' = told
      BY <2>3 DEF LoopEnds
    <3>2. Len(told) \in Nat
      BY LenProperties DEF ReadOnce, Types
    <3> QED BY <3>1, <3>2, Told DEF Answer, ReadOnce
  <2>4. CASE told' = told
    BY <2>4, LenProperties DEF ReadOnce, Types
  <2> QED BY <2>1, <2>2, <2>3, <2>4
          DEF Next, UserFinal, Snapshot, SaveQualification, ApplyBranches, Ask, RecordUser,
              RecordAssistant, PersistTurnRows, LateCommit, Retry, Finalize, FinalizeFails
<1> QED BY <1>1, ReadOnceCorrect, PTL DEF Spec, NoReplyAfterOptOut

-----------------------------------------------------------------------------
(* What is kept. *)

\* The rows of a turn are added at the end.
LEMMA RowsAdded ==
    ASSUME rows \in Seq(Messages), NEW n \in 1..MaxTurns, rows' = rows \o Pair(n)
    PROVE  /\ rows' \in Seq(Messages) /\ Len(rows) \in Nat /\ Len(rows') = Len(rows) + 2
           /\ DOMAIN rows = 1..Len(rows) /\ DOMAIN rows' = 1..(Len(rows) + 2)
           /\ \A k \in 1..Len(rows) : rows'[k] = rows[k]
           /\ rows'[Len(rows) + 1] = Message("user", n)
           /\ rows'[Len(rows) + 2] = Message("assistant", n)
           /\ rows'[Len(rows) + 1].turn = n /\ rows'[Len(rows) + 2].turn = n
<1>1. PICK p : p = Pair(n)
  OBVIOUS
<1>2. /\ p \in Seq(Messages) /\ Len(p) = 2
      /\ p[1] = Message("user", n) /\ p[2] = Message("assistant", n)
  BY <1>1, PairType
<1>3. rows' = rows \o p
  BY <1>1
<1>4. /\ rows' \in Seq(Messages) /\ Len(rows') = Len(rows) + 2 /\ Len(rows) \in Nat
      /\ \A k \in 1..(Len(rows) + 2) :
            rows'[k] = IF k <= Len(rows) THEN rows[k] ELSE p[k - Len(rows)]
  <2>1. Len(rows) \in Nat
    BY LenProperties
  <2>2. /\ rows \o p \in Seq(Messages) /\ Len(rows \o p) = Len(rows) + Len(p)
        /\ \A k \in 1..(Len(rows) + Len(p)) :
              (rows \o p)[k] = IF k <= Len(rows) THEN rows[k] ELSE p[k - Len(rows)]
    BY <1>2, ConcatProperties
  <2> QED BY <1>2, <1>3, <2>1, <2>2
<1>5. DOMAIN rows = 1..Len(rows) /\ DOMAIN rows' = 1..(Len(rows) + 2)
  BY <1>4, LenProperties
<1>6. /\ \A k \in 1..Len(rows) : rows'[k] = rows[k]
      /\ rows'[Len(rows) + 1] = p[1] /\ rows'[Len(rows) + 2] = p[2]
  BY <1>4
<1> QED BY <1>2, <1>4, <1>5, <1>6, MessageType

\* A stored turn stays where it is when another turn's rows are added.
LEMMA StoredStays ==
    ASSUME rows \in Seq(Messages), NEW n \in 1..MaxTurns, NEW m, m # n, Stored(m),
           rows' = rows \o Pair(n)
    PROVE  Stored(m)'
<1>1. PICK i \in 1..(Len(rows) - 1) : StoredAt(m, i)
  BY DEF Stored
<1>2. /\ rows'[i] = Message("user", m) /\ rows'[i + 1] = Message("assistant", m)
      /\ i \in 1..Len(rows) /\ i + 1 \in 1..Len(rows)
  BY <1>1, RowsAdded DEF StoredAt
<1>3. ASSUME NEW k \in DOMAIN rows', rows'[k].turn = m PROVE k \in {i, i + 1}
  <2>1. k \in 1..Len(rows)
    BY SMTT(30), <1>3, RowsAdded
  <2> QED BY <1>1, <1>3, <2>1, RowsAdded DEF StoredAt
<1>4. StoredAt(m, i)'
  BY <1>2, <1>3 DEF StoredAt
<1> QED BY <1>1, <1>4, RowsAdded DEF Stored

\* A turn whose rows are the first with its number is stored.
LEMMA StoredNow ==
    ASSUME rows \in Seq(Messages), NEW n \in 1..MaxTurns,
           \A k \in DOMAIN rows : rows[k].turn # n, rows' = rows \o Pair(n)
    PROVE  Stored(n)'
<1>1. PICK i : i = Len(rows) + 1
  OBVIOUS
<1>2. i \in 1..(Len(rows') - 1) /\ i + 1 = Len(rows) + 2
  BY SMTT(30), <1>1, RowsAdded
<1>3. ASSUME NEW k \in DOMAIN rows', rows'[k].turn = n PROVE k \in {i, i + 1}
  <2>1. k \in 1..(Len(rows) + 2) /\ Len(rows) \in Nat
    BY RowsAdded
  <2>2. k \notin 1..Len(rows)
    <3>1. k \in 1..Len(rows) => rows'[k] = rows[k] /\ k \in DOMAIN rows
      BY RowsAdded
    <3> QED BY <1>3, <3>1
  <2> QED BY <1>1, <2>1, <2>2
<1>4. StoredAt(n, i)'
  BY <1>1, <1>2, <1>3, RowsAdded DEF StoredAt
<1> QED BY <1>2, <1>4 DEF Stored

\* What the rows are when the call begins.
LEMMA RowsInit == Init => RowsInv /\ MemoryInv
BY DEF Init, Idle, RowsInv, MemoryInv, Under

\* The steps that say nothing and store nothing.
LEMMA RowsKept ==
    ASSUME RowsInv, UNCHANGED <<rows, late, told>>,
           (turn.pc # "reread" /\ turn'.pc # "reread") \/ turn' = turn
    PROVE  RowsInv'
<1>1. \A n : Stored(n)' <=> Stored(n)
  BY DEF Stored, StoredAt
<1>2. Current' = Current /\ DOMAIN told' = DOMAIN told /\ DOMAIN rows' = DOMAIN rows
  BY DEF Current
<1>3. Under("reread")' => Under("reread") /\ Stored(Current)
  BY DEF Under, RowsInv
<1>4. Under("reread")' => Stored(Current)'
  BY <1>3 DEF Stored, StoredAt, Current
<1>5. \A k \in DOMAIN rows' : rows'[k].turn <= Len(told') \/ (Under("reread")' /\ rows'[k].turn = Current')
  <2>1. Under("reread") => Under("reread")'
    BY DEF Under
  <2> QED BY <1>2, <2>1 DEF RowsInv
<1> QED BY <1>1, <1>2, <1>4, <1>5 DEF RowsInv

\* Every turn the lead was answered in is stored, and none is stored twice.
LEMMA RowsNext == ASSUME Types, RowsInv, Next PROVE RowsInv'
<1>0. /\ rows \in Seq(Messages) /\ turn \in TurnState /\ late \subseteq 1..MaxTurns
      /\ Len(told) \in Nat /\ Current = Len(told) + 1 /\ DOMAIN told = 1..Len(told)
      /\ Len(rows) \in Nat /\ DOMAIN rows = 1..Len(rows)
      /\ \A k \in DOMAIN rows : rows[k].turn \in Nat
  <2>1. \A m \in Messages : m.turn \in Nat
    BY DEF Messages
  <2> QED BY <2>1, CurrentType, LenProperties, ElementOfSeq DEF Types
<1>1. CASE UserFinal \/ Retry
  <2>1. turn'.pc = "snapshot" /\ turn.pc # "reread"
    BY <1>1 DEF UserFinal, Retry, Idle, Under
  <2> QED BY <1>1, <2>1, RowsKept DEF UserFinal, Retry
<1>2. CASE Snapshot \/ SaveQualification \/ ApplyBranches
  <2>1. turn'.pc # "reread"
    BY <1>0, <1>2, SnapshotStep, SaveStep, ApplyStep DEF Types
  <2> QED BY <1>2, <2>1, RowsKept DEF Snapshot, SaveQualification, ApplyBranches, Under
<1>3. CASE Ask \/ RecordUser \/ RecordAssistant
  <2>1. PICK pc \in Steps \ {"reread"} : GoesTo(pc)
    BY <1>3 DEF Ask, RecordUser, RecordAssistant, Steps
  <2>2. turn'.pc # "reread"
    BY <1>0, <2>1, CallGoesOn
  <2> QED BY <1>3, <2>2, RowsKept DEF Ask, RecordUser, RecordAssistant, Under
<1>4. CASE Finalize \/ FinalizeFails
  BY <1>4, RowsKept DEF Finalize, FinalizeFails
<1>5. CASE PersistTurnRows
  <2>1. /\ turn'.pc = "reread" /\ rows' = rows \o Pair(Current)
        /\ UNCHANGED <<late, told>> /\ turn.pc = "persist" /\ Current' = Current
    <3>1. "reread" \in Steps
      BY DEF Steps
    <3> QED BY <1>0, <1>5, <3>1, CallGoesOn DEF PersistTurnRows, Under, Current
  <2>2. Current \in 1..MaxTurns
    BY <2>1, CurrentType DEF Under
  <2>3. \A k \in DOMAIN rows : rows[k].turn <= Len(told)
    BY <2>1 DEF RowsInv, Under
  <2>4. Stored(Current)'
    <3>1. PICK n : n = Current
      OBVIOUS
    <3>2. \A k \in DOMAIN rows : rows[k].turn # n
      BY <1>0, <2>3, <3>1
    <3>3. Stored(n)'
      BY <1>0, <2>1, <2>2, <3>1, <3>2, StoredNow
    <3> QED BY <2>1, <3>1, <3>3
  <2>5. ASSUME NEW n \in DOMAIN told, told[n] \in Answer PROVE Stored(n)' /\ n \notin late
    BY SMTT(30), <1>0, <2>1, <2>2, <2>5, StoredStays DEF RowsInv
  <2>6. \A k \in DOMAIN rows' : rows'[k].turn <= Len(told) \/ rows'[k].turn = Current
    <3>1. /\ Len(rows') = Len(rows) + 2 /\ DOMAIN rows' = 1..Len(rows')
          /\ \A k \in 1..Len(rows) : rows'[k] = rows[k]
          /\ rows'[Len(rows) + 1].turn = Current /\ rows'[Len(rows) + 2].turn = Current
      BY <1>0, <2>1, <2>2, RowsAdded
    <3>2. \A k \in 1..Len(rows) : rows'[k].turn <= Len(told)
      BY <1>0, <2>3, <3>1
    <3> QED BY <1>0, <3>1, <3>2
  <2> QED BY <2>1, <2>4, <2>5, <2>6 DEF RowsInv, Under
<1>6. CASE LateCommit
  <2>1. PICK n \in late : rows' = rows \o Pair(n) /\ late' = late \ {n}
    BY <1>6 DEF LateCommit
  <2>2. n \in 1..MaxTurns /\ n \in 1..Len(told) /\ UNCHANGED <<turn, told>>
    BY <1>0, <1>6, <2>1 DEF LateCommit, RowsInv
  <2>3. ASSUME NEW m, m # n, Stored(m) PROVE Stored(m)'
    BY <1>0, <2>1, <2>2, <2>3, StoredStays
  <2>4. ASSUME NEW m \in DOMAIN told, told[m] \in Answer PROVE Stored(m)' /\ m \notin late'
    BY <2>1, <2>3, <2>4 DEF RowsInv
  <2>5. Under("reread") => Stored(Current)'
    <3> SUFFICES ASSUME Under("reread") PROVE Stored(Current)'
      OBVIOUS
    <3>1. PICK c : c = Current
      OBVIOUS
    <3>2. Stored(c) /\ c # n
      BY <1>0, <2>2, <3>1 DEF RowsInv
    <3>3. Stored(c)' /\ c = Current'
      BY <2>2, <2>3, <3>1, <3>2 DEF Current
    <3> QED BY <3>3
  <2>6. \A k \in DOMAIN rows' :
           rows'[k].turn <= Len(told) \/ (Under("reread") /\ rows'[k].turn = Current)
    <3>1. /\ Len(rows') = Len(rows) + 2 /\ DOMAIN rows' = 1..Len(rows')
          /\ \A k \in 1..Len(rows) : rows'[k] = rows[k]
          /\ rows'[Len(rows) + 1].turn = n /\ rows'[Len(rows) + 2].turn = n
      BY <1>0, <2>1, <2>2, RowsAdded
    <3>2. \A k \in 1..Len(rows) :
             rows'[k].turn <= Len(told) \/ (Under("reread") /\ rows'[k].turn = Current)
      BY <1>0, <3>1 DEF RowsInv
    <3> QED BY <1>0, <2>2, <3>1, <3>2
  <2>7. late' \subseteq 1..Len(told)
    BY <2>1 DEF RowsInv
  <2> QED BY <2>2, <2>4, <2>5, <2>6, <2>7 DEF RowsInv, Under, Current
<1>7. ASSUME NEW what \in Answer \cup {"fallback", "silence"}, told' = Append(told, what),
             turn' = Idle, rows' = rows, late' \subseteq late \cup {Current},
             what \in Answer => Under("reread") /\ late' = late
      PROVE  RowsInv'
  <2>1. /\ Len(told') = Len(told) + 1 /\ told'[Len(told) + 1] = what
        /\ \A n \in 1..Len(told) : told'[n] = told[n]
        /\ DOMAIN told' = 1..(Len(told) + 1)
    BY <1>0, <1>7, Told
  <2>2. late' \subseteq 1..Len(told')
    BY <1>0, <1>7, <2>1 DEF RowsInv
  <2>3. \A k \in DOMAIN rows' : rows'[k].turn <= Len(told')
    BY <1>0, <1>7, <2>1 DEF RowsInv
  <2>4. \A n : Stored(n) => Stored(n)'
    BY <1>7 DEF Stored, StoredAt
  <2>5. ASSUME NEW n \in DOMAIN told', told'[n] \in Answer PROVE Stored(n)' /\ n \notin late'
    <3>1. CASE n = Len(told) + 1
      <4>1. Under("reread") /\ late' = late /\ n = Current
        BY <1>0, <1>7, <2>1, <2>5, <3>1
      <4>2. Stored(n)
        BY <4>1 DEF RowsInv
      <4>3. n \notin late
        BY <1>0, <3>1 DEF RowsInv
      <4> QED BY <2>4, <4>1, <4>2, <4>3
    <3>2. CASE n # Len(told) + 1
      <4>1. n \in DOMAIN told /\ told[n] \in Answer
        BY <1>0, <2>1, <2>5, <3>2
      <4> QED BY <1>0, <1>7, <2>4, <3>2, <4>1 DEF RowsInv
    <3> QED BY <3>1, <3>2
  <2>6. turn'.pc = "idle"
    BY <1>7 DEF Idle
  <2> QED BY <2>2, <2>3, <2>5, <2>6 DEF RowsInv, Under
<1>8. CASE Return
  <2>1. PICK what \in Answer : Tells(what)
    BY <1>8 DEF Return, Answer
  <2> QED BY <1>7, <1>8, <2>1 DEF Return, Tells
<1>9. CASE GiveUp \/ LoseTurn \/ LoseTurnInCommit
  <2>1. Tells("fallback") /\ rows' = rows /\ late' \subseteq late \cup {Current}
    BY <1>9 DEF GiveUp, LoseTurn, LoseTurnInCommit
  <2>2. "fallback" \notin Answer
    BY DEF Answer
  <2> QED BY <1>7, <2>1, <2>2 DEF Tells
<1>10. CASE LoopEnds
  <2>1. CASE Under("idle")
    <3>1. /\ turn'.pc # "reread" /\ turn.pc # "reread"
          /\ UNCHANGED <<rows, told>> /\ late' = late
      BY <1>10, <2>1 DEF LoopEnds, Idle, Under
    <3> QED BY <3>1, RowsKept
  <2>2. CASE ~Under("idle")
    <3>1. /\ told' = Append(told, "silence") /\ turn' = Idle /\ rows' = rows
          /\ late' \subseteq late \cup {Current}
      BY <1>10, <2>2 DEF LoopEnds
    <3>2. "silence" \notin Answer
      BY DEF Answer
    <3> QED BY <1>7, <3>1, <3>2
  <2> QED BY <2>1, <2>2
<1> QED BY <1>1, <1>2, <1>3, <1>4, <1>5, <1>6, <1>8, <1>9, <1>10 DEF Next

\* The model remembers the turn it is answering, and the last one it answered.
LEMMA MemoryNext == ASSUME Types, MemoryInv, Next PROVE MemoryInv'
<1>0. /\ history \in Seq(Messages) /\ turn \in TurnState
      /\ Len(history) \in Nat
      /\ Len(told) \in Nat /\ Current = Len(told) + 1
      /\ ~Under("idle") => Current \in 1..MaxTurns /\ call = "active"
  BY CurrentType, LenProperties DEF Types, MemoryInv
<1>1. CASE UserFinal \/ Retry
  <2>1. turn'.pc = "snapshot"
    BY <1>1 DEF UserFinal, Retry, Idle
  <2>2. call' = call /\ call = "active"
    BY <1>0, <1>1 DEF UserFinal, Retry, Under
  <2> QED BY <2>1, <2>2 DEF MemoryInv, Under
<1>2. CASE Snapshot \/ SaveQualification \/ ApplyBranches
  <2>1. turn'.pc \in {"ingest", "branches", "ask", "user"}
    BY <1>0, <1>2, SnapshotStep, SaveStep, ApplyStep DEF Types
  <2>2. call' = call /\ call = "active"
    BY <1>0, <1>2 DEF Snapshot, SaveQualification, ApplyBranches, Under
  <2> QED BY <2>1, <2>2 DEF MemoryInv, Under
<1>3. CASE Ask
  <2>1. PICK pc \in {"user", "regret"} : GoesTo(pc)
    BY <1>3 DEF Ask
  <2>2. turn'.pc \in {"user", "regret"}
    BY <1>0, <2>1, CallGoesOn DEF Steps
  <2>3. call' = call /\ call = "active"
    BY <1>0, <1>3 DEF Ask, Under
  <2> QED BY <2>2, <2>3 DEF MemoryInv, Under
<1>4. CASE RecordUser
  <2>1. turn'.pc = "assistant"
    <3>1. "assistant" \in Steps
      BY DEF Steps
    <3> QED BY <1>0, <1>4, <3>1, CallGoesOn DEF RecordUser
  <2>2. call' = call /\ call = "active" /\ Current \in 1..MaxTurns /\ Current' = Current
    BY <1>0, <1>4 DEF RecordUser, Under, Current
  <2>3. Len(history') >= 1 /\ history'[Len(history')] = Message("user", Current)
    BY <1>0, <1>4, <2>2, MessageType, RemembersEnd DEF RecordUser
  <2> QED BY <2>1, <2>2, <2>3 DEF MemoryInv, Under
<1>5. CASE RecordAssistant
  <2>1. turn'.pc = "persist"
    <3>1. "persist" \in Steps
      BY DEF Steps
    <3> QED BY <1>0, <1>5, <3>1, CallGoesOn DEF RecordAssistant
  <2>2. /\ call' = call /\ call = "active" /\ Current \in 1..MaxTurns /\ Current' = Current
        /\ Len(history) >= 1 /\ history[Len(history)] = Message("user", Current)
    BY <1>0, <1>5 DEF RecordAssistant, Under, Current, MemoryInv
  <2>3. EndsWithPair(history', Current)
    BY <1>0, <1>5, <2>2, MessageType, RemembersEnd DEF RecordAssistant, EndsWithPair
  <2> QED BY <2>1, <2>2, <2>3 DEF MemoryInv, Under
<1>6. CASE PersistTurnRows
  <2>1. turn'.pc = "reread"
    <3>1. "reread" \in Steps
      BY DEF Steps
    <3> QED BY <1>0, <1>6, <3>1, CallGoesOn DEF PersistTurnRows
  <2>2. /\ call' = call /\ call = "active" /\ Current' = Current /\ history' = history
        /\ EndsWithPair(history, Current)
    BY <1>0, <1>6 DEF PersistTurnRows, Under, Current, MemoryInv
  <2> QED BY <2>1, <2>2 DEF MemoryInv, Under
<1>7. CASE LateCommit \/ FinalizeFails
  <2>1. UNCHANGED <<history, turn, told>> /\ (call' = call \/ (call = "over" /\ call' = "failed"))
    BY <1>7 DEF LateCommit, FinalizeFails
  <2> QED BY <2>1 DEF MemoryInv, Under, Current
<1>8. CASE Finalize
  BY <1>8 DEF Finalize, MemoryInv, Under
<1>9. ASSUME NEW what \in Answer \cup {"fallback", "silence"}, told' = Append(told, what),
             turn' = Idle, what \in Answer => Under("reread") /\ history' = history
      PROVE  MemoryInv'
  <2>1. Len(told') = Len(told) + 1 /\ told'[Len(told')] = what
    BY <1>9, Told
  <2>2. turn'.pc = "idle"
    BY <1>9 DEF Idle
  <2>3. what \in Answer => EndsWithPair(history', Len(told'))
    BY <1>0, <1>9, <2>1 DEF MemoryInv, Under
  <2> QED BY <2>1, <2>2, <2>3 DEF MemoryInv, Under
<1>10. CASE Return
  <2>1. PICK what \in Answer : Tells(what)
    BY <1>10 DEF Return, Answer
  <2> QED BY <1>9, <1>10, <2>1 DEF Return, Tells
<1>11. CASE GiveUp \/ LoseTurn \/ LoseTurnInCommit
  <2>1. Tells("fallback") /\ "fallback" \notin Answer
    BY <1>11 DEF GiveUp, LoseTurn, LoseTurnInCommit, Answer
  <2> QED BY <1>9, <2>1 DEF Tells
<1>12. CASE LoopEnds
  <2>1. CASE Under("idle")
    <3>1. /\ turn'.pc = "idle" /\ UNCHANGED <<history, told>>
          /\ call = "active" /\ call' = "over"
      BY <1>12, <2>1 DEF LoopEnds, Idle
    <3> QED BY <2>1, <3>1 DEF MemoryInv, Under
  <2>2. CASE ~Under("idle")
    <3>1. told' = Append(told, "silence") /\ turn' = Idle /\ "silence" \notin Answer
      BY <1>12, <2>2 DEF LoopEnds, Answer
    <3> QED BY <1>9, <3>1
  <2> QED BY <2>1, <2>2
<1> QED BY <1>1, <1>2, <1>3, <1>4, <1>5, <1>6, <1>7, <1>8, <1>10, <1>11, <1>12 DEF Next

Kept == Types /\ RowsInv /\ MemoryInv

\* Rows and memory are in order throughout.
LEMMA KeptCorrect == Spec => []Kept
<1>1. Init => Kept
  BY TypesInit, RowsInit DEF Kept
<1>2. Kept /\ [Next]_vars => Kept'
  <2>1. Kept /\ Next => Kept'
    BY TypesNext, RowsNext, MemoryNext DEF Kept
  <2>2. Kept /\ UNCHANGED vars => Kept'
    BY DEF Kept, Types, RowsInv, MemoryInv, Under, Current, Stored, StoredAt, vars
  <2> QED BY <2>1, <2>2
<1> QED BY <1>1, <1>2, PTL DEF Spec

\* A stored turn has its two rows side by side and no other.
LEMMA StoredIsPair ==
    ASSUME rows \in Seq(Messages), NEW n \in 1..MaxTurns, Stored(n)
    PROVE  /\ \E i \in DOMAIN rows : SubSeq(rows, i, i + 1) = Pair(n)
           /\ Cardinality({i \in DOMAIN rows : rows[i].turn = n}) = 2
<1>1. PICK i \in 1..(Len(rows) - 1) : StoredAt(n, i)
  BY DEF Stored
<1>2. Len(rows) \in Nat /\ DOMAIN rows = 1..Len(rows)
  BY LenProperties
<1>3. i \in DOMAIN rows /\ i + 1 \in DOMAIN rows /\ i # i + 1
  BY <1>1, <1>2
<1>4. SubSeq(rows, i, i + 1) = Pair(n)
  <2>1. \A k \in i..(i + 1) : rows[k] \in Messages
    BY <1>2, <1>3, ElementOfSeq
  <2>2. /\ SubSeq(rows, i, i + 1) \in Seq(Messages) /\ Len(SubSeq(rows, i, i + 1)) = 2
        /\ SubSeq(rows, i, i + 1)[1] = rows[i] /\ SubSeq(rows, i, i + 1)[2] = rows[i + 1]
    BY <1>3, <2>1, SubSeqProperties
  <2>3. SubSeq(rows, i, i + 1)[1] = Pair(n)[1] /\ SubSeq(rows, i, i + 1)[2] = Pair(n)[2]
    BY <1>1, <2>2, PairType DEF StoredAt
  <2>4. Len(SubSeq(rows, i, i + 1)) = Len(Pair(n)) /\ Len(Pair(n)) = 2
    BY <2>2, PairType
  <2> QED BY <2>2, <2>3, <2>4, PairType, SeqEqual
<1>5. {k \in DOMAIN rows : rows[k].turn = n} = {i} \cup {i + 1}
  BY <1>1, <1>3, MessageType DEF StoredAt
<1>6. Cardinality({i} \cup {i + 1}) = 2
  <2>1. IsFiniteSet({i}) /\ Cardinality({i}) = 1
    BY FS_Singleton
  <2>2. i + 1 \notin {i}
    BY <1>1
  <2>3. Cardinality({i} \cup {i + 1}) = Cardinality({i}) + 1
    BY <2>1, <2>2, FS_AddElement
  <2> QED BY <2>1, <2>3
<1> QED BY <1>3, <1>4, <1>5, <1>6

\* A memory that ends with the pair of a turn has it as a suffix.
LEMMA EndIsSuffix ==
    ASSUME history \in Seq(Messages), NEW n \in 1..MaxTurns, EndsWithPair(history, n)
    PROVE  IsSuffix(Pair(n), history)
<1>1. PICK p : p = Pair(n)
  OBVIOUS
<1>2. /\ p \in Seq(Messages) /\ Len(p) = 2
      /\ p[1] = Message("user", n) /\ p[2] = Message("assistant", n)
  BY <1>1, PairType
<1>3. PICK a, b : a = Reverse(p) /\ b = Reverse(history)
  OBVIOUS
<1>4. Len(history) \in Nat /\ Len(history) >= 2
  BY LenProperties DEF EndsWithPair
<1>5. a = [k \in 1..2 |-> p[2 - k + 1]] /\ b = [k \in 1..Len(history) |-> history[Len(history) - k + 1]]
  BY <1>2, <1>3 DEF Reverse
<1>6. a \in Seq(Messages) /\ Len(a) = 2 /\ a[1] = p[2] /\ a[2] = p[1]
  <2>1. p[1] \in Messages /\ p[2] \in Messages
    <3>1. 1 \in 1..Len(p) /\ 2 \in 1..Len(p)
      BY <1>2
    <3> QED BY <1>2, <3>1, ElementOfSeq
  <2>2. a \in [1..2 -> Messages]
    BY <1>5, <2>1
  <2>3. a \in Seq(Messages)
    BY <2>2, SeqDef
  <2>4. DOMAIN a = 1..2 /\ DOMAIN a = 1..Len(a) /\ Len(a) \in Nat
    BY <1>5, <2>3, LenProperties
  <2> QED BY <1>5, <2>3, <2>4
<1>7. b \in Seq(Messages) /\ Len(b) = Len(history)
  <2>1. \A k \in 1..Len(history) : history[Len(history) - k + 1] \in Messages
    <3> SUFFICES ASSUME NEW k \in 1..Len(history)
                 PROVE  history[Len(history) - k + 1] \in Messages
      OBVIOUS
    <3>1. Len(history) - k + 1 \in 1..Len(history)
      BY <1>4
    <3> QED BY <3>1, ElementOfSeq
  <2>2. b \in [1..Len(history) -> Messages]
    BY <1>5, <2>1
  <2>3. b \in Seq(Messages)
    BY <1>4, <2>2, SeqDef
  <2>4. DOMAIN b = 1..Len(history) /\ DOMAIN b = 1..Len(b) /\ Len(b) \in Nat
    BY <1>5, <2>3, LenProperties
  <2> QED BY <1>4, <2>3, <2>4
<1>8. b[1] = history[Len(history)] /\ b[2] = history[Len(history) - 1]
  BY <1>4, <1>5
<1>9. a[1] = b[1] /\ a[2] = b[2]
  BY <1>2, <1>6, <1>8 DEF EndsWithPair
<1>10. SubSeq(a, 1, 2) = SubSeq(b, 1, 2)
  <2>1. (\A k \in 1..2 : a[k] \in Messages) /\ (\A k \in 1..2 : b[k] \in Messages)
    <3>1. \A k \in 1..2 : k \in 1..Len(a) /\ k \in 1..Len(b)
      BY <1>4, <1>6, <1>7
    <3> QED BY <1>6, <1>7, <3>1, ElementOfSeq
  <2>2. /\ SubSeq(a, 1, 2) \in Seq(Messages) /\ Len(SubSeq(a, 1, 2)) = 2
        /\ \A k \in 1..2 : SubSeq(a, 1, 2)[k] = a[k]
    BY <2>1, SubSeqProperties
  <2>3. /\ SubSeq(b, 1, 2) \in Seq(Messages) /\ Len(SubSeq(b, 1, 2)) = 2
        /\ \A k \in 1..2 : SubSeq(b, 1, 2)[k] = b[k]
    BY <2>1, SubSeqProperties
  <2> QED BY <1>9, <2>2, <2>3, SeqEqual
<1> QED BY <1>1, <1>3, <1>4, <1>6, <1>7, <1>10 DEF IsSuffix, IsPrefix

\* Every turn the lead got an answer for is in the transcript, whole and once, and
\* the model remembers the last of them.
THEOREM AnsweredIsKeptCorrect == Spec => []AnsweredIsKept
<1>1. Kept => AnsweredIsKept
  <2> SUFFICES ASSUME Kept, NEW n \in DOMAIN told, told[n] \in Answer
               PROVE  /\ \E i \in DOMAIN rows : SubSeq(rows, i, i + 1) = Pair(n)
                      /\ Cardinality({i \in DOMAIN rows : rows[i].turn = n}) = 2
                      /\ Under("idle") /\ n = Len(told) /\ call # "completed" =>
                            IsSuffix(Pair(n), history)
    BY DEF AnsweredIsKept
  <2>1. /\ n \in 1..MaxTurns /\ Len(told) \in Nat
        /\ rows \in Seq(Messages) /\ history \in Seq(Messages) /\ (n = Len(told) => Len(told) > 0)
    BY AiTurnAssumption, LenProperties DEF Kept, Types
  <2>2. Stored(n)
    BY DEF Kept, RowsInv
  <2>3. Under("idle") /\ n = Len(told) /\ call # "completed" => EndsWithPair(history, n)
    BY <2>1 DEF Kept, MemoryInv
  <2> QED BY <2>1, <2>2, <2>3, StoredIsPair, EndIsSuffix
<1> QED BY <1>1, KeptCorrect, PTL

-----------------------------------------------------------------------------
(* Meetings: any calls, any calendar, any number of failures of Redis. *)

\* The call can put no event into the calendar any more, unless Redis forgets.
BookingDone(c) ==
    \/ handling[c].pc = "wait" /\ (over[c] \/ book[c].phase \in TERMINAL_PHASES)
    \/ handling[c].pc = "save" /\ handling[c].state.phase \in TERMINAL_PHASES

EventsBounded(c) ==
    /\ Len(events[c]) <= 1 + lost
    /\ ~BookingDone(c) => Len(events[c]) <= lost

\* What a turn at work knows of the slot it works on.
TurnOK(c, t) ==
    /\ t.pc \in {"book", "cut"} => t.slot \in agreed[c] \cap seen[c]
    /\ t.pc = "check" => t.slot \in agreed[c]
    /\ t.pc = "save" /\ t.state.phase = "confirming" => t.state.parsed \in seen[c]
    /\ t.answer = "booked" => events[c] # <<>>
    /\ t.pc = "save" /\ t.state.phase = "booked" => events[c] # <<>>
    /\ t.state.attempts < _MAX_EMAIL_ATTEMPTS \/ (t.pc = "save" /\ t.state.phase = "failed")
    /\ t.pc = "cut" => over[c]

\* What Redis holds of a call.
BookOK(c) ==
    /\ book[c].phase = "confirming" => book[c].parsed \in seen[c]
    /\ book[c].phase = "booked" \/ meeting[c] => events[c] # <<>>
    /\ book[c].attempts < _MAX_EMAIL_ATTEMPTS \/ book[c].phase = "failed"

BookingInv ==
    /\ BookingTypeOK
    /\ \A c \in Calls : /\ EventsBounded(c) /\ TurnOK(c, handling[c]) /\ BookOK(c)
                        /\ \A i \in DOMAIN events[c] : events[c][i] \in agreed[c] \cap seen[c]

\* Starts and the phases.
LEMMA BookingNames ==
    /\ Start \subseteq Nat /\ NoSlot \in Start \cup {NoSlot}
    /\ {"idle", "asking_email", "asking_time", "confirming", "suggesting", "booked", "failed"}
          \subseteq Phase
    /\ TERMINAL_PHASES = {"booked", "failed"}
    /\ _MAX_EMAIL_ATTEMPTS = 3
BY BookingAssumption DEF Start, Phase, TERMINAL_PHASES, _MAX_EMAIL_ATTEMPTS

\* States of a booking, changed in one column or two.
LEMMA BookingStates ==
    ASSUME NEW st \in BookingState
    PROVE  /\ st.phase \in Phase /\ st.parsed \in Start \cup {NoSlot} /\ st.attempts \in 0..3
           /\ \A phase \in Phase :
                 /\ InPhase(st, phase) \in BookingState
                 /\ InPhase(st, phase).phase = phase
                 /\ InPhase(st, phase).attempts = st.attempts
                 /\ InPhase(st, phase).parsed = st.parsed
BY DEF BookingState, InPhase, _MAX_EMAIL_ATTEMPTS

\* A start put into it.
LEMMA BookingParsed ==
    ASSUME NEW st \in BookingState, NEW start \in Start
    PROVE  \E s \in BookingState :
              /\ s = [st EXCEPT !.parsed = start] /\ s.phase = st.phase
              /\ s.attempts = st.attempts /\ s.parsed = start
<1>1. PICK s : s = [st EXCEPT !.parsed = start]
  OBVIOUS
<1>2. /\ s \in BookingState /\ s.phase = st.phase
      /\ s.attempts = st.attempts /\ s.parsed = start
  BY <1>1 DEF BookingState
<1> QED BY <1>1, <1>2

\* Alternatives put into it.
LEMMA BookingSuggested ==
    ASSUME NEW st \in BookingState, NEW slots \in SUBSET Start, NEW s,
           s = [st EXCEPT !.suggested = slots]
    PROVE  s \in BookingState /\ s.phase = st.phase /\ s.attempts = st.attempts
BY DEF BookingState

\* An address given.
LEMMA BookingEmail ==
    ASSUME NEW st \in BookingState, NEW s, s = [st EXCEPT !.email = "good", !.attempts = 0]
    PROVE  s \in BookingState /\ s.phase = st.phase /\ s.attempts = 0
<1>1. 0 \in 0.._MAX_EMAIL_ATTEMPTS
  BY BookingNames
<1> QED BY <1>1 DEF BookingState

\* One more attempt.
LEMMA BookingAgain ==
    ASSUME NEW st \in BookingState, st.attempts < _MAX_EMAIL_ATTEMPTS, NEW s,
           s = [st EXCEPT !.attempts = @ + 1]
    PROVE  s \in BookingState /\ s.phase = st.phase /\ s.attempts = st.attempts + 1
<1>1. st.attempts + 1 \in 0.._MAX_EMAIL_ATTEMPTS
  BY BookingNames DEF BookingState
<1> QED BY <1>1 DEF BookingState

\* The blank state.
LEMMA FreshType ==
    ASSUME NEW c \in Calls
    PROVE  Fresh(c) \in BookingState /\ Fresh(c).phase = "idle" /\ Fresh(c).attempts = 0
<1>1. LeadEmail[c] \in {"none", "bad", "good"}
  BY BookingAssumption
<1>2. "idle" \in Phase /\ NoSlot \in Start \cup {NoSlot} /\ 0 \in 0.._MAX_EMAIL_ATTEMPTS
  BY BookingNames
<1> QED BY <1>1, <1>2 DEF Fresh, BookingState

\* A turn that waits.
LEMMA WaitingType ==
    ASSUME NEW c \in Calls
    PROVE  /\ Waiting(c) \in Turn /\ Waiting(c).pc = "wait" /\ Waiting(c).answer = "nothing"
           /\ Waiting(c).state.attempts = 0
<1>1. "nothing" \in BookingAnswer /\ NoSlot \in Start \cup {NoSlot}
  BY BookingNames DEF BookingAnswer
<1> QED BY <1>1, FreshType DEF Waiting, Turn

\* A turn that has its answer.
LEMMA AnswersTurn ==
    ASSUME NEW c \in Calls, NEW st \in BookingState, NEW answer \in BookingAnswer,
           Answers(c, st, answer)
    PROVE  \E t \in Turn : /\ handling' = [handling EXCEPT ![c] = t]
                           /\ t.pc = "save" /\ t.state = st /\ t.answer = answer
<1>1. PICK t : t = [pc |-> "save", state |-> st, slot |-> NoSlot, answer |-> answer]
  OBVIOUS
<1>2. t \in Turn /\ t.pc = "save" /\ t.state = st /\ t.answer = answer
  BY <1>1, BookingNames DEF Turn
<1> QED BY <1>1, <1>2 DEF Answers

\* A turn that goes on to an await.
LEMMA GoesTurn ==
    ASSUME NEW c \in Calls, NEW pc \in {"pick", "check", "alternatives", "book"},
           NEW st \in BookingState, NEW slot \in Start \cup {NoSlot}, Goes(c, pc, st, slot)
    PROVE  \E t \in Turn : /\ handling' = [handling EXCEPT ![c] = t]
                           /\ t.pc = pc /\ t.state = st /\ t.slot = slot /\ t.answer = "nothing"
<1>1. PICK t : t = [pc |-> pc, state |-> st, slot |-> slot, answer |-> "nothing"]
  OBVIOUS
<1>2. "nothing" \in BookingAnswer
  BY DEF BookingAnswer
<1>3. t \in Turn /\ t.pc = pc /\ t.state = st /\ t.slot = slot /\ t.answer = "nothing"
  BY <1>1, <1>2 DEF Turn
<1> QED BY <1>1, <1>3 DEF Goes

\* What may come of _do_book.
LEMMA DoBookTurn ==
    ASSUME NEW c \in Calls, NEW st \in BookingState, NEW start \in Start, DoBook(c, st, start)
    PROVE  \E t \in Turn :
              /\ handling' = [handling EXCEPT ![c] = t]
              /\ t.answer # "booked" /\ t.state.attempts = st.attempts
              /\ \/ t.pc = "book" /\ t.state = st /\ t.slot = start
                 \/ t.pc = "save" /\ t.state.phase \in {"asking_time", "asking_email"}
<1>1. {"asking_time", "asking_email"} \subseteq Phase /\ {"passed", "email?"} \subseteq BookingAnswer
  BY BookingNames DEF BookingAnswer
<1>2. CASE Answers(c, InPhase(st, "asking_time"), "passed")
  <2>1. PICK st2 \in BookingState : st2 = InPhase(st, "asking_time")
    BY <1>1, BookingStates
  <2>2. st2.phase = "asking_time" /\ st2.attempts = st.attempts /\ Answers(c, st2, "passed")
    BY <1>1, <1>2, <2>1, BookingStates
  <2>3. PICK t \in Turn : /\ handling' = [handling EXCEPT ![c] = t]
                          /\ t.pc = "save" /\ t.state = st2 /\ t.answer = "passed"
    BY <1>1, <2>2, AnswersTurn
  <2> QED BY <2>2, <2>3
<1>3. CASE Answers(c, [InPhase(st, "asking_email") EXCEPT !.parsed = start], "email?")
  <2>1. PICK st1 \in BookingState : st1 = InPhase(st, "asking_email")
    BY <1>1, BookingStates
  <2>2. st1.phase = "asking_email" /\ st1.attempts = st.attempts
    BY <1>1, <2>1, BookingStates
  <2>3. PICK st2 \in BookingState : /\ st2 = [st1 EXCEPT !.parsed = start]
                                    /\ st2.phase = st1.phase /\ st2.attempts = st1.attempts
    BY BookingParsed
  <2>4. /\ st2.phase = "asking_email" /\ st2.attempts = st.attempts
        /\ Answers(c, st2, "email?")
    BY <1>3, <2>1, <2>2, <2>3
  <2>5. PICK t \in Turn : /\ handling' = [handling EXCEPT ![c] = t]
                          /\ t.pc = "save" /\ t.state = st2 /\ t.answer = "email?"
    BY <1>1, <2>4, AnswersTurn
  <2> QED BY <2>4, <2>5
<1>4. CASE Goes(c, "book", st, start)
  BY <1>4, GoesTurn
<1> QED BY <1>2, <1>3, <1>4 DEF DoBook

-----------------------------------------------------------------------------
(* The steps. *)

\* A turn that is taken further without a word to Redis or to the calendar.
LEMMA TurnTaken ==
    ASSUME BookingInv, NEW c \in Calls, NEW t \in Turn,
           handling' = [handling EXCEPT ![c] = t], UNCHANGED Elsewhere,
           agreed' \in [Calls -> SUBSET Start], seen' \in [Calls -> SUBSET Start],
           \A d \in Calls : agreed[d] \subseteq agreed'[d] /\ seen[d] \subseteq seen'[d],
           lost' \in 0..MaxLost, lost <= lost', ~BookingDone(c) \/ lost' > lost,
           TurnOK(c, t)'
    PROVE  BookingInv'
<1>1. /\ UNCHANGED <<now, diary, events, book, meeting, over>>
      /\ handling' \in [Calls -> Turn] /\ handling'[c] = t
      /\ \A d \in Calls \ {c} : handling'[d] = handling[d]
  BY DEF Elsewhere, BookingInv, BookingTypeOK
<1>2. BookingTypeOK'
  BY <1>1 DEF BookingInv, BookingTypeOK
<1>3. lost \in Nat /\ lost' \in Nat /\ \A d \in Calls : Len(events[d]) \in Nat
  BY BookingAssumption, LenProperties DEF BookingInv, BookingTypeOK
<1>4. ASSUME NEW d \in Calls PROVE EventsBounded(d)'
  <2>1. CASE d = c
    BY <1>1, <1>3, <2>1 DEF BookingInv, EventsBounded
  <2>2. CASE d # c
    <3>1. BookingDone(d)' <=> BookingDone(d)
      BY <1>1, <2>2 DEF BookingDone
    <3> QED BY <1>1, <1>3, <3>1 DEF BookingInv, EventsBounded
  <2> QED BY <2>1, <2>2
<1>5. ASSUME NEW d \in Calls PROVE TurnOK(d, handling[d])'
  <2>1. CASE d = c
    <3>1. TurnOK(d, handling[d])' <=> TurnOK(c, t)'
      BY <1>1, <2>1 DEF TurnOK
    <3> QED BY <3>1
  <2>2. CASE d # c
    BY <1>1, <2>2 DEF BookingInv, TurnOK
  <2> QED BY <2>1, <2>2
<1>6. ASSUME NEW d \in Calls
      PROVE  BookOK(d)' /\ \A i \in DOMAIN events'[d] : events'[d][i] \in agreed'[d] \cap seen'[d]
  BY <1>1 DEF BookingInv, BookOK
<1> QED BY <1>2, <1>4, <1>5, <1>6 DEF BookingInv

\* One that hears the lead, and leaves the history as it was or adds the lead's word.
LEMMA TurnHeard ==
    ASSUME BookingInv, NEW c \in Calls, NEW t \in Turn,
           handling' = [handling EXCEPT ![c] = t], UNCHANGED <<Elsewhere, lost, seen>>,
           UNCHANGED agreed \/ (\E start \in Start : Agrees(c, start)),
           ~BookingDone(c), TurnOK(c, t)'
    PROVE  BookingInv'
<1>1. /\ agreed' \in [Calls -> SUBSET Start]
      /\ \A d \in Calls : agreed[d] \subseteq agreed'[d]
  BY ZenonT(60) DEF BookingInv, BookingTypeOK, Agrees
<1>2. /\ seen' \in [Calls -> SUBSET Start] /\ \A d \in Calls : seen[d] \subseteq seen'[d]
      /\ lost' \in 0..MaxLost /\ lost <= lost'
  BY BookingAssumption DEF BookingInv, BookingTypeOK
<1>3. UNCHANGED Elsewhere
  BY DEF Elsewhere
<1> QED BY <1>1, <1>2, <1>3, TurnTaken

\* One that has looked into the calendar, and may have seen a free start.
LEMMA TurnLooked ==
    ASSUME BookingInv, NEW c \in Calls, NEW t \in Turn,
           handling' = [handling EXCEPT ![c] = t], UNCHANGED <<Elsewhere, lost, agreed>>,
           \/ UNCHANGED seen
           \/ \E start \in Start : seen' = [seen EXCEPT ![c] = @ \cup {start}],
           handling[c].pc \in {"pick", "check", "alternatives"}, TurnOK(c, t)'
    PROVE  BookingInv'
<1>1. /\ seen' \in [Calls -> SUBSET Start]
      /\ \A d \in Calls : seen[d] \subseteq seen'[d]
  BY ZenonT(60) DEF BookingInv, BookingTypeOK
<1>2. /\ agreed' \in [Calls -> SUBSET Start] /\ \A d \in Calls : agreed[d] \subseteq agreed'[d]
      /\ lost' \in 0..MaxLost /\ lost <= lost'
  BY BookingAssumption DEF BookingInv, BookingTypeOK
<1>3. UNCHANGED Elsewhere
  BY DEF Elsewhere
<1>4. ~BookingDone(c)
  BY DEF BookingDone
<1> QED BY <1>1, <1>2, <1>3, <1>4, TurnTaken

\* What a call that hears knows.
LEMMA Heard ==
    ASSUME BookingInv, NEW c \in Calls, NEW phase \in Phase \ TERMINAL_PHASES, Hears(c, phase)
    PROVE  /\ ~BookingDone(c)
           /\ book[c] \in BookingState /\ book[c].phase = phase
           /\ book[c].attempts \in Nat /\ book[c].attempts < _MAX_EMAIL_ATTEMPTS
<1>1. phase # "failed"
  BY DEF TERMINAL_PHASES
<1>2. handling[c].pc = "wait" /\ ~over[c] /\ book[c].phase = phase
  BY DEF Hears
<1>3. book[c] \in BookingState /\ BookOK(c)
  BY DEF BookingInv, BookingTypeOK
<1>4. ~BookingDone(c)
  BY <1>2 DEF BookingDone
<1>5. book[c].attempts \in 0..3
  BY <1>3, BookingStates
<1> QED BY <1>1, <1>2, <1>3, <1>4, <1>5 DEF BookOK

\* The intent.
LEMMA IdleStep == ASSUME BookingInv, NEW c \in Calls, HandleIdle(c) PROVE BookingInv'
<1>1. /\ Fresh(c) \in BookingState /\ Fresh(c).phase = "idle" /\ Fresh(c).attempts = 0
  BY FreshType
<1>2. {"nothing", "sorry", "email?", "time?"} \subseteq BookingAnswer
  BY DEF BookingAnswer
<1>3. PICK st \in BookingState, answer \in {"nothing", "sorry", "email?", "time?"} :
         /\ Answers(c, st, answer) /\ st.attempts = 0
         /\ st.phase \in {"idle", "asking_email", "asking_time"}
  <2>1. \A phase \in {"asking_email", "asking_time"} :
           /\ InPhase(Fresh(c), phase) \in BookingState
           /\ InPhase(Fresh(c), phase).phase = phase /\ InPhase(Fresh(c), phase).attempts = 0
    BY ZenonT(60), <1>1, BookingStates, BookingNames
  <2> QED BY <1>1, <2>1 DEF HandleIdle
<1>4. PICK t \in Turn : /\ handling' = [handling EXCEPT ![c] = t]
                        /\ t.pc = "save" /\ t.state = st /\ t.answer = answer
  BY <1>2, <1>3, AnswersTurn
<1>5. TurnOK(c, t)'
  BY <1>3, <1>4, BookingNames DEF TurnOK
<1>6. UNCHANGED Elsewhere /\ UNCHANGED <<agreed, seen>>
  BY DEF HandleIdle, Elsewhere
<1>7. /\ lost' \in 0..MaxLost /\ lost <= lost' /\ (~BookingDone(c) \/ lost' > lost)
  <2>1. CASE Hears(c, "idle") /\ UNCHANGED lost
    <3>1. "idle" \in Phase \ TERMINAL_PHASES
      BY BookingNames
    <3>2. ~BookingDone(c)
      BY <2>1, <3>1, Heard
    <3> QED BY <2>1, <3>2, BookingAssumption DEF BookingInv, BookingTypeOK
  <2>2. CASE HearsBlank(c)
    BY <2>2, BookingAssumption DEF BookingInv, BookingTypeOK, HearsBlank
  <2> QED BY <2>1, <2>2 DEF HandleIdle
<1>8. /\ agreed' \in [Calls -> SUBSET Start] /\ seen' \in [Calls -> SUBSET Start]
      /\ \A d \in Calls : agreed[d] \subseteq agreed'[d] /\ seen[d] \subseteq seen'[d]
  BY <1>6 DEF BookingInv, BookingTypeOK
<1> QED BY <1>4, <1>5, <1>6, <1>7, <1>8, TurnTaken

\* The address.
LEMMA EmailStep == ASSUME BookingInv, NEW c \in Calls, HandleAskingEmail(c) PROVE BookingInv'
<1> DEFINE st == book[c]
<1>1. /\ ~BookingDone(c) /\ st \in BookingState /\ st.phase = "asking_email"
      /\ st.attempts \in Nat /\ st.attempts < 3
  BY Heard, BookingNames DEF HandleAskingEmail, TERMINAL_PHASES
<1>2. {"sorry", "email?", "time?"} \subseteq BookingAnswer
  BY DEF BookingAnswer
<1>3. PICK s \in BookingState, answer \in {"sorry", "email?", "time?"} :
         /\ Answers(c, s, answer)
         /\ s.phase \in {"asking_email", "asking_time", "failed"}
         /\ s.attempts < 3 \/ s.phase = "failed"
  <2>1. CASE Answers(c, [InPhase(st, "asking_time") EXCEPT !.email = "good", !.attempts = 0], "time?")
    <3>1. PICK p \in BookingState : p = InPhase(st, "asking_time") /\ p.phase = "asking_time"
      BY <1>1, BookingStates, BookingNames
    <3>2. PICK s \in BookingState : /\ s = [p EXCEPT !.email = "good", !.attempts = 0]
                                    /\ s.phase = "asking_time" /\ s.attempts = 0
      BY <3>1, BookingEmail
    <3>3. Answers(c, s, "time?")
      BY <2>1, <3>1, <3>2
    <3>4. s.phase \in {"asking_email", "asking_time", "failed"} /\ s.attempts < 3
      BY <3>2
    <3>5. "time?" \in {"sorry", "email?", "time?"}
      OBVIOUS
    <3> HIDE DEF st
    <3> QED BY <3>3, <3>4, <3>5, Zenon
  <2>2. CASE LET again == [st EXCEPT !.attempts = @ + 1]
             IN  IF again.attempts >= _MAX_EMAIL_ATTEMPTS
                 THEN Answers(c, InPhase(again, "failed"), "sorry")
                 ELSE Answers(c, again, "email?")
    <3>1. PICK again \in BookingState : /\ again = [st EXCEPT !.attempts = @ + 1]
                                        /\ again.phase = "asking_email"
                                        /\ again.attempts = st.attempts + 1
      BY <1>1, BookingAgain, BookingNames
    <3>2. PICK f \in BookingState : f = InPhase(again, "failed") /\ f.phase = "failed"
      BY BookingStates, BookingNames
    <3>3. Answers(c, f, "sorry") \/ (again.attempts < 3 /\ Answers(c, again, "email?"))
      BY <1>1, <2>2, <3>1, <3>2, BookingNames
    <3>4. CASE Answers(c, f, "sorry")
      BY <3>2, <3>4
    <3>5. CASE again.attempts < 3 /\ Answers(c, again, "email?")
      BY <3>1, <3>5
    <3> QED BY <3>3, <3>4, <3>5
  <2> QED BY <2>1, <2>2 DEF HandleAskingEmail
<1>4. PICK t \in Turn : /\ handling' = [handling EXCEPT ![c] = t]
                        /\ t.pc = "save" /\ t.state = s /\ t.answer = answer
  BY <1>2, <1>3, AnswersTurn
<1>5. TurnOK(c, t)'
  BY <1>3, <1>4, BookingNames DEF TurnOK
<1>6. UNCHANGED <<Elsewhere, lost, seen>> /\ UNCHANGED agreed
  BY DEF HandleAskingEmail, Elsewhere
<1> QED BY <1>1, <1>4, <1>5, <1>6, TurnHeard

\* A turn that answers without an offer leaves nothing to be known.
LEMMA PlainAnswer ==
    ASSUME BookingInv, NEW c \in Calls, NEW st \in BookingState, NEW answer \in BookingAnswer,
           Answers(c, st, answer), answer # "booked",
           st.phase \notin {"confirming", "booked"},
           st.attempts < _MAX_EMAIL_ATTEMPTS \/ st.phase = "failed"
    PROVE  \E t \in Turn : handling' = [handling EXCEPT ![c] = t] /\ TurnOK(c, t)'
<1>1. PICK t \in Turn : /\ handling' = [handling EXCEPT ![c] = t]
                        /\ t.pc = "save" /\ t.state = st /\ t.answer = answer
  BY AnswersTurn
<1>2. TurnOK(c, t)'
  BY <1>1 DEF TurnOK
<1> QED BY <1>1, <1>2

\* A turn that goes to the calendar to look.
LEMMA PlainGoing ==
    ASSUME BookingInv, NEW c \in Calls, NEW pc \in {"pick", "check", "alternatives"},
           NEW st \in BookingState, NEW slot \in Start \cup {NoSlot}, Goes(c, pc, st, slot),
           st.attempts < _MAX_EMAIL_ATTEMPTS, pc = "check" => slot \in agreed'[c]
    PROVE  \E t \in Turn : handling' = [handling EXCEPT ![c] = t] /\ TurnOK(c, t)'
<1>1. PICK t \in Turn : /\ handling' = [handling EXCEPT ![c] = t]
                        /\ t.pc = pc /\ t.state = st /\ t.slot = slot /\ t.answer = "nothing"
  BY GoesTurn
<1>2. TurnOK(c, t)'
  BY <1>1 DEF TurnOK
<1> QED BY <1>1, <1>2

\* A turn that goes to book what was agreed and seen, or finds it cannot.
LEMMA PlainBooking ==
    ASSUME BookingInv, NEW c \in Calls, NEW st \in BookingState, NEW start \in Start,
           DoBook(c, st, start), st.attempts < _MAX_EMAIL_ATTEMPTS,
           start \in agreed'[c] \cap seen'[c]
    PROVE  \E t \in Turn : handling' = [handling EXCEPT ![c] = t] /\ TurnOK(c, t)'
<1>1. PICK t \in Turn :
         /\ handling' = [handling EXCEPT ![c] = t]
         /\ t.answer # "booked" /\ t.state.attempts = st.attempts
         /\ \/ t.pc = "book" /\ t.state = st /\ t.slot = start
            \/ t.pc = "save" /\ t.state.phase \in {"asking_time", "asking_email"}
  BY DoBookTurn
<1>2. TurnOK(c, t)'
  BY <1>1 DEF TurnOK
<1> QED BY <1>1, <1>2

\* A state sent back to ask, or given up.
LEMMA SentBack ==
    ASSUME NEW st \in BookingState, NEW phase \in {"asking_time", "failed"},
           st.attempts < _MAX_EMAIL_ATTEMPTS
    PROVE  /\ InPhase(st, phase) \in BookingState
           /\ InPhase(st, phase).phase \notin {"confirming", "booked"}
           /\ InPhase(st, phase).attempts < _MAX_EMAIL_ATTEMPTS
BY ZenonT(60), BookingStates, BookingNames

\* What the lead says about the time.
LEMMA TimeStep == ASSUME BookingInv, NEW c \in Calls, HandleAskingTime(c) PROVE BookingInv'
<1> DEFINE st == book[c]
<1>1. /\ ~BookingDone(c) /\ st \in BookingState /\ st.phase = "asking_time"
      /\ st.attempts < _MAX_EMAIL_ATTEMPTS
  BY Heard, BookingNames DEF HandleAskingTime
<1>2. {"time?", "passed"} \subseteq BookingAnswer /\ NoSlot \in Start \cup {NoSlot}
      /\ Wishes \subseteq Start
  BY BookingAssumption DEF BookingAnswer
<1>3. UNCHANGED <<Elsewhere, lost, seen>>
  BY DEF HandleAskingTime
<1>4. CASE Goes(c, "pick", st, NoSlot) /\ UNCHANGED agreed
  <2>1. PICK t \in Turn : handling' = [handling EXCEPT ![c] = t] /\ TurnOK(c, t)'
    BY <1>1, <1>2, <1>4, PlainGoing
  <2> QED BY <1>1, <1>3, <1>4, <2>1, TurnHeard
<1>5. CASE Answers(c, st, "time?") /\ UNCHANGED agreed
  <2>1. PICK t \in Turn : handling' = [handling EXCEPT ![c] = t] /\ TurnOK(c, t)'
    BY <1>1, <1>2, <1>5, PlainAnswer
  <2> QED BY <1>1, <1>3, <1>5, <2>1, TurnHeard
<1>6. ASSUME NEW wish \in Wishes, Agrees(c, wish),
             \/ Answers(c, [st EXCEPT !.parsed = wish], "passed")
             \/ Goes(c, "check", [st EXCEPT !.parsed = wish], wish)
      PROVE  BookingInv'
  <2> HIDE DEF st
  <2>1. PICK s \in BookingState : /\ s = [st EXCEPT !.parsed = wish] /\ s.phase = "asking_time"
                                  /\ s.attempts = st.attempts
    BY <1>1, <1>2, BookingParsed
  <2>2. wish \in agreed'[c]
    BY <1>6 DEF Agrees, BookingInv, BookingTypeOK
  <2>3. \E t \in Turn : handling' = [handling EXCEPT ![c] = t] /\ TurnOK(c, t)'
    <3>1. CASE Answers(c, [st EXCEPT !.parsed = wish], "passed")
      <4>1. Answers(c, s, "passed")
        BY <2>1, <3>1
      <4> QED BY <1>1, <1>2, <2>1, <4>1, PlainAnswer
    <3>2. CASE Goes(c, "check", [st EXCEPT !.parsed = wish], wish)
      <4>1. Goes(c, "check", s, wish)
        BY <2>1, <3>2
      <4> QED BY <1>1, <1>2, <2>1, <2>2, <4>1, PlainGoing
    <3> QED BY <1>6, <3>1, <3>2
  <2> QED BY <1>1, <1>2, <1>3, <1>6, <2>3, TurnHeard
<1> QED BY <1>4, <1>5, <1>6 DEF HandleAskingTime

\* What the lead says about the offer.
LEMMA ConfirmStep == ASSUME BookingInv, NEW c \in Calls, HandleConfirming(c) PROVE BookingInv'
<1> DEFINE st == book[c]
<1>1. /\ ~BookingDone(c) /\ st \in BookingState /\ st.phase = "confirming"
      /\ st.attempts < _MAX_EMAIL_ATTEMPTS
  BY Heard, BookingNames DEF HandleConfirming
<1>2. {"time?", "passed"} \subseteq BookingAnswer
  BY DEF BookingAnswer
<1>3. UNCHANGED <<Elsewhere, lost, seen>>
  BY DEF HandleConfirming
<1>4. st.parsed \in seen[c] /\ st.parsed \in Start /\ seen'[c] = seen[c]
  BY <1>1, <1>3 DEF BookingInv, BookOK, BookingTypeOK
<1>5. \E t \in Turn : handling' = [handling EXCEPT ![c] = t] /\ TurnOK(c, t)'
  <2>1. CASE \/ Answers(c, InPhase(st, "asking_time"), "passed")
             \/ Answers(c, InPhase(st, "asking_time"), "time?")
    <3> HIDE DEF st
    <3> QED BY <1>1, <1>2, <2>1, SentBack, PlainAnswer
  <2>2. CASE DoBook(c, st, st.parsed) /\ Agrees(c, st.parsed)
    <3>1. st.parsed \in agreed'[c]
      BY <1>4, <2>2 DEF Agrees, BookingInv, BookingTypeOK
    <3> HIDE DEF st
    <3> QED BY <1>1, <1>4, <2>2, <3>1, PlainBooking
  <2> QED BY <2>1, <2>2 DEF HandleConfirming
<1>6. UNCHANGED agreed \/ (\E start \in Start : Agrees(c, start))
  BY <1>4 DEF HandleConfirming
<1> HIDE DEF st
<1> QED BY <1>1, <1>3, <1>5, <1>6, TurnHeard

\* What the lead says about the alternatives.
LEMMA SuggestingStep == ASSUME BookingInv, NEW c \in Calls, HandleSuggesting(c) PROVE BookingInv'
<1> DEFINE st == book[c]
<1>1. /\ ~BookingDone(c) /\ st \in BookingState /\ st.phase = "suggesting"
      /\ st.attempts < _MAX_EMAIL_ATTEMPTS
  BY Heard, BookingNames DEF HandleSuggesting
<1>2. {"time?", "passed", "offer"} \subseteq BookingAnswer /\ Wishes \subseteq Start
  BY BookingAssumption DEF BookingAnswer
<1>3. UNCHANGED <<Elsewhere, lost, seen>>
  BY DEF HandleSuggesting
<1>4. \E t \in Turn : handling' = [handling EXCEPT ![c] = t] /\ TurnOK(c, t)'
  <2>1. CASE \/ Answers(c, InPhase(st, "asking_time"), "passed")
             \/ Answers(c, InPhase(st, "asking_time"), "time?")
             \/ Answers(c, st, "offer")
    <3> HIDE DEF st
    <3> QED BY <1>1, <1>2, <2>1, SentBack, PlainAnswer
  <2>2. ASSUME NEW wish \in Wishes, Goes(c, "check", [st EXCEPT !.parsed = wish], wish),
               Agrees(c, wish)
        PROVE  \E t \in Turn : handling' = [handling EXCEPT ![c] = t] /\ TurnOK(c, t)'
    <3> HIDE DEF st
    <3>1. PICK s \in BookingState : /\ s = [st EXCEPT !.parsed = wish]
                                    /\ s.attempts = st.attempts
      BY <1>1, <1>2, BookingParsed
    <3>2. wish \in agreed'[c]
      BY <2>2 DEF Agrees, BookingInv, BookingTypeOK
    <3>3. Goes(c, "check", s, wish)
      BY <2>2, <3>1
    <3> QED BY <1>1, <1>2, <3>1, <3>2, <3>3, PlainGoing
  <2> QED BY <2>1, <2>2 DEF HandleSuggesting
<1>5. UNCHANGED agreed \/ (\E start \in Start : Agrees(c, start))
  BY <1>2 DEF HandleSuggesting
<1> HIDE DEF st
<1> QED BY <1>1, <1>3, <1>4, <1>5, TurnHeard

\* What a turn at an await carries.
LEMMA Carried ==
    ASSUME BookingInv, NEW c \in Calls, handling[c].pc # "save"
    PROVE  /\ handling[c] \in Turn /\ handling[c].state \in BookingState
           /\ handling[c].state.attempts < _MAX_EMAIL_ATTEMPTS
BY DEF BookingInv, BookingTypeOK, TurnOK, Turn

\* The grid points offered are starts.
LEMMA FreeSlotsType == ASSUME NEW day, NEW count PROVE FreeSlots(day, count) \in SUBSET Start
BY DEF FreeSlots

\* The earliest slot of today.
LEMMA PickStep == ASSUME BookingInv, NEW c \in Calls, PickAndConfirm(c) PROVE BookingInv'
<1> DEFINE st == handling[c].state
<1>1. /\ handling[c].pc = "pick" /\ st \in BookingState /\ st.attempts < _MAX_EMAIL_ATTEMPTS
      /\ UNCHANGED <<Elsewhere, lost, agreed>>
  BY Carried DEF PickAndConfirm
<1>2. {"sorry", "full", "offer"} \subseteq BookingAnswer
  BY DEF BookingAnswer
<1>3. CASE /\ \/ Answers(c, InPhase(st, "failed"), "sorry")
              \/ Answers(c, InPhase(st, "asking_time"), "full")
           /\ UNCHANGED seen
  <2> HIDE DEF st
  <2>1. PICK t \in Turn : handling' = [handling EXCEPT ![c] = t] /\ TurnOK(c, t)'
    BY <1>1, <1>2, <1>3, SentBack, PlainAnswer
  <2> QED BY <1>1, <1>3, <2>1, TurnLooked
<1>4. ASSUME NEW best \in FreeSlots(Day(now), 1),
             Answers(c, [InPhase(st, "confirming") EXCEPT !.parsed = best], "offer"),
             seen' = [seen EXCEPT ![c] = @ \cup {best}]
      PROVE  BookingInv'
  <2> HIDE DEF st
  <2>1. best \in Start
    BY FreeSlotsType
  <2>2. PICK p \in BookingState : /\ p = InPhase(st, "confirming")
                                  /\ p.phase = "confirming" /\ p.attempts = st.attempts
    <3>1. "confirming" \in Phase
      BY BookingNames
    <3> QED BY <1>1, <3>1, BookingStates
  <2>3. PICK s \in BookingState : /\ s = [p EXCEPT !.parsed = best] /\ s.parsed = best
                                  /\ s.phase = "confirming" /\ s.attempts = st.attempts
    BY <2>1, <2>2, BookingParsed
  <2>4. Answers(c, s, "offer")
    BY <1>4, <2>2, <2>3
  <2>5. PICK t \in Turn : /\ handling' = [handling EXCEPT ![c] = t]
                          /\ t.pc = "save" /\ t.state = s /\ t.answer = "offer"
    BY <1>2, <2>4, AnswersTurn
  <2>6. best \in seen'[c]
    BY <1>4 DEF BookingInv, BookingTypeOK
  <2>7. TurnOK(c, t)'
    BY <1>1, <2>3, <2>5, <2>6 DEF TurnOK
  <2> QED BY <1>1, <1>4, <2>1, <2>5, <2>7, TurnLooked
<1> QED BY <1>3, <1>4 DEF PickAndConfirm

\* A look at the start the lead named.
LEMMA CheckStep == ASSUME BookingInv, NEW c \in Calls, CheckAvailability(c) PROVE BookingInv'
<1>1. PICK st, slot : st = handling[c].state /\ slot = handling[c].slot
  OBVIOUS
<1>2. /\ handling[c].pc = "check" /\ st \in BookingState /\ st.attempts < _MAX_EMAIL_ATTEMPTS
      /\ UNCHANGED <<Elsewhere, lost, agreed>>
  BY <1>1, Carried DEF CheckAvailability
<1>3. slot \in agreed[c] /\ slot \in Start
  BY <1>1, <1>2 DEF BookingInv, BookingTypeOK, TurnOK
<1>4. "sorry" \in BookingAnswer
  BY DEF BookingAnswer
<1>5. CASE Answers(c, InPhase(st, "failed"), "sorry") /\ UNCHANGED seen
  <2>1. PICK t \in Turn : handling' = [handling EXCEPT ![c] = t] /\ TurnOK(c, t)'
    BY <1>2, <1>4, <1>5, SentBack, PlainAnswer
  <2> QED BY <1>2, <1>5, <2>1, TurnLooked
<1>6. CASE DoBook(c, st, slot) /\ seen' = [seen EXCEPT ![c] = @ \cup {slot}]
  <2>1. slot \in agreed'[c] \cap seen'[c]
    BY <1>2, <1>3, <1>6 DEF BookingInv, BookingTypeOK
  <2>2. PICK t \in Turn : handling' = [handling EXCEPT ![c] = t] /\ TurnOK(c, t)'
    BY <1>2, <1>3, <1>6, <2>1, PlainBooking
  <2> QED BY <1>2, <1>3, <1>6, <2>2, TurnLooked
<1>7. CASE Goes(c, "alternatives", st, slot) /\ UNCHANGED seen
  <2>1. PICK t \in Turn : handling' = [handling EXCEPT ![c] = t] /\ TurnOK(c, t)'
    BY <1>2, <1>3, <1>7, PlainGoing
  <2> QED BY <1>2, <1>7, <2>1, TurnLooked
<1> QED BY <1>1, <1>5, <1>6, <1>7 DEF CheckAvailability

\* The alternatives to it.
LEMMA AlternativesStep == ASSUME BookingInv, NEW c \in Calls, SuggestAlternatives(c) PROVE BookingInv'
<1>1. PICK st, slots : st = handling[c].state /\ slots = FreeSlots(Day(handling[c].slot), 3)
  OBVIOUS
<1>2. /\ handling[c].pc = "alternatives" /\ st \in BookingState
      /\ st.attempts < _MAX_EMAIL_ATTEMPTS /\ UNCHANGED <<Elsewhere, lost, agreed, seen>>
  BY <1>1, Carried DEF SuggestAlternatives
<1>3. UNCHANGED <<Elsewhere, lost, agreed>> /\ UNCHANGED seen
  BY <1>2 DEF Elsewhere
<1>4. {"sorry", "full", "taken"} \subseteq BookingAnswer
  BY DEF BookingAnswer
<1>5. CASE \/ Answers(c, InPhase(st, "failed"), "sorry")
           \/ Answers(c, InPhase(st, "asking_time"), "full")
  <2>1. PICK t \in Turn : handling' = [handling EXCEPT ![c] = t] /\ TurnOK(c, t)'
    BY <1>2, <1>4, <1>5, SentBack, PlainAnswer
  <2> QED BY <1>2, <1>3, <2>1, TurnLooked
<1>6. CASE Answers(c, [InPhase(st, "suggesting") EXCEPT !.suggested = slots], "taken")
  <2>1. slots \in SUBSET Start
    BY <1>1, FreeSlotsType
  <2>2. PICK p \in BookingState : /\ p = InPhase(st, "suggesting")
                                  /\ p.phase = "suggesting" /\ p.attempts = st.attempts
    <3>1. "suggesting" \in Phase
      BY BookingNames
    <3> QED BY <1>2, <3>1, BookingStates
  <2>3. PICK s : s = [p EXCEPT !.suggested = slots]
    OBVIOUS
  <2>4. s \in BookingState /\ s.phase = "suggesting" /\ s.attempts = st.attempts
    BY <2>1, <2>2, <2>3, BookingSuggested
  <2>5. Answers(c, s, "taken")
    BY <1>6, <2>2, <2>3
  <2>6. PICK t \in Turn : handling' = [handling EXCEPT ![c] = t] /\ TurnOK(c, t)'
    BY <1>2, <1>4, <2>4, <2>5, PlainAnswer
  <2> QED BY <1>2, <1>3, <2>6, TurnLooked
<1> QED BY <1>1, <1>5, <1>6 DEF SuggestAlternatives

\* The request puts an event of its slot into the calendar, or none.
LEMMA Inserted ==
    ASSUME BookingInv, NEW c \in Calls, NEW made \in BOOLEAN, Inserts(c, made),
           handling[c].pc \in {"book", "cut"}
    PROVE  /\ events' \in [Calls -> Seq(Start)]
           /\ \A d \in Calls \ {c} : events'[d] = events[d]
           /\ Len(events[c]) \in Nat /\ Len(events'[c]) \in Nat
           /\ Len(events'[c]) <= Len(events[c]) + 1
           /\ events[c] # <<>> \/ made => events'[c] # <<>>
           /\ \A i \in DOMAIN events'[c] : events'[c][i] \in agreed[c] \cap seen[c]
<1>1. PICK slot : slot = handling[c].slot
  OBVIOUS
<1>2. slot \in agreed[c] \cap seen[c] /\ slot \in Start
  BY <1>1 DEF BookingInv, BookingTypeOK, TurnOK
<1>3. PICK s \in Seq(Start) : s = events[c]
  BY DEF BookingInv, BookingTypeOK
<1>4. \A i \in DOMAIN s : s[i] \in agreed[c] \cap seen[c]
  BY <1>3 DEF BookingInv
<1>5. /\ Append(s, slot) \in Seq(Start) /\ Append(s, slot) # <<>>
      /\ Len(Append(s, slot)) = Len(s) + 1 /\ Len(s) \in Nat
      /\ \A i \in 1..Len(s) : Append(s, slot)[i] = s[i]
      /\ Append(s, slot)[Len(s) + 1] = slot
  BY <1>2, AppendProperties, LenProperties
<1>6. \A i \in DOMAIN Append(s, slot) : Append(s, slot)[i] \in agreed[c] \cap seen[c]
  <2>1. DOMAIN Append(s, slot) = 1..(Len(s) + 1) /\ DOMAIN s = 1..Len(s)
    BY <1>5, LenProperties
  <2> QED BY <1>2, <1>4, <1>5, <2>1
<1>7. CASE made
  <2>1. events' = [events EXCEPT ![c] = Append(s, slot)]
    BY <1>1, <1>3, <1>7 DEF Inserts
  <2> QED BY <1>3, <1>5, <1>6, <2>1 DEF BookingInv, BookingTypeOK
<1>8. CASE ~made
  <2>1. events' = events
    BY <1>8 DEF Inserts
  <2> QED BY <1>3, <1>4, <1>5, <1>8, <2>1 DEF BookingInv, BookingTypeOK
<1> QED BY <1>7, <1>8

\* A request under way, answered or cut.
LEMMA RequestEnds ==
    ASSUME BookingInv, NEW c \in Calls, NEW made \in BOOLEAN, Inserts(c, made),
           handling[c].pc \in {"book", "cut"},
           NEW t \in Turn, handling' = [handling EXCEPT ![c] = t],
           UNCHANGED <<now, diary, book, meeting, over, lost, agreed, seen>>,
           TurnOK(c, t)',
           \/ t.pc = "save" /\ t.state.phase \in TERMINAL_PHASES
           \/ t.pc = "wait" /\ over[c]
    PROVE  BookingInv'
<1>1. /\ handling' \in [Calls -> Turn] /\ handling'[c] = t
      /\ \A d \in Calls \ {c} : handling'[d] = handling[d]
  BY DEF BookingInv, BookingTypeOK
<1>2. BookingTypeOK'
  BY <1>1, Inserted DEF BookingInv, BookingTypeOK
<1>3. ~BookingDone(c) /\ lost \in Nat
  BY BookingAssumption DEF BookingDone, BookingInv, BookingTypeOK
<1>4. ASSUME NEW d \in Calls PROVE EventsBounded(d)'
  <2>1. CASE d = c
    <3>1. Len(events[c]) <= lost
      BY <1>3 DEF BookingInv, EventsBounded
    <3>2. Len(events'[c]) <= 1 + lost
      BY <1>3, <3>1, Inserted
    <3>3. BookingDone(c)'
      BY <1>1 DEF BookingDone
    <3> QED BY <1>3, <2>1, <3>2, <3>3 DEF EventsBounded
  <2>2. CASE d # c
    <3>1. BookingDone(d)' <=> BookingDone(d)
      BY <1>1, <2>2 DEF BookingDone
    <3> QED BY <2>2, <3>1, Inserted DEF BookingInv, EventsBounded
  <2> QED BY <2>1, <2>2
<1>5. ASSUME NEW d \in Calls PROVE TurnOK(d, handling[d])'
  <2>1. CASE d = c
    <3>1. TurnOK(d, handling[d])' <=> TurnOK(c, t)'
      BY <1>1, <2>1 DEF TurnOK
    <3> QED BY <3>1
  <2>2. CASE d # c
    BY <1>1, <2>2, Inserted DEF BookingInv, TurnOK
  <2> QED BY <2>1, <2>2
<1>6. ASSUME NEW d \in Calls PROVE BookOK(d)'
  <2>1. events[d] # <<>> => events'[d] # <<>>
    BY Inserted
  <2> QED BY <2>1 DEF BookingInv, BookOK
<1>7. ASSUME NEW d \in Calls
      PROVE  \A i \in DOMAIN events'[d] : events'[d][i] \in agreed'[d] \cap seen'[d]
  BY Inserted DEF BookingInv
<1> QED BY <1>2, <1>4, <1>5, <1>6, <1>7 DEF BookingInv

\* The request is answered.
LEMMA BookStep == ASSUME BookingInv, NEW c \in Calls, BookMeeting(c) PROVE BookingInv'
<1>1. PICK st : st = handling[c].state
  OBVIOUS
<1>2. /\ handling[c].pc = "book" /\ st \in BookingState /\ st.attempts < _MAX_EMAIL_ATTEMPTS
      /\ UNCHANGED <<now, diary, book, meeting, over, lost, agreed, seen>>
  BY <1>1, Carried DEF BookMeeting
<1>3. PICK made \in BOOLEAN, ok \in BOOLEAN :
         /\ ok => made
         /\ Inserts(c, made)
         /\ IF ok THEN Answers(c, InPhase(st, "booked"), "booked")
                  ELSE Answers(c, InPhase(st, "failed"), "sorry")
  BY <1>1 DEF BookMeeting
<1>4. PICK phase, answer :
         /\ phase = (IF ok THEN "booked" ELSE "failed")
         /\ answer = (IF ok THEN "booked" ELSE "sorry")
  OBVIOUS
<1>5. phase \in Phase /\ phase \in TERMINAL_PHASES /\ answer \in BookingAnswer
  BY <1>4, BookingNames DEF BookingAnswer
<1>6. PICK s \in BookingState : s = InPhase(st, phase) /\ s.phase = phase /\ s.attempts = st.attempts
  BY <1>2, <1>5, BookingStates
<1>7. Answers(c, s, answer)
  BY <1>3, <1>4, <1>6
<1>8. PICK t \in Turn : /\ handling' = [handling EXCEPT ![c] = t]
                        /\ t.pc = "save" /\ t.state = s /\ t.answer = answer
  BY <1>5, <1>7, AnswersTurn
<1>9. made => events'[c] # <<>>
  BY <1>2, <1>3, Inserted
<1>10. TurnOK(c, t)'
  BY <1>2, <1>3, <1>4, <1>6, <1>8, <1>9 DEF TurnOK
<1> QED BY <1>2, <1>3, <1>5, <1>6, <1>8, <1>10, RequestEnds

\* The request ends after the call has.
LEMMA ThreadStep == ASSUME BookingInv, NEW c \in Calls, ThreadEnds(c) PROVE BookingInv'
<1>1. PICK t \in Turn : t = Waiting(c) /\ t.pc = "wait" /\ t.answer = "nothing" /\ t.state.attempts = 0
  BY WaitingType
<1>2. /\ handling[c].pc = "cut" /\ handling' = [handling EXCEPT ![c] = t]
      /\ UNCHANGED <<now, diary, book, meeting, over, lost, agreed, seen>>
  BY <1>1 DEF ThreadEnds
<1>3. PICK made \in BOOLEAN : Inserts(c, made)
  BY DEF ThreadEnds
<1>4. over[c]
  BY <1>2 DEF BookingInv, TurnOK
<1>5. TurnOK(c, t)'
  BY <1>1, BookingNames DEF TurnOK
<1> QED BY <1>1, <1>2, <1>3, <1>4, <1>5, RequestEnds

\* What the steps that write no event leave as it was.
LEMMA NoEvent ==
    ASSUME BookingInv, NEW c \in Calls, UNCHANGED <<events, agreed, seen>>, BookingTypeOK',
           lost <= lost',
           \A d \in Calls \ {c} : /\ handling'[d] = handling[d] /\ book'[d] = book[d]
                                  /\ meeting'[d] = meeting[d] /\ over'[d] = over[d],
           EventsBounded(c)', TurnOK(c, handling[c])', BookOK(c)'
    PROVE  BookingInv'
<1>1. lost \in Nat /\ lost' \in Nat /\ \A d \in Calls : Len(events[d]) \in Nat
  BY BookingAssumption, LenProperties DEF BookingInv, BookingTypeOK
<1>2. ASSUME NEW d \in Calls \ {c}
      PROVE  EventsBounded(d)' /\ TurnOK(d, handling[d])' /\ BookOK(d)'
  <2>1. EventsBounded(d) /\ TurnOK(d, handling[d]) /\ BookOK(d)
    BY DEF BookingInv
  <2>2. BookingDone(d)' <=> BookingDone(d)
    BY DEF BookingDone
  <2> QED BY <1>1, <2>1, <2>2 DEF EventsBounded, TurnOK, BookOK
<1> QED BY <1>2 DEF BookingInv

\* The state goes to Redis, or does not.
LEMMA SaveBookingStep == ASSUME BookingInv, NEW c \in Calls, Save(c) PROVE BookingInv'
<1>1. PICK w \in Turn : w = Waiting(c) /\ w.pc = "wait" /\ w.answer = "nothing" /\ w.state.attempts = 0
  BY WaitingType
<1>2. PICK t \in Turn : t = handling[c]
  BY DEF BookingInv, BookingTypeOK
<1>3. /\ t.pc = "save" /\ TurnOK(c, t) /\ t.state \in BookingState
  BY <1>2 DEF Save, BookingInv, Turn
<1>4. /\ handling' = [handling EXCEPT ![c] = w]
      /\ meeting' = [meeting EXCEPT ![c] = @ \/ t.answer = "booked"]
      /\ UNCHANGED <<now, diary, events, over, agreed, seen>>
      /\ \/ book' = [book EXCEPT ![c] = t.state] /\ lost' = lost
         \/ lost < MaxLost /\ lost' = lost + 1 /\ book' = book
  BY <1>1, <1>2 DEF Save
<1>5. BookingTypeOK' /\ lost <= lost'
  <2>1. BookingTypeOK
    BY DEF BookingInv
  <2>2. lost' \in 0..MaxLost /\ lost <= lost'
    BY <1>4, <2>1, BookingAssumption DEF BookingTypeOK
  <2>3. book' \in [Calls -> BookingState]
    BY <1>3, <1>4, <2>1 DEF BookingTypeOK
  <2>4. handling' \in [Calls -> Turn]
    BY <1>4, <2>1 DEF BookingTypeOK
  <2>5. meeting' \in [Calls -> BOOLEAN]
    BY <1>4, <2>1 DEF BookingTypeOK
  <2> QED
    BY <1>4, <2>1, <2>2, <2>3, <2>4, <2>5 DEF BookingTypeOK
<1>6. \A d \in Calls \ {c} : /\ handling'[d] = handling[d] /\ book'[d] = book[d]
                             /\ meeting'[d] = meeting[d] /\ over'[d] = over[d]
  BY <1>4 DEF BookingInv, BookingTypeOK
<1>7. handling'[c] = w /\ meeting'[c] = (meeting[c] \/ t.answer = "booked")
  BY <1>4 DEF BookingInv, BookingTypeOK
<1>8. TurnOK(c, handling[c])'
  BY <1>1, <1>7, BookingNames DEF TurnOK
<1>9. BookOK(c)'
  <2>1. CASE book'[c] = t.state
    BY <1>3, <1>4, <1>7, <2>1 DEF BookOK, TurnOK, BookingInv
  <2>2. CASE book'[c] = book[c]
    BY <1>3, <1>4, <1>7, <2>2 DEF BookOK, TurnOK, BookingInv
  <2> QED BY <1>4, <2>1, <2>2 DEF BookingInv, BookingTypeOK
<1>10. EventsBounded(c)'
  <2>1. lost \in Nat /\ Len(events[c]) \in Nat /\ EventsBounded(c)
    BY BookingAssumption, LenProperties DEF BookingInv, BookingTypeOK
  <2>2. CASE lost' = lost + 1
    BY <1>4, <2>1, <2>2 DEF EventsBounded
  <2>3. CASE book'[c] = t.state /\ lost' = lost
    <3>1. BookingDone(c) => BookingDone(c)'
      BY <1>1, <1>2, <1>3, <1>7, <2>3 DEF BookingDone
    <3> QED BY <1>4, <2>1, <2>3, <3>1 DEF EventsBounded
  <2> QED BY <1>4, <2>2, <2>3 DEF BookingInv, BookingTypeOK
<1> QED BY <1>4, <1>5, <1>6, <1>8, <1>9, <1>10, NoEvent

\* The call ends.
LEMMA HangUpBookingStep == ASSUME BookingInv, NEW c \in Calls, HangUp(c) PROVE BookingInv'
<1>1. PICK w \in Turn : w = Waiting(c) /\ w.pc = "wait" /\ w.answer = "nothing" /\ w.state.attempts = 0
  BY WaitingType
<1>2. PICK old \in Turn : old = handling[c]
  BY DEF BookingInv, BookingTypeOK
<1>3. PICK pc, t : /\ pc = (IF old.pc = "book" THEN "cut" ELSE "wait")
                   /\ t = [w EXCEPT !.pc = pc, !.slot = old.slot]
  OBVIOUS
<1>4. old.slot \in Start \cup {NoSlot} /\ pc \in {"cut", "wait"}
  BY <1>3 DEF Turn
<1>5. /\ t \in Turn /\ t.pc = pc /\ t.slot = old.slot /\ t.answer = "nothing"
      /\ t.state.attempts = 0
  BY <1>1, <1>3, <1>4 DEF Turn
<1>6. /\ handling' = [handling EXCEPT ![c] = t] /\ over' = [over EXCEPT ![c] = TRUE]
      /\ UNCHANGED <<now, diary, events, book, meeting, lost, agreed, seen>> /\ ~over[c]
  BY <1>1, <1>2, <1>3 DEF HangUp
<1>7. BookingTypeOK' /\ lost <= lost'
  BY <1>5, <1>6, BookingAssumption DEF BookingInv, BookingTypeOK
<1>8. \A d \in Calls \ {c} : /\ handling'[d] = handling[d] /\ book'[d] = book[d]
                             /\ meeting'[d] = meeting[d] /\ over'[d] = over[d]
  BY <1>6 DEF BookingInv, BookingTypeOK
<1>9. handling'[c] = t /\ over'[c] = TRUE
  BY <1>6 DEF BookingInv, BookingTypeOK
<1>10. TurnOK(c, handling[c])'
  <2>1. pc = "cut" => old.slot \in agreed[c] \cap seen[c]
    BY <1>2, <1>3 DEF BookingInv, TurnOK
  <2> QED BY <1>4, <1>5, <1>6, <1>9, <2>1, BookingNames DEF TurnOK
<1>11. BookOK(c)'
  BY <1>6 DEF BookingInv, BookOK
<1>12. EventsBounded(c)'
  <2>1. BookingDone(c) => BookingDone(c)'
    <3>1. BookingDone(c) => old.pc \in {"wait", "save"}
      BY <1>2 DEF BookingDone
    <3> QED BY <1>3, <1>5, <1>9, <3>1 DEF BookingDone
  <2> QED BY <1>6, <2>1 DEF BookingInv, EventsBounded
<1> QED BY <1>6, <1>7, <1>8, <1>10, <1>11, <1>12, NoEvent

\* A turn in a terminal phase.
LEMMA AfterwardsStep == ASSUME BookingInv, NEW c \in Calls, HearAfterwards(c) PROVE BookingInv'
<1>1. /\ meeting' = [meeting EXCEPT ![c] = @ \/ book[c].phase = "booked"]
      /\ UNCHANGED <<now, diary, events, book, handling, over, lost, agreed, seen>>
  BY DEF HearAfterwards
<1>2. BookingTypeOK' /\ lost <= lost'
  BY <1>1, BookingAssumption DEF BookingInv, BookingTypeOK
<1>3. /\ \A d \in Calls \ {c} : meeting'[d] = meeting[d]
      /\ meeting'[c] = (meeting[c] \/ book[c].phase = "booked")
  BY <1>1 DEF BookingInv, BookingTypeOK
<1>4. BookOK(c)' /\ TurnOK(c, handling[c])'
  BY <1>1, <1>3 DEF BookingInv, BookOK, TurnOK
<1>5. EventsBounded(c)'
  BY <1>1 DEF BookingInv, EventsBounded, BookingDone
<1> QED BY <1>1, <1>2, <1>3, <1>4, <1>5, NoEvent

\* The clock.
LEMMA TickBookingStep == ASSUME BookingInv, Tick PROVE BookingInv'
<1>1. now' \in 0..MaxNow
  BY BookingAssumption DEF Tick, BookingInv, BookingTypeOK
<1> QED BY <1>1 DEF Tick, BookingInv, BookingTypeOK, EventsBounded, BookingDone, TurnOK, BookOK

\* The beginning.
LEMMA BookingInvInit == BookingInit => BookingInv
<1> SUFFICES ASSUME BookingInit PROVE BookingInv
  OBVIOUS
<1>1. BookingTypeOK
  BY BookingAssumption, FreshType, WaitingType DEF BookingInit, BookingTypeOK
<1>2. ASSUME NEW c \in Calls
      PROVE  /\ EventsBounded(c) /\ TurnOK(c, handling[c]) /\ BookOK(c)
             /\ events[c] = <<>>
  BY FreshType, WaitingType, BookingNames
     DEF BookingInit, EventsBounded, TurnOK, BookOK
<1> QED BY <1>1, <1>2 DEF BookingInv

\* The invariant holds throughout.
LEMMA BookingCorrect == BookingSpec => []BookingInv
<1>1. BookingInv /\ BookingNext => BookingInv'
  <2> SUFFICES ASSUME BookingInv, BookingNext PROVE BookingInv'
    OBVIOUS
  <2>1. ASSUME NEW c \in Calls, Hear(c) PROVE BookingInv'
    BY <2>1, IdleStep, EmailStep, TimeStep, ConfirmStep, SuggestingStep, AfterwardsStep DEF Hear
  <2>2. ASSUME NEW c \in Calls, TurnStep(c) PROVE BookingInv'
    BY <2>2, PickStep, CheckStep, AlternativesStep, BookStep, SaveBookingStep, ThreadStep
       DEF TurnStep
  <2> QED BY <2>1, <2>2, HangUpBookingStep, TickBookingStep DEF BookingNext
<1>2. BookingInv /\ UNCHANGED bookingVars => BookingInv'
  BY DEF bookingVars, BookingInv, BookingTypeOK, EventsBounded, BookingDone, TurnOK, BookOK
<1> QED BY <1>1, <1>2, BookingInvInit, PTL DEF BookingSpec

\* What a call promised, what it was told and what stands in the calendar agree:
\* for any number of calls, any calendar and any number of failures of Redis.
THEOREM BookingAgreesCorrect == BookingSpec => []BookingAgrees
<1>1. BookingInv => BookingAgrees
  BY DEF BookingInv, BookingAgrees, OneEventPerCall, EventsAreAgreed, BookedIsTrue,
         EventsBounded, TurnOK, BookOK
<1> QED BY <1>1, BookingCorrect, PTL

\* Every value is of its type; nobody is asked for an address more than three times.
THEOREM BookingTypeCorrect == BookingSpec => []BookingTypeOK
<1>1. BookingInv => BookingTypeOK
  BY DEF BookingInv
<1> QED BY <1>1, BookingCorrect, PTL

-----------------------------------------------------------------------------
(* The calendar, for any accounts, users, flows and uses. *)

\* What a use has loaded.
LoadedRow == [id : 1..MaxRows, refresh : Accounts, old : BOOLEAN] \cup {[id |-> 0]}

Shape ==
    /\ inserted \in 0..MaxRows
    /\ link \in Link \cup {[id |-> 0]} /\ link.id <= inserted
    /\ uses \in [Uses -> LoadedRow]
    /\ \A u \in Uses : uses[u].id <= inserted
    /\ overtaken \in BOOLEAN

\* A use that no connection has overtaken has the refresh token of the row it is
\* about to write.
UsesAreCurrent ==
    \A u \in Uses :
        uses[u].id # 0 /\ uses[u].id = link.id /\ ~uses[u].old => uses[u].refresh = link.refresh

LinkInv == Shape /\ UsesAreCurrent /\ LinkIsOneAccount

\* A flow under way that nothing has disturbed has its verifier waiting in Redis.
VerifierWaits ==
    \A f \in Flows : flows[f] = "begun" /\ f \notin disturbed => verifiers[UserOf[f]] = f

FlowInv ==
    /\ flows \in [Flows -> {"new", "begun", "connected", "failed", "refused", "invalid_state"}]
    /\ verifiers \in [Users -> Flows \cup {NoFlow}]
    /\ disturbed \subseteq Flows
    /\ VerifierWaits /\ LoneFlowConnects

-----------------------------------------------------------------------------
(* The row. *)

\* Connecting an account, first or anew, leaves one account in the row.
LEMMA ConnectStep ==
    ASSUME LinkInv, NEW account \in Accounts, Connect(account)
    PROVE  LinkInv'
<1> USE CalendarAssumption
<1>0. inserted \in Nat /\ MaxRows \in Nat  BY DEF LinkInv, Shape
<1>1. PICK email \in {account, "none"}, primary \in {account, "none"} :
        LET calendar == IF primary # "none" THEN primary
                        ELSE IF email # "none" THEN email ELSE "primary"
        IN /\ link' = Upserted(link, account, email, calendar)
           /\ unread' = (IF email = "none" THEN {"email"} ELSE {})
                        \cup (IF calendar = "primary" THEN {"calendar"} ELSE {})
  BY DEF Connect
<1> DEFINE calendar == IF primary # "none" THEN primary
                       ELSE IF email # "none" THEN email ELSE "primary"
<1>2. /\ link' = Upserted(link, account, email, calendar)
      /\ unread' = (IF email = "none" THEN {"email"} ELSE {})
                   \cup (IF calendar = "primary" THEN {"calendar"} ELSE {})
  BY <1>1
<1>3. calendar \in {account, "primary"} /\ email \in {account, "none"}  OBVIOUS
<1>4. /\ link'.id = (IF link.id = 0 THEN inserted + 1 ELSE link.id)
      /\ link'.access = account /\ link'.refresh = account
      /\ link'.email = (IF email # "none" \/ link.id = 0 THEN email ELSE link.email)
      /\ link'.calendar = (IF calendar # "primary" \/ link.id = 0 THEN calendar
                           ELSE link.calendar)
  BY <1>2 DEF Upserted
<1>5. link'.id # 0 /\ link'.id <= inserted' /\ inserted' \in 0..MaxRows /\ link'.id \in 1..MaxRows
  BY <1>0, <1>4 DEF Connect, Connected, LinkInv, Shape, Link
<1>6. link' \in Link
  <2>1. link.id # 0 => link.email \in Accounts \cup {"none"}
                       /\ link.calendar \in Accounts \cup {"primary"}
    BY DEF LinkInv, Shape, Link
  <2>2. /\ link'.email \in Accounts \cup {"none"}
        /\ link'.calendar \in Accounts \cup {"primary"}
    BY <1>3, <1>4, <2>1
  <2>3. link' = [id |-> link'.id, access |-> link'.access, refresh |-> link'.refresh,
                 fresh |-> TRUE, email |-> link'.email, calendar |-> link'.calendar]
    BY <1>2 DEF Upserted
  <2>4. \A i \in 1..MaxRows, e \in Accounts \cup {"none"}, c \in Accounts \cup {"primary"} :
          [id |-> i, access |-> account, refresh |-> account, fresh |-> TRUE,
           email |-> e, calendar |-> c] \in Link
    BY DEF Link
  <2> QED  BY <1>4, <1>5, <2>2, <2>3, <2>4
<1>7. /\ uses' \in [Uses -> LoadedRow]
      /\ \A u \in Uses : uses'[u].id = uses[u].id
      /\ \A u \in Uses : uses[u].id # 0 => uses'[u].old
  <2>1. uses' = [u \in Uses |-> IF uses[u].id = 0 THEN uses[u]
                                ELSE [uses[u] EXCEPT !.old = TRUE]]
    BY DEF Connect
  <2>2. ASSUME NEW u \in Uses
        PROVE  /\ uses'[u] \in LoadedRow /\ uses'[u].id = uses[u].id
               /\ uses[u].id # 0 => uses'[u].old
    <3>1. uses[u] \in LoadedRow  BY DEF LinkInv, Shape
    <3>2. CASE uses[u].id = 0  BY <2>1, <3>1, <3>2
    <3>3. CASE uses[u].id # 0
      <4>1. uses[u] \in [id : 1..MaxRows, refresh : Accounts, old : BOOLEAN]
        BY <3>1, <3>3 DEF LoadedRow
      <4>2. uses'[u] = [uses[u] EXCEPT !.old = TRUE]  BY <2>1, <3>3
      <4> QED  BY <4>1, <4>2 DEF LoadedRow
    <3> QED  BY <3>2, <3>3
  <2> QED  BY <2>1, <2>2
<1>8. Shape'
  <2>1. inserted <= inserted'  BY <1>0 DEF Connect
  <2>2. \A u \in Uses : uses'[u].id <= inserted'
    <3> TAKE u \in Uses
    <3>1. uses[u].id \in Nat /\ uses[u].id <= inserted
      BY DEF LinkInv, Shape, LoadedRow
    <3> QED  BY <1>0, <1>5, <1>7, <2>1, <3>1
  <2> QED  BY <1>5, <1>6, <1>7, <2>2 DEF Shape, Connect
<1>9. UsesAreCurrent'
  BY <1>7 DEF UsesAreCurrent
<1>10. LinkIsOneAccount'
  <2>1. link'.calendar = calendar \/ calendar = "primary"  BY <1>4
  <2>2. link'.email = email \/ email = "none"  BY <1>4
  <2> QED  BY <1>2, <1>3, <1>4, <2>1, <2>2 DEF LinkIsOneAccount
<1> QED  BY <1>8, <1>9, <1>10 DEF LinkInv

\* So does writing back a token that was refreshed meanwhile.
LEMMA BuildCredentialsStep ==
    ASSUME LinkInv, NEW u \in Uses, BuildCredentials(u)
    PROVE  LinkInv'
<1> USE CalendarAssumption
<1>1. uses[u] \in [id : 1..MaxRows, refresh : Accounts, old : BOOLEAN]
  BY DEF LinkInv, Shape, LoadedRow, BuildCredentials
<1>2. /\ uses' \in [Uses -> LoadedRow]
      /\ \A v \in Uses : uses'[v] = IF v = u THEN [id |-> 0] ELSE uses[v]
  BY DEF LinkInv, Shape, LoadedRow, BuildCredentials
<1>3. inserted' = inserted /\ unread' = unread /\ inserted \in Nat
  BY DEF BuildCredentials, LinkInv, Shape
<1>4. \A v \in Uses : uses'[v].id <= inserted'
  BY <1>2, <1>3 DEF LinkInv, Shape
<1>5. CASE uses[u].id = link.id /\ link' = Persisted(link, uses[u].refresh)
           /\ overtaken' = uses[u].old
  <2>1. link \in Link  BY <1>1, <1>5 DEF LinkInv, Shape
  <2>2. /\ link' \in Link /\ link'.id = link.id /\ link'.refresh = link.refresh
        /\ link'.email = link.email /\ link'.calendar = link.calendar
        /\ link'.access = uses[u].refresh
    BY <1>1, <1>5, <2>1 DEF Persisted, Link
  <2>3. Shape'  BY <1>1, <1>2, <1>3, <1>4, <1>5, <2>2 DEF Shape, LinkInv
  <2>4. UsesAreCurrent'  BY <1>2, <2>2 DEF UsesAreCurrent, LinkInv
  <2>5. LinkIsOneAccount'
    BY <1>1, <1>3, <1>5, <2>1, <2>2 DEF LinkIsOneAccount, Connected, UsesAreCurrent, LinkInv, Link
  <2> QED  BY <2>3, <2>4, <2>5 DEF LinkInv
<1>6. CASE UNCHANGED <<link, overtaken>>
  <2>1. Shape'  BY <1>2, <1>3, <1>4, <1>6 DEF Shape, LinkInv
  <2>2. UsesAreCurrent'  BY <1>2, <1>6 DEF UsesAreCurrent, LinkInv
  <2>3. LinkIsOneAccount'  BY <1>3, <1>6 DEF LinkIsOneAccount, Connected, LinkInv
  <2> QED  BY <2>1, <2>2, <2>3 DEF LinkInv
<1> QED  BY <1>5, <1>6 DEF BuildCredentials

\* And every other step.
LEMMA LinkStep ==
    ASSUME LinkInv, [CalendarNext]_calendarVars
    PROVE  LinkInv'
<1> USE CalendarAssumption
<1>1. CASE UNCHANGED <<link, inserted, uses, overtaken, unread>>
  BY <1>1 DEF LinkInv, Shape, UsesAreCurrent, LinkIsOneAccount, Connected
<1>2. ASSUME NEW f \in Flows, StartGoogleOauth(f) \/ VerifierExpires(f)
      PROVE  LinkInv'
  BY <1>1, <1>2 DEF StartGoogleOauth, VerifierExpires
<1>3. ASSUME NEW f \in Flows, NEW g \in Accounts, GoogleOauthCallback(f, g)
      PROVE  LinkInv'
  BY <1>1, <1>3, ConnectStep DEF GoogleOauthCallback
<1>4. CASE DisconnectCalendar
  <2>1. /\ link' = [id |-> 0] /\ overtaken' = FALSE
        /\ inserted' = inserted /\ uses' = uses
    BY <1>4 DEF DisconnectCalendar
  <2>2. Shape'
    <3>1. link' \in Link \cup {[id |-> 0]}  BY <2>1, Zenon
    <3>2. link'.id = 0  BY <2>1
    <3>3. overtaken' \in BOOLEAN /\ inserted' = inserted /\ uses' = uses  BY <2>1
    <3>4. link'.id <= inserted'  BY <3>2, <3>3 DEF Shape, LinkInv
    <3> QED  BY <3>1, <3>3, <3>4 DEF Shape, LinkInv
  <2>3. UsesAreCurrent' /\ LinkIsOneAccount'
    BY <2>1 DEF UsesAreCurrent, LinkIsOneAccount, Connected
  <2> QED  BY <2>2, <2>3 DEF LinkInv
<1>5. CASE AccessExpires
  <2>1. link \in Link  BY <1>5 DEF AccessExpires, Connected, LinkInv, Shape
  <2>2. /\ link' \in Link /\ link'.id = link.id /\ link'.refresh = link.refresh
        /\ link'.email = link.email /\ link'.calendar = link.calendar
        /\ link'.access = link.access
        /\ UNCHANGED <<inserted, uses, overtaken, unread>>
    BY <1>5, <2>1 DEF AccessExpires, Link
  <2>3. Shape'  BY <2>2 DEF Shape, LinkInv
  <2>4. UsesAreCurrent' /\ LinkIsOneAccount'
    BY <2>2 DEF UsesAreCurrent, LinkIsOneAccount, Connected, LinkInv
  <2> QED  BY <2>3, <2>4 DEF LinkInv
<1>6. ASSUME NEW u \in Uses, GetIntegration(u)
      PROVE  LinkInv'
  <2>1. link \in Link  BY <1>6 DEF GetIntegration, Connected, LinkInv, Shape
  <2>2. \A v \in Uses : uses'[v] = IF v = u THEN [id |-> link.id, refresh |-> link.refresh,
                                                  old |-> FALSE] ELSE uses[v]
    BY <1>6 DEF GetIntegration, LinkInv, Shape
  <2>3. UNCHANGED <<link, inserted, overtaken, unread>>  BY <1>6 DEF GetIntegration
  <2>4. uses' \in [Uses -> LoadedRow]
    <3>1. [id |-> link.id, refresh |-> link.refresh, old |-> FALSE] \in LoadedRow
      BY <2>1 DEF Link, LoadedRow
    <3> QED  BY <1>6, <3>1 DEF GetIntegration, LinkInv, Shape
  <2>5. Shape'
    <3>1. \A v \in Uses : uses'[v].id <= inserted'
      <4> TAKE v \in Uses
      <4>1. CASE v = u
        <5>1. uses'[v].id = link.id  BY <2>2, <4>1
        <5> QED  BY <2>3, <5>1 DEF Shape, LinkInv
      <4>2. CASE v # u  BY <2>2, <2>3, <4>2 DEF Shape, LinkInv
      <4> QED  BY <4>1, <4>2
    <3> QED  BY <2>3, <2>4, <3>1 DEF Shape, LinkInv
  <2>6. UsesAreCurrent' /\ LinkIsOneAccount'
    BY <2>2, <2>3 DEF UsesAreCurrent, LinkIsOneAccount, Connected, LinkInv
  <2> QED  BY <2>5, <2>6 DEF LinkInv
<1>7. CASE CalendarNext
  BY <1>2, <1>3, <1>4, <1>5, <1>6, <1>7, BuildCredentialsStep DEF CalendarNext
<1> QED  BY <1>1, <1>7 DEF calendarVars

\* Whichever accounts are connected, disconnected and used, in any number and
\* order, the row of an organization is of one account (LinkIsOneAccount).
THEOREM LinkIsOneAccountCorrect == CalendarSpec => []LinkIsOneAccount
<1>1. CalendarInit => LinkInv
  <2> SUFFICES ASSUME CalendarInit PROVE LinkInv  OBVIOUS
  <2>1. /\ link = [id |-> 0] /\ inserted = 0 /\ overtaken = FALSE
        /\ uses \in [Uses -> {[id |-> 0]}]
    BY DEF CalendarInit
  <2>2. \A u \in Uses : uses[u].id = 0  BY <2>1
  <2>3. uses \in [Uses -> LoadedRow]  BY <2>1 DEF LoadedRow
  <2>4. link.id = 0 /\ link.id <= inserted /\ \A u \in Uses : uses[u].id <= inserted
    BY <2>1, <2>2
  <2>5. link \in Link \cup {[id |-> 0]}  BY <2>1, Zenon
  <2>6. inserted \in 0..MaxRows  BY <2>1, CalendarAssumption
  <2>7. Shape  BY <2>1, <2>3, <2>4, <2>5, <2>6 DEF Shape
  <2> QED
    BY <2>2, <2>4, <2>7 DEF LinkInv, UsesAreCurrent, LinkIsOneAccount, Connected
<1>2. LinkInv => LinkIsOneAccount  BY DEF LinkInv
<1> QED  BY <1>1, <1>2, LinkStep, PTL DEF CalendarSpec

-----------------------------------------------------------------------------
(* The flows. *)

\* The verifier of an undisturbed flow stays where it is until the flow ends.
LEMMA FlowStep ==
    ASSUME FlowInv, [CalendarNext]_calendarVars
    PROVE  FlowInv'
<1> USE CalendarAssumption DEF NoFlow
<1>1. CASE UNCHANGED <<flows, verifiers, disturbed>>
  BY <1>1 DEF FlowInv, VerifierWaits, LoneFlowConnects
<1>2. ASSUME NEW f \in Flows, StartGoogleOauth(f)
      PROVE  FlowInv'
  <2>1. PICK stored \in BOOLEAN :
          /\ verifiers' = IF stored THEN [verifiers EXCEPT ![UserOf[f]] = f] ELSE verifiers
          /\ disturbed' = disturbed \cup SameState(f) \cup (IF stored THEN {} ELSE {f})
    BY <1>2 DEF StartGoogleOauth
  <2>2. flows[f] = "new" /\ flows' = [flows EXCEPT ![f] = "begun"]
    BY <1>2 DEF StartGoogleOauth
  <2>3. UserOf[f] \in Users  BY DEF Users
  <2>4. VerifierWaits'
    <3> SUFFICES ASSUME NEW g \in Flows, flows'[g] = "begun", g \notin disturbed'
                 PROVE  verifiers'[UserOf[g]] = g
      BY DEF VerifierWaits
    <3>1. CASE g = f  BY <2>1, <2>3, <3>1 DEF FlowInv
    <3>2. CASE g # f
      <4>1. flows[g] = "begun" /\ g \notin disturbed /\ g \notin SameState(f)
        BY <2>1, <2>2, <3>2 DEF FlowInv
      <4>2. UserOf[g] # UserOf[f]  BY <3>2, <4>1 DEF SameState
      <4> QED  BY <2>1, <4>1, <4>2 DEF FlowInv, VerifierWaits
    <3> QED  BY <3>1, <3>2
  <2> QED  BY <2>1, <2>2, <2>3, <2>4 DEF FlowInv, LoneFlowConnects, SameState
<1>3. ASSUME NEW f \in Flows, VerifierExpires(f)
      PROVE  FlowInv'
  <2>1. /\ verifiers[UserOf[f]] = f /\ flows' = flows /\ disturbed' = disturbed \cup {f}
        /\ verifiers' = [verifiers EXCEPT ![UserOf[f]] = NoFlow]
    BY <1>3 DEF VerifierExpires
  <2>2. UserOf[f] \in Users  BY DEF Users
  <2>3. VerifierWaits'
    BY <2>1 DEF FlowInv, VerifierWaits
  <2> QED  BY <2>1, <2>2, <2>3 DEF FlowInv, LoneFlowConnects
<1>4. ASSUME NEW f \in Flows, NEW a \in Accounts, GoogleOauthCallback(f, a)
      PROVE  FlowInv'
  <2>1. PICK reached \in BOOLEAN, refuses \in BOOLEAN :
          /\ verifiers' = IF reached THEN [verifiers EXCEPT ![UserOf[f]] = NoFlow]
                          ELSE verifiers
          /\ disturbed' = disturbed \cup SameState(f) \cup (IF reached THEN {} ELSE {f})
          /\ \/ /\ (reached => verifiers[UserOf[f]] # f) \/ refuses
                /\ flows' = [flows EXCEPT ![f] = IF refuses THEN "refused" ELSE "failed"]
             \/ flows' = [flows EXCEPT ![f] = "invalid_state"]
             \/ flows' = [flows EXCEPT ![f] = "connected"]
    BY <1>4 DEF GoogleOauthCallback
  <2>2. flows[f] = "begun"  BY <1>4 DEF GoogleOauthCallback
  <2>3. UserOf[f] \in Users  BY DEF Users
  <2>4. /\ flows' \in [Flows -> {"new", "begun", "connected", "failed", "refused",
                                 "invalid_state"}]
        /\ flows'[f] # "begun" /\ \A g \in Flows : g # f => flows'[g] = flows[g]
    BY <2>1 DEF FlowInv
  <2>5. VerifierWaits'
    <3> SUFFICES ASSUME NEW g \in Flows, flows'[g] = "begun", g \notin disturbed'
                 PROVE  verifiers'[UserOf[g]] = g
      BY DEF VerifierWaits
    <3>1. g # f /\ flows[g] = "begun" /\ g \notin disturbed /\ g \notin SameState(f)
      BY <2>1, <2>4
    <3>2. UserOf[g] # UserOf[f]  BY <3>1 DEF SameState
    <3> QED  BY <2>1, <3>1, <3>2 DEF FlowInv, VerifierWaits
  <2>6. LoneFlowConnects'
    <3> SUFFICES ASSUME NEW g \in Flows, flows'[g] = "failed"
                 PROVE  g \in disturbed'
      BY DEF LoneFlowConnects
    <3>1. CASE g # f  BY <2>1, <2>4, <3>1 DEF FlowInv, LoneFlowConnects
    <3>2. CASE g = f
      <4>1. reached => verifiers[UserOf[f]] # f  BY <2>1, <3>2 DEF FlowInv
      <4> QED  BY <2>1, <2>2, <3>2, <4>1 DEF FlowInv, VerifierWaits
    <3> QED  BY <3>1, <3>2
  <2> QED  BY <2>1, <2>3, <2>4, <2>5, <2>6 DEF FlowInv, SameState
<1>5. CASE CalendarNext
  BY <1>1, <1>2, <1>3, <1>4, <1>5
  DEF CalendarNext, DisconnectCalendar, AccessExpires, GetIntegration, BuildCredentials
<1> QED  BY <1>1, <1>5 DEF calendarVars

\* However many users start to connect the calendar, however often: a flow that
\* fails was disturbed (LoneFlowConnects).
THEOREM LoneFlowConnectsCorrect == CalendarSpec => []LoneFlowConnects
<1>1. CalendarInit => FlowInv
  BY CalendarAssumption
  DEF CalendarInit, FlowInv, VerifierWaits, LoneFlowConnects, NoFlow
<1>2. FlowInv => LoneFlowConnects  BY DEF FlowInv
<1> QED  BY <1>1, <1>2, FlowStep, PTL DEF CalendarSpec

-----------------------------------------------------------------------------
(* Letters: any number of letters, deliveries and turns. *)

ThreadRow == [status : {"active", "closed"}, last : MessageId,
              chain : Seq(MessageId), turns : Nat]

JobRow == [letter : 1..MaxLetters, pc : ThreadPhase, seen : ThreadCopy]

\* A chain of references begins with the first mail.
FromRoot(chain) == Len(chain) >= 1 /\ chain[1] = Root

Referring(m) == m.refs # <<>> => FromRoot(m.refs)

\* A delivery that answers has the thread as it was when its letter was recorded.
CopyOfItsLetter(job) ==
    job.pc \in {"replying", "mailed"} =>
        /\ job.seen.last = LetterId(job.letter)
        /\ FromRoot(job.seen.chain)
        /\ job.seen.chain[Len(job.seen.chain)] = job.seen.last

\* A reply is of a delivery there has been, and fits its letter.
Fits(m) ==
    \A j \in Nat : m.id = ReplyId(j) =>
        /\ j \in 1..Len(jobs)
        /\ m.parent = LetterId(jobs[j].letter)
        /\ FromRoot(m.refs) /\ m.refs[Len(m.refs)] = m.parent

ThreadInv ==
    /\ MailTypeOK
    /\ FromRoot(conv.chain)
    /\ conv.status = "closed" => lead = "lost" \/ conv.turns >= max_turns
    /\ \A l \in DOMAIN letters : letters[l].id = LetterId(l) /\ Referring(letters[l])
    /\ \A i \in DOMAIN outbox : Referring(outbox[i]) /\ Fits(outbox[i])
    /\ \A j \in DOMAIN jobs : CopyOfItsLetter(jobs[j]) /\ jobs[j].letter \in DOMAIN letters
    /\ OptOutHeeded

-----------------------------------------------------------------------------
(* The operators. *)

\* Message-IDs tell the mail, the letters and the replies apart.
LEMMA MailIds ==
    /\ Root \in MessageId
    /\ \A l \in 1..MaxLetters : LetterId(l) \in MessageId
    /\ \A j \in 1..MaxDeliveries : ReplyId(j) \in MessageId
    /\ \A j, l : LetterId(l) # ReplyId(j) /\ Root # ReplyId(j)
    /\ \A i, j : ReplyId(i) = ReplyId(j) => i = j
BY DEF MessageId, Root, LetterId, ReplyId

\* What is in a sequence after one more.
LEMMA AppendRange ==
    ASSUME NEW S, NEW s \in Seq(S), NEW x \in S
    PROVE  /\ Append(s, x) \in Seq(S) /\ Len(s) \in Nat /\ Len(Append(s, x)) = Len(s) + 1
           /\ DOMAIN s = 1..Len(s) /\ DOMAIN Append(s, x) = 1..(Len(s) + 1)
           /\ \A i \in DOMAIN s : Append(s, x)[i] = s[i]
           /\ Append(s, x)[Len(s) + 1] = x
           /\ Range(Append(s, x)) = Range(s) \cup {x}
<1>1. /\ Append(s, x) \in Seq(S) /\ Len(s) \in Nat /\ Len(Append(s, x)) = Len(s) + 1
      /\ \A i \in 1..Len(s) : Append(s, x)[i] = s[i]
      /\ Append(s, x)[Len(s) + 1] = x
  BY AppendProperties, LenProperties
<1>2. DOMAIN s = 1..Len(s) /\ DOMAIN Append(s, x) = 1..(Len(s) + 1)
  BY <1>1, LenProperties
<1>3. Range(Append(s, x)) = Range(s) \cup {x}
  <2>1. 1..(Len(s) + 1) = 1..Len(s) \cup {Len(s) + 1}
    BY <1>1
  <2> QED BY <1>1, <1>2, <2>1 DEF Range
<1> QED BY <1>1, <1>2, <1>3

\* A chain with one more begins as before.
LEMMA ChainGrows ==
    ASSUME NEW chain \in Seq(MessageId), NEW m \in MessageId,
           FromRoot(chain) \/ (m = Root /\ chain = <<>>)
    PROVE  /\ Append(chain, m) \in Seq(MessageId) /\ FromRoot(Append(chain, m))
           /\ Append(chain, m)[Len(Append(chain, m))] = m
<1>1. /\ Append(chain, m) \in Seq(MessageId) /\ Len(chain) \in Nat
      /\ Len(Append(chain, m)) = Len(chain) + 1
      /\ \A i \in 1..Len(chain) : Append(chain, m)[i] = chain[i]
      /\ Append(chain, m)[Len(chain) + 1] = m
  BY AppendProperties, LenProperties
<1>2. CASE FromRoot(chain)
  BY <1>1, <1>2 DEF FromRoot
<1>3. CASE m = Root /\ chain = <<>>
  <2>1. Len(chain) = 0
    BY <1>3
  <2> QED BY <1>1, <1>3, <2>1 DEF FromRoot
<1> QED BY <1>2, <1>3

\* Rows of the conversation.
LEMMA ThreadRows ==
    ASSUME NEW c \in ThreadRow
    PROVE  /\ c.last \in MessageId /\ c.chain \in Seq(MessageId) /\ c.turns \in Nat
           /\ \A st \in {"active", "closed"} :
                 /\ [c EXCEPT !.status = st] \in ThreadRow
                 /\ [c EXCEPT !.status = st].turns = c.turns
                 /\ [c EXCEPT !.status = st].chain = c.chain
                 /\ [c EXCEPT !.status = st].status = st
BY DEF ThreadRow

\* record_inbound_reply writes a row.
LEMMA RecordedRow ==
    ASSUME conv \in ThreadRow, FromRoot(conv.chain), NEW m, m.id \in MessageId
    PROVE  /\ Recorded(m) \in ThreadRow
           /\ Recorded(m).status = conv.status /\ Recorded(m).last = m.id
           /\ Recorded(m).turns = conv.turns + 1
           /\ FromRoot(Recorded(m).chain)
           /\ Recorded(m).chain[Len(Recorded(m).chain)] = m.id
<1>1. PICK chain : chain = Append(conv.chain, m.id)
  OBVIOUS
<1>2. chain \in Seq(MessageId) /\ FromRoot(chain) /\ chain[Len(chain)] = m.id
  <2>1. conv.chain \in Seq(MessageId)
    BY ThreadRows
  <2>2. /\ Append(conv.chain, m.id) \in Seq(MessageId) /\ FromRoot(Append(conv.chain, m.id))
        /\ Append(conv.chain, m.id)[Len(Append(conv.chain, m.id))] = m.id
    BY <2>1, ChainGrows
  <2> QED BY <1>1, <2>2
<1>3. Recorded(m) = [conv EXCEPT !.last = m.id, !.chain = chain, !.turns = conv.turns + 1]
  BY <1>1 DEF Recorded
<1>4. PICK turns \in Nat : turns = conv.turns + 1
  <2>1. conv.turns \in Nat
    BY ThreadRows
  <2> QED BY <2>1
<1>5. Recorded(m) = [conv EXCEPT !.last = m.id, !.chain = chain, !.turns = turns]
  BY <1>3, <1>4
<1> QED BY <1>2, <1>4, <1>5 DEF ThreadRow

\* The reply's two columns make a row.
LEMMA ThreadedRow ==
    ASSUME conv \in ThreadRow, NEW j \in 1..MaxDeliveries, NEW job \in JobRow, job = jobs[j],
           FromRoot(job.seen.chain)
    PROVE  /\ Threaded(j) \in ThreadRow
           /\ Threaded(j).status = conv.status /\ Threaded(j).turns = conv.turns
           /\ FromRoot(Threaded(j).chain)
<1>1. PICK chain : chain = Append(job.seen.chain, ReplyId(j))
  OBVIOUS
<1>2. job.seen.chain \in Seq(MessageId) /\ ReplyId(j) \in MessageId
  BY MailIds DEF JobRow, ThreadCopy
<1>3. chain \in Seq(MessageId) /\ FromRoot(chain)
  <2>1. /\ Append(job.seen.chain, ReplyId(j)) \in Seq(MessageId)
        /\ FromRoot(Append(job.seen.chain, ReplyId(j)))
    BY <1>2, ChainGrows
  <2> QED BY <1>1, <2>1
<1>4. Threaded(j) = [conv EXCEPT !.last = ReplyId(j), !.chain = chain]
  BY <1>1 DEF Threaded
<1> QED BY <1>2, <1>3, <1>4 DEF ThreadRow

\* A delivery's copy.
LEMMA JobType ==
    ASSUME NEW l \in 1..MaxLetters, NEW pc \in ThreadPhase, NEW c \in ThreadRow
    PROVE  /\ Job(l, pc, c) \in JobRow
           /\ Job(l, pc, c).letter = l /\ Job(l, pc, c).pc = pc
           /\ Job(l, pc, c).seen.last = c.last /\ Job(l, pc, c).seen.chain = c.chain
BY DEF Job, JobRow, ThreadCopy, ThreadRow

\* A delivery that goes on.
LEMMA GotoJob ==
    ASSUME jobs \in Seq(JobRow), NEW j \in DOMAIN jobs, NEW pc \in ThreadPhase, Goto(j, pc)
    PROVE  /\ jobs' \in Seq(JobRow) /\ Len(jobs') = Len(jobs) /\ DOMAIN jobs' = DOMAIN jobs
           /\ jobs'[j].pc = pc
           /\ jobs'[j].seen = jobs[j].seen
           /\ \A i \in DOMAIN jobs : jobs'[i].letter = jobs[i].letter
           /\ \A i \in DOMAIN jobs \ {j} : jobs'[i] = jobs[i]
<1>1. PICK job \in JobRow : job = jobs[j]
  BY ElementOfSeq, LenProperties
<1>2. PICK next : next = [job EXCEPT !.pc = pc]
  OBVIOUS
<1>3. next \in JobRow /\ next.pc = pc /\ next.letter = job.letter /\ next.seen = job.seen
  BY <1>2 DEF JobRow
<1>4. jobs' = [jobs EXCEPT ![j] = next]
  BY <1>1, <1>2 DEF Goto
<1>5. /\ jobs' \in Seq(JobRow) /\ Len(jobs') = Len(jobs) /\ DOMAIN jobs' = DOMAIN jobs
      /\ jobs'[j] = next /\ \A i \in DOMAIN jobs \ {j} : jobs'[i] = jobs[i]
  BY <1>3, <1>4, LenProperties
<1> QED BY <1>1, <1>3, <1>5

-----------------------------------------------------------------------------
(* The steps. *)

\* The lead writes.
LEMMA WriteStep == ASSUME ThreadInv, Write PROVE ThreadInv'
<1>0. /\ outbox \in Seq(Header) /\ letters \in Seq(Letter) /\ Len(letters) < MaxLetters
      /\ UNCHANGED <<conv, messages, outbox, jobs, lead>>
  BY DEF ThreadInv, MailTypeOK, Write
<1>1. PICK m \in Range(outbox) \cup Range(letters), negative \in BOOLEAN :
         \E headers \in [parent : {m.id}, refs : Chained(m)]
                        \cup {[parent |-> NoParent, refs |-> <<>>]} :
            letters' = Append(letters,
                [id |-> LetterId(Len(letters) + 1), parent |-> headers.parent,
                 refs |-> headers.refs, negative |-> negative])
  BY DEF Write
<1>2. m.id \in MessageId /\ m.refs \in Seq(MessageId) /\ Referring(m)
  <2>1. CASE m \in Range(outbox)
    <3>1. PICK i \in DOMAIN outbox : m = outbox[i]
      BY <2>1 DEF Range
    <3>2. m \in Header /\ Referring(m)
      BY <1>0, <3>1, ElementOfSeq, LenProperties DEF ThreadInv
    <3> QED BY <3>2 DEF Header
  <2>2. CASE m \in Range(letters)
    <3>1. PICK i \in DOMAIN letters : m = letters[i]
      BY <2>2 DEF Range
    <3>2. m \in Letter /\ Referring(m)
      BY <1>0, <3>1, ElementOfSeq, LenProperties DEF ThreadInv
    <3> QED BY <3>2 DEF Letter
  <2> QED BY <2>1, <2>2
<1>3. PICK headers \in [parent : {m.id}, refs : Chained(m)]
                        \cup {[parent |-> NoParent, refs |-> <<>>]} :
         letters' = Append(letters,
                [id |-> LetterId(Len(letters) + 1), parent |-> headers.parent,
                 refs |-> headers.refs, negative |-> negative])
  BY <1>1
<1>4. /\ headers.parent \in MessageId \cup {NoParent}
      /\ headers.refs \in Seq(MessageId) /\ (headers.refs # <<>> => FromRoot(headers.refs))
  <2>1. CASE headers \in [parent : {m.id}, refs : Chained(m)]
    <3>1. headers.parent = m.id /\ headers.refs \in Chained(m)
      BY <2>1
    <3>2. CASE headers.refs = <<>>
      BY <1>2, <3>1, <3>2
    <3>3. CASE headers.refs # <<>>
      <4>1. headers.refs = Append(m.refs, m.id) /\ (m.refs # <<>> \/ m.id = Root)
        BY <3>1, <3>3 DEF Chained
      <4>2. FromRoot(m.refs) \/ (m.id = Root /\ m.refs = <<>>)
        BY <1>2, <4>1 DEF Referring
      <4> QED BY <1>2, <3>1, <4>1, <4>2, ChainGrows
    <3> QED BY <3>2, <3>3
  <2>2. CASE headers = [parent |-> NoParent, refs |-> <<>>]
    BY <2>2
  <2> QED BY <2>1, <2>2
<1>5. Len(letters) + 1 \in 1..MaxLetters /\ Len(letters) \in Nat
  BY <1>0, EmailAssumption, LenProperties
<1>6. PICK l : l = [id |-> LetterId(Len(letters) + 1), parent |-> headers.parent,
                    refs |-> headers.refs, negative |-> negative]
  OBVIOUS
<1>7. l \in Letter /\ l.id = LetterId(Len(letters) + 1) /\ Referring(l)
  BY <1>4, <1>5, <1>6, MailIds DEF Letter, Referring
<1>8. letters' = Append(letters, l)
  BY <1>3, <1>6
<1>9. /\ letters' \in Seq(Letter) /\ Len(letters') = Len(letters) + 1
      /\ DOMAIN letters = 1..Len(letters) /\ DOMAIN letters' = 1..(Len(letters) + 1)
      /\ \A i \in DOMAIN letters : letters'[i] = letters[i]
      /\ letters'[Len(letters) + 1] = l
  BY <1>0, <1>7, <1>8, AppendRange
<1>10. MailTypeOK'
  BY <1>0, <1>5, <1>9 DEF ThreadInv, MailTypeOK
<1>11. \A i \in DOMAIN letters' : letters'[i].id = LetterId(i) /\ Referring(letters'[i])
  BY <1>5, <1>7, <1>9 DEF ThreadInv
<1>12. \A j \in DOMAIN jobs : /\ jobs[j].letter \in DOMAIN letters'
                             /\ letters'[jobs[j].letter] = letters[jobs[j].letter]
  BY <1>5, <1>9 DEF ThreadInv
<1>13. OptOutHeeded'
  BY <1>0, <1>12 DEF ThreadInv, OptOutHeeded
<1> QED BY <1>0, <1>10, <1>11, <1>12, <1>13 DEF ThreadInv, Fits, CopyOfItsLetter, Referring

\* A letter that is delivered, whatever becomes of it.
LEMMA Delivered ==
    ASSUME ThreadInv, NEW l \in DOMAIN letters, NEW job \in JobRow,
           jobs' = Append(jobs, job), Len(jobs) < MaxDeliveries,
           job.letter = l, CopyOfItsLetter(job),
           conv' \in ThreadRow, FromRoot(conv'.chain), messages' \in Seq(Header),
           lead' \in {"open", "lost"}, UNCHANGED <<outbox, letters>>,
           conv'.turns >= conv.turns, lead = "lost" => lead' = "lost",
           conv'.status = "closed" => lead' = "lost" \/ conv'.turns >= max_turns,
           letters[l].negative /\ letters[l].refs # <<>> =>
               lead' = "lost" \/ conv'.turns >= max_turns
    PROVE  ThreadInv'
<1>1. /\ jobs \in Seq(JobRow) /\ conv \in ThreadRow /\ conv.turns \in Nat /\ conv'.turns \in Nat
      /\ max_turns \in Nat
  BY EmailAssumption, ThreadRows DEF ThreadInv, MailTypeOK, JobRow, ThreadRow
<1>2. /\ jobs' \in Seq(JobRow) /\ Len(jobs) \in Nat /\ Len(jobs') = Len(jobs) + 1
      /\ DOMAIN jobs = 1..Len(jobs) /\ DOMAIN jobs' = 1..(Len(jobs) + 1)
      /\ \A j \in DOMAIN jobs : jobs'[j] = jobs[j]
      /\ jobs'[Len(jobs) + 1] = job
  BY <1>1, AppendRange
<1>3. Len(jobs') <= MaxDeliveries
  BY <1>2, EmailAssumption
<1>4. MailTypeOK'
  BY <1>2, <1>3 DEF ThreadInv, MailTypeOK, JobRow, ThreadRow
<1>5. \A i \in DOMAIN outbox : Fits(outbox[i])'
  BY <1>2 DEF ThreadInv, Fits
<1>6. \A j \in DOMAIN jobs' : CopyOfItsLetter(jobs'[j]) /\ jobs'[j].letter \in DOMAIN letters
  BY <1>2 DEF ThreadInv
<1>7. OptOutHeeded'
  <2> SUFFICES ASSUME NEW j \in DOMAIN jobs', letters[jobs'[j].letter].negative,
                      letters[jobs'[j].letter].refs # <<>>
               PROVE  lead' = "lost" \/ conv'.turns >= max_turns
    BY DEF OptOutHeeded
  <2>1. CASE j = Len(jobs) + 1
    BY <1>2, <2>1
  <2>2. CASE j # Len(jobs) + 1
    <3>1. lead = "lost" \/ conv.turns >= max_turns
      BY <1>2, <2>2 DEF ThreadInv, OptOutHeeded
    <3> QED BY <1>1, <3>1
  <2> QED BY <2>1, <2>2
<1> QED BY <1>4, <1>5, <1>6, <1>7 DEF ThreadInv, Referring

\* The webhook.
LEMMA DeliverStep == ASSUME ThreadInv, NEW l \in DOMAIN letters, Deliver(l) PROVE ThreadInv'
<1>1. PICK m : m = letters[l]
  OBVIOUS
<1>2. /\ m \in Letter /\ m.id = LetterId(l) /\ Referring(m) /\ l \in 1..MaxLetters
      /\ m.id \in MessageId
  <2>1. Len(letters) \in Nat /\ Len(letters) <= MaxLetters /\ DOMAIN letters = 1..Len(letters)
        /\ letters \in Seq(Letter)
    BY LenProperties DEF ThreadInv, MailTypeOK
  <2>2. l \in 1..MaxLetters
    BY <2>1, EmailAssumption
  <2>3. m \in Letter
    BY <1>1, <2>1, ElementOfSeq
  <2> QED BY <1>1, <2>2, <2>3 DEF ThreadInv, Letter
<1>3. /\ conv \in ThreadRow /\ FromRoot(conv.chain) /\ messages \in Seq(Header)
      /\ conv.turns \in Nat /\ max_turns \in Nat /\ lead \in {"open", "lost"}
      /\ (conv.status = "closed" => lead = "lost" \/ conv.turns >= max_turns)
      /\ conv.status \in {"active", "closed"}
  BY EmailAssumption DEF ThreadInv, MailTypeOK, ThreadRow
<1>4. {"ignored", "replying", "opt-out", "unanswered"} \subseteq ThreadPhase
  BY DEF ThreadPhase
<1>5. Len(jobs) < MaxDeliveries /\ UNCHANGED <<outbox, letters>>
  BY DEF Deliver
<1>6. CASE /\ ~Found(m)
           /\ jobs' = Append(jobs, Job(l, "ignored", conv))
           /\ UNCHANGED <<conv, messages, lead>>
  <2>1. PICK job \in JobRow : /\ job = Job(l, "ignored", conv) /\ job.letter = l
                              /\ job.pc = "ignored"
    BY <1>2, <1>3, <1>4, JobType
  <2>2. CopyOfItsLetter(job)
    BY <2>1 DEF CopyOfItsLetter
  <2>3. m.refs # <<>> => lead = "lost" \/ conv.turns >= max_turns
    <3> SUFFICES ASSUME m.refs # <<>> PROVE conv.status # "active"
      BY <1>3
    <3>1. 1 \in DOMAIN m.refs /\ m.refs[1] = Root
      <4>1. m.refs \in Seq(MessageId) /\ FromRoot(m.refs)
        BY <1>2 DEF Letter, Referring
      <4> QED BY <4>1, LenProperties DEF FromRoot
    <3>2. Root \in Range(m.refs)
      BY <3>1 DEF Range
    <3> QED BY <1>6, <3>2 DEF Found, FoundByRefs
  <2> QED BY <1>1, <1>3, <1>5, <1>6, <2>1, <2>2, <2>3, Delivered
<1>7. CASE /\ Found(m) /\ m.negative
           /\ conv' = OptedOut
           /\ lead' = "lost"
           /\ jobs' = Append(jobs, Job(l, "opt-out", conv))
           /\ UNCHANGED messages
  <2>1. PICK job \in JobRow : /\ job = Job(l, "opt-out", conv) /\ job.letter = l
                              /\ job.pc = "opt-out"
    BY <1>2, <1>3, <1>4, JobType
  <2>2. CopyOfItsLetter(job)
    BY <2>1 DEF CopyOfItsLetter
  <2>3. conv' \in ThreadRow /\ conv'.turns = conv.turns /\ conv'.chain = conv.chain
    BY <1>3, <1>7, ThreadRows DEF OptedOut
  <2> QED BY <1>1, <1>3, <1>5, <1>7, <2>1, <2>2, <2>3, Delivered
<1>8. CASE /\ Found(m) /\ ~m.negative
           /\ messages' = Append(messages, [id |-> m.id, parent |-> m.parent, refs |-> m.refs])
           /\ IF OutOfTurns(Recorded(m))
              THEN /\ conv' = [Recorded(m) EXCEPT !.status = "closed"]
                   /\ jobs' = Append(jobs, Job(l, "unanswered", Recorded(m)))
              ELSE /\ conv' = Recorded(m)
                   /\ jobs' = Append(jobs, Job(l, "replying", Recorded(m)))
           /\ UNCHANGED lead
  <2>1. PICK c \in ThreadRow :
           /\ c = Recorded(m) /\ c.status = conv.status /\ c.last = m.id
           /\ c.turns = conv.turns + 1 /\ FromRoot(c.chain) /\ c.chain[Len(c.chain)] = m.id
    BY <1>2, <1>3, RecordedRow
  <2>2. messages' \in Seq(Header)
    <3>1. [id |-> m.id, parent |-> m.parent, refs |-> m.refs] \in Header
      BY <1>2 DEF Letter, Header
    <3> QED BY <1>3, <1>8, <3>1, AppendProperties
  <2>3. conv.status = "active"
    BY <1>8 DEF Found, FoundById, FoundByRefs
  <2>4. CASE OutOfTurns(c)
    <3>1. PICK job \in JobRow : /\ job = Job(l, "unanswered", c) /\ job.letter = l
                                /\ job.pc = "unanswered"
      BY <1>2, <1>4, JobType
    <3>2. CopyOfItsLetter(job)
      BY <3>1 DEF CopyOfItsLetter
    <3>3. /\ conv' = [c EXCEPT !.status = "closed"] /\ jobs' = Append(jobs, job)
          /\ UNCHANGED lead
      BY <1>8, <2>1, <2>4, <3>1
    <3>4. conv' \in ThreadRow /\ conv'.turns = c.turns /\ conv'.chain = c.chain
      BY <3>3, ThreadRows
    <3>5. c.turns >= max_turns
      BY <2>4 DEF OutOfTurns
    <3>6. /\ conv' \in ThreadRow /\ FromRoot(conv'.chain) /\ conv'.turns >= conv.turns
          /\ conv'.turns >= max_turns
      BY <1>3, <2>1, <3>4, <3>5
    <3>7. lead' = lead
      BY <3>3
    <3> QED BY <1>3, <1>5, <2>2, <3>1, <3>2, <3>3, <3>6, <3>7, Delivered
  <2>5. CASE ~OutOfTurns(c)
    <3>1. PICK job \in JobRow : /\ job = Job(l, "replying", c) /\ job.letter = l
                                /\ job.pc = "replying"
                                /\ job.seen.last = c.last /\ job.seen.chain = c.chain
      BY <1>2, <1>4, JobType
    <3>2. CopyOfItsLetter(job)
      BY <1>2, <2>1, <3>1 DEF CopyOfItsLetter
    <3>3. conv' = c /\ jobs' = Append(jobs, job) /\ UNCHANGED lead
      BY <1>8, <2>1, <2>5, <3>1
    <3>4. /\ conv' \in ThreadRow /\ FromRoot(conv'.chain) /\ conv'.status # "closed"
          /\ conv'.turns >= conv.turns
      BY <1>3, <2>1, <2>3, <3>3
    <3>5. ~letters[l].negative
      BY <1>1, <1>8
    <3>6. lead' = lead
      BY <3>3
    <3> QED BY <1>3, <1>5, <2>2, <3>1, <3>2, <3>3, <3>4, <3>5, <3>6, Delivered
  <2> QED BY <2>4, <2>5
<1> QED BY <1>1, <1>6, <1>7, <1>8 DEF Deliver

\* A delivery goes on past its awaits.
LEMMA MailJobStep ==
    ASSUME ThreadInv, NEW j \in DOMAIN jobs, Failed(j) \/ Mailed(j) \/ Persist(j) \/ PersistFailed(j)
    PROVE  ThreadInv'
<1>1. /\ jobs \in Seq(JobRow) /\ conv \in ThreadRow /\ FromRoot(conv.chain)
      /\ outbox \in Seq(Header) /\ messages \in Seq(Header)
  BY DEF ThreadInv, MailTypeOK, JobRow, ThreadRow
<1>2. j \in 1..Len(jobs) /\ j \in 1..MaxDeliveries /\ DOMAIN jobs = 1..Len(jobs) /\ Len(jobs) \in Nat
  BY <1>1, EmailAssumption, LenProperties DEF ThreadInv, MailTypeOK
<1>3. PICK job \in JobRow : job = jobs[j]
  BY <1>1, <1>2, ElementOfSeq
<1>4. job.pc \in {"replying", "mailed"} /\ CopyOfItsLetter(job)
  BY <1>3 DEF Failed, Mailed, Persist, PersistFailed, ThreadInv
<1>5. /\ job.seen.last = LetterId(job.letter) /\ FromRoot(job.seen.chain)
      /\ job.seen.chain[Len(job.seen.chain)] = job.seen.last
      /\ job.seen.last \in MessageId /\ job.seen.chain \in Seq(MessageId)
  BY <1>4 DEF CopyOfItsLetter, JobRow, ThreadCopy
<1>6. PICK r : r = ReplyHeaders(j)
  OBVIOUS
<1>7. /\ r \in Header /\ r.id = ReplyId(j) /\ r.parent = job.seen.last
      /\ r.refs = job.seen.chain
  BY <1>2, <1>3, <1>5, <1>6, MailIds DEF ReplyHeaders, Header
<1>8. PICK pc \in {"unanswered", "mailed", "answered"} : Goto(j, pc)
  BY DEF Failed, Mailed, Persist, PersistFailed
<1>9. /\ jobs' \in Seq(JobRow) /\ Len(jobs') = Len(jobs) /\ DOMAIN jobs' = DOMAIN jobs
      /\ jobs'[j].pc = pc /\ jobs'[j].seen = jobs[j].seen
      /\ \A i \in DOMAIN jobs : jobs'[i].letter = jobs[i].letter
      /\ \A i \in DOMAIN jobs \ {j} : jobs'[i] = jobs[i]
  BY <1>1, <1>8, GotoJob DEF ThreadPhase
<1>10. /\ UNCHANGED <<letters, lead>>
       /\ outbox' = outbox \/ outbox' = Append(outbox, r)
       /\ messages' = messages \/ messages' = Append(messages, r)
       /\ conv' = conv \/ conv' = Threaded(j)
  BY <1>6 DEF Failed, Mailed, Persist, PersistFailed
<1>11. /\ conv' \in ThreadRow /\ conv'.status = conv.status /\ conv'.turns = conv.turns
       /\ FromRoot(conv'.chain)
  BY <1>1, <1>2, <1>3, <1>5, <1>10, ThreadedRow
<1>12. outbox' \in Seq(Header) /\ messages' \in Seq(Header)
  <2>1. Append(outbox, r) \in Seq(Header) /\ Append(messages, r) \in Seq(Header)
    BY <1>1, <1>7, AppendProperties
  <2> QED BY <1>1, <1>10, <2>1
<1>13. MailTypeOK'
  BY <1>9, <1>10, <1>11, <1>12 DEF ThreadInv, MailTypeOK, JobRow, ThreadRow
<1>14. \A i \in DOMAIN jobs' : CopyOfItsLetter(jobs'[i]) /\ jobs'[i].letter \in DOMAIN letters
  <2> SUFFICES ASSUME NEW i \in DOMAIN jobs'
               PROVE  CopyOfItsLetter(jobs'[i]) /\ jobs'[i].letter \in DOMAIN letters
    OBVIOUS
  <2>1. CASE i = j
    <3>1. jobs'[i].seen = job.seen /\ jobs'[i].letter = job.letter
      BY <1>3, <1>9, <2>1
    <3> QED BY <1>3, <1>5, <3>1 DEF CopyOfItsLetter, ThreadInv
  <2>2. CASE i # j
    BY <1>9, <2>2 DEF ThreadInv
  <2> QED BY <2>1, <2>2
<1>15. ASSUME NEW m, Fits(m) PROVE Fits(m)'
  BY <1>2, <1>9, <1>15 DEF Fits
<1>16. Referring(r) /\ Fits(r)'
  <2>1. Referring(r)
    BY <1>5, <1>7 DEF Referring
  <2>2. ASSUME NEW k \in Nat, r.id = ReplyId(k) PROVE k = j
    BY <1>7, <2>2, MailIds
  <2>3. jobs'[j].letter = job.letter /\ j \in 1..Len(jobs')
    BY <1>2, <1>3, <1>9
  <2> QED BY <1>5, <1>7, <2>1, <2>2, <2>3 DEF Fits
<1>17. (\A i \in DOMAIN outbox : Referring(outbox[i]) /\ Fits(outbox[i]))'
  <2> SUFFICES ASSUME NEW i \in DOMAIN outbox' PROVE (Referring(outbox[i]) /\ Fits(outbox[i]))'
    OBVIOUS
  <2>1. PICK m : m = outbox'[i]
    OBVIOUS
  <2>2. m = r \/ (i \in DOMAIN outbox /\ m = outbox[i])
    <3>1. CASE outbox' = outbox
      BY <2>1, <3>1
    <3>2. CASE outbox' = Append(outbox, r)
      <4>1. /\ Len(outbox) \in Nat /\ DOMAIN outbox = 1..Len(outbox)
            /\ DOMAIN Append(outbox, r) = 1..(Len(outbox) + 1)
            /\ \A k \in DOMAIN outbox : Append(outbox, r)[k] = outbox[k]
            /\ Append(outbox, r)[Len(outbox) + 1] = r
        BY <1>1, <1>7, AppendRange
      <4>2. i \in DOMAIN outbox \/ i = Len(outbox) + 1
        BY <3>2, <4>1
      <4> QED BY <2>1, <3>2, <4>1, <4>2
    <3> QED BY <1>10, <3>1, <3>2
  <2>3. Referring(m) /\ Fits(m)'
    BY <1>15, <1>16, <2>2 DEF ThreadInv
  <2>4. Fits(outbox[i])' <=> Fits(m)'
    BY <2>1 DEF Fits
  <2> QED BY <2>1, <2>3, <2>4 DEF Referring
<1>18. OptOutHeeded'
  BY <1>9, <1>10, <1>11 DEF ThreadInv, OptOutHeeded
<1> QED BY <1>10, <1>11, <1>13, <1>14, <1>17, <1>18 DEF ThreadInv

\* The thread begins with the node's mail.
LEMMA ThreadInvInit == MailInit => ThreadInv
<1> SUFFICES ASSUME MailInit PROVE ThreadInv
  OBVIOUS
<1>1. /\ Opening \in Header /\ Opening.refs = <<>> /\ Opening.id = Root
      /\ <<Opening>> \in Seq(Header) /\ <<Root>> \in Seq(MessageId)
  BY MailIds DEF Opening, Header
<1>2. /\ conv = [status |-> "active", last |-> Root, chain |-> <<Root>>, turns |-> 0]
      /\ messages = <<Opening>> /\ outbox = <<Opening>>
      /\ letters = <<>> /\ jobs = <<>> /\ lead = "open"
  BY DEF MailInit
<1>3. MailTypeOK
  BY <1>1, <1>2, EmailAssumption, MailIds DEF MailTypeOK
<1>4. Referring(Opening) /\ Fits(Opening)
  BY <1>1, MailIds DEF Referring, Fits
<1>5. FromRoot(conv.chain)
  BY <1>2 DEF FromRoot
<1> QED BY <1>2, <1>3, <1>4, <1>5 DEF ThreadInv, OptOutHeeded

\* The invariant holds throughout.
LEMMA ThreadCorrect == MailSpec => []ThreadInv
<1>1. ThreadInv /\ MailNext => ThreadInv'
  BY WriteStep, DeliverStep, MailJobStep DEF MailNext
<1>2. ThreadInv /\ UNCHANGED mailVars => ThreadInv'
  BY DEF mailVars, ThreadInv, MailTypeOK, Referring, Fits, CopyOfItsLetter, OptOutHeeded
<1> QED BY <1>1, <1>2, ThreadInvInit, PTL DEF MailSpec

\* A reply goes out under the letter it answers, whatever arrives meanwhile.
THEOREM ReplyFitsCorrect == MailSpec => []ReplyFitsItsLetter
<1>1. ThreadInv => ReplyFitsItsLetter
  <2> SUFFICES ASSUME ThreadInv, NEW j \in DOMAIN jobs, NEW m \in Range(outbox), m.id = ReplyId(j)
               PROVE  /\ m.parent = LetterId(jobs[j].letter)
                      /\ m.refs[1] = Root /\ Last(m.refs) = m.parent
    BY DEF ReplyFitsItsLetter
  <2>1. j \in Nat
    BY LenProperties DEF ThreadInv, MailTypeOK
  <2>2. Fits(m)
    BY DEF Range, ThreadInv
  <2> QED BY <2>1, <2>2 DEF Fits, FromRoot, Last
<1> QED BY <1>1, ThreadCorrect, PTL

\* A lead's opt-out with References is put on record.
THEOREM OptOutHeededCorrect == MailSpec => []OptOutHeeded
<1>1. ThreadInv => OptOutHeeded
  BY DEF ThreadInv
<1> QED BY <1>1, ThreadCorrect, PTL

\* Closing is for good.
THEOREM ClosedForGoodCorrect == MailSpec => ClosedForGood
<1>1. ThreadInv /\ [MailNext]_mailVars
         => (conv.status = "closed" =>
               /\ conv'.status = "closed"
               /\ \A r \in Range(messages') \ Range(messages) : \E j \in DOMAIN jobs : r.id = ReplyId(j))
  <2> SUFFICES ASSUME ThreadInv, MailNext, conv.status = "closed"
               PROVE  /\ conv'.status = "closed"
                      /\ \A r \in Range(messages') \ Range(messages) :
                            \E j \in DOMAIN jobs : r.id = ReplyId(j)
    BY DEF mailVars
  <2>0. conv \in ThreadRow /\ messages \in Seq(Header) /\ jobs \in Seq(JobRow)
    BY DEF ThreadInv, MailTypeOK, ThreadRow, JobRow
  <2>1. CASE UNCHANGED messages /\ conv' = conv
    BY <2>1
  <2>2. ASSUME NEW l \in DOMAIN letters, Deliver(l) PROVE UNCHANGED messages /\ conv' = conv
    BY <2>2 DEF Deliver, Found, FoundById, FoundByRefs
  <2>3. ASSUME NEW j \in DOMAIN jobs, Persist(j)
        PROVE  /\ conv'.status = "closed"
               /\ \A r \in Range(messages') \ Range(messages) : \E k \in DOMAIN jobs : r.id = ReplyId(k)
    <3>1. conv'.status = conv.status
      BY <2>0, <2>3 DEF Persist, Threaded, ThreadRow
    <3>2. messages' = Append(messages, ReplyHeaders(j))
      BY <2>3 DEF Persist
    <3>3. PICK h : h = ReplyHeaders(j) /\ h.id = ReplyId(j)
      <4>1. ReplyHeaders(j).id = ReplyId(j)
        BY DEF ReplyHeaders
      <4> QED BY <4>1
    <3>4. Range(messages') \subseteq Range(messages) \cup {h}
      <4>1. messages' = Append(messages, h)
        BY <3>2, <3>3
      <4>2. h \in Header
        <5>1. j \in 1..MaxDeliveries
          BY <2>0, EmailAssumption, LenProperties DEF ThreadInv, MailTypeOK
        <5>2. jobs[j] \in JobRow
          BY <2>0, ElementOfSeq, LenProperties
        <5> QED BY <3>3, <5>1, <5>2, MailIds DEF ReplyHeaders, Header, JobRow, ThreadCopy
      <4> QED BY <2>0, <4>1, <4>2, AppendRange
    <3> QED BY <3>1, <3>3, <3>4
  <2>4. ASSUME NEW j \in DOMAIN jobs, Failed(j) \/ Mailed(j) \/ PersistFailed(j)
        PROVE  UNCHANGED messages /\ conv' = conv
    BY <2>4 DEF Failed, Mailed, PersistFailed
  <2> QED BY <2>1, <2>2, <2>3, <2>4 DEF MailNext, Write
<1> QED BY <1>1, ThreadCorrect, PTL DEF MailSpec, ClosedForGood

-----------------------------------------------------------------------------
(* Members: any people, organizations and requests. *)

\* Owned(m, o): the rows m hold an owner of o.  Tied(m, os, u): u has a membership
\* among them, or has lost it with its organization, when the organizations are os.
Owned(m, o)    == \E i \in DOMAIN m : m[i].org = o /\ m[i].role = "owner"
Tied(m, os, u) == \E i \in DOMAIN m : m[i].user = u /\ (m[i].role # "gone" \/ m[i].org \notin os)

\* A request works on rows there are: rows are never deleted in earnest.
InRange(q) ==
    q.pc # "idle" =>
        /\ q.as \in DOMAIN memberships
        /\ q.kind \notin {"create", "delete_org"} => q.target \in DOMAIN memberships
        /\ q.pc = "orphan" => q.kind = "remove"

\* What a request has read is so, if nobody has committed since.
CurrentReads(q) ==
    q.pc \notin {"idle", "read"} /\ ~q.stale /\ q.kind \notin {"create", "delete_org"} =>
        /\ IsMember(q) /\ q.seen = memberships[q.target].role
        /\ q.kind = "transfer_ownership" => q.target # q.as
        /\ q.pc \in {"orphan", "commit"} /\ q.kind \in {"update_role", "remove"} =>
              (memberships[q.target].role = "owner" => Cardinality(Owners(Org(q))) > 1)
        /\ q.pc = "commit" /\ q.kind = "remove" /\ ~q.orphan =>
              OtherMemberships(memberships[q.target].user, q.target) # {}

ReadingInv == \A r \in Requests : InRange(requests[r]) /\ CurrentReads(requests[r])

MembersInv == MembersTypeOK /\ ReadingInv /\ MembershipsHold

-----------------------------------------------------------------------------
(* The operators. *)

\* The two halves of MembershipsHold, in terms of the rows.
LEMMA HoldFlat ==
    /\ OwnerRemains <=> \A o \in orgs : Owned(memberships, o)
    /\ NobodyIsStranded <=> \A u \in accounts : Tied(memberships, orgs, u)
<1>1. ASSUME NEW o PROVE Owners(o) # {} <=> Owned(memberships, o)
  BY DEF Owned, Owners, MembersOf, Present
<1>2. ASSUME NEW u
      PROVE  (\/ HeldBy(u) # {}
              \/ \E i \in DOMAIN memberships : memberships[i].user = u /\ memberships[i].org \notin orgs)
             <=> Tied(memberships, orgs, u)
  BY DEF Tied, HeldBy, Present
<1> QED BY <1>1, <1>2 DEF OwnerRemains, NobodyIsStranded

\* The same of the next state.
LEMMA HoldFlatNext ==
    /\ OwnerRemains' <=> \A o \in orgs' : Owned(memberships', o)
    /\ NobodyIsStranded' <=> \A u \in accounts' : Tied(memberships', orgs', u)
<1>1. ASSUME NEW o PROVE Owners(o)' # {} <=> Owned(memberships', o)
  BY DEF Owned, Owners, MembersOf, Present
<1>2. ASSUME NEW u
      PROVE  (\/ HeldBy(u)' # {}
              \/ \E i \in DOMAIN memberships' : memberships'[i].user = u /\ memberships'[i].org \notin orgs')
             <=> Tied(memberships', orgs', u)
  BY DEF Tied, HeldBy, Present
<1> QED BY <1>1, <1>2 DEF OwnerRemains, NobodyIsStranded

\* Where there are two, there is another.
LEMMA AnotherOne ==
    ASSUME NEW S, IsFiniteSet(S), Cardinality(S) > 1, NEW x
    PROVE  \E y \in S : y # x
<1> SUFFICES ASSUME S \subseteq {x} PROVE FALSE
  OBVIOUS
<1>1. IsFiniteSet({x}) /\ Cardinality({x}) = 1
  BY FS_Singleton
<1>2. Cardinality(S) <= 1
  BY <1>1, FS_Subset
<1>3. Cardinality(S) \in Nat
  BY FS_CardinalityType
<1> QED BY <1>2, <1>3

\* The owners of an organization are finitely many.
LEMMA OwnersFinite == ASSUME memberships \in Seq(Membership), NEW o PROVE IsFiniteSet(Owners(o))
<1>1. Len(memberships) \in Nat /\ DOMAIN memberships = 1..Len(memberships)
  BY LenProperties
<1>2. IsFiniteSet(1..Len(memberships))
  BY <1>1, FS_Interval
<1>3. Owners(o) \in SUBSET (1..Len(memberships))
  BY <1>1 DEF Owners, MembersOf
<1> QED BY <1>2, <1>3, FS_Subset

\* A request that is none.
LEMMA NoRequestType == NoRequest \in Request /\ NoRequest.pc = "idle"
<1>1. (CHOOSE u \in Persons : TRUE) \in Persons
  BY MembersAssumption
<1>2. "member" \in Roles /\ "gone" \in Roles \cup {"gone"} /\ "create" \in Kinds
  BY DEF Roles, Kinds
<1>3. PICK u \in Persons : u = CHOOSE v \in Persons : TRUE
  BY <1>1
<1>4. NoRequest = [pc |-> "idle", kind |-> "create", as |-> 0, role |-> "member", target |-> 0,
         user |-> u, to |-> "member",
         seen |-> "gone", fresh |-> FALSE, known |-> FALSE,
         owners |-> 0, orphan |-> FALSE, stale |-> FALSE]
  BY <1>3 DEF NoRequest
<1> QED BY <1>2, <1>4, Zenon DEF Request

\* A request that goes on with what it has read.
LEMMA RequestType ==
    ASSUME NEW q \in Request, NEW pc \in {"idle", "read", "count", "orphan", "commit"}
    PROVE  /\ q.pc \in {"idle", "read", "count", "orphan", "commit"} /\ q.kind \in Kinds
           /\ q.as \in Nat /\ q.target \in Nat /\ q.user \in Persons /\ q.to \in Roles
           /\ q.role \in Roles \cup {"gone"} /\ q.stale \in BOOLEAN /\ q.orphan \in BOOLEAN
BY DEF Request

\* The fields that a request's later steps leave alone.
KeepsBody(q, s) ==
    /\ s.kind = q.kind /\ s.as = q.as /\ s.target = q.target /\ s.stale = q.stale

\* Somebody has committed since.
LEMMA StaleType ==
    ASSUME NEW q \in Request, NEW s, s = [q EXCEPT !.stale = TRUE]
    PROVE  /\ s \in Request /\ s.stale /\ s.pc = q.pc
           /\ s.kind = q.kind /\ s.as = q.as /\ s.target = q.target
BY DEF Request

-----------------------------------------------------------------------------
(* What becomes of the rows. *)

\* Another row than t is an owner of o; a membership of u.
AlsoOwned(m, t, o) == \E j \in DOMAIN m : j # t /\ m[j].org = o /\ m[j].role = "owner"
AlsoTied(m, t, u)  == \E j \in DOMAIN m : j # t /\ m[j].user = u /\ m[j].role # "gone"

\* A row is written: an organization keeps an owner if the row is one, was none, or
\* is not the only one; and so with who has a membership.
LEMMA RowWritten ==
    ASSUME NEW m \in Seq(Membership), NEW t \in DOMAIN m, NEW row \in Membership,
           row.org = m[t].org, row.user = m[t].user, NEW n, n = [m EXCEPT ![t] = row]
    PROVE  /\ n \in Seq(Membership) /\ DOMAIN n = DOMAIN m
           /\ \A o : /\ Owned(m, o)
                     /\ \/ row.role = "owner" \/ m[t].role # "owner" \/ m[t].org # o
                        \/ AlsoOwned(m, t, o)
                     => Owned(n, o)
           /\ \A os, u : /\ Tied(m, os, u)
                         /\ \/ row.role # "gone" \/ m[t].user # u \/ row.role = m[t].role
                            \/ AlsoTied(m, t, u)
                         => Tied(n, os, u)
<1>1. n \in Seq(Membership) /\ DOMAIN n = DOMAIN m
  <2>1. Len(m) \in Nat /\ DOMAIN m = 1..Len(m) /\ m \in [1..Len(m) -> Membership]
    BY LenProperties
  <2>2. n \in [1..Len(m) -> Membership]
    BY <2>1
  <2> QED BY <2>1, <2>2, SeqDef
<1>2. n[t] = row /\ \A i \in DOMAIN m : i # t => n[i] = m[i]
  OBVIOUS
<1>3. ASSUME NEW o, Owned(m, o),
             \/ row.role = "owner" \/ m[t].role # "owner" \/ m[t].org # o
             \/ AlsoOwned(m, t, o)
      PROVE  Owned(n, o)
  <2>1. PICK i \in DOMAIN m : m[i].org = o /\ m[i].role = "owner"
    BY <1>3 DEF Owned
  <2>2. CASE i # t
    BY <1>1, <1>2, <2>1, <2>2 DEF Owned
  <2>3. CASE i = t
    BY <1>1, <1>2, <1>3, <2>1, <2>3 DEF Owned, AlsoOwned
  <2> QED BY <2>2, <2>3
<1>4. ASSUME NEW os, NEW u, Tied(m, os, u),
             \/ row.role # "gone" \/ m[t].user # u \/ row.role = m[t].role
             \/ AlsoTied(m, t, u)
      PROVE  Tied(n, os, u)
  <2>1. PICK i \in DOMAIN m : m[i].user = u /\ (m[i].role # "gone" \/ m[i].org \notin os)
    BY <1>4 DEF Tied
  <2>2. CASE i # t
    BY <1>1, <1>2, <2>1, <2>2 DEF Tied
  <2>3. CASE i = t
    BY <1>1, <1>2, <1>4, <2>1, <2>3 DEF Tied, AlsoTied
  <2> QED BY <2>2, <2>3
<1> QED BY <1>1, <1>3, <1>4

\* A row is added.
LEMMA RowAdded ==
    ASSUME NEW m \in Seq(Membership), NEW row \in Membership, NEW n, n = Append(m, row)
    PROVE  /\ n \in Seq(Membership) /\ DOMAIN m \subseteq DOMAIN n
           /\ \A o : Owned(m, o) \/ (row.org = o /\ row.role = "owner") => Owned(n, o)
           /\ \A os, u : Tied(m, os, u) \/ (row.user = u /\ row.role # "gone") => Tied(n, os, u)
<1>0. Len(m) \in Nat /\ DOMAIN m = 1..Len(m)
  BY LenProperties
<1>1. /\ Append(m, row) \in Seq(Membership) /\ Len(Append(m, row)) = Len(m) + 1
      /\ \A i \in 1..Len(m) : Append(m, row)[i] = m[i]
      /\ Append(m, row)[Len(m) + 1] = row
  BY AppendProperties
<1>2. n \in Seq(Membership) /\ DOMAIN n = 1..(Len(m) + 1)
  <2>1. n \in Seq(Membership) /\ Len(n) = Len(m) + 1
    BY <1>1
  <2>2. DOMAIN n = 1..Len(n)
    BY <2>1, LenProperties
  <2> QED BY <2>1, <2>2
<1>3. n[Len(m) + 1] = row /\ \A i \in DOMAIN m : n[i] = m[i]
  BY <1>0, <1>1
<1>4. Len(m) + 1 \in DOMAIN n /\ DOMAIN m \subseteq DOMAIN n
  BY <1>0, <1>2
<1>5. \A o : Owned(m, o) \/ (row.org = o /\ row.role = "owner") => Owned(n, o)
  BY <1>3, <1>4 DEF Owned
<1>6. \A os, u : Tied(m, os, u) \/ (row.user = u /\ row.role # "gone") => Tied(n, os, u)
  BY <1>3, <1>4 DEF Tied
<1> QED BY <1>2, <1>4, <1>5, <1>6

-----------------------------------------------------------------------------
(* A request that only reads, and one that commits. *)

\* A request has read and goes on.
LEMMA Advances ==
    ASSUME MembersInv, NEW r \in Requests, NEW q \in Request, GoesOn(r, q),
           InRange(q), CurrentReads(q),
           UNCHANGED <<accounts, sessions, orgs, memberships, clean>>
    PROVE  MembersInv'
<1>1. requests' \in [Requests -> Request] /\ \A p \in Requests : requests'[p] = IF p = r THEN q ELSE requests[p]
  BY DEF MembersInv, MembersTypeOK, GoesOn
<1>2. MembersTypeOK'
  BY <1>1 DEF MembersInv, MembersTypeOK
<1>3. MembershipsHold'
  BY HoldFlat, HoldFlatNext DEF MembersInv, MembershipsHold
<1>4. \A o : Owners(o)' = Owners(o)
  BY DEF Owners, MembersOf, Present
<1>5. ASSUME NEW p \in Requests PROVE (InRange(requests[p]) /\ CurrentReads(requests[p]))'
  <2>1. InRange(requests'[p]) /\ CurrentReads(requests'[p])
    BY <1>1 DEF MembersInv, ReadingInv
  <2>2. PICK v : v = requests'[p]
    OBVIOUS
  <2>3. InRange(v) /\ CurrentReads(v)
    BY <2>1, <2>2
  <2>4. InRange(requests[p])'
    BY <2>2, <2>3 DEF InRange
  <2>5. CurrentReads(requests[p])'
    BY <1>4, <2>2, <2>3 DEF CurrentReads, IsMember, MembersOf, Present, Org, OtherMemberships, HeldBy
  <2> QED BY <2>4, <2>5
<1> QED BY <1>2, <1>3, <1>5 DEF MembersInv, ReadingInv

\* A request has committed, or somebody has registered: those under way have read
\* something older.
LEMMA Committed ==
    ASSUME MembersInv,
           requests' \in [Requests -> Request],
           \A p \in Requests : \/ requests'[p].pc = "idle"
                               \/ /\ requests[p].pc # "idle" /\ requests'[p].stale
                                  /\ requests'[p].as = requests[p].as
                                  /\ requests'[p].target = requests[p].target
                                  /\ requests'[p].kind = requests[p].kind /\ requests'[p].pc = requests[p].pc,
           memberships' \in Seq(Membership), DOMAIN memberships \subseteq DOMAIN memberships',
           accounts' \subseteq Persons, sessions' \subseteq Persons, orgs' \subseteq Orgs,
           clean' \in BOOLEAN,
           clean' => /\ \A o \in orgs' : Owned(memberships', o)
                     /\ \A u \in accounts' : Tied(memberships', orgs', u)
    PROVE  MembersInv'
<1>1. MembersTypeOK'
  BY DEF MembersTypeOK
<1>2. MembershipsHold'
  BY HoldFlatNext DEF MembershipsHold
<1>3. ASSUME NEW p \in Requests PROVE (InRange(requests[p]) /\ CurrentReads(requests[p]))'
  <2>1. InRange(requests[p])
    BY DEF MembersInv, ReadingInv
  <2>2. InRange(requests[p])'
    BY <2>1 DEF InRange
  <2>3. CurrentReads(requests[p])'
    BY DEF CurrentReads
  <2> QED BY <2>2, <2>3
<1> QED BY <1>1, <1>2, <1>3 DEF MembersInv, ReadingInv

\* What Commits does to the requests and to the history.
LEMMA CommitsType ==
    ASSUME MembersInv, NEW r \in Requests, Commits(r)
    PROVE  /\ requests' \in [Requests -> Request]
           /\ \A p \in Requests : \/ requests'[p].pc = "idle"
                                  \/ /\ requests[p].pc # "idle" /\ requests'[p].stale
                                     /\ requests'[p].as = requests[p].as
                                     /\ requests'[p].target = requests[p].target
                                     /\ requests'[p].kind = requests[p].kind /\ requests'[p].pc = requests[p].pc
           /\ clean' \in BOOLEAN /\ (clean' => clean /\ ~requests[r].stale)
<1>0. requests \in [Requests -> Request] /\ clean \in BOOLEAN
  BY DEF MembersInv, MembersTypeOK
<1>1. ASSUME NEW p \in Requests
      PROVE  /\ requests'[p] \in Request
             /\ \/ requests'[p].pc = "idle"
                \/ /\ requests[p].pc # "idle" /\ requests'[p].stale
                   /\ requests'[p].as = requests[p].as
                   /\ requests'[p].target = requests[p].target
                   /\ requests'[p].kind = requests[p].kind /\ requests'[p].pc = requests[p].pc
  <2>1. CASE p = r
    BY <1>0, <2>1, NoRequestType DEF Commits
  <2>2. CASE p # r /\ requests[p].pc = "idle"
    BY <1>0, <2>2 DEF Commits
  <2>3. CASE p # r /\ requests[p].pc # "idle"
    <3>1. requests'[p] = [requests[p] EXCEPT !.stale = TRUE]
      BY <2>3 DEF Commits
    <3>2. requests[p] \in Request
      BY <1>0
    <3>3. /\ requests'[p] \in Request /\ requests'[p].stale /\ requests'[p].pc = requests[p].pc
          /\ requests'[p].kind = requests[p].kind /\ requests'[p].pc = requests[p].pc /\ requests'[p].as = requests[p].as
          /\ requests'[p].target = requests[p].target
      BY <3>1, <3>2, StaleType
    <3> QED BY <2>3, <3>3
  <2> QED BY <2>1, <2>2, <2>3
<1>2. \E F : requests' = [p \in Requests |-> F[p]]
  <2> DEFINE F == [p \in Requests |-> IF p = r \/ requests[p].pc = "idle" THEN (IF p = r THEN NoRequest ELSE requests[p])
                      ELSE [requests[p] EXCEPT !.stale = TRUE]]
  <2>1. requests' = F /\ F = [p \in Requests |-> F[p]]
    BY DEF Commits
  <2> QED BY <2>1
<1>3. requests' \in [Requests -> Request]
  BY <1>1, <1>2
<1> QED BY <1>0, <1>1, <1>3 DEF Commits

-----------------------------------------------------------------------------
(* The steps that only read. *)

\* What MembersInv says of one request.
LEMMA RequestFacts ==
    ASSUME MembersInv, NEW r \in Requests
    PROVE  /\ requests[r] \in Request /\ InRange(requests[r]) /\ CurrentReads(requests[r])
           /\ memberships \in Seq(Membership) /\ Len(memberships) \in Nat
           /\ DOMAIN memberships = 1..Len(memberships)
           /\ \A i \in DOMAIN memberships : memberships[i] \in Membership
<1>1. memberships \in Seq(Membership) /\ requests[r] \in Request
  BY DEF MembersInv, MembersTypeOK
<1>2. Len(memberships) \in Nat /\ DOMAIN memberships = 1..Len(memberships)
  BY <1>1, LenProperties
<1>3. ASSUME NEW i \in DOMAIN memberships PROVE memberships[i] \in Membership
  BY <1>1, <1>2, ElementOfSeq
<1> QED BY <1>1, <1>2, <1>3 DEF MembersInv, ReadingInv

\* A request refused is over.
LEMMA RefusedKeeps == ASSUME MembersInv, NEW r \in Requests, Refused(r) PROVE MembersInv'
<1>1. InRange(NoRequest) /\ CurrentReads(NoRequest)
  BY NoRequestType DEF InRange, CurrentReads
<1> QED BY <1>1, NoRequestType, Advances DEF Refused

\* A request begins with a membership there is.
LEMMA BeginKeeps == ASSUME MembersInv, NEW r \in Requests, BeginRequest(r) PROVE MembersInv'
<1>1. PICK u \in Persons, kind \in KindsOf[r] : \E i \in Tenants(u) :
           \E t \in DOMAIN memberships, v \in Persons, role \in NewRoles :
                GoesOn(r, [NoRequest EXCEPT !.pc = "read", !.kind = kind, !.as = i,
                           !.role = memberships[i].role,
                           !.target = IF kind \in {"create", "delete_org"} THEN 0 ELSE t,
                           !.user = IF kind = "create" THEN v ELSE @,
                           !.to = IF kind \in {"create", "update_role"} THEN role ELSE @])
  BY Zenon DEF BeginRequest
<1>2. PICK i \in Tenants(u) : \E t \in DOMAIN memberships, v \in Persons, role \in NewRoles :
                GoesOn(r, [NoRequest EXCEPT !.pc = "read", !.kind = kind, !.as = i,
                           !.role = memberships[i].role,
                           !.target = IF kind \in {"create", "delete_org"} THEN 0 ELSE t,
                           !.user = IF kind = "create" THEN v ELSE @,
                           !.to = IF kind \in {"create", "update_role"} THEN role ELSE @])
  BY <1>1
<1>3. PICK t \in DOMAIN memberships, v \in Persons, role \in NewRoles :
                GoesOn(r, [NoRequest EXCEPT !.pc = "read", !.kind = kind, !.as = i,
                           !.role = memberships[i].role,
                           !.target = IF kind \in {"create", "delete_org"} THEN 0 ELSE t,
                           !.user = IF kind = "create" THEN v ELSE @,
                           !.to = IF kind \in {"create", "update_role"} THEN role ELSE @])
  BY <1>2
<1> DEFINE target == IF kind \in {"create", "delete_org"} THEN 0 ELSE t
           user   == IF kind = "create" THEN v ELSE NoRequest.user
           to     == IF kind \in {"create", "update_role"} THEN role ELSE NoRequest.to
<1>4. PICK q : q = [NoRequest EXCEPT !.pc = "read", !.kind = kind, !.as = i,
                           !.role = memberships[i].role, !.target = target, !.user = user, !.to = to]
  OBVIOUS
<1>5. GoesOn(r, q)
  BY <1>3, <1>4
<1>6. /\ kind \in Kinds /\ i \in DOMAIN memberships /\ i \in Nat /\ t \in Nat
      /\ memberships[i].role \in Roles \cup {"gone"}
  <2>1. kind \in Kinds
    BY MembersAssumption
  <2>2. i \in DOMAIN memberships
    BY DEF Tenants, HeldBy
  <2>3. memberships[i] \in Membership /\ i \in Nat /\ t \in Nat
    BY <2>2, RequestFacts
  <2> QED BY <2>1, <2>2, <2>3 DEF Membership
<1>7. target \in Nat /\ user \in Persons /\ to \in Roles
  <2>1. NoRequest.user \in Persons /\ NoRequest.to \in Roles
    BY NoRequestType, RequestType
  <2>2. role \in Roles
    BY MembersAssumption
  <2> QED BY <1>6, <2>1, <2>2
<1>8. q \in Request /\ q.pc = "read" /\ q.kind = kind /\ q.as = i /\ q.target = target
  <2> HIDE DEF target, user, to
  <2> QED BY <1>4, <1>6, <1>7, NoRequestType DEF Request
<1>9. InRange(q) /\ CurrentReads(q)
  BY <1>6, <1>8 DEF InRange, CurrentReads
<1>10. UNCHANGED <<accounts, sessions, orgs, memberships, clean>>
  BY DEF BeginRequest
<1> QED BY <1>5, <1>8, <1>9, <1>10, Advances

\* A request has looked up the account it is to create.
LEMMA ReadAccountKeeps ==
    ASSUME MembersInv, NEW r \in Requests, requests[r].pc = "read", ReadAccount(r, requests[r])
    PROVE  MembersInv'
<1>1. CASE Refused(r)
  BY <1>1, RefusedKeeps
<1>2. CASE Reads(r, [requests[r] EXCEPT !.pc = "commit", !.known = requests[r].user \in accounts])
  <2> DEFINE known == requests[r].user \in accounts
  <2>1. PICK q : q = [requests[r] EXCEPT !.pc = "commit", !.known = known]
    OBVIOUS
  <2>2. requests[r] \in Request /\ InRange(requests[r])
    BY RequestFacts
  <2>3. known \in BOOLEAN /\ "commit" \in {"count", "orphan", "commit"}
    OBVIOUS
  <2>4. q \in Request /\ q.pc = "commit" /\ KeepsBody(requests[r], q)
    <3>1. PICK old : old = requests[r]
      OBVIOUS
    <3>2. q = [old EXCEPT !.pc = "commit", !.known = known] /\ old \in Request
      BY <2>1, <2>2, <3>1
    <3> HIDE DEF known
    <3>3. q \in Request /\ q.pc = "commit" /\ KeepsBody(old, q)
      BY <2>3, <3>2 DEF Request, KeepsBody
    <3> QED BY <3>1, <3>3
  <2>5. requests[r].kind = "create"
    BY DEF ReadAccount
  <2>6. InRange(q) /\ CurrentReads(q)
    BY <2>2, <2>4, <2>5 DEF InRange, CurrentReads, KeepsBody
  <2>7. Reads(r, q)
    BY <1>2, <2>1
  <2> QED BY <2>4, <2>6, <2>7, Advances DEF Reads
<1> QED BY <1>1, <1>2 DEF ReadAccount

\* A request has found the organization it is to delete.
LEMMA ReadOrgKeeps ==
    ASSUME MembersInv, NEW r \in Requests, requests[r].pc = "read", ReadOrg(r, requests[r])
    PROVE  MembersInv'
<1>1. CASE Refused(r)
  BY <1>1, RefusedKeeps
<1>2. CASE Reads(r, [requests[r] EXCEPT !.pc = "commit"])
  <2>1. PICK q : q = [requests[r] EXCEPT !.pc = "commit"]
    OBVIOUS
  <2>2. requests[r] \in Request /\ InRange(requests[r])
    BY RequestFacts
  <2>3. q \in Request /\ q.pc = "commit" /\ KeepsBody(requests[r], q)
    BY <2>1, <2>2 DEF Request, KeepsBody
  <2>4. InRange(q) /\ CurrentReads(q)
    BY <2>2, <2>3 DEF InRange, CurrentReads, KeepsBody, ReadOrg
  <2>5. Reads(r, q)
    BY <1>2, <2>1
  <2> QED BY <2>3, <2>4, <2>5, Advances DEF Reads
<1> QED BY <1>1, <1>2 DEF ReadOrg

\* A request has loaded the membership it is about: an owner's is counted next.
LEMMA ReadMemberKeeps ==
    ASSUME MembersInv, NEW r \in Requests, requests[r].pc = "read", ReadMember(r, requests[r])
    PROVE  MembersInv'
<1>1. CASE Refused(r)
  BY <1>1, RefusedKeeps
<1>2. CASE ~Refused(r)
  <2> DEFINE old == requests[r]
             pc  == IF old.kind \in {"update_role", "remove"} /\ memberships[old.target].role = "owner"
                    THEN "count" ELSE IF old.kind = "remove" THEN "orphan" ELSE "commit"
             loaded  == memberships[old.target].role
             role  == memberships[old.as].role
             fresh == memberships[old.target].status = "pending"
  <2>1. PICK q : q = [[old EXCEPT !.seen = loaded, !.role = role, !.fresh = fresh] EXCEPT !.pc = pc]
    OBVIOUS
  <2>2. /\ Reads(r, q) /\ old.kind \notin {"create", "delete_org"}
        /\ IsMember(old) /\ (old.kind = "transfer_ownership" => old.target # old.as)
    BY <1>2, <2>1 DEF ReadMember, Loaded, MayTransfer
  <2>3. /\ old \in Request /\ InRange(old)
        /\ \A i \in DOMAIN memberships : memberships[i] \in Membership
    BY RequestFacts
  <2>4. old.as \in DOMAIN memberships /\ old.target \in DOMAIN memberships
    BY <2>2, <2>3 DEF InRange
  <2>5. loaded \in Roles \cup {"gone"} /\ role \in Roles \cup {"gone"} /\ fresh \in BOOLEAN
    BY <2>3, <2>4 DEF Membership
  <2>6. pc \in {"count", "orphan", "commit"}
    OBVIOUS
  <2>7. q \in Request /\ q.pc = pc /\ KeepsBody(old, q) /\ q.seen = loaded
    <3> HIDE DEF pc, loaded, role, fresh, old
    <3> QED BY <2>1, <2>3, <2>5, <2>6 DEF Request, KeepsBody
  <2>8. InRange(q)
    BY <2>3, <2>7 DEF InRange, KeepsBody
  <2>9. CurrentReads(q)
    <3>1. IsMember(q)
      BY <2>2, <2>7 DEF IsMember, Org, KeepsBody
    <3>2. q.seen = memberships[q.target].role
      BY <2>7 DEF KeepsBody
    <3>3. q.kind = "transfer_ownership" => q.target # q.as
      BY <2>2, <2>7 DEF KeepsBody
    <3>4. /\ q.pc \in {"orphan", "commit"} /\ q.kind \in {"update_role", "remove"}
                => memberships[q.target].role # "owner"
          /\ ~(q.pc = "commit" /\ q.kind = "remove")
      BY <2>7 DEF KeepsBody
    <3> QED BY <3>1, <3>2, <3>3, <3>4 DEF CurrentReads
  <2> QED BY <2>2, <2>7, <2>8, <2>9, Advances DEF Reads
<1> QED BY <1>1, <1>2

\* A request has counted the owners: more than one.
LEMMA CountOwnersKeeps ==
    ASSUME MembersInv, NEW r \in Requests, CountOwners(r) PROVE MembersInv'
<1>1. CASE Refused(r)
  BY <1>1, RefusedKeeps
<1>2. CASE ~Refused(r)
  <2> DEFINE old == requests[r]
             n   == Cardinality(Owners(Org(old)))
             pc  == IF old.kind = "remove" THEN "orphan" ELSE "commit"
  <2>1. PICK q : q = [old EXCEPT !.owners = n, !.pc = pc]
    OBVIOUS
  <2>2. Reads(r, q) /\ ~TooFew(n)
    BY <1>2, <2>1 DEF CountOwners
  <2>3. old \in Request /\ InRange(old) /\ CurrentReads(old) /\ memberships \in Seq(Membership)
    BY RequestFacts
  <2>4. n \in Nat
    <3>1. IsFiniteSet(Owners(Org(old)))
      BY <2>3, OwnersFinite
    <3> QED BY <3>1, FS_CardinalityType
  <2>5. n > 1
    BY <2>2, <2>4 DEF TooFew
  <2>6. pc \in {"count", "orphan", "commit"}
    OBVIOUS
  <2>7. q \in Request /\ q.pc = pc /\ KeepsBody(old, q) /\ q.seen = old.seen
    <3> HIDE DEF pc, n, old
    <3> QED BY <2>1, <2>3, <2>4, <2>6 DEF Request, KeepsBody
  <2>8. old.pc = "count"
    BY DEF CountOwners
  <2>9. InRange(q)
    BY <2>3, <2>7, <2>8 DEF InRange, KeepsBody
  <2>10. CurrentReads(q)
    <3> SUFFICES ASSUME ~q.stale, q.kind \notin {"create", "delete_org"} PROVE CurrentReads(q)
      BY DEF CurrentReads
    <3>1. /\ IsMember(old) /\ old.seen = memberships[old.target].role
          /\ old.kind = "transfer_ownership" => old.target # old.as
      BY <2>3, <2>7, <2>8 DEF CurrentReads, KeepsBody
    <3>2. IsMember(q)
      BY <2>7, <3>1 DEF IsMember, Org, KeepsBody
    <3>3. /\ q.seen = memberships[q.target].role
          /\ q.kind = "transfer_ownership" => q.target # q.as
      BY <2>7, <3>1 DEF KeepsBody
    <3>4. Cardinality(Owners(Org(q))) > 1
      BY <2>5, <2>7 DEF KeepsBody, Org
    <3>5. ~(q.pc = "commit" /\ q.kind = "remove")
      BY <2>7 DEF KeepsBody
    <3> QED BY <3>2, <3>3, <3>4, <3>5 DEF CurrentReads
  <2> QED BY <2>2, <2>7, <2>9, <2>10, Advances DEF Reads
<1> QED BY <1>1, <1>2

\* A request has counted the other memberships of the user it removes.
LEMMA CountMembershipsKeeps ==
    ASSUME MembersInv, NEW r \in Requests, CountMemberships(r)
    PROVE  MembersInv'
<1> DEFINE old == requests[r]
           orphan == OtherMemberships(memberships[old.target].user, old.target) = {}
<1>1. PICK q : q = [old EXCEPT !.pc = "commit", !.orphan = orphan]
  OBVIOUS
<1>2. Reads(r, q) /\ old.pc = "orphan"
  BY <1>1 DEF CountMemberships
<1>3. old \in Request /\ InRange(old) /\ CurrentReads(old)
  BY RequestFacts
<1>4. orphan \in BOOLEAN /\ "commit" \in {"count", "orphan", "commit"}
  OBVIOUS
<1>5. q \in Request /\ q.pc = "commit" /\ KeepsBody(old, q) /\ q.seen = old.seen /\ q.orphan = orphan
  <2> HIDE DEF orphan, old
  <2> QED BY <1>1, <1>3, <1>4 DEF Request, KeepsBody
<1>6. InRange(q)
  BY <1>2, <1>3, <1>5 DEF InRange, KeepsBody
<1>7. CurrentReads(q)
  <2> SUFFICES ASSUME ~q.stale, q.kind \notin {"create", "delete_org"} PROVE CurrentReads(q)
    BY DEF CurrentReads
  <2>0. old.kind = "remove"
    BY <1>2, <1>3 DEF InRange
  <2>1. /\ IsMember(old) /\ old.seen = memberships[old.target].role
        /\ memberships[old.target].role = "owner" => Cardinality(Owners(Org(old))) > 1
    BY <1>2, <1>3, <1>5, <2>0 DEF CurrentReads, KeepsBody
  <2>2. IsMember(q)
    BY <1>5, <2>1 DEF IsMember, Org, KeepsBody
  <2>3. q.seen = memberships[q.target].role /\ q.kind = "remove"
    BY <1>5, <2>0, <2>1 DEF KeepsBody
  <2>4. memberships[q.target].role = "owner" => Cardinality(Owners(Org(q))) > 1
    BY <1>5, <2>1 DEF KeepsBody, Org
  <2>5. ~q.orphan => OtherMemberships(memberships[q.target].user, q.target) # {}
    BY <1>5 DEF KeepsBody
  <2> QED BY <2>2, <2>3, <2>4, <2>5 DEF CurrentReads
<1> QED BY <1>2, <1>5, <1>6, <1>7, Advances DEF Reads

-----------------------------------------------------------------------------
(* The steps that commit. *)

\* What is known when a request commits and nobody has committed since it read.
LEMMA CleanFacts ==
    ASSUME MembersInv, clean
    PROVE  /\ \A o \in orgs : Owned(memberships, o)
           /\ \A u \in accounts : Tied(memberships, orgs, u)
BY HoldFlat DEF MembersInv, MembershipsHold

\* A membership is created, and the account with it if there is none.
LEMMA CreateKeeps ==
    ASSUME MembersInv, NEW r \in Requests, requests[r].pc = "commit",
           CommitCreate(r, requests[r])
    PROVE  MembersInv'
<1>1. CASE Refused(r)
  BY <1>1, RefusedKeeps
<1>2. CASE ~Refused(r)
  <2> DEFINE q == requests[r]
  <2>1. PICK status \in Statuses :
              /\ memberships' = Append(memberships, [user |-> q.user, org |-> Org(q),
                                             role |-> q.to, status |-> status])
              /\ accounts' = accounts \cup {q.user}
              /\ Commits(r)
              /\ UNCHANGED <<sessions, orgs>>
    <3>1. \E status \in (IF q.known THEN {"active"} ELSE Statuses) :
              /\ memberships' = Append(memberships, [user |-> q.user, org |-> Org(q),
                                             role |-> q.to, status |-> status])
              /\ accounts' = accounts \cup {q.user}
              /\ Commits(r)
              /\ UNCHANGED <<sessions, orgs>>
      BY <1>2 DEF CommitCreate
    <3>2. "active" \in Statuses
      BY DEF Statuses
    <3> QED BY <3>1, <3>2
  <2>2. PICK row : row = [user |-> q.user, org |-> Org(q), role |-> q.to, status |-> status]
    OBVIOUS
  <2>3. row \in Membership /\ row.user = q.user /\ row.role # "gone"
    <3>1. q.user \in Persons /\ q.to \in Roles
      BY RequestFacts, RequestType
    <3>2. Org(q) \in Orgs
      BY RequestFacts DEF InRange, Org, Membership
    <3>3. PICK o : o = Org(q)
      OBVIOUS
    <3> QED BY <2>2, <3>1, <3>2, <3>3 DEF Membership, Roles
  <2>4. memberships' = Append(memberships, row) /\ memberships \in Seq(Membership)
    BY <2>1, <2>2, RequestFacts
  <2>5. /\ memberships' \in Seq(Membership) /\ DOMAIN memberships \subseteq DOMAIN memberships'
        /\ \A o : Owned(memberships, o) => Owned(memberships', o)
        /\ \A os, u : Tied(memberships, os, u) \/ row.user = u => Tied(memberships', os, u)
    BY <2>3, <2>4, RowAdded
  <2>6. accounts' \subseteq Persons /\ sessions' \subseteq Persons /\ orgs' \subseteq Orgs
    <3>1. q.user \in Persons
      BY RequestFacts, RequestType
    <3> QED BY <2>1, <3>1 DEF MembersInv, MembersTypeOK
  <2>7. clean' => /\ \A o \in orgs' : Owned(memberships', o)
                  /\ \A u \in accounts' : Tied(memberships', orgs', u)
    <3> SUFFICES ASSUME clean' PROVE /\ \A o \in orgs' : Owned(memberships', o)
                                     /\ \A u \in accounts' : Tied(memberships', orgs', u)
      OBVIOUS
    <3>1. clean
      BY <2>1, CommitsType
    <3> QED BY <2>1, <2>3, <2>5, <3>1, CleanFacts
  <2> QED BY <2>1, <2>5, <2>6, <2>7, Committed, CommitsType
<1> QED BY <1>1, <1>2

\* A row is written, and the accounts and organizations stay: it suffices that an
\* owner remains who has been one, if the row was an owner's.
LEMMA WriteKeeps ==
    ASSUME MembersInv, NEW r \in Requests, requests[r].pc = "commit", Commits(r),
           NEW t \in DOMAIN memberships, NEW row \in Membership,
           row.org = memberships[t].org, row.user = memberships[t].user,
           memberships' = [memberships EXCEPT ![t] = row],
           UNCHANGED orgs, accounts' \subseteq accounts, sessions' \subseteq sessions,
           ~requests[r].stale =>
              /\ \/ row.role = "owner" \/ memberships[t].role # "owner"
                 \/ AlsoOwned(memberships, t, memberships[t].org)
              /\ \/ row.role # "gone" \/ row.role = memberships[t].role
                 \/ memberships[t].user \notin accounts'
                 \/ AlsoTied(memberships, t, memberships[t].user)
    PROVE  MembersInv'
<1>0. memberships \in Seq(Membership)
  BY RequestFacts
<1>1. /\ memberships' \in Seq(Membership) /\ DOMAIN memberships' = DOMAIN memberships
      /\ \A o : /\ Owned(memberships, o)
                /\ \/ row.role = "owner" \/ memberships[t].role # "owner" \/ memberships[t].org # o
                   \/ AlsoOwned(memberships, t, o)
                => Owned(memberships', o)
      /\ \A os, u : /\ Tied(memberships, os, u)
                    /\ \/ row.role # "gone" \/ memberships[t].user # u \/ row.role = memberships[t].role
                       \/ AlsoTied(memberships, t, u)
                    => Tied(memberships', os, u)
  <2>1. PICK m : m = memberships
    OBVIOUS
  <2>2. PICK n : n = memberships'
    OBVIOUS
  <2>3. /\ m \in Seq(Membership) /\ t \in DOMAIN m /\ row.org = m[t].org /\ row.user = m[t].user
        /\ n = [m EXCEPT ![t] = row]
    BY <1>0, <2>1, <2>2
  <2>4. /\ n \in Seq(Membership) /\ DOMAIN n = DOMAIN m
        /\ \A o : /\ Owned(m, o)
                  /\ \/ row.role = "owner" \/ m[t].role # "owner" \/ m[t].org # o
                     \/ AlsoOwned(m, t, o)
                  => Owned(n, o)
        /\ \A os, u : /\ Tied(m, os, u)
                      /\ \/ row.role # "gone" \/ m[t].user # u \/ row.role = m[t].role
                         \/ AlsoTied(m, t, u)
                      => Tied(n, os, u)
    BY <2>3, RowWritten, Zenon
  <2> QED BY <2>1, <2>2, <2>4
<1>2. accounts' \subseteq Persons /\ sessions' \subseteq Persons /\ orgs' \subseteq Orgs
  BY DEF MembersInv, MembersTypeOK
<1>3. clean' => /\ \A o \in orgs' : Owned(memberships', o)
                /\ \A u \in accounts' : Tied(memberships', orgs', u)
  <2> SUFFICES ASSUME clean' PROVE /\ \A o \in orgs' : Owned(memberships', o)
                                   /\ \A u \in accounts' : Tied(memberships', orgs', u)
    OBVIOUS
  <2>1. clean /\ ~requests[r].stale
    BY CommitsType
  <2>2. /\ \A o \in orgs : Owned(memberships, o)
        /\ \A u \in accounts : Tied(memberships, orgs, u)
    BY <2>1, CleanFacts
  <2>3. ASSUME NEW o \in orgs' PROVE Owned(memberships', o)
    BY <1>1, <2>1, <2>2
  <2>4. ASSUME NEW u \in accounts' PROVE Tied(memberships', orgs', u)
    BY <1>1, <2>1, <2>2
  <2> QED BY <2>3, <2>4
<1> QED BY <1>1, <1>2, <1>3, Committed, CommitsType

\* An owner whose organization has more than one leaves another behind.
LEMMA AnotherOwner ==
    ASSUME memberships \in Seq(Membership), NEW t \in DOMAIN memberships,
           Cardinality(Owners(memberships[t].org)) > 1
    PROVE  AlsoOwned(memberships, t, memberships[t].org)
<1>1. PICK j \in Owners(memberships[t].org) : j # t
  <2>1. PICK S : S = Owners(memberships[t].org)
    OBVIOUS
  <2>2. IsFiniteSet(S) /\ Cardinality(S) > 1
    BY <2>1, OwnersFinite
  <2>3. PICK j \in S : j # t
    BY <2>2, AnotherOne
  <2> QED
    BY <2>1, <2>3
<1> QED BY <1>1 DEF Owners, MembersOf, AlsoOwned

\* A role is changed: of an owner only if there is another.
LEMMA RoleKeeps ==
    ASSUME MembersInv, NEW r \in Requests, requests[r].pc = "commit",
           CommitRole(r, requests[r])
    PROVE  MembersInv'
<1>1. CASE Refused(r)
  BY <1>1, RefusedKeeps
<1>2. CASE ~Refused(r)
  <2> DEFINE q == requests[r]
             t == q.target
  <2>1. /\ memberships' = [memberships EXCEPT ![t] = [memberships[t] EXCEPT !.role = q.to]]
        /\ Commits(r) /\ UNCHANGED <<accounts, sessions, orgs>> /\ q.kind = "update_role"
    BY <1>2 DEF CommitRole
  <2>2. PICK row : row = [memberships[t] EXCEPT !.role = q.to]
    OBVIOUS
  <2>3. /\ t \in DOMAIN memberships /\ memberships[t] \in Membership
        /\ memberships \in Seq(Membership) /\ CurrentReads(q)
    BY <2>1, RequestFacts DEF InRange
  <2>4. q.to \in Roles
    BY RequestFacts, RequestType
  <2>5. row \in Membership /\ row.org = memberships[t].org /\ row.user = memberships[t].user
        /\ row.role # "gone"
    BY <2>2, <2>3, <2>4 DEF Membership, Roles
  <2>6. ~q.stale => \/ memberships[t].role # "owner"
                    \/ AlsoOwned(memberships, t, memberships[t].org)
    <3> SUFFICES ASSUME ~q.stale, memberships[t].role = "owner"
                 PROVE  AlsoOwned(memberships, t, memberships[t].org)
      OBVIOUS
    <3>1. Cardinality(Owners(Org(q))) > 1 /\ IsMember(q)
      BY <2>1, <2>3 DEF CurrentReads
    <3>2. Org(q) = memberships[t].org
      BY <3>1 DEF IsMember, MembersOf
    <3> QED BY <2>3, <3>1, <3>2, AnotherOwner
  <2>7. memberships' = [memberships EXCEPT ![t] = row]
    BY <2>1, <2>2
  <2>8. UNCHANGED orgs /\ accounts' \subseteq accounts /\ sessions' \subseteq sessions
    BY <2>1
  <2> HIDE DEF t
  <2> QED BY <2>1, <2>3, <2>5, <2>6, <2>7, <2>8, WriteKeeps, ZenonT(60)
<1> QED BY <1>1, <1>2

\* A password is reset: who owns and who belongs is as before.
LEMMA ResetKeeps ==
    ASSUME MembersInv, NEW r \in Requests, requests[r].pc = "commit",
           CommitReset(r, requests[r])
    PROVE  MembersInv'
<1>1. CASE Refused(r)
  BY <1>1, RefusedKeeps
<1>2. CASE ~Refused(r)
  <2> DEFINE q == requests[r]
             t == q.target
  <2>1. /\ memberships' = IF q.fresh THEN memberships
                          ELSE [memberships EXCEPT ![t] = [memberships[t] EXCEPT !.status = "pending"]]
        /\ Commits(r) /\ UNCHANGED <<accounts, sessions, orgs>> /\ q.kind = "reset_password"
    BY <1>2 DEF CommitReset
  <2>2. PICK row : row = IF q.fresh THEN memberships[t] ELSE [memberships[t] EXCEPT !.status = "pending"]
    OBVIOUS
  <2>3. /\ t \in DOMAIN memberships /\ memberships[t] \in Membership
        /\ memberships \in Seq(Membership)
    BY <2>1, RequestFacts DEF InRange
  <2>4. row \in Membership /\ row.org = memberships[t].org /\ row.user = memberships[t].user
        /\ row.role = memberships[t].role
    BY <2>2, <2>3 DEF Membership, Statuses
  <2>5. memberships' = [memberships EXCEPT ![t] = row]
    <3>1. memberships = [memberships EXCEPT ![t] = memberships[t]]
      <4>1. memberships \in [1..Len(memberships) -> Membership]
        BY <2>3, LenProperties
      <4> QED BY <2>3, <4>1
    <3> QED BY <2>1, <2>2, <3>1
  <2>6. UNCHANGED orgs /\ accounts' \subseteq accounts /\ sessions' \subseteq sessions
    BY <2>1
  <2>7. row.role # "gone" \/ row.role = memberships[t].role
    BY <2>4
  <2>8. row.role = "owner" \/ memberships[t].role # "owner"
    BY <2>4
  <2> HIDE DEF t
  <2> QED BY <2>1, <2>3, <2>4, <2>5, <2>6, <2>7, <2>8, WriteKeeps, Zenon
<1> QED BY <1>1, <1>2

\* A membership is removed: an owner's only if there is another, and a user's last
\* one with the account.
LEMMA RemoveKeeps ==
    ASSUME MembersInv, NEW r \in Requests, requests[r].pc = "commit",
           CommitRemove(r, requests[r])
    PROVE  MembersInv'
<1>1. CASE Refused(r)
  BY <1>1, RefusedKeeps
<1>2. CASE ~Refused(r)
  <2> DEFINE q == requests[r]
             t == q.target
             u == memberships[t].user
  <2>1. /\ memberships' = [memberships EXCEPT ![t] = [memberships[t] EXCEPT !.role = "gone"]]
        /\ accounts' = IF q.orphan THEN accounts \ {u} ELSE accounts
        /\ sessions' = IF q.orphan THEN sessions \ {u} ELSE sessions
        /\ Commits(r) /\ UNCHANGED orgs /\ q.kind = "remove"
    BY <1>2 DEF CommitRemove
  <2>2. PICK row : row = [memberships[t] EXCEPT !.role = "gone"]
    OBVIOUS
  <2>3. /\ t \in DOMAIN memberships /\ memberships[t] \in Membership
        /\ memberships \in Seq(Membership) /\ CurrentReads(q)
    BY <2>1, RequestFacts DEF InRange
  <2>4. row \in Membership /\ row.org = memberships[t].org /\ row.user = memberships[t].user
    BY <2>2, <2>3 DEF Membership
  <2>5. ~q.stale => memberships[t].role # "owner" \/ AlsoOwned(memberships, t, memberships[t].org)
    <3> SUFFICES ASSUME ~q.stale, memberships[t].role = "owner"
                 PROVE  AlsoOwned(memberships, t, memberships[t].org)
      OBVIOUS
    <3>1. Cardinality(Owners(Org(q))) > 1 /\ IsMember(q)
      BY <2>1, <2>3 DEF CurrentReads
    <3>2. Org(q) = memberships[t].org
      BY <3>1 DEF IsMember, MembersOf
    <3> QED BY <2>3, <3>1, <3>2, AnotherOwner
  <2>6. ~q.stale => u \notin accounts' \/ AlsoTied(memberships, t, u)
    <3> SUFFICES ASSUME ~q.stale, ~q.orphan PROVE AlsoTied(memberships, t, u)
      BY <2>1
    <3>1. OtherMemberships(u, t) # {}
      BY <2>1, <2>3 DEF CurrentReads
    <3> QED BY <3>1 DEF OtherMemberships, HeldBy, Present, AlsoTied
  <2>7. memberships' = [memberships EXCEPT ![t] = row]
    BY <2>1, <2>2
  <2>8. UNCHANGED orgs /\ accounts' \subseteq accounts /\ sessions' \subseteq sessions
    BY <2>1
  <2> HIDE DEF t
  <2> QED BY <2>1, <2>3, <2>4, <2>5, <2>6, <2>7, <2>8, WriteKeeps, ZenonT(60)
<1> QED BY <1>1, <1>2

\* Rows get other roles, and nothing else.
LEMMA RolesWritten ==
    ASSUME NEW m \in Seq(Membership), NEW n, DOMAIN n = DOMAIN m,
           n = [i \in DOMAIN m |-> n[i]],
           \A i \in DOMAIN m : n[i] \in Membership
    PROVE  n \in Seq(Membership)
<1>1. Len(m) \in Nat /\ DOMAIN m = 1..Len(m)
  BY LenProperties
<1>2. n \in [1..Len(m) -> Membership]
  BY <1>1
<1> QED BY <1>1, <1>2, SeqDef

\* The ownership is handed over: the organization keeps an owner, the new one.
LEMMA TransferKeeps ==
    ASSUME MembersInv, NEW r \in Requests, requests[r].pc = "commit",
           CommitTransfer(r, requests[r])
    PROVE  MembersInv'
<1>1. CASE Refused(r)
  BY <1>1, RefusedKeeps
<1>2. CASE ~Refused(r)
  <2> DEFINE q == requests[r]
  <2>1. /\ memberships' = [i \in DOMAIN memberships |->
                  IF i = q.as /\ q.role # "admin" THEN [memberships[i] EXCEPT !.role = "admin"]
                  ELSE IF i = q.target /\ q.seen # "owner"
                       THEN [memberships[i] EXCEPT !.role = "owner"] ELSE memberships[i]]
        /\ Commits(r) /\ UNCHANGED <<accounts, sessions, orgs>>
        /\ q.kind = "transfer_ownership"
        /\ Present(q.as) \/ q.role = "admin"
    BY <1>2 DEF CommitTransfer
  <2>2. /\ q.target \in DOMAIN memberships /\ q.as \in DOMAIN memberships
        /\ memberships \in Seq(Membership) /\ CurrentReads(q)
        /\ \A i \in DOMAIN memberships : memberships[i] \in Membership
    BY <2>1, RequestFacts DEF InRange
  <2>3. DOMAIN memberships' = DOMAIN memberships
    BY <2>1
  <2>4. ASSUME NEW i \in DOMAIN memberships
        PROVE  /\ memberships'[i] \in Membership
               /\ memberships'[i].org = memberships[i].org
               /\ memberships'[i].user = memberships[i].user
               /\ memberships'[i].role \in {"owner", "admin", memberships[i].role}
               /\ i # q.as \/ q.role = "admin" =>
                     memberships'[i].role \in {"owner", memberships[i].role}
               /\ i = q.target /\ i # q.as /\ q.seen # "owner" => memberships'[i].role = "owner"
    <3>1. memberships[i] \in Membership
      BY <2>2
    <3>2. CASE i = q.as /\ q.role # "admin"
      <4>1. memberships'[i] = [memberships[i] EXCEPT !.role = "admin"]
        BY <2>1, <3>2
      <4> QED BY <3>1, <3>2, <4>1 DEF Membership, Roles
    <3>3. CASE ~(i = q.as /\ q.role # "admin") /\ i = q.target /\ q.seen # "owner"
      <4>1. memberships'[i] = [memberships[i] EXCEPT !.role = "owner"]
        BY <2>1, <3>3
      <4> QED BY <3>1, <3>3, <4>1 DEF Membership, Roles
    <3>4. CASE ~(i = q.as /\ q.role # "admin") /\ ~(i = q.target /\ q.seen # "owner")
      <4>1. memberships'[i] = memberships[i]
        BY <2>1, <3>4
      <4> QED BY <3>1, <3>4, <4>1
    <3> QED BY <3>2, <3>3, <3>4
  <2>5. memberships' \in Seq(Membership)
    <3>1. memberships' = [i \in DOMAIN memberships |-> memberships'[i]]
      BY <2>1
    <3>2. PICK m : m = memberships
      OBVIOUS
    <3>3. PICK n : n = memberships'
      OBVIOUS
    <3>4. /\ m \in Seq(Membership) /\ DOMAIN n = DOMAIN m /\ n = [i \in DOMAIN m |-> n[i]]
          /\ \A i \in DOMAIN m : n[i] \in Membership
      BY <2>2, <2>3, <2>4, <3>1, <3>2, <3>3
    <3>5. n \in Seq(Membership)
      BY <3>4, RolesWritten
    <3> QED BY <3>3, <3>5
  <2>6. clean' => /\ \A o \in orgs' : Owned(memberships', o)
                  /\ \A u \in accounts' : Tied(memberships', orgs', u)
    <3> SUFFICES ASSUME clean' PROVE /\ \A o \in orgs' : Owned(memberships', o)
                                     /\ \A u \in accounts' : Tied(memberships', orgs', u)
      OBVIOUS
    <3>1. clean /\ ~q.stale
      BY <2>1, CommitsType
    <3>2. /\ \A o \in orgs : Owned(memberships, o)
          /\ \A u \in accounts : Tied(memberships, orgs, u)
      BY <3>1, CleanFacts
    <3>3. IsMember(q) /\ q.seen = memberships[q.target].role /\ q.target # q.as
      BY <2>1, <2>2, <3>1 DEF CurrentReads
    <3>4. memberships'[q.target].role = "owner" /\ memberships[q.target].org = memberships[q.as].org
      BY <2>2, <2>4, <3>3 DEF IsMember, MembersOf, Org
    <3>5. ASSUME NEW o \in orgs' PROVE Owned(memberships', o)
      <4>1. PICK i \in DOMAIN memberships : memberships[i].org = o /\ memberships[i].role = "owner"
        BY <2>1, <3>2 DEF Owned
      <4>2. CASE i = q.as
        BY <2>2, <2>3, <2>4, <3>4, <4>1, <4>2 DEF Owned
      <4>3. CASE i # q.as
        BY <2>3, <2>4, <4>1, <4>3 DEF Owned
      <4> QED BY <4>2, <4>3
    <3>6. ASSUME NEW u \in accounts' PROVE Tied(memberships', orgs', u)
      <4>1. PICK i \in DOMAIN memberships :
               memberships[i].user = u /\ (memberships[i].role # "gone" \/ memberships[i].org \notin orgs)
        BY <2>1, <3>2 DEF Tied
      <4>2. memberships[i].role # "gone" => memberships'[i].role # "gone"
        BY <2>4
      <4> QED BY <2>1, <2>3, <2>4, <4>1, <4>2 DEF Tied
    <3> QED BY <3>5, <3>6
  <2>7. accounts' \subseteq Persons /\ sessions' \subseteq Persons /\ orgs' \subseteq Orgs
    BY <2>1 DEF MembersInv, MembersTypeOK
  <2> QED BY <2>1, <2>3, <2>5, <2>6, <2>7, Committed, CommitsType
<1> QED BY <1>1, <1>2

\* An organization is deleted: who had a membership of it has lost it with it.
LEMMA DeleteKeeps ==
    ASSUME MembersInv, NEW r \in Requests, requests[r].pc = "commit",
           CommitDelete(r, requests[r])
    PROVE  MembersInv'
<1> DEFINE q == requests[r]
<1>1. PICK x : x = Org(q)
  OBVIOUS
<1>2. /\ memberships' = [i \in DOMAIN memberships |->
                     IF memberships[i].org = x THEN [memberships[i] EXCEPT !.role = "gone"]
                     ELSE memberships[i]]
      /\ orgs' = orgs \ {x} /\ Commits(r) /\ UNCHANGED <<accounts, sessions>>
  BY <1>1 DEF CommitDelete
<1>3. /\ memberships \in Seq(Membership)
      /\ \A i \in DOMAIN memberships : memberships[i] \in Membership
  BY RequestFacts
<1>4. DOMAIN memberships' = DOMAIN memberships
  BY <1>2
<1>5. ASSUME NEW i \in DOMAIN memberships
      PROVE  /\ memberships'[i] \in Membership
             /\ memberships'[i].org = memberships[i].org
             /\ memberships'[i].user = memberships[i].user
             /\ memberships[i].org # x => memberships'[i].role = memberships[i].role
  <2>1. memberships[i] \in Membership
    BY <1>3
  <2>2. CASE memberships[i].org = x
    <3>1. memberships'[i] = [memberships[i] EXCEPT !.role = "gone"]
      BY <1>2, <2>2
    <3> QED BY <2>1, <2>2, <3>1 DEF Membership
  <2>3. CASE memberships[i].org # x
    <3>1. memberships'[i] = memberships[i]
      BY <1>2, <2>3
    <3> QED BY <2>1, <3>1
  <2> QED BY <2>2, <2>3
<1>6. memberships' \in Seq(Membership)
  <2>1. memberships' = [i \in DOMAIN memberships |-> memberships'[i]]
    BY <1>2
  <2>2. PICK m : m = memberships
    OBVIOUS
  <2>3. PICK n : n = memberships'
    OBVIOUS
  <2>4. /\ m \in Seq(Membership) /\ DOMAIN n = DOMAIN m /\ n = [i \in DOMAIN m |-> n[i]]
        /\ \A i \in DOMAIN m : n[i] \in Membership
    BY <1>3, <1>4, <1>5, <2>1, <2>2, <2>3
  <2>5. n \in Seq(Membership)
    BY <2>4, RolesWritten
  <2> QED BY <2>3, <2>5
<1>7. clean' => /\ \A o \in orgs' : Owned(memberships', o)
                /\ \A u \in accounts' : Tied(memberships', orgs', u)
  <2> SUFFICES ASSUME clean' PROVE /\ \A o \in orgs' : Owned(memberships', o)
                                   /\ \A u \in accounts' : Tied(memberships', orgs', u)
    OBVIOUS
  <2>1. /\ \A o \in orgs : Owned(memberships, o)
        /\ \A u \in accounts : Tied(memberships, orgs, u)
    BY <1>2, CommitsType, CleanFacts
  <2>2. ASSUME NEW o \in orgs' PROVE Owned(memberships', o)
    BY <1>2, <1>4, <1>5, <2>1 DEF Owned
  <2>3. ASSUME NEW u \in accounts' PROVE Tied(memberships', orgs', u)
    BY <1>2, <1>4, <1>5, <2>1 DEF Tied
  <2> QED BY <2>2, <2>3
<1>8. accounts' \subseteq Persons /\ sessions' \subseteq Persons /\ orgs' \subseteq Orgs
  BY <1>2 DEF MembersInv, MembersTypeOK
<1> QED BY <1>2, <1>4, <1>6, <1>7, <1>8, Committed, CommitsType

\* Somebody registers, and owns an organization nobody has been a member of.
LEMMA RegisterKeeps == ASSUME MembersInv, Register PROVE MembersInv'
<1>1. PICK u \in Persons \ accounts, o \in Orgs \ orgs :
         /\ \A i \in DOMAIN memberships : memberships[i].org # o
         /\ accounts' = accounts \cup {u}
         /\ orgs' = orgs \cup {o}
         /\ memberships' = Append(memberships, [user |-> u, org |-> o, role |-> "owner",
                                        status |-> "active"])
  BY DEF Register
<1>2. PICK row : row = [user |-> u, org |-> o, role |-> "owner", status |-> "active"]
  OBVIOUS
<1>3. row \in Membership /\ row.user = u /\ row.org = o /\ row.role = "owner"
  BY <1>2 DEF Membership, Roles, Statuses
<1>4. memberships \in Seq(Membership) /\ memberships' = Append(memberships, row)
  BY <1>1, <1>2 DEF MembersInv, MembersTypeOK
<1>5. /\ memberships' \in Seq(Membership) /\ DOMAIN memberships \subseteq DOMAIN memberships'
      /\ \A p : Owned(memberships, p) \/ p = o => Owned(memberships', p)
      /\ \A os, v : Tied(memberships, os, v) \/ v = u => Tied(memberships', os, v)
  BY <1>3, <1>4, RowAdded
<1>6. ASSUME NEW p \in Requests
      PROVE  /\ requests'[p] \in Request
             /\ \/ requests'[p].pc = "idle"
                \/ /\ requests[p].pc # "idle" /\ requests'[p].stale
                   /\ requests'[p].as = requests[p].as
                   /\ requests'[p].target = requests[p].target
                   /\ requests'[p].kind = requests[p].kind /\ requests'[p].pc = requests[p].pc
  <2>1. requests[p] \in Request
    BY DEF MembersInv, MembersTypeOK
  <2>2. CASE requests[p].pc = "idle"
    BY <2>1, <2>2 DEF Register
  <2>3. CASE requests[p].pc # "idle"
    <3>1. requests'[p] = [requests[p] EXCEPT !.stale = TRUE]
      BY <2>3 DEF Register
    <3> QED BY <2>1, <2>3, <3>1, StaleType
  <2> QED BY <2>2, <2>3
<1>7. requests' \in [Requests -> Request]
  <2> DEFINE F == [p \in Requests |-> IF requests[p].pc = "idle" THEN requests[p]
                                      ELSE [requests[p] EXCEPT !.stale = TRUE]]
  <2>1. requests' = F /\ F = [p \in Requests |-> F[p]]
    BY DEF Register
  <2>2. \A p \in Requests : F[p] \in Request
    BY <1>6, <2>1
  <2> HIDE DEF F
  <2> QED BY <2>1, <2>2
<1>8. clean' => /\ \A p \in orgs' : Owned(memberships', p)
                /\ \A v \in accounts' : Tied(memberships', orgs', v)
  <2> SUFFICES ASSUME clean' PROVE /\ \A p \in orgs' : Owned(memberships', p)
                                   /\ \A v \in accounts' : Tied(memberships', orgs', v)
    OBVIOUS
  <2>1. /\ \A p \in orgs : Owned(memberships, p)
        /\ \A v \in accounts : Tied(memberships, orgs, v)
    BY CleanFacts DEF Register
  <2>2. \A p \in orgs' : Owned(memberships', p)
    BY <1>1, <1>5, <2>1
  <2>3. ASSUME NEW v \in accounts' PROVE Tied(memberships', orgs', v)
    <3>1. CASE v = u
      BY <1>5, <3>1
    <3>2. CASE v # u
      <4>1. Tied(memberships, orgs, v)
        BY <1>1, <2>1, <3>2
      <4>2. Tied(memberships, orgs', v)
        BY <1>1, <4>1 DEF Tied
      <4> QED BY <1>5, <4>2
    <3> QED BY <3>1, <3>2
  <2> QED BY <2>2, <2>3
<1>9. accounts' \subseteq Persons /\ sessions' \subseteq Persons /\ orgs' \subseteq Orgs /\ clean' \in BOOLEAN
  BY <1>1 DEF MembersInv, MembersTypeOK, Register
<1> QED BY <1>5, <1>6, <1>7, <1>8, <1>9, Committed

\* Somebody signs in or out, or nothing happens: memberships have nothing to do with it.
LEMMA SessionKeeps ==
    ASSUME MembersInv, sessions' \subseteq Persons,
           UNCHANGED <<accounts, orgs, memberships, requests, clean>>
    PROVE  MembersInv'
<1>1. MembersTypeOK' /\ MembershipsHold'
  BY HoldFlat, HoldFlatNext DEF MembersInv, MembersTypeOK, MembershipsHold
<1>2. \A o : Owners(o)' = Owners(o)
  BY DEF Owners, MembersOf, Present
<1>3. ASSUME NEW p \in Requests PROVE (InRange(requests[p]) /\ CurrentReads(requests[p]))'
  <2>1. PICK v : v = requests'[p]
    OBVIOUS
  <2>2. InRange(v) /\ CurrentReads(v)
    BY <2>1 DEF MembersInv, ReadingInv
  <2>3. InRange(requests[p])'
    BY <2>1, <2>2 DEF InRange
  <2>4. CurrentReads(requests[p])'
    BY <1>2, <2>1, <2>2 DEF CurrentReads, IsMember, MembersOf, Present, Org, OtherMemberships, HeldBy
  <2> QED BY <2>3, <2>4
<1> QED BY <1>1, <1>3 DEF MembersInv, ReadingInv

-----------------------------------------------------------------------------
(* The theorems. *)

\* The memberships there are at first.
LEMMA MembersInitially == MembersInit => MembersInv
<1> SUFFICES ASSUME MembersInit PROVE MembersInv
  OBVIOUS
<1>1. /\ Founding \in Seq([user : Persons, org : Orgs, role : Roles, status : Statuses])
      /\ \A i \in DOMAIN Founding : \E j \in DOMAIN Founding :
            Founding[j].org = Founding[i].org /\ Founding[j].role = "owner"
  BY MembersAssumption
<1>2. ASSUME NEW i \in DOMAIN Founding
      PROVE  /\ Founding[i] \in Membership /\ Founding[i].role # "gone"
             /\ Founding[i].user \in Persons /\ Founding[i].org \in Orgs
  <2>1. Len(Founding) \in Nat /\ DOMAIN Founding = 1..Len(Founding)
    BY <1>1, LenProperties
  <2>2. Founding[i] \in [user : Persons, org : Orgs, role : Roles, status : Statuses]
    BY <1>1, <2>1, ElementOfSeq
  <2> QED BY <2>2 DEF Membership, Roles
<1>3. memberships \in Seq(Membership)
  <2>1. Len(Founding) \in Nat /\ DOMAIN Founding = 1..Len(Founding) /\ Founding = [i \in DOMAIN Founding |-> Founding[i]]
    BY <1>1, LenProperties
  <2>2. Founding \in [1..Len(Founding) -> Membership]
    BY <1>2, <2>1
  <2>3. Founding \in Seq(Membership)
    BY <2>1, <2>2, SeqDef
  <2> QED BY <2>3 DEF MembersInit
<1>4. MembersTypeOK
  BY <1>2, <1>3, NoRequestType DEF MembersInit, MembersTypeOK
<1>5. ReadingInv
  BY NoRequestType DEF MembersInit, ReadingInv, InRange, CurrentReads
<1>6. \A o \in orgs : Owned(memberships, o)
  BY <1>1 DEF MembersInit, Owned
<1>7. \A u \in accounts : Tied(memberships, orgs, u)
  BY <1>2 DEF MembersInit, Tied
<1> QED BY <1>4, <1>5, <1>6, <1>7, HoldFlat DEF MembersInv, MembershipsHold

\* Every step keeps the invariant.
LEMMA MembersStep == MembersInv /\ [MembersNext]_membersVars => MembersInv'
<1> SUFFICES ASSUME MembersInv, [MembersNext]_membersVars PROVE MembersInv'
  OBVIOUS
<1>1. ASSUME NEW r \in Requests, BeginRequest(r) PROVE MembersInv'
  BY <1>1, BeginKeeps
<1>2. ASSUME NEW r \in Requests, ReadRequest(r) PROVE MembersInv'
  BY <1>2, ReadAccountKeeps, ReadMemberKeeps, ReadOrgKeeps DEF ReadRequest
<1>3. ASSUME NEW r \in Requests, CountOwners(r) PROVE MembersInv'
  BY <1>3, CountOwnersKeeps
<1>4. ASSUME NEW r \in Requests, CountMemberships(r) PROVE MembersInv'
  BY <1>4, CountMembershipsKeeps
<1>5. ASSUME NEW r \in Requests, CommitRequest(r) PROVE MembersInv'
  BY <1>5, CreateKeeps, RoleKeeps, ResetKeeps, RemoveKeeps, TransferKeeps, DeleteKeeps
     DEF CommitRequest
<1>6. CASE Register
  BY <1>6, RegisterKeeps
<1>7. CASE Login
  <2>1. sessions' \subseteq Persons
    BY <1>7 DEF Login, MembersInv, MembersTypeOK
  <2> QED BY <1>7, <2>1, SessionKeeps DEF Login
<1>8. CASE SignOut
  <2>1. sessions' \subseteq Persons
    BY <1>8 DEF SignOut, MembersInv, MembersTypeOK
  <2> QED BY <1>8, <2>1, SessionKeeps DEF SignOut
<1>9. CASE UNCHANGED membersVars
  <2>1. sessions' \subseteq Persons
    BY <1>9 DEF membersVars, MembersInv, MembersTypeOK
  <2> QED BY <1>9, <2>1, SessionKeeps DEF membersVars
<1> QED BY <1>1, <1>2, <1>3, <1>4, <1>5, <1>6, <1>7, <1>8, <1>9 DEF MembersNext

\* As long as no request commits after a commit it did not see, every organization
\* keeps an owner and whoever has an account a membership, or lost it with the
\* organization: update_role, remove, transfer_ownership, delete and register.
THEOREM MembershipsHoldCorrect == MembersSpec => []MembershipsHold
<1>1. MembersSpec => []MembersInv
  BY MembersInitially, MembersStep, PTL DEF MembersSpec
<1>2. MembersInv => MembershipsHold
  BY DEF MembersInv
<1> QED BY <1>1, <1>2, PTL

\* The members API keeps every value in its type.
THEOREM MembersTypeCorrect == MembersSpec => []MembersTypeOK
<1>1. MembersSpec => []MembersInv
  BY MembersInitially, MembersStep, PTL DEF MembersSpec
<1>2. MembersInv => MembersTypeOK
  BY DEF MembersInv
<1> QED BY <1>1, <1>2, PTL
=============================================================================
