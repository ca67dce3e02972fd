------------------------------ MODULE CallRecords ------------------------------
(***************************************************************************)
(* The telephony_calls table and what hangs on it: rows of the calls we    *)
(* place, redial and receive, their agents, their recordings               *)
(* (telephony/service.py, router.py, twilio_client.py).  VoiceCall has the *)
(* course of a single call; here several requests, Twilio's webhooks and   *)
(* restarts of the process meet on the table, whose call_sid, room_name    *)
(* and parent_call_id the database guards.                                 *)
(*                                                                         *)
(* A handler is a coroutine that commits several times; its pc says which  *)
(* step is next.  <<s, 0>> is the row, and the room, of the call we place  *)
(* on leg s; <<s, d>> those the d-th voice webhook makes for leg s.        *)
(***************************************************************************)
EXTENDS Naturals, FiniteSets

CONSTANTS
    Outbound, Inbound,      \* phone legs, by who dials
    Deliveries,             \* deliveries of a webhook about one leg
    TWILIO_MAX_RETRIES,
    RECORDING_DELETE_FROM_TWILIO,
    MaxActs                 \* bound on deletions, new settings and restarts

ASSUME RecordsAssumption ==
    /\ Outbound \cap Inbound = {} /\ 0 \notin Deliveries
    /\ TWILIO_MAX_RETRIES \in Nat /\ MaxActs \in Nat
    /\ RECORDING_DELETE_FROM_TWILIO \in BOOLEAN

VARIABLES
    callRows,       \* telephony_calls
    leg,        \* the phone legs at Twilio
    tape,       \* recordings: at Twilio, in S3
    agents,     \* the registry's runners, per room
    place,      \* initiate_outbound, or the redial before it
    voice,      \* voice webhooks
    taping,     \* recording webhooks
    removal,    \* delete_call
    config,     \* campaigns.voicemail_config
    deleted,    \* legs whose row a user deleted
    acts

recordVars == <<callRows, leg, tape, agents, place, voice, taping, removal,
                config, deleted, acts>>

Legs   == Outbound \cup Inbound
Own(s) == <<s, 0>>
RowIds == (Outbound \X {0}) \cup (Legs \X Deliveries)
NoRoom == <<"none", 0>>

TERMINAL_STATUSES == {"completed", "failed", "canceled"}

\* Per-call voicemail settings: none, or enabled with or without a recording.
NoVoicemail == [enabled |-> FALSE, url |-> FALSE]

NoCallRow == [kept |-> FALSE, room |-> NoRoom, sid |-> FALSE, status |-> "queued",
              parent |-> NoRoom, retry_count |-> 0, execution |-> FALSE,
              voicemail |-> NoVoicemail, recording |-> FALSE, events |-> {}]

NotPlaced == [pc |-> "free", parent |-> NoRoom, retry_count |-> 0,
              execution |-> FALSE, voicemail |-> NoVoicemail]

\* legs are the ones that are used, hooks the deliveries that may come.
RecordsBegin(legs, hooks) ==
    /\ callRows = [r \in RowIds |-> NoCallRow]
    /\ leg = [s \in Legs |->
                 [state |-> IF s \in Inbound \cap legs THEN "up" ELSE "none",
                  recorded |-> FALSE, to |-> NoRoom]]
    /\ tape = [s \in Legs |-> [twilio |-> FALSE, s3 |-> FALSE]]
    /\ agents = [r \in RowIds |-> "none"]
    /\ place = [s \in Outbound |-> [NotPlaced EXCEPT
                   !.pc = IF s \in legs THEN "free" ELSE "raised"]]
    /\ voice = [x \in Legs \X Deliveries |-> IF x \in hooks THEN "due" ELSE "done"]
    /\ taping = voice
    /\ removal = [pc |-> "none", row |-> NoRoom]
    /\ config = NoVoicemail
    /\ deleted = {} /\ acts = 0

RecordsInit == RecordsBegin(Legs, Legs \X Deliveries)

-----------------------------------------------------------------------------
(* The table and the registry, as every handler uses them. *)

\* call_sid is unique: the row a webhook about leg s finds, if any.
BySid(s) == {r \in RowIds : callRows[r].kept /\ callRows[r].sid /\ r[1] = s}

\* An insert violates a unique room_name, or a parent_call_id that is gone.
Insertable(new) ==
    /\ \A r \in RowIds : callRows[r].kept => callRows[r].room # new.room
    /\ new.parent # NoRoom => callRows[new.parent].kept

WithCallStatus(r, status) == [callRows EXCEPT ![r].status = status]

\* _record_event is best-effort: the event of a row that is gone is dropped.
Noted(table, r, type) ==
    IF table[r].kept THEN [table EXCEPT ![r].events = @ \cup {type}] ELSE table

\* register leaves a runner of the same room alone.
RegisterRunner(room) == agents' = [agents EXCEPT ![room] = "on"]
Tell(room)     == agents' = [agents EXCEPT ![room] = IF @ = "on" THEN "told" ELSE @]

\* resolve_voicemail_config under the per-call settings a redial brings along.
Resolved(own) ==
    LET enabled == own.enabled \/ config.enabled
    IN  IF enabled THEN [enabled |-> TRUE, url |-> own.url \/ config.url]
        ELSE NoVoicemail

-----------------------------------------------------------------------------
(* initiate_outbound, and retry before it. *)

PlacePc(s, pc) == place' = [place EXCEPT ![s].pc = pc]

\* Who may have a call placed: the scheduler with its token, or a member.
Principals == {"internal", "tenant"}

\* POST /calls: only the scheduler brings an execution along.
InitiateCall(s) ==
    /\ place[s].pc = "free"
    /\ \E principal \in Principals, execution \in BOOLEAN :
          /\ execution => principal = "internal"
          /\ place' = [place EXCEPT ![s] =
                [NotPlaced EXCEPT !.pc = "resolve", !.execution = execution]]
    /\ UNCHANGED <<callRows, leg, tape, agents, voice, taping, removal, config,
                   deleted, acts>>

\* retry copies what it needs and sleeps; the call may be in any status.
RetryCall(s, r) ==
    /\ place[s].pc = "free"
    /\ callRows[r].kept /\ callRows[r].retry_count < TWILIO_MAX_RETRIES
    /\ place' = [place EXCEPT ![s] =
                   [pc |-> "resolve", parent |-> r,
                    retry_count |-> callRows[r].retry_count + 1,
                    execution |-> FALSE, voicemail |-> callRows[r].voicemail]]
    /\ UNCHANGED <<callRows, leg, tape, agents, voice, taping, removal, config,
                   deleted, acts>>

\* The playbook is loaded, or it is not there; then the voicemail settings.
Resolve(s) ==
    /\ place[s].pc = "resolve"
    /\ \/ PlacePc(s, "raised")
       \/ place' = [place EXCEPT ![s].pc = "insert", ![s].voicemail = Resolved(@)]
    /\ UNCHANGED <<callRows, leg, tape, agents, voice, taping, removal, config,
                   deleted, acts>>

InsertCall(s) ==
    LET new == [NoCallRow EXCEPT !.kept = TRUE, !.room = Own(s),
                                 !.parent = place[s].parent,
                                 !.retry_count = place[s].retry_count,
                                 !.execution = place[s].execution,
                                 !.voicemail = place[s].voicemail]
    IN  /\ place[s].pc = "insert"
        /\ IF Insertable(new)
           THEN callRows' = [callRows EXCEPT ![Own(s)] = new] /\ PlacePc(s, "spawn")
           ELSE PlacePc(s, "raised") /\ UNCHANGED callRows
        /\ UNCHANGED <<leg, tape, agents, voice, taping, removal, config,
                       deleted, acts>>

\* With or without a LiveKit room: its failure is only logged.
SpawnAgent(s) ==
    /\ place[s].pc = "spawn"
    /\ RegisterRunner(Own(s))
    /\ callRows' = Noted(callRows, Own(s), "ai_agent_started")
    /\ PlacePc(s, "originate")
    /\ UNCHANGED <<leg, tape, voice, taping, removal, config, deleted, acts>>

\* create_call; the recording callback is asked for with the recording.
CreateCall(s) ==
    /\ place[s].pc = "originate"
    /\ \E record \in BOOLEAN :
          leg' = [leg EXCEPT ![s].state = "up", ![s].recorded = record]
    /\ PlacePc(s, "posted")
    /\ UNCHANGED <<callRows, tape, agents, voice, taping, removal, config,
                   deleted, acts>>

\* With dummy credentials, outside production, a SID and no leg.
MockOriginate(s) ==
    /\ place[s].pc = "originate"
    /\ PlacePc(s, "posted")
    /\ UNCHANGED <<callRows, leg, tape, agents, voice, taping, removal, config,
                   deleted, acts>>

\* No public URL, dummy credentials in production, or Twilio refuses: the row is
\* marked failed if it is still there.
CreateCallFails(s) ==
    /\ place[s].pc = "originate"
    /\ callRows' = Noted(IF callRows[Own(s)].kept THEN WithCallStatus(Own(s), "failed")
                     ELSE callRows, Own(s), "failed")
    /\ Tell(Own(s))
    /\ PlacePc(s, "raised")
    /\ UNCHANGED <<leg, tape, voice, taping, removal, config, deleted, acts>>

\* _set_sid raises when the row is gone, or when another row has the SID.
SetCallSid(s) ==
    /\ place[s].pc = "posted"
    /\ IF callRows[Own(s)].kept /\ BySid(s) = {}
       THEN /\ callRows' = Noted([callRows EXCEPT ![Own(s)].sid = TRUE,
                                          ![Own(s)].status = "queued"],
                             Own(s), "originated")
            /\ PlacePc(s, "placed")
       ELSE PlacePc(s, "raised") /\ UNCHANGED callRows
    /\ UNCHANGED <<leg, tape, agents, voice, taping, removal, config, deleted,
                   acts>>

-----------------------------------------------------------------------------
(* The voice webhook: what the leg is to do when it is answered. *)

VoicePc(s, d, pc) == voice' = [voice EXCEPT ![<<s, d>>] = pc]

Drops(r, machine) == machine /\ callRows[r].voicemail.enabled /\ callRows[r].voicemail.url

\* The TwiML of the answer reaches a leg that is still up.
Bridge(s, room) ==
    leg' = IF leg[s].state = "up" THEN [leg EXCEPT ![s].to = room] ELSE leg

\* A call we know: a machine gets the recording, a person the agent.
VoiceKnown(s, d) ==
    /\ leg[s].state = "up" /\ voice[<<s, d>>] = "due"
    /\ \E r \in BySid(s), machine \in BOOLEAN :
          IF Drops(r, machine)
          THEN /\ Bridge(s, NoRoom) /\ Tell(callRows[r].room)
               /\ callRows' = Noted(callRows, r, "voicemail_dropped")
          ELSE Bridge(s, callRows[r].room) /\ UNCHANGED <<callRows, agents>>
    /\ VoicePc(s, d, "done")
    /\ UNCHANGED <<tape, place, taping, removal, config, deleted, acts>>

\* No row has the SID: taken for somebody who dials us.
VoiceUnknown(s, d) ==
    /\ leg[s].state = "up" /\ voice[<<s, d>>] = "due" /\ BySid(s) = {}
    /\ VoicePc(s, d, "insert")
    /\ UNCHANGED <<callRows, leg, tape, agents, place, taping, removal, config,
                   deleted, acts>>

\* Slip: every unknown SID gets a room of its own.
RoomAlways(s, d) == <<s, d>>

\* The room of the query string, which create_call put there.
RoomFor(s, d) == IF s \in Outbound THEN Own(s) ELSE <<s, d>>

VoiceInsert(s, d) ==
    LET new == [NoCallRow EXCEPT !.kept = TRUE, !.room = RoomFor(s, d)]
    IN  /\ voice[<<s, d>>] = "insert"
        /\ IF Insertable(new)
           THEN callRows' = [callRows EXCEPT ![<<s, d>>] = new] /\ VoicePc(s, d, "bind")
           ELSE VoicePc(s, d, "raised") /\ UNCHANGED callRows
        /\ UNCHANGED <<leg, tape, agents, place, taping, removal, config, deleted,
                       acts>>

\* _bind_inbound_row: one of two deliveries loses, and leaves its row behind.
VoiceBind(s, d) ==
    /\ voice[<<s, d>>] = "bind"
    /\ IF callRows[<<s, d>>].kept /\ BySid(s) = {}
       THEN /\ callRows' = [callRows EXCEPT ![<<s, d>>].sid = TRUE,
                                    ![<<s, d>>].status = "in-progress"]
            /\ VoicePc(s, d, "register")
       ELSE VoicePc(s, d, "raised") /\ UNCHANGED callRows
    /\ UNCHANGED <<leg, tape, agents, place, taping, removal, config, deleted,
                   acts>>

VoiceRegister(s, d) ==
    /\ voice[<<s, d>>] = "register"
    /\ RegisterRunner(RoomFor(s, d)) /\ Bridge(s, RoomFor(s, d))
    /\ callRows' = Noted(callRows, <<s, d>>, "inbound_received")
    /\ VoicePc(s, d, "done")
    /\ UNCHANGED <<tape, place, taping, removal, config, deleted, acts>>

-----------------------------------------------------------------------------
(* The end of a leg: status and recording webhooks. *)

HangUpLeg(s) ==
    /\ leg[s].state = "up"
    /\ leg' = [leg EXCEPT ![s].state = "over"]
    /\ tape' = [tape EXCEPT ![s].twilio = leg[s].recorded /\ leg[s].to # NoRoom]
    /\ UNCHANGED <<callRows, agents, place, voice, taping, removal, config, deleted,
                   acts>>

\* The last status callback; its steps are VoiceCall's.
FinalStatus(s) ==
    /\ leg[s].state = "over"
    /\ \E r \in BySid(s) :
          /\ callRows[r].status \notin TERMINAL_STATUSES
          /\ callRows' = Noted(WithCallStatus(r, "completed"), r, "ai_agent_stopped")
          /\ Tell(callRows[r].room)
    /\ UNCHANGED <<leg, tape, place, voice, taping, removal, config, deleted,
                   acts>>

TapingPc(s, d, pc) == taping' = [taping EXCEPT ![<<s, d>>] = pc]

\* A recording of an unknown SID stays where it is.
RecordingDone(s, d) ==
    /\ taping[<<s, d>>] = "due" /\ leg[s].state = "over"
    /\ leg[s].recorded /\ leg[s].to # NoRoom
    /\ TapingPc(s, d, IF BySid(s) = {} THEN "done" ELSE "upload")
    /\ UNCHANGED <<callRows, leg, tape, agents, place, voice, removal, config, deleted,
                   acts>>

\* Slip: a failed upload is not an early return.
UploadRegardless(s, d) ==
    /\ taping[<<s, d>>] = "upload"
    /\ \/ tape[s].twilio /\ tape' = [tape EXCEPT ![s].s3 = TRUE]
       \/ UNCHANGED tape
    /\ TapingPc(s, d, "store")
    /\ UNCHANGED <<callRows, leg, agents, place, voice, removal, config, deleted,
                   acts>>

\* upload_from_url fails also when another delivery has removed the source.
Upload(s, d) ==
    /\ taping[<<s, d>>] = "upload"
    /\ \/ /\ tape[s].twilio
          /\ tape' = [tape EXCEPT ![s].s3 = TRUE]
          /\ TapingPc(s, d, "store")
       \/ TapingPc(s, d, "done") /\ UNCHANGED tape
    /\ UNCHANGED <<callRows, leg, agents, place, voice, removal, config, deleted,
                   acts>>

\* update_recording and its event, in one transaction on the row found again.
StoreRecording(s, d) ==
    /\ taping[<<s, d>>] = "store"
    /\ callRows' = [r \in RowIds |-> IF r \in BySid(s)
                   THEN [callRows[r] EXCEPT !.recording = TRUE,
                                        !.events = @ \cup {"recording_uploaded"}]
                   ELSE callRows[r]]
    /\ TapingPc(s, d, IF RECORDING_DELETE_FROM_TWILIO THEN "remove" ELSE "done")
    /\ UNCHANGED <<leg, tape, agents, place, voice, removal, config, deleted,
                   acts>>

RemoveFromTwilio(s, d) ==
    /\ taping[<<s, d>>] = "remove"
    /\ \/ tape' = [tape EXCEPT ![s].twilio = FALSE]
       \/ UNCHANGED tape
    /\ TapingPc(s, d, "done")
    /\ UNCHANGED <<callRows, leg, agents, place, voice, removal, config, deleted,
                   acts>>

-----------------------------------------------------------------------------
(* Users; the process. *)

Acts == acts < MaxActs /\ acts' = acts + 1

\* A live call is cancelled first; its leg only if the row has the SID.
RemoveCall(r) ==
    /\ removal.pc = "none" /\ callRows[r].kept /\ Acts
    /\ IF callRows[r].status \in TERMINAL_STATUSES
       THEN UNCHANGED <<callRows, leg, tape, agents>>
       ELSE /\ callRows' = Noted(WithCallStatus(r, "canceled"), r, "canceled")
            /\ Tell(callRows[r].room)
            /\ IF callRows[r].sid /\ leg[r[1]].state = "up"
               THEN /\ leg' = [leg EXCEPT ![r[1]].state = "over"]
                    /\ tape' = [tape EXCEPT ![r[1]].twilio =
                                  leg[r[1]].recorded /\ leg[r[1]].to # NoRoom]
               ELSE UNCHANGED <<leg, tape>>
    /\ removal' = [pc |-> "delete", row |-> r]
    /\ UNCHANGED <<place, voice, taping, config, deleted>>

\* The events go with the row, its redials stay without a parent.
DeleteRow ==
    /\ removal.pc = "delete"
    /\ callRows' = [r \in RowIds |->
                  IF r = removal.row THEN NoCallRow
                  ELSE IF callRows[r].parent = removal.row
                       THEN [callRows[r] EXCEPT !.parent = NoRoom]
                       ELSE callRows[r]]
    /\ deleted' = deleted \cup {removal.row[1]}
    /\ removal' = [pc |-> "none", row |-> NoRoom]
    /\ UNCHANGED <<leg, tape, agents, place, voice, taping, config, acts>>

\* The form of new voicemail settings: an audio file, a link, or neither.
Forms == [enabled : BOOLEAN, given : {"file", "link", "neither"}, audio : BOOLEAN,
          public : BOOLEAN]

\* An upload is stored, if it can be served from where Twilio can fetch it.
Stored(form) == form.given = "file" => form.audio /\ form.public

\* A link is checked for its scheme, its host and what it serves.
Valid(form) == form.given = "link" => form.audio /\ form.public

\* Enabling needs a recording, and a form without one takes the old one away.
SetVoicemail ==
    /\ Acts
    /\ \E form \in Forms :
          LET url == form.given # "neither"
          IN  /\ Stored(form) /\ Valid(form)
              /\ form.enabled => url
              /\ config' = [enabled |-> form.enabled, url |-> url]
    /\ UNCHANGED <<callRows, leg, tape, agents, place, voice, taping, removal,
                   deleted>>

\* Every coroutine and every agent is lost; the registry is empty again.
Restart ==
    LET Lost(pc, resting) == IF pc \in resting THEN pc ELSE "lost"
    IN  /\ Acts
        /\ agents' = [r \in RowIds |-> "none"]
        /\ place' = [s \in Outbound |-> [place[s] EXCEPT
                        !.pc = Lost(@, {"free", "placed", "raised"})]]
        /\ voice' = [x \in DOMAIN voice |-> Lost(voice[x], {"due", "done", "raised"})]
        /\ taping' = [x \in DOMAIN taping |-> Lost(taping[x], {"due", "done"})]
        /\ removal' = [pc |-> "none", row |-> NoRoom]
        /\ UNCHANGED <<callRows, leg, tape, config, deleted>>

RecordsNext ==
    \/ \E s \in Outbound :
          \/ InitiateCall(s) \/ Resolve(s) \/ InsertCall(s) \/ SpawnAgent(s)
          \/ CreateCall(s) \/ MockOriginate(s) \/ CreateCallFails(s) \/ SetCallSid(s)
          \/ \E r \in RowIds : RetryCall(s, r)
    \/ \E s \in Legs, d \in Deliveries :
          \/ VoiceKnown(s, d) \/ VoiceUnknown(s, d) \/ VoiceInsert(s, d)
          \/ VoiceBind(s, d) \/ VoiceRegister(s, d)
          \/ RecordingDone(s, d) \/ Upload(s, d) \/ StoreRecording(s, d)
          \/ RemoveFromTwilio(s, d)
    \/ \E s \in Legs : HangUpLeg(s) \/ FinalStatus(s)
    \/ \E r \in RowIds : RemoveCall(r)
    \/ DeleteRow \/ SetVoicemail \/ Restart

RecordsSpec == RecordsInit /\ [][RecordsNext]_recordVars

-----------------------------------------------------------------------------
(* Properties. *)

\* Whoever is on a leg talks to one agent: a voice webhook that comes twice, or
\* before the SID of the call is stored, puts no second agent on the call, and the
\* leg is not bridged past the agent that waits for it.
OneAgentPerLeg ==
    \A s \in Legs \ deleted :
        LET waiting == {room \in RowIds : room[1] = s /\ agents[room] = "on"}
        IN  /\ Cardinality(waiting) <= 1
            /\ leg[s].to # NoRoom => waiting \subseteq {leg[s].to}

\* A recording is not lost between Twilio and S3, whatever fails in between and
\* however often the webhook comes: as long as nobody deletes the call it is at
\* Twilio, or in S3 under the key its row has.
RecordingKept ==
    \A s \in Legs \ deleted :
        leg[s].state = "over" /\ leg[s].recorded /\ leg[s].to # NoRoom =>
            \/ tape[s].twilio
            \/ tape[s].s3 /\ \E r \in BySid(s) : callRows[r].recording
===============================================================================
