---------------------------- MODULE CalendarLink ----------------------------
(***************************************************************************)
(* The Google calendar of an organization: the OAuth flow that connects    *)
(* it, the row that keeps its tokens (calendar/router.py, service.py), and *)
(* the refresh of the access token by whoever uses it.                     *)
(*                                                                         *)
(* The endpoints run on the event loop and wait for nothing: one step      *)
(* each.  A use loads the row there and goes on in a thread, where the     *)
(* token is refreshed and written back, while endpoints run.               *)
(***************************************************************************)
EXTENDS Naturals

CONSTANTS
    Accounts,       \* Google accounts that may give their consent
    Flows,          \* times somebody starts to connect the calendar
    UserOf,         \* who starts each flow
    Uses,           \* requests and calls that use the calendar at once
    MaxRows         \* bound on rows inserted

ASSUME CalendarAssumption ==
    MaxRows \in Nat /\ Flows \subseteq Nat \ {0} /\ DOMAIN UserOf = Flows

NoFlow == 0
Users  == {UserOf[f] : f \in Flows}

VARIABLES
    link,           \* the row of calendar_integrations; "none" if there is none
    inserted,       \* rows inserted so far
    verifiers,      \* Redis: whose PKCE verifier is kept for each user
    flows,          \* how far each flow has come
    disturbed,      \* history: flows that something interfered with
    uses,           \* what each use has loaded
    overtaken,      \* history: the token was written by a use older than the connection
    unread          \* history: what the last connection could not learn from Google

calendarVars == <<link, inserted, verifiers, flows, disturbed, uses, overtaken, unread>>

\* A token is known by the account it opens; fresh: it is good for 5 minutes more.
\* "primary" is the alias Google resolves.
Link == [id : 1..MaxRows, access : Accounts, refresh : Accounts, fresh : BOOLEAN,
         email : Accounts \cup {"none"}, calendar : Accounts \cup {"primary"}]

CalendarTypeOK ==
    /\ link \in Link \cup {[id |-> 0]}
    /\ inserted \in 0..MaxRows
    /\ verifiers \in [Users -> Flows \cup {NoFlow}]
    /\ flows \in [Flows -> {"new", "begun", "connected", "failed", "refused", "invalid_state"}]
    /\ disturbed \subseteq Flows
    /\ DOMAIN uses = Uses
    /\ overtaken \in BOOLEAN /\ unread \subseteq {"email", "calendar"}

Connected == link.id # 0

CalendarInit ==
    /\ link = [id |-> 0] /\ inserted = 0
    /\ verifiers = [u \in Users |-> NoFlow]
    /\ flows = [f \in Flows |-> "new"] /\ disturbed = {}
    /\ uses = [u \in Uses |-> [id |-> 0]]
    /\ overtaken = FALSE /\ unread = {}

-----------------------------------------------------------------------------
(* The OAuth flow. *)

\* Flows of the same user and organization have the same state, so one verifier.
SameState(f) == {g \in Flows \ {f} : UserOf[g] = UserOf[f] /\ flows[g] = "begun"}

\* Slip: a verifier that is there already is kept (SET NX).
Slip_KeepsVerifier(f) ==
    /\ flows[f] = "new"
    /\ flows' = [flows EXCEPT ![f] = "begun"]
    /\ verifiers' = [verifiers EXCEPT ![UserOf[f]] = IF @ = NoFlow THEN f ELSE @]
    /\ disturbed' = disturbed \cup SameState(f)
    /\ UNCHANGED <<link, inserted, uses, overtaken, unread>>

\* A failure of Redis is logged and the consent page offered all the same.
StartGoogleOauth(f) ==
    /\ flows[f] = "new"
    /\ flows' = [flows EXCEPT ![f] = "begun"]
    /\ \E stored \in BOOLEAN :
         /\ verifiers' = IF stored THEN [verifiers EXCEPT ![UserOf[f]] = f] ELSE verifiers
         /\ disturbed' = disturbed \cup SameState(f) \cup (IF stored THEN {} ELSE {f})
    /\ UNCHANGED <<link, inserted, uses, overtaken, unread>>

\* Five minutes have passed.
VerifierExpires(f) ==
    /\ verifiers[UserOf[f]] = f
    /\ verifiers' = [verifiers EXCEPT ![UserOf[f]] = NoFlow]
    /\ disturbed' = disturbed \cup {f}
    /\ UNCHANGED <<link, inserted, flows, uses, overtaken, unread>>

\* Slip: a connection made anew keeps the calendar of the first.
Slip_FirstCalendar(old, new, email, calendar) ==
    [id |-> IF old.id = 0 THEN inserted + 1 ELSE old.id,
     access |-> new, refresh |-> new, fresh |-> TRUE,
     email |-> IF email # "none" \/ old.id = 0 THEN email ELSE old.email,
     calendar |-> IF old.id = 0 THEN calendar ELSE old.calendar]

\* The row after account new has been connected: what Google did not tell is kept
\* as it was.
Upserted(old, new, email, calendar) ==
    [id |-> IF old.id = 0 THEN inserted + 1 ELSE old.id,
     access |-> new, refresh |-> new, fresh |-> TRUE,
     email |-> IF email # "none" \/ old.id = 0 THEN email ELSE old.email,
     calendar |-> IF calendar # "primary" \/ old.id = 0 THEN calendar ELSE old.calendar]

\* The two lookups may fail; the account's address then stands in for the calendar.
Connect(account) ==
    /\ Connected \/ inserted < MaxRows
    /\ \E email \in {account, "none"}, primary \in {account, "none"} :
         LET calendar == IF primary # "none" THEN primary
                         ELSE IF email # "none" THEN email ELSE "primary"
         IN /\ link' = Upserted(link, account, email, calendar)
            /\ unread' = (IF email = "none" THEN {"email"} ELSE {})
                         \cup (IF calendar = "primary" THEN {"calendar"} ELSE {})
    /\ inserted' = IF Connected THEN inserted ELSE inserted + 1
    /\ uses' = [u \in Uses |-> IF uses[u].id = 0 THEN uses[u] ELSE [uses[u] EXCEPT !.old = TRUE]]
    /\ overtaken' = FALSE

\* Google returns the user with a code for the account chosen and the state of the
\* flow.  The verifier is taken from Redis and deleted, whoever it was meant for;
\* without the right one, Google keeps the tokens.
GoogleOauthCallback(f, account) ==
    /\ flows[f] = "begun"
    /\ \E reached \in BOOLEAN, refuses \in BOOLEAN, named \in BOOLEAN :
         LET verifier == IF reached THEN verifiers[UserOf[f]] ELSE NoFlow
         IN /\ verifiers' = IF reached THEN [verifiers EXCEPT ![UserOf[f]] = NoFlow]
                            ELSE verifiers
            /\ disturbed' = disturbed \cup SameState(f) \cup (IF reached THEN {} ELSE {f})
            /\ \/ /\ verifier # f \/ refuses
                  /\ flows' = [flows EXCEPT ![f] = IF refuses THEN "refused" ELSE "failed"]
                  /\ UNCHANGED <<link, inserted, uses, overtaken, unread>>
               \/ /\ verifier = f /\ ~refuses /\ ~named   \* no organization in the state
                  /\ flows' = [flows EXCEPT ![f] = "invalid_state"]
                  /\ UNCHANGED <<link, inserted, uses, overtaken, unread>>
               \/ /\ verifier = f /\ ~refuses /\ named
                  /\ flows' = [flows EXCEPT ![f] = "connected"]
                  /\ Connect(account)

\* The token is revoked as best it can be, the row deleted in any case.
DisconnectCalendar ==
    /\ Connected
    /\ link' = [id |-> 0]
    /\ overtaken' = FALSE /\ unread' = {}
    /\ UNCHANGED <<inserted, verifiers, flows, disturbed, uses>>

-----------------------------------------------------------------------------
(* Those who use the calendar. *)

AccessExpires ==
    /\ Connected /\ link.fresh
    /\ link' = [link EXCEPT !.fresh = FALSE]
    /\ UNCHANGED <<inserted, verifiers, flows, disturbed, uses, overtaken, unread>>

\* A use that finds the token good writes nothing: only the others are followed.
GetIntegration(u) ==
    /\ Connected /\ ~link.fresh /\ uses[u].id = 0
    /\ uses' = [uses EXCEPT ![u] = [id |-> link.id, refresh |-> link.refresh, old |-> FALSE]]
    /\ UNCHANGED <<link, inserted, verifiers, flows, disturbed, overtaken, unread>>

\* Slip: the refresh token it was done with is written back too.
Slip_WritesBoth(row, account) ==
    [row EXCEPT !.access = account, !.refresh = account, !.fresh = TRUE]

\* Only the columns that were assigned are written.
Persisted(row, account) == [row EXCEPT !.access = account, !.fresh = TRUE]

\* The thread has refreshed the token, or failed to; it writes the token into the
\* row it knows, if that is still there and the commit succeeds.
BuildCredentials(u) ==
    /\ uses[u].id # 0
    /\ \/ /\ uses[u].id = link.id
          /\ link' = Persisted(link, uses[u].refresh)
          /\ overtaken' = uses[u].old
       \/ UNCHANGED <<link, overtaken>>
    /\ uses' = [uses EXCEPT ![u] = [id |-> 0]]
    /\ UNCHANGED <<inserted, verifiers, flows, disturbed, unread>>

CalendarNext ==
    \/ \E f \in Flows : StartGoogleOauth(f) \/ VerifierExpires(f)
                        \/ \E g \in Accounts : GoogleOauthCallback(f, g)
    \/ DisconnectCalendar \/ AccessExpires
    \/ \E u \in Uses : GetIntegration(u) \/ BuildCredentials(u)

CalendarSpec == CalendarInit /\ [][CalendarNext]_calendarVars

-----------------------------------------------------------------------------
(* Properties.                                                             *)

\* Whichever accounts are connected one after the other, whatever Google fails to
\* tell and whoever refreshes the token in between: the refresh token, the calendar
\* and the address in the row are of one account - except for what the last
\* connection could not learn, which stays as it was; and the access token opens
\* that account too, unless a use older than the connection has written it.
LinkIsOneAccount ==
    Connected =>
        /\ link.calendar \in {link.refresh, "primary"} \/ "calendar" \in unread
        /\ link.email \in {link.refresh, "none"} \/ "email" \in unread
        /\ link.access = link.refresh \/ overtaken

\* Whoever starts to connect the calendar and comes back within five minutes does
\* connect it, whatever flows were given up before or others have under way - if
\* Redis and Google answer and the same user has not begun or ended another since.
LoneFlowConnects == \A f \in Flows : flows[f] = "failed" => f \in disturbed
=============================================================================
