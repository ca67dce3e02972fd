------------------------------- MODULE Leads -------------------------------
(***************************************************************************)
(* The address book of one organization: leads, lead lists and the CSV     *)
(* import (leads/service.py, leads/router.py, leads/csv_parser.py).        *)
(*                                                                         *)
(* A request runs in a thread of its own, in one READ COMMITTED            *)
(* transaction: it reads, decides, and writes later, when uq_leads_org_    *)
(* phone, uq_lead_lists_org_name and the foreign keys have the last word.  *)
(* What a request writes at its commit is one step; an import flushes row  *)
(* by row, and what it has flushed others wait for.  A lead is its id and  *)
(* its phone_normalized; a list its id and its name.                       *)
(***************************************************************************)
EXTENDS Naturals, Sequences, FiniteSets, Relation

CONSTANTS
    Users,          \* users of the organization, one request at a time each
    Phones,         \* phone numbers, digits only
    Names,          \* names of lists
    Lower,          \* each name in lower case
    Files,          \* the CSV files they import, as sequences of rows
    MaxRequests     \* bound on the requests made

\* Rows that validate_row refuses, and rows it lets through though their name
\* is wider than the column.
BadRow  == "bad"
WideRow == "wide"

NoList == 0

ASSUME LeadsAssumption ==
    /\ Files \subseteq Seq(Phones \cup {BadRow, WideRow})
    /\ BadRow \notin Phones /\ WideRow \notin Phones
    /\ Lower \in [Names -> Names]
    /\ MaxRequests \in Nat

VARIABLES
    leads,      \* table leads: the committed rows
    lists,      \* table lead_lists
    members,    \* table lead_list_memberships: pairs of ids
    req,        \* the request each user has under way
    minted,     \* ids given out so far, one per insert
    made        \* requests made so far

leadVars == <<leads, lists, members, req, minted, made>>

Idle == [op |-> "none"]

LeadsInit ==
    /\ leads = {}
    /\ lists = {[id |-> 1, name |-> CHOOSE n \in Names : TRUE]}
    /\ members = {}
    /\ req = [u \in Users |-> Idle]
    /\ minted = 1
    /\ made = 0

-----------------------------------------------------------------------------
PhonesOf(ls) == {l.phone : l \in ls}
Ids(rows)    == {r.id : r \in rows}

\* Requests of others that overlap a commit of u learn of it (history).
Disturbed(u) == [v \in Users |-> IF v # u /\ req[v].op = "import"
                                 THEN [req[v] EXCEPT !.alone = FALSE] ELSE req[v]]

Begin(u, r) ==
    /\ req[u] = Idle
    /\ made < MaxRequests
    /\ made' = made + 1
    /\ req' = [req EXCEPT ![u] = r]
    /\ UNCHANGED <<leads, lists, members, minted>>

\* The request is answered; its session closes.
LeadCommit(u, newLeads, newLists, newMembers) ==
    /\ leads' = newLeads
    /\ lists' = newLists
    /\ members' = newMembers
    /\ req' = [Disturbed(u) EXCEPT ![u] = Idle]
    /\ UNCHANGED made

\* An error leaves the request: db.close() takes back what it had flushed.
Fail(u) ==
    /\ req' = [req EXCEPT ![u] = Idle]
    /\ UNCHANGED <<leads, lists, members, made>>

-----------------------------------------------------------------------------
(* Locks.  An import holds the phones it has flushed, and the list once the  *)
(* membership of one row has gone out with the flush of the next.            *)
Flushed(u) == IF req[u].op = "import" THEN req[u].puts ELSE {}

HeldPhone(u, p) == \E v \in Users \ {u} : p \in PhonesOf(Flushed(v))

HeldList(u, id) ==
    \E v \in Users \ {u} : Cardinality(Flushed(v)) > 1 /\ req[v].list = id

\* The row an import flushes next.
AtRow(u, i) ==
    /\ req[u].op = "import"
    /\ i \in req[u].todo
    /\ \A j \in req[u].todo : i <= j

WaitsFor ==
    [e \in Users \X Users |->
        /\ e[1] # e[2]
        /\ req[e[1]].op = "import"
        /\ \E i \in req[e[1]].todo :
                AtRow(e[1], i) /\ req[e[1]].file[i] \in PhonesOf(Flushed(e[2]))]

\* PostgreSQL ends one of the imports that wait for one another.  What it
\* raises is no IntegrityError, and the request is gone with all its rows.
Deadlock(u) ==
    /\ req[u].op = "import" /\ req[u].todo # {}
    /\ TransitiveClosure(WaitsFor, Users)[<<u, u>>]
    /\ Fail(u)
    /\ UNCHANGED minted

-----------------------------------------------------------------------------
(* import_leads_csv *)

\* Slip: rows are compared with the table, and not with one another.
Slip_KnownOnly(file, known) == {i \in DOMAIN file : file[i] \notin {BadRow} \cup known}

\* annotate_duplicates: a row whose phone is in the table or further up is out.
ValidRows(file, known) ==
    {i \in DOMAIN file :
        /\ file[i] \notin {BadRow} \cup known
        /\ \A j \in 1..(i - 1) : file[j] # file[i]}

ImportReads(u) ==
    \E f \in Files, id \in Ids(lists) \cup {NoList} :
        Begin(u, [op |-> "import", file |-> f, list |-> id,
                  todo |-> ValidRows(f, PhonesOf(leads)), puts |-> {},
                  imported |-> {}, clashed |-> FALSE, alone |-> TRUE])

PhoneTaken(r, i) == r.file[i] \in PhonesOf(leads) \cup PhonesOf(r.puts)

\* The flush of a row also sends the membership of the row before it.
ListGone(r) == r.puts # {} /\ r.list \notin Ids(lists) \cup {NoList}

ImportRow(u, i) ==
    LET r == req[u] IN
    /\ AtRow(u, i)
    /\ r.file[i] # WideRow
    /\ ~HeldPhone(u, r.file[i])
    /\ ~PhoneTaken(r, i)
    /\ ~ListGone(r)
    /\ req' = [req EXCEPT ![u] = [r EXCEPT
                    !.todo = r.todo \ {i},
                    !.puts = r.puts \cup {[id |-> minted + 1, phone |-> r.file[i]]},
                    !.imported = r.imported \cup {i}]]
    /\ minted' = minted + 1
    /\ UNCHANGED <<leads, lists, members, made>>

\* Slip: the row is tried again.
Slip_TriesAgain(u, i) ==
    /\ AtRow(u, i)
    /\ req[u].file[i] # WideRow
    /\ ~HeldPhone(u, req[u].file[i])
    /\ PhoneTaken(req[u], i)
    /\ req' = [req EXCEPT ![u] = [@ EXCEPT !.puts = {}, !.clashed = TRUE]]
    /\ UNCHANGED <<leads, lists, members, minted, made>>

\* IntegrityError: db.rollback() takes back every row flushed so far, those
\* already counted too, and the loop goes on.
ImportRowClashes(u, i) ==
    LET r == req[u] IN
    /\ AtRow(u, i)
    /\ r.file[i] # WideRow
    /\ ~HeldPhone(u, r.file[i])
    /\ PhoneTaken(r, i) \/ (ListGone(r) /\ ~r.clashed)
    /\ req' = [req EXCEPT ![u] = [r EXCEPT
                    !.todo = r.todo \ {i}, !.puts = {}, !.clashed = TRUE]]
    /\ minted' = minted + 1
    /\ UNCHANGED <<leads, lists, members, made>>

\* Other errors end the request: a value too wide for its column, and a list
\* that is read again after a rollback and is gone.
ImportBreaks(u, i) ==
    LET r == req[u] IN
    /\ AtRow(u, i)
    /\ \/ r.file[i] = WideRow
       \/ ~HeldPhone(u, r.file[i]) /\ ~PhoneTaken(r, i) /\ ListGone(r) /\ r.clashed
    /\ Fail(u)
    /\ UNCHANGED minted

ImportCommits(u) ==
    LET r == req[u] IN
    /\ r.op = "import" /\ r.todo = {}
    /\ \/ /\ ~ListGone(r)
          /\ LeadCommit(u, leads \cup r.puts, lists,
                    members \cup (Ids(r.puts) \X ({r.list} \ {NoList})))
       \/ /\ ListGone(r)
          /\ Fail(u)
    /\ UNCHANGED minted

-----------------------------------------------------------------------------
(* create_lead, update_lead, delete_lead *)

CreateLeadReads(u) ==
    \E p \in Phones \ PhonesOf(leads), into \in SUBSET Ids(lists) :
        Begin(u, [op |-> "create", phone |-> p, into |-> into])

CreateLeadWrites(u) ==
    LET r == req[u] IN
    /\ r.op = "create"
    /\ ~HeldPhone(u, r.phone)
    /\ IF r.phone \in PhonesOf(leads) \/ ~(r.into \subseteq Ids(lists))
       THEN Fail(u)
       ELSE LeadCommit(u, leads \cup {[id |-> minted + 1, phone |-> r.phone]}, lists,
                   members \cup ({minted + 1} \X r.into))
    /\ minted' = minted + 1

UpdateLeadReads(u) ==
    \E l \in leads, p \in Phones \ PhonesOf(leads) :
        Begin(u, [op |-> "update", lead |-> l.id, phone |-> p])

UpdateLeadWrites(u) ==
    LET r == req[u]
        others == {l \in leads : l.id # r.lead} IN
    /\ r.op = "update"
    /\ ~HeldPhone(u, r.phone)
    /\ IF r.lead \notin Ids(leads) \/ r.phone \in PhonesOf(others)
       THEN Fail(u)
       ELSE LeadCommit(u, others \cup {[id |-> r.lead, phone |-> r.phone]}, lists, members)
    /\ UNCHANGED minted

DeleteLeadReads(u) ==
    \E l \in leads : Begin(u, [op |-> "delete", lead |-> l.id])

\* Of a row that is already gone nothing is deleted, and nobody minds.
DeleteLeadWrites(u) ==
    LET id == req[u].lead IN
    /\ req[u].op = "delete"
    /\ LeadCommit(u, {l \in leads : l.id # id}, lists, {m \in members : m[1] # id})
    /\ UNCHANGED minted

-----------------------------------------------------------------------------
(* create_lead_list, delete_lead_list, add_leads_to_list,                    *)
(* remove_leads_from_list                                                    *)

NamesOf(ls) == {l.name : l \in ls}

\* get_by_name compares in lower case, the unique constraint letter by letter.
\* Of two matches it makes an error, which ends the request.
get_by_name(n) == {l \in lists : Lower[l.name] = Lower[n]}

CreateListReads(u) ==
    \E n \in Names :
        /\ get_by_name(n) = {}
        /\ Begin(u, [op |-> "create_list", name |-> n])

CreateListWrites(u) ==
    LET n == req[u].name IN
    /\ req[u].op = "create_list"
    /\ IF n \in NamesOf(lists) THEN Fail(u)
       ELSE LeadCommit(u, leads, lists \cup {[id |-> minted + 1, name |-> n]}, members)
    /\ minted' = minted + 1

RenameListReads(u) ==
    \E l \in lists, n \in Names :
        /\ n # l.name
        /\ get_by_name(n) \subseteq {l}
        /\ Begin(u, [op |-> "rename_list", list |-> l.id, name |-> n])

RenameListWrites(u) ==
    LET r == req[u]
        others == {l \in lists : l.id # r.list} IN
    /\ r.op = "rename_list"
    /\ ~HeldList(u, r.list)
    /\ IF r.list \notin Ids(lists) \/ r.name \in NamesOf(others) THEN Fail(u)
       ELSE LeadCommit(u, leads, others \cup {[id |-> r.list, name |-> r.name]}, members)
    /\ UNCHANGED minted

DeleteListReads(u) ==
    \E l \in lists : Begin(u, [op |-> "delete_list", list |-> l.id])

DeleteListWrites(u) ==
    LET id == req[u].list IN
    /\ req[u].op = "delete_list"
    /\ ~HeldList(u, id)
    /\ LeadCommit(u, leads, {l \in lists : l.id # id}, {m \in members : m[2] # id})
    /\ UNCHANGED minted

\* The leads of the request that are not members yet, as each was read.
AddReads(u) ==
    \E l \in lists, some \in SUBSET Ids(leads) :
        Begin(u, [op |-> "add", list |-> l.id,
                  ties |-> {m \in some \X {l.id} : m \notin members}])

\* All or none: a lead or the list gone, or a membership another request made
\* in between, ends the request.
AddWrites(u) ==
    LET r == req[u] IN
    /\ r.op = "add"
    /\ IF r.ties \subseteq (Ids(leads) \X Ids(lists)) \ members
       THEN LeadCommit(u, leads, lists, members \cup r.ties)
       ELSE Fail(u)
    /\ UNCHANGED minted

RemoveReads(u) ==
    \E l \in lists, some \in SUBSET Ids(leads) :
        Begin(u, [op |-> "remove", list |-> l.id,
                  ties |-> {m \in some \X {l.id} : m \in members}])

\* A membership that is no longer there to delete ends the request.
RemoveWrites(u) ==
    LET r == req[u] IN
    /\ r.op = "remove"
    /\ IF r.ties \subseteq members
       THEN LeadCommit(u, leads, lists, members \ r.ties)
       ELSE Fail(u)
    /\ UNCHANGED minted

-----------------------------------------------------------------------------
Asks(u) ==
    \/ ImportReads(u) \/ CreateLeadReads(u) \/ UpdateLeadReads(u) \/ DeleteLeadReads(u)
    \/ CreateListReads(u) \/ RenameListReads(u) \/ DeleteListReads(u)
    \/ AddReads(u) \/ RemoveReads(u)

Serves(u) ==
    \/ req[u].op = "import" /\ \E i \in req[u].todo :
            ImportRow(u, i) \/ ImportRowClashes(u, i) \/ ImportBreaks(u, i)
    \/ ImportCommits(u)
    \/ CreateLeadWrites(u) \/ UpdateLeadWrites(u) \/ DeleteLeadWrites(u)
    \/ CreateListWrites(u) \/ RenameListWrites(u) \/ DeleteListWrites(u)
    \/ AddWrites(u) \/ RemoveWrites(u)

LeadsNext == \E u \in Users : Asks(u) \/ Serves(u) \/ Deadlock(u)

\* A thread runs its request to the end; nobody has to make one.
LeadsFair == \A u \in Users : WF_leadVars(Serves(u) \/ Deadlock(u))

LeadsSpec == LeadsInit /\ [][LeadsNext]_leadVars /\ LeadsFair

-----------------------------------------------------------------------------
Answered(u) == req[u].op = "import" /\ req[u].todo = {} /\ req'[u] = Idle

Stored(r, i) ==
    \E l \in leads' : l.phone = r.file[i] /\ (r.list = NoList \/ <<l.id, r.list>> \in members')

\* An import during which nobody else wrote counts only rows that are in the
\* table, and in the list it was given: the duplicates it marks beforehand
\* leave no row for the rollback inside its loop to take others down with.
AloneLosesNothing ==
    [][\A u \in Users : Answered(u) /\ req[u].alone =>
            \A i \in req[u].imported : Stored(req[u], i)]_leadVars

\* Two requests that found the same phone free do not both store it.
OneLeadPerPhone == \A l, m \in leads : l.phone = m.phone => l = m

\* Every request is answered, though imports wait for one another's rows.
RequestsEnd == \A u \in Users : (req[u] # Idle) ~> (req[u] = Idle)
=============================================================================
