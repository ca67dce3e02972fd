----------------------------- MODULE Playbooks -----------------------------
(***************************************************************************)
(* The playbooks of one organization (playbook/service.py) and the calls   *)
(* that take their script from one (PlaybookService.resolve_for_call, from *)
(* TelephonyService._load_playbook).                                       *)
(*                                                                         *)
(* playbooks.version is counted in Python: a publish writes the number it  *)
(* read plus one, and uq_playbook_version decides between two that read    *)
(* the same.  A playbook is its row and, in another table, its fields, and *)
(* no request reads the two at once.  Content is abstract: the number of   *)
(* the edit that wrote it.  Names, and the conflicts over them, are left   *)
(* out.                                                                    *)
(***************************************************************************)
EXTENDS Naturals, FiniteSets

CONSTANTS
    Editors,        \* users of the organization, one request at a time each
    Books,          \* playbooks that may come to exist
    Keys,           \* keys of qualification fields
    Calls,          \* calls that may be placed
    MaxEdits        \* bound on the requests made

VARIABLES
    books,      \* table playbooks, each row with its playbook_fields
    snaps,      \* table playbook_versions
    calls,      \* the script of each call
    work,       \* the request each editor has under way
    edits       \* requests made so far

bookVars == <<books, snaps, calls, work, edits>>

Unborn == [status |-> "unborn"]
Gone   == [status |-> "gone"]
Resting == [op |-> "none"]
NotPlaced == [stage |-> "none"]

\* saves is no column: it counts the updates of the playbook, for the properties.
Draft(content, fields) ==
    [status |-> "draft", version |-> 1, content |-> content, fields |-> fields, saves |-> 0]

Exists(b)     == books[b].status \notin {"unborn", "gone"}
Written(ks, e) == {[key |-> k, edit |-> e] : k \in ks}
KeysOf(fields) == {f.key : f \in fields}

\* One playbook stands as a draft; the others are yet to be made.
BooksInit ==
    /\ books = [b \in Books |-> IF b = CHOOSE c \in Books : TRUE
                               THEN Draft(0, Written(Keys, 0)) ELSE Unborn]
    /\ snaps = {}
    /\ calls = [c \in Calls |-> NotPlaced]
    /\ work = [u \in Editors |-> Resting]
    /\ edits = 0

-----------------------------------------------------------------------------
Opens(u, r) ==
    /\ work[u] = Resting
    /\ edits < MaxEdits
    /\ edits' = edits + 1
    /\ work' = [work EXCEPT ![u] = r]
    /\ UNCHANGED <<books, snaps, calls>>

ReadsOn(u, r) ==
    /\ work' = [work EXCEPT ![u] = r]
    /\ UNCHANGED <<books, snaps, calls, edits>>

\* An error leaves the request, and the session takes back what it wrote.
Drops(u) == ReadsOn(u, Resting)

Saves(u, newBooks, newSnaps) ==
    /\ books' = newBooks
    /\ snaps' = newSnaps
    /\ work' = [work EXCEPT ![u] = Resting]
    /\ UNCHANGED <<calls, edits>>

-----------------------------------------------------------------------------
(* create, duplicate *)

CreateReads(u) ==
    \E ks \in SUBSET Keys :
        Opens(u, [op |-> "create", content |-> edits + 1, fields |-> Written(ks, edits + 1)])

DuplicateReads(u) ==
    \E b \in Books : Exists(b) /\ Opens(u, [op |-> "copy", book |-> b,
                                            content |-> books[b].content])

\* The fields to copy are read after the row; they may be gone with it by then.
DuplicateReadsFields(u) ==
    LET r == work[u] IN
    /\ r.op = "copy"
    /\ ReadsOn(u, [op |-> "create", content |-> r.content,
                   fields |-> IF Exists(r.book) THEN books[r.book].fields ELSE {}])

NewWrites(u) ==
    LET r == work[u] IN
    /\ r.op = "create"
    /\ \E b \in Books :
        /\ books[b] = Unborn
        /\ Saves(u, [books EXCEPT ![b] = Draft(r.content, r.fields)], snaps)

-----------------------------------------------------------------------------
(* update *)

\* columns: the row changes, too.  keys: the fields it brings, if it brings any.
UpdateReads(u) ==
    \E b \in Books, columns \in BOOLEAN, keys \in {<<>>} \cup {<<ks>> : ks \in SUBSET Keys} :
        /\ Exists(b) /\ books[b].status # "archived"
        /\ columns \/ keys # <<>>
        /\ Opens(u, [op |-> IF keys = <<>> THEN "write" ELSE "replace", book |-> b,
                     edit |-> edits + 1, columns |-> columns, keys |-> keys, seen |-> {}])

\* replace_fields: DELETE removes the fields there are when it starts.  It may
\* have to wait for another update, and what that one leaves it does not see.
UpdateDeletes(u) ==
    LET r == work[u] IN
    /\ r.op = "replace"
    /\ ReadsOn(u, [r EXCEPT !.op = "write",
                            !.seen = IF Exists(r.book) THEN books[r.book].fields ELSE {}])

\* uq_playbook_field_key refuses a key the other update has left.  Of an active
\* playbook, too, the row and the fields change in place: version stays.
UpdateWrites(u) ==
    LET r    == work[u]
        row  == books[r.book]
        left == row.fields \ r.seen
        fits == r.keys # <<>> => KeysOf(left) \cap r.keys[1] = {}
    IN
    /\ r.op = "write"
    /\ IF Exists(r.book) /\ fits
       THEN Saves(u, [books EXCEPT ![r.book] =
                        [row EXCEPT !.content = IF r.columns THEN r.edit ELSE row.content,
                                    !.fields = IF r.keys = <<>> THEN row.fields
                                               ELSE left \cup Written(r.keys[1], r.edit),
                                    !.saves = @ + 1]],
                   snaps)
       ELSE Drops(u)

-----------------------------------------------------------------------------
(* publish, archive, delete *)

PublishReads(u) ==
    \E b \in Books :
        /\ Exists(b) /\ books[b].status # "archived"
        /\ Opens(u, [op |-> "publish", book |-> b, row |-> books[b]])

\* Without a field there is nothing to publish.
PublishReadsFields(u) ==
    LET r == work[u]
        fields == IF Exists(r.book) THEN books[r.book].fields ELSE {}
    IN
    /\ r.op = "publish"
    /\ \/ fields = {} /\ Drops(u)
       \/ /\ fields # {}
          /\ ReadsOn(u, [op |-> "snapshot", book |-> r.book,
                         row |-> [r.row EXCEPT !.fields = fields]])

\* Slip: the payload leaves the fields out.
Slip_RowAlone(b, n, row) ==
    [book |-> b, version |-> n, content |-> row.content, fields |-> {}, saves |-> row.saves]

Snapshot(b, n, row) ==
    [book |-> b, version |-> n, content |-> row.content, fields |-> row.fields,
     saves |-> row.saves]

\* Slip: the table has no unique constraint.
Slip_NotUnique(b, n) == FALSE

\* uq_playbook_version
IsSnapped(b, n) == \E s \in snaps : s.book = b /\ s.version = n

\* Only columns that differ from what was read are written: a playbook read as
\* active and archived since stays archived.
PublishWrites(u) ==
    LET r   == work[u]
        row == books[r.book]
        n   == r.row.version + 1
    IN
    /\ r.op = "snapshot"
    /\ IF Exists(r.book) /\ ~IsSnapped(r.book, n)
       THEN Saves(u, [books EXCEPT ![r.book] =
                        [row EXCEPT !.version = n,
                                    !.status = IF r.row.status = "active" THEN row.status
                                               ELSE "active"]],
                   snaps \cup {Snapshot(r.book, n, r.row)})
       ELSE Drops(u)

ArchiveReads(u) ==
    \E b \in Books :
        Exists(b) /\ Opens(u, [op |-> "archive", book |-> b, status |-> books[b].status])

ArchiveWrites(u) ==
    LET r == work[u] IN
    /\ r.op = "archive"
    /\ IF Exists(r.book) /\ r.status # "archived"
       THEN Saves(u, [books EXCEPT ![r.book].status = "archived"], snaps)
       ELSE Drops(u)

DeleteReads(u) ==
    \E b \in Books : Exists(b) /\ Opens(u, [op |-> "delete", book |-> b])

\* The versions go with the playbook, and so does the name its calls go by.
DeleteWrites(u) ==
    LET b == work[u].book IN
    /\ work[u].op = "delete"
    /\ Saves(u, [books EXCEPT ![b] = Gone], {s \in snaps : s.book # b})

-----------------------------------------------------------------------------
(* resolve_for_call *)

CallReads(c) ==
    \E b \in Books :
        /\ calls[c] = NotPlaced
        /\ books[b].status = "active"
        /\ calls' = [calls EXCEPT ![c] =
                        [stage |-> "row", book |-> b, version |-> books[b].version,
                         content |-> books[b].content]]
        /\ UNCHANGED <<books, snaps, work, edits>>

CallReadsFields(c) ==
    /\ calls[c].stage = "row"
    /\ calls' = [calls EXCEPT ![c] =
                    [stage |-> "on", book |-> @.book, version |-> @.version,
                     content |-> @.content,
                     fields |-> IF Exists(@.book) THEN books[@.book].fields ELSE {},
                     saves |-> IF Exists(@.book) THEN books[@.book].saves ELSE 0]]
    /\ UNCHANGED <<books, snaps, work, edits>>

-----------------------------------------------------------------------------
Edits(u) ==
    \/ CreateReads(u) \/ DuplicateReads(u) \/ DuplicateReadsFields(u) \/ NewWrites(u)
    \/ UpdateReads(u) \/ UpdateDeletes(u) \/ UpdateWrites(u)
    \/ PublishReads(u) \/ PublishReadsFields(u) \/ PublishWrites(u)
    \/ ArchiveReads(u) \/ ArchiveWrites(u) \/ DeleteReads(u) \/ DeleteWrites(u)

BooksNext ==
    \/ \E u \in Editors : Edits(u)
    \/ \E c \in Calls : CallReads(c) \/ CallReadsFields(c)

BooksSpec == BooksInit /\ [][BooksNext]_bookVars

-----------------------------------------------------------------------------
Versions(c) == {s \in snaps : s.book = calls[c].book /\ s.version = calls[c].version}

\* The number a call records is that of one snapshot, which stands as long as the
\* playbook does; and unless an update was saved since that publish read the
\* playbook, the script and the fields the call goes by are the ones in it, whatever
\* requests to publish, archive and edit crossed the two reads of either.
CallsRunWhatWasPublished ==
    \A c \in Calls : calls[c].stage = "on" /\ Exists(calls[c].book) =>
        \E s \in snaps :
            /\ Versions(c) = {s}
            /\ calls[c].saves = s.saves =>
                   calls[c].content = s.content /\ calls[c].fields = s.fields

\* playbook/model.py: a call records the version it ran against so that analytics
\* stay correct after the live record is edited, and the snapshot of that version
\* has the state the call used.  It does not: the live record is what a call loads,
\* and an update of an active playbook leaves the number as it is.
VersionTellsTheScript ==
    \A c \in Calls : calls[c].stage = "on" /\ Exists(calls[c].book) =>
        \A s \in Versions(c) :
            calls[c].content = s.content /\ calls[c].fields = s.fields
=============================================================================
