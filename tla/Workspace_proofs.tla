-------------------------- MODULE Workspace_proofs --------------------------
(***************************************************************************)
(* What the members of an organization work on through the API, for any    *)
(* users, files, books, campaigns and requests that overlap: its leads, its *)
(* playbooks and the life of a campaign.                                   *)
(***************************************************************************)
EXTENDS Leads, Playbooks, Activation, FiniteSetTheorems,
        WellFoundedInduction, TLAPS

-----------------------------------------------------------------------------
(* Proofs about the address book: no two leads share a phone, and an import  *)
(* that nobody disturbs stores what it counts.                               *)

Lead == [id : Nat, phone : Phones \cup {BadRow, WideRow}]

ImportRequest ==
    [op : {"import"}, file : Files, list : Nat, todo : SUBSET Nat, puts : SUBSET Lead,
     imported : SUBSET Nat, clashed : BOOLEAN, alone : BOOLEAN]

TypeInv ==
    /\ req = [u \in Users |-> req[u]]
    /\ \A u \in Users : req[u].op = "import" =>
            /\ req[u] \in ImportRequest
            /\ req[u].todo \subseteq DOMAIN req[u].file
    /\ minted \in Nat
    /\ \A l \in lists : l.id \in Nat

\* Rows in the table and rows an import has flushed never share a phone.
Apart(u) ==
    /\ \A p, q \in Flushed(u) : p.phone = q.phone => p = q
    /\ \A p \in Flushed(u) : p.phone \notin PhonesOf(leads)
    /\ \A v \in Users \ {u} : \A p \in Flushed(u) : p.phone \notin PhonesOf(Flushed(v))

PhoneInv ==
    /\ OneLeadPerPhone
    /\ \A u \in Users : Apart(u)

\* An undisturbed import: the rows still to come clash with nothing.
Smooth(r, ls, lls) ==
    /\ ~r.clashed
    /\ r.list \in Ids(lls) \cup {NoList}
    /\ \A i \in r.imported : \E p \in r.puts : p.phone = r.file[i]
    /\ \A i \in r.todo : /\ r.file[i] \notin PhonesOf(ls) \cup PhonesOf(r.puts)
                         /\ \A j \in r.todo : i # j => r.file[i] # r.file[j]

AloneInv == \A u \in Users : req[u].op = "import" /\ req[u].alone => Smooth(req[u], leads, lists)

-----------------------------------------------------------------------------
\* Nobody is at work at first.
LEMMA TypeInit == LeadsInit => TypeInv
BY DEF LeadsInit, TypeInv, Idle

\* What Begin, LeadCommit and Fail leave of the requests.
LEMMA TypeStep ==
    ASSUME TypeInv, [LeadsNext]_leadVars PROVE TypeInv'
<1>1. ASSUME NEW u \in Users, ImportReads(u) PROVE TypeInv'
  <2>1. PICK f \in Files, id \in Ids(lists) \cup {NoList} :
            Begin(u, [op |-> "import", file |-> f, list |-> id,
                      todo |-> ValidRows(f, PhonesOf(leads)), puts |-> {},
                      imported |-> {}, clashed |-> FALSE, alone |-> TRUE])
    BY <1>1 DEF ImportReads
  <2> DEFINE r == [op |-> "import", file |-> f, list |-> id,
                   todo |-> ValidRows(f, PhonesOf(leads)), puts |-> {},
                   imported |-> {}, clashed |-> FALSE, alone |-> TRUE]
  <2>2. id \in Nat
    BY DEF TypeInv, Ids, NoList
  <2>3. ValidRows(f, PhonesOf(leads)) \subseteq DOMAIN f /\ DOMAIN f \subseteq Nat
    BY LeadsAssumption DEF ValidRows
  <2>4. r \in ImportRequest
    BY <2>2, <2>3 DEF ImportRequest
  <2>5. r.todo \subseteq DOMAIN r.file
    BY <2>3
  <2> HIDE DEF r
  <2>6. req' = [req EXCEPT ![u] = r] /\ UNCHANGED <<lists, minted>>
    BY <2>1 DEF Begin, r
  <2> QED BY <2>4, <2>5, <2>6 DEF TypeInv
<1>2. ASSUME NEW u \in Users, NEW r, Begin(u, r), r.op # "import" PROVE TypeInv'
  BY <1>2 DEF Begin, TypeInv
<1>3. ASSUME NEW u \in Users, Asks(u) PROVE TypeInv'
  BY <1>1, <1>2, <1>3 DEF Asks, CreateLeadReads, UpdateLeadReads, DeleteLeadReads,
      CreateListReads, RenameListReads, DeleteListReads, AddReads, RemoveReads
<1>4. ASSUME NEW u \in Users, NEW i \in req[u].todo, ImportRow(u, i) PROVE TypeInv'
  <2> DEFINE r == [req[u] EXCEPT
                    !.todo = req[u].todo \ {i},
                    !.puts = req[u].puts \cup {[id |-> minted + 1, phone |-> req[u].file[i]]},
                    !.imported = req[u].imported \cup {i}]
  <2>1. req[u] \in ImportRequest /\ req[u].todo \subseteq DOMAIN req[u].file
    BY <1>4 DEF ImportRow, AtRow, TypeInv
  <2>2. req[u].file[i] \in Phones \cup {BadRow, WideRow}
    BY <2>1, LeadsAssumption DEF ImportRequest
  <2>3. [id |-> minted + 1, phone |-> req[u].file[i]] \in Lead
    BY <2>2 DEF Lead, TypeInv
  <2>4. r \in ImportRequest /\ r.todo \subseteq DOMAIN r.file
    BY <2>1, <2>3 DEF ImportRequest
  <2>5. req' = [req EXCEPT ![u] = r] /\ UNCHANGED lists /\ minted' = minted + 1
    BY <1>4 DEF ImportRow
  <2> HIDE DEF r
  <2> QED BY <2>4, <2>5 DEF TypeInv
<1>5. ASSUME NEW u \in Users, NEW i \in req[u].todo, ImportRowClashes(u, i) PROVE TypeInv'
  <2> DEFINE r == [req[u] EXCEPT !.todo = req[u].todo \ {i}, !.puts = {}, !.clashed = TRUE]
  <2>1. req[u] \in ImportRequest /\ req[u].todo \subseteq DOMAIN req[u].file
    BY <1>5 DEF ImportRowClashes, AtRow, TypeInv
  <2>2. r \in ImportRequest /\ r.todo \subseteq DOMAIN r.file
    BY <2>1 DEF ImportRequest
  <2>3. req' = [req EXCEPT ![u] = r] /\ UNCHANGED lists /\ minted' = minted + 1
    BY <1>5 DEF ImportRowClashes
  <2> HIDE DEF r
  <2> QED BY <2>2, <2>3 DEF TypeInv
<1>6. ASSUME NEW u \in Users, Fail(u), minted' \in {minted, minted + 1} PROVE TypeInv'
  BY <1>6 DEF Fail, TypeInv, Idle
<1>7. ASSUME NEW u \in Users, NEW a, NEW b, NEW c, LeadCommit(u, a, b, c),
             minted' \in {minted, minted + 1}, \A l \in b : l.id \in Nat
      PROVE TypeInv'
  <2>1. Disturbed(u) = [v \in Users |-> Disturbed(u)[v]]
    BY DEF Disturbed
  <2>2. \A v \in Users : Disturbed(u)[v].op = "import" =>
            /\ Disturbed(u)[v] \in ImportRequest
            /\ Disturbed(u)[v].todo \subseteq DOMAIN Disturbed(u)[v].file
    BY DEF Disturbed, TypeInv, ImportRequest
  <2>3. req' = [Disturbed(u) EXCEPT ![u] = Idle] /\ lists' = b /\ minted' \in Nat
    BY <1>7 DEF LeadCommit, TypeInv
  <2> QED BY <1>7, <2>1, <2>2, <2>3 DEF TypeInv, Idle
<1>8. ASSUME NEW u \in Users, Serves(u) \/ Deadlock(u) PROVE TypeInv'
  <2>1. CASE ImportCommits(u)
    BY <1>6, <1>7, <2>1 DEF ImportCommits, TypeInv
  <2>2. CASE CreateLeadWrites(u) \/ UpdateLeadWrites(u) \/ DeleteLeadWrites(u)
    BY <1>6, <1>7, <2>2 DEF CreateLeadWrites, UpdateLeadWrites, DeleteLeadWrites, TypeInv
  <2>3. CASE CreateListWrites(u)
    BY <1>6, <1>7, <2>3 DEF CreateListWrites, TypeInv
  <2>4. CASE RenameListWrites(u)
    BY <1>6, <1>7, <2>4 DEF RenameListWrites, TypeInv, Ids
  <2>5. CASE DeleteListWrites(u)
    BY <1>6, <1>7, <2>5 DEF DeleteListWrites, TypeInv
  <2>6. CASE AddWrites(u) \/ RemoveWrites(u)
    BY <1>6, <1>7, <2>6 DEF AddWrites, RemoveWrites, TypeInv
  <2>7. CASE Deadlock(u)
    BY <1>6, <2>7 DEF Deadlock
  <2>8. ASSUME NEW i \in req[u].todo, ImportBreaks(u, i) PROVE TypeInv'
    BY <1>6, <2>8 DEF ImportBreaks
  <2> QED BY <1>4, <1>5, <1>8, <2>1, <2>2, <2>3, <2>4, <2>5, <2>6, <2>7, <2>8 DEF Serves
<1>9. CASE UNCHANGED leadVars
  BY <1>9 DEF leadVars, TypeInv
<1> QED BY <1>3, <1>8, <1>9 DEF LeadsNext

-----------------------------------------------------------------------------
\* A request other than an import has flushed nothing.
LEMMA FlushedEmpty ==
    ASSUME NEW u \in Users, req[u].op # "import" PROVE Flushed(u) = {}
BY DEF Flushed

\* The address book is empty at first.
LEMMA PhoneInit == LeadsInit => PhoneInv
BY DEF LeadsInit, PhoneInv, OneLeadPerPhone, Apart, Flushed, Idle, PhonesOf

\* The rows in the table may become any set ls of which the new ones are free of
\* the phones that imports hold, when no import gains a row.
LEMMA ApartStep ==
    ASSUME PhoneInv,
           \A u \in Users : Flushed(u)' \subseteq Flushed(u),
           \A l \in leads' : l \in leads \/ \A v \in Users : l.phone \notin PhonesOf(Flushed(v)'),
           OneLeadPerPhone'
    PROVE  PhoneInv'
BY DEF PhoneInv, Apart, PhonesOf

\* Every path that writes a number, single or import, meets the unique index.
LEMMA PhoneStep ==
    ASSUME TypeInv, TypeInv', PhoneInv, [LeadsNext]_leadVars PROVE PhoneInv'
<1>1. ASSUME NEW u \in Users, NEW r, Begin(u, r), r.op = "import" => r.puts = {}
      PROVE PhoneInv'
  <2>1. \A v \in Users : Flushed(v)' \subseteq Flushed(v)
    BY <1>1 DEF Begin, Flushed, TypeInv
  <2> QED BY <1>1, <2>1, ApartStep DEF Begin, PhoneInv, OneLeadPerPhone
<1>2. ASSUME NEW u \in Users, Asks(u) PROVE PhoneInv'
  <2>1. CASE ImportReads(u)
    BY <1>1, <2>1 DEF ImportReads
  <2> QED BY <1>1, <1>2, <2>1 DEF Asks, CreateLeadReads, UpdateLeadReads, DeleteLeadReads,
      CreateListReads, RenameListReads, DeleteListReads, AddReads, RemoveReads
<1>3. ASSUME NEW u \in Users, Fail(u) PROVE PhoneInv'
  <2>1. \A v \in Users : Flushed(v)' \subseteq Flushed(v)
    BY <1>3 DEF Fail, Flushed, TypeInv, Idle
  <2> QED BY <1>3, <2>1, ApartStep DEF Fail, PhoneInv, OneLeadPerPhone
<1>4. ASSUME NEW u \in Users, NEW a, NEW b, NEW c, LeadCommit(u, a, b, c),
             \A l \in a : l \in leads \/ \A v \in Users \ {u} : l.phone \notin PhonesOf(Flushed(v)),
             \A l, m \in a : l.phone = m.phone => l = m
      PROVE PhoneInv'
  <2>1. \A v \in Users : v # u => Flushed(v)' = Flushed(v)
    BY <1>4 DEF LeadCommit, Disturbed, Flushed, TypeInv, ImportRequest
  <2>2. Flushed(u)' = {}
    BY <1>4 DEF LeadCommit, Disturbed, Flushed, TypeInv, Idle
  <2>3. OneLeadPerPhone' /\ leads' = a
    BY <1>4 DEF LeadCommit, OneLeadPerPhone
  <2>4. \A l \in leads' : l \in leads \/ \A v \in Users : l.phone \notin PhonesOf(Flushed(v)')
    BY <1>4, <2>1, <2>2, <2>3 DEF PhonesOf
  <2>5. \A v \in Users : Flushed(v)' \subseteq Flushed(v)
    BY <2>1, <2>2
  <2> QED BY <2>3, <2>4, <2>5, ApartStep
<1>5. ASSUME NEW u \in Users, NEW i \in req[u].todo, ImportRow(u, i) PROVE PhoneInv'
  <2> DEFINE p == [id |-> minted + 1, phone |-> req[u].file[i]]
  <2>1. req[u] \in ImportRequest
    BY <1>5 DEF ImportRow, AtRow, TypeInv
  <2>2. Flushed(u)' = Flushed(u) \cup {p} /\ \A v \in Users : v # u => Flushed(v)' = Flushed(v)
    BY <1>5, <2>1 DEF ImportRow, AtRow, Flushed, TypeInv, ImportRequest
  <2>3. p.phone \notin PhonesOf(leads) /\ p.phone \notin PhonesOf(Flushed(u))
    BY <1>5 DEF ImportRow, AtRow, PhoneTaken, Flushed
  <2>4. \A v \in Users \ {u} : p.phone \notin PhonesOf(Flushed(v))
    BY <1>5 DEF ImportRow, HeldPhone
  <2>5. UNCHANGED leads
    BY <1>5 DEF ImportRow
  <2> HIDE DEF p
  <2>6. ASSUME NEW v \in Users PROVE Apart(v)'
    BY <2>2, <2>3, <2>4, <2>5 DEF PhoneInv, Apart, PhonesOf
  <2> QED BY <2>5, <2>6 DEF PhoneInv, OneLeadPerPhone
<1>6. ASSUME NEW u \in Users, NEW i \in req[u].todo, ImportRowClashes(u, i) PROVE PhoneInv'
  <2>1. req[u] \in ImportRequest
    BY <1>6 DEF ImportRowClashes, AtRow, TypeInv
  <2>2. \A v \in Users : Flushed(v)' \subseteq Flushed(v)
    BY <1>6, <2>1 DEF ImportRowClashes, AtRow, Flushed, TypeInv, ImportRequest
  <2> QED BY <1>6, <2>2, ApartStep DEF ImportRowClashes, PhoneInv, OneLeadPerPhone
<1>7. ASSUME NEW u \in Users, Serves(u) \/ Deadlock(u) PROVE PhoneInv'
  <2>1. CASE ImportCommits(u)
    <3>1. CASE Fail(u)
      BY <1>3, <3>1
    <3>2. CASE LeadCommit(u, leads \cup req[u].puts, lists,
                      members \cup (Ids(req[u].puts) \X ({req[u].list} \ {NoList})))
      <4>1. Flushed(u) = req[u].puts
        BY <2>1 DEF ImportCommits, Flushed
      <4>2. \A l \in leads \cup req[u].puts :
                l \in leads \/ \A v \in Users \ {u} : l.phone \notin PhonesOf(Flushed(v))
        BY <4>1 DEF PhoneInv, Apart
      <4>3. \A l, m \in leads \cup req[u].puts : l.phone = m.phone => l = m
        BY <4>1 DEF PhoneInv, Apart, OneLeadPerPhone, PhonesOf
      <4> QED BY <1>4, <3>2, <4>2, <4>3
    <3> QED BY <2>1, <3>1, <3>2 DEF ImportCommits
  <2>2. CASE CreateLeadWrites(u)
    <3> DEFINE a == leads \cup {[id |-> minted + 1, phone |-> req[u].phone]}
    <3>1. CASE Fail(u)
      BY <1>3, <3>1
    <3>2. CASE /\ req[u].phone \notin PhonesOf(leads)
               /\ LeadCommit(u, a, lists, members \cup ({minted + 1} \X req[u].into))
      <4>1. \A l \in a : l \in leads \/ \A v \in Users \ {u} : l.phone \notin PhonesOf(Flushed(v))
        BY <2>2 DEF CreateLeadWrites, HeldPhone
      <4>2. \A l, m \in a : l.phone = m.phone => l = m
        BY <3>2 DEF PhoneInv, OneLeadPerPhone, PhonesOf
      <4> HIDE DEF a
      <4> QED BY <1>4, <3>2, <4>1, <4>2
    <3> QED BY <2>2, <3>1, <3>2 DEF CreateLeadWrites
  <2>3. CASE UpdateLeadWrites(u)
    <3> DEFINE others == {l \in leads : l.id # req[u].lead}
               a == others \cup {[id |-> req[u].lead, phone |-> req[u].phone]}
    <3>1. CASE Fail(u)
      BY <1>3, <3>1
    <3>2. CASE req[u].phone \notin PhonesOf(others) /\ LeadCommit(u, a, lists, members)
      <4>1. \A l \in a : l \in leads \/ \A v \in Users \ {u} : l.phone \notin PhonesOf(Flushed(v))
        BY <2>3 DEF UpdateLeadWrites, HeldPhone
      <4>2. \A l, m \in a : l.phone = m.phone => l = m
        BY <3>2 DEF PhoneInv, OneLeadPerPhone, PhonesOf
      <4> HIDE DEF a
      <4> QED BY <1>4, <3>2, <4>1, <4>2
    <3> QED BY <2>3, <3>1, <3>2 DEF UpdateLeadWrites
  <2>4. CASE DeleteLeadWrites(u)
    BY <1>4, <2>4 DEF DeleteLeadWrites, PhoneInv, OneLeadPerPhone
  <2>5. ASSUME NEW b, NEW c, LeadCommit(u, leads, b, c) PROVE PhoneInv'
    BY <1>4, <2>5 DEF PhoneInv, OneLeadPerPhone
  <2>6. CASE CreateListWrites(u)
    BY <1>3, <2>5, <2>6 DEF CreateListWrites
  <2>7. CASE RenameListWrites(u)
    BY <1>3, <2>5, <2>7 DEF RenameListWrites
  <2>8. CASE DeleteListWrites(u)
    BY <1>3, <2>5, <2>8 DEF DeleteListWrites
  <2>9. CASE AddWrites(u) \/ RemoveWrites(u)
    BY <1>3, <2>5, <2>9 DEF AddWrites, RemoveWrites
  <2>10. CASE Deadlock(u)
    BY <1>3, <2>10 DEF Deadlock
  <2>11. ASSUME NEW i \in req[u].todo, ImportBreaks(u, i) PROVE PhoneInv'
    BY <1>3, <2>11 DEF ImportBreaks
  <2> QED BY <1>5, <1>6, <1>7, <2>1, <2>2, <2>3, <2>4, <2>6, <2>7, <2>8, <2>9, <2>10, <2>11
      DEF Serves
<1>8. CASE UNCHANGED leadVars
  BY <1>8 DEF leadVars, PhoneInv, OneLeadPerPhone, Apart, Flushed, PhonesOf
<1> QED BY <1>2, <1>7, <1>8 DEF LeadsNext

\* leads/service.py and leads/router.py: requests that found the same number free,
\* and imports that flush it row by row, never both store it.
THEOREM OneLeadPerPhoneCorrect == LeadsSpec => []OneLeadPerPhone
<1>1. LeadsInit => TypeInv /\ PhoneInv
  BY TypeInit, PhoneInit
<1>2. TypeInv /\ PhoneInv /\ [LeadsNext]_leadVars => (TypeInv /\ PhoneInv)'
  BY TypeStep, PhoneStep
<1>3. TypeInv /\ PhoneInv => OneLeadPerPhone
  BY DEF PhoneInv
<1> QED BY <1>1, <1>2, <1>3, PTL DEF LeadsSpec
-----------------------------------------------------------------------------
\* There is no import at first.
LEMMA AloneInit == LeadsInit => AloneInv
BY DEF LeadsInit, AloneInv, Idle

\* A step of u after which the requests of others are as they were, or imports
\* that are no longer alone.
LEMMA OthersAlone ==
    ASSUME AloneInv, NEW u \in Users,
           \A v \in Users : v # u => \/ req'[v] = req[v] /\ UNCHANGED <<leads, lists>>
                                     \/ req'[v].op # "import" \/ ~req'[v].alone,
           req'[u].op = "import" /\ req'[u].alone => Smooth(req'[u], leads', lists')
    PROVE  AloneInv'
BY DEF AloneInv, Smooth, Ids, PhonesOf

\* Whoever commits ends every other import's being alone.
LEMMA CommitDisturbs ==
    ASSUME TypeInv, AloneInv, NEW u \in Users, NEW a, NEW b, NEW c, LeadCommit(u, a, b, c)
    PROVE  AloneInv'
<1>1. \A v \in Users : v # u => req'[v].op # "import" \/ ~req'[v].alone
  BY DEF LeadCommit, Disturbed, TypeInv, ImportRequest
<1>2. req'[u].op # "import"
  BY DEF LeadCommit, Disturbed, TypeInv, Idle
<1> QED BY <1>1, <1>2, OthersAlone

\* A request that fails leaves the imports of others as they are.
LEMMA FailLeaves ==
    ASSUME TypeInv, AloneInv, NEW u \in Users, Fail(u) PROVE AloneInv'
<1>1. \A v \in Users : v # u => req'[v] = req[v]
  BY DEF Fail, TypeInv
<1>2. req'[u].op # "import"
  BY DEF Fail, TypeInv, Idle
<1> QED BY <1>1, <1>2, OthersAlone DEF Fail

\* Every step keeps the books of an undisturbed import.
LEMMA AloneStep ==
    ASSUME TypeInv, AloneInv, [LeadsNext]_leadVars PROVE AloneInv'
<1>1. ASSUME NEW u \in Users, NEW r, Begin(u, r),
             r.op = "import" => Smooth(r, leads', lists')
      PROVE  AloneInv'
  <2>1. \A v \in Users : v # u => req'[v] = req[v]
    BY <1>1 DEF Begin, TypeInv
  <2>2. req'[u] = r
    BY <1>1 DEF Begin, TypeInv
  <2> QED BY <1>1, <2>1, <2>2, OthersAlone DEF Begin
<1>2. ASSUME NEW u \in Users, ImportReads(u) PROVE AloneInv'
  <2>1. PICK f \in Files, id \in Ids(lists) \cup {NoList} :
            Begin(u, [op |-> "import", file |-> f, list |-> id,
                      todo |-> ValidRows(f, PhonesOf(leads)), puts |-> {},
                      imported |-> {}, clashed |-> FALSE, alone |-> TRUE])
    BY <1>2 DEF ImportReads
  <2> PICK r : r = [op |-> "import", file |-> f, list |-> id,
                    todo |-> ValidRows(f, PhonesOf(leads)), puts |-> {},
                    imported |-> {}, clashed |-> FALSE, alone |-> TRUE]
    OBVIOUS
  <2>2. UNCHANGED <<leads, lists>>
    BY <2>1 DEF Begin
  <2>3. ASSUME NEW i \in r.todo
        PROVE  /\ f[i] \notin PhonesOf(leads)
               /\ \A j \in r.todo : i # j => f[i] # f[j]
    <3>1. \A k \in r.todo : /\ k \in Nat /\ f[k] \notin PhonesOf(leads)
                            /\ \A j \in 1..(k - 1) : f[j] # f[k]
      BY LeadsAssumption DEF ValidRows
    <3>2. \A k \in r.todo : k >= 1
      BY LeadsAssumption DEF ValidRows
    <3>3. ASSUME NEW j \in r.todo, i # j PROVE f[i] # f[j]
      <4>1. i < j \/ j < i
        BY <3>1, <3>3
      <4>2. i \in 1..(j - 1) \/ j \in 1..(i - 1)
        BY <3>1, <3>2, <4>1
      <4> QED BY <3>1, <4>2
    <3> QED BY <3>1, <3>3
  <2>4. Smooth(r, leads', lists')
    BY <2>2, <2>3 DEF Smooth, PhonesOf, Ids
  <2>5. Begin(u, r)
    BY <2>1
  <2> QED BY <1>1, <2>4, <2>5
<1>3. ASSUME NEW u \in Users, Asks(u) PROVE AloneInv'
  BY <1>1, <1>2, <1>3 DEF Asks, CreateLeadReads, UpdateLeadReads, DeleteLeadReads,
      CreateListReads, RenameListReads, DeleteListReads, AddReads, RemoveReads
<1>4. ASSUME NEW u \in Users, NEW i \in req[u].todo, ImportRow(u, i) PROVE AloneInv'
  <2> PICK p : p = [id |-> minted + 1, phone |-> req[u].file[i]]
    OBVIOUS
  <2> PICK r : r = [req[u] EXCEPT !.todo = req[u].todo \ {i}, !.puts = req[u].puts \cup {p},
                                  !.imported = req[u].imported \cup {i}]
    OBVIOUS
  <2>1. req[u] \in ImportRequest
    BY <1>4 DEF ImportRow, AtRow, TypeInv
  <2>2. req' = [req EXCEPT ![u] = r] /\ UNCHANGED <<leads, lists>>
    BY <1>4 DEF ImportRow
  <2>3. \A v \in Users : v # u => req'[v] = req[v]
    BY <2>2 DEF TypeInv
  <2>4. req'[u] = r
    BY <2>2 DEF TypeInv
  <2>5. /\ r.op = "import" /\ r.alone = req[u].alone /\ r.clashed = req[u].clashed
        /\ r.list = req[u].list /\ r.file = req[u].file
        /\ r.todo = req[u].todo \ {i} /\ r.puts = req[u].puts \cup {p}
        /\ r.imported = req[u].imported \cup {i}
    BY <2>1 DEF ImportRequest
  <2>6. p.phone = req[u].file[i]
    OBVIOUS
  <2>7. r.alone => Smooth(r, leads', lists')
    <3> SUFFICES ASSUME r.alone PROVE Smooth(r, leads', lists')
      OBVIOUS
    <3>1. Smooth(req[u], leads, lists)
      BY <2>1, <2>5 DEF AloneInv, ImportRequest
    <3> QED BY <2>2, <2>5, <2>6, <3>1 DEF Smooth, PhonesOf, Ids
  <2> QED BY <2>2, <2>3, <2>4, <2>7, OthersAlone
<1>5. ASSUME NEW u \in Users, NEW i \in req[u].todo, ImportRowClashes(u, i) PROVE AloneInv'
  <2> DEFINE r == [req[u] EXCEPT !.todo = req[u].todo \ {i}, !.puts = {}, !.clashed = TRUE]
  <2>1. req[u] \in ImportRequest
    BY <1>5 DEF ImportRowClashes, AtRow, TypeInv
  <2>2. req' = [req EXCEPT ![u] = r] /\ UNCHANGED <<leads, lists>>
    BY <1>5 DEF ImportRowClashes
  <2>3. \A v \in Users : v # u => req'[v] = req[v]
    BY <2>2 DEF TypeInv
  <2>4. req'[u].alone = req[u].alone
    BY <2>1, <2>2 DEF TypeInv, ImportRequest
  <2>5. ~req[u].alone
    BY <1>5, <2>1 DEF ImportRowClashes, AloneInv, Smooth, PhoneTaken, ListGone, ImportRequest
  <2> QED BY <2>2, <2>3, <2>4, <2>5, OthersAlone
<1>6. ASSUME NEW u \in Users, Serves(u) \/ Deadlock(u) PROVE AloneInv'
  <2>1. CASE ImportCommits(u) \/ CreateLeadWrites(u) \/ UpdateLeadWrites(u)
    BY <2>1, CommitDisturbs, FailLeaves DEF ImportCommits, CreateLeadWrites, UpdateLeadWrites
  <2>2. CASE DeleteLeadWrites(u) \/ CreateListWrites(u) \/ RenameListWrites(u)
    BY <2>2, CommitDisturbs, FailLeaves DEF DeleteLeadWrites, CreateListWrites, RenameListWrites
  <2>3. CASE DeleteListWrites(u) \/ AddWrites(u) \/ RemoveWrites(u)
    BY <2>3, CommitDisturbs, FailLeaves DEF DeleteListWrites, AddWrites, RemoveWrites
  <2>4. CASE Deadlock(u)
    BY <2>4, FailLeaves DEF Deadlock
  <2>5. ASSUME NEW i \in req[u].todo, ImportBreaks(u, i) PROVE AloneInv'
    BY <2>5, FailLeaves DEF ImportBreaks
  <2> QED BY <1>4, <1>5, <1>6, <2>1, <2>2, <2>3, <2>4, <2>5 DEF Serves
<1>7. CASE UNCHANGED leadVars
  BY <1>7 DEF leadVars, AloneInv, Smooth, Ids, PhonesOf
<1> QED BY <1>3, <1>6, <1>7 DEF LeadsNext

-----------------------------------------------------------------------------
\* Only its commit answers an import whose rows are all done.
LEMMA AnswerIsCommit ==
    ASSUME TypeInv, [LeadsNext]_leadVars, NEW u \in Users, Answered(u)
    PROVE  ImportCommits(u)
<1> USE DEF Answered
<1>1. req[u] # req'[u] /\ req[u] # Idle
  BY DEF Idle
<1>2. ASSUME NEW v \in Users, NEW r, Begin(v, r) PROVE FALSE
  BY <1>1, <1>2 DEF Begin, TypeInv
<1>3. ASSUME NEW v \in Users, v # u, Fail(v) PROVE FALSE
  BY <1>1, <1>3 DEF Fail, TypeInv
<1>4. ASSUME NEW v \in Users, v # u, NEW a, NEW b, NEW c, LeadCommit(v, a, b, c) PROVE FALSE
  <2>1. req'[u].op = "import"
    BY <1>4 DEF LeadCommit, Disturbed, TypeInv, ImportRequest
  <2> QED BY <2>1 DEF Idle
<1>5. ASSUME NEW v \in Users, Asks(v) PROVE FALSE
  BY <1>2, <1>5 DEF Asks, ImportReads, CreateLeadReads, UpdateLeadReads, DeleteLeadReads,
      CreateListReads, RenameListReads, DeleteListReads, AddReads, RemoveReads
<1>6. ASSUME NEW v \in Users, NEW i \in req[v].todo, ImportRow(v, i) \/ ImportRowClashes(v, i)
      PROVE  FALSE
  <2>1. v # u
    BY <1>6 DEF ImportRow, ImportRowClashes, AtRow
  <2> QED BY <1>1, <1>6, <2>1 DEF ImportRow, ImportRowClashes, TypeInv
<1>7. ASSUME NEW v \in Users, NEW i \in req[v].todo, ImportBreaks(v, i) PROVE FALSE
  BY <1>3, <1>7 DEF ImportBreaks
<1>8. ASSUME NEW v \in Users, Deadlock(v) PROVE FALSE
  BY <1>3, <1>8 DEF Deadlock
<1>9. ASSUME NEW v \in Users, Serves(v) PROVE v = u /\ ImportCommits(v)
  <2>1. CASE ImportCommits(v)
    BY <1>3, <1>4, <2>1 DEF ImportCommits
  <2>2. CASE CreateLeadWrites(v) \/ UpdateLeadWrites(v) \/ DeleteLeadWrites(v)
    BY <1>3, <1>4, <2>2 DEF CreateLeadWrites, UpdateLeadWrites, DeleteLeadWrites
  <2>3. CASE CreateListWrites(v) \/ RenameListWrites(v) \/ DeleteListWrites(v)
    BY <1>3, <1>4, <2>3 DEF CreateListWrites, RenameListWrites, DeleteListWrites
  <2>4. CASE AddWrites(v) \/ RemoveWrites(v)
    BY <1>3, <1>4, <2>4 DEF AddWrites, RemoveWrites
  <2> QED BY <1>6, <1>7, <1>9, <2>1, <2>2, <2>3, <2>4 DEF Serves
<1>10. ~UNCHANGED leadVars
  BY <1>1 DEF leadVars
<1> QED BY <1>5, <1>8, <1>9, <1>10 DEF LeadsNext

\* What an undisturbed import counts when it commits is in the table and in its list.
LEMMA AnswerIsStored ==
    ASSUME TypeInv, AloneInv, NEW u \in Users, ImportCommits(u), req[u].alone,
           NEW i \in req[u].imported
    PROVE  Stored(req[u], i)
<1>1. Smooth(req[u], leads, lists)
  BY DEF ImportCommits, AloneInv
<1>2. ~ListGone(req[u])
  BY <1>1 DEF Smooth, ListGone
<1>3. /\ leads' = leads \cup req[u].puts
      /\ members' = members \cup (Ids(req[u].puts) \X ({req[u].list} \ {NoList}))
  BY <1>2 DEF ImportCommits, LeadCommit
<1>4. PICK p \in req[u].puts : p.phone = req[u].file[i]
  BY <1>1 DEF Smooth
<1>5. req[u].list # NoList => <<p.id, req[u].list>> \in members'
  BY <1>3 DEF Ids
<1> QED BY <1>3, <1>4, <1>5 DEF Stored

\* leads/router.py, import_leads_csv: the rows an undisturbed import counts are
\* stored, and in its list, for every file and any number of users.
THEOREM AloneLosesNothingCorrect == LeadsSpec => AloneLosesNothing
<1>1. LeadsInit => TypeInv /\ AloneInv
  BY TypeInit, AloneInit
<1>2. TypeInv /\ AloneInv /\ [LeadsNext]_leadVars => (TypeInv /\ AloneInv)'
  BY TypeStep, AloneStep
<1>3. TypeInv /\ AloneInv /\ [LeadsNext]_leadVars =>
        [\A u \in Users : Answered(u) /\ req[u].alone =>
            \A i \in req[u].imported : Stored(req[u], i)]_leadVars
  BY AnswerIsCommit, AnswerIsStored
<1> QED BY <1>1, <1>2, <1>3, PTL DEF LeadsSpec, AloneLosesNothing

-----------------------------------------------------------------------------
(* A call goes by a published version, for any playbooks, editors and calls.  *)

\* A row that exists has the columns that publish and archive write.
RowsHaveColumns ==
    \A b \in Books : Exists(b) => {"status", "version"} \subseteq DOMAIN books[b]

SnappedOnce ==
    \A s, t \in snaps : s.book = t.book /\ s.version = t.version => s = t

ActiveIsSnapped ==
    \A b \in Books : books[b].status = "active" => IsSnapped(b, books[b].version)

\* A call's playbook has been a row once: no new row can take its place.
CallsAreSnapped ==
    \A c \in Calls : calls[c] # NotPlaced =>
        /\ calls[c].book \in Books
        /\ books[calls[c].book].status # "unborn"
        /\ Exists(calls[c].book) => IsSnapped(calls[c].book, calls[c].version)

BooksInv ==
    /\ books = [b \in Books |-> books[b]] /\ calls = [c \in Calls |-> calls[c]]
    /\ RowsHaveColumns /\ SnappedOnce /\ ActiveIsSnapped /\ CallsAreSnapped

\* A write that takes no snapshot away, revives no playbook, and leaves each row as
\* it was, or not active, or with a snapshot of its version.
LEMMA RowsWritten ==
    ASSUME BooksInv, UNCHANGED calls,
           books' = [b \in Books |-> books'[b]],
           snaps \subseteq snaps', SnappedOnce',
           NEW B \in Books,
           \A b \in Books \ {B} : books'[b] = books[b],
           {"status", "version"} \subseteq DOMAIN books'[B],
           books'[B].status # "unborn",
           books[B].status # "gone",
           books'[B].status = "active" => IsSnapped(B, books[B].version)'
    PROVE  BooksInv'
<1>1. \A b, n : IsSnapped(b, n) => IsSnapped(b, n)'
  BY DEF IsSnapped
<1>2. RowsHaveColumns'
  BY DEF RowsHaveColumns, Exists, BooksInv
<1>3. ActiveIsSnapped'
  <2> SUFFICES ASSUME NEW b \in Books, books'[b].status = "active"
               PROVE  IsSnapped(b, books[b].version)'
    BY DEF ActiveIsSnapped
  <2>1. CASE b = B  BY <2>1
  <2>2. CASE b # B
    <3>1. books'[b] = books[b]  BY <2>2
    <3>2. IsSnapped(b, books[b].version)  BY <3>1 DEF BooksInv, ActiveIsSnapped
    <3> QED  BY <3>1, <3>2 DEF IsSnapped
  <2> QED  BY <2>1, <2>2
<1>4. CallsAreSnapped'
  <2> SUFFICES ASSUME NEW c \in Calls, calls[c] # NotPlaced
               PROVE  /\ calls[c].book \in Books
                      /\ books'[calls[c].book].status # "unborn"
                      /\ Exists(calls[c].book)' => IsSnapped(calls[c].book, calls[c].version)'
    BY DEF CallsAreSnapped, NotPlaced
  <2>1. /\ calls[c].book \in Books /\ books[calls[c].book].status # "unborn"
        /\ Exists(calls[c].book) => IsSnapped(calls[c].book, calls[c].version)
    BY DEF BooksInv, CallsAreSnapped
  <2>2. CASE calls[c].book = B  BY <1>1, <2>1, <2>2 DEF Exists
  <2>3. CASE calls[c].book # B  BY <1>1, <2>1, <2>3 DEF Exists
  <2> QED  BY <2>2, <2>3
<1> QED  BY <1>2, <1>3, <1>4 DEF BooksInv

\* Each step of an edit, publication, archival or deletion keeps the versions in order.
LEMMA EditStep ==
    ASSUME BooksInv, NEW u \in Editors, Edits(u)
    PROVE  BooksInv'
<1>1. CASE UNCHANGED <<books, snaps, calls>>
  BY <1>1 DEF BooksInv, RowsHaveColumns, SnappedOnce, ActiveIsSnapped, CallsAreSnapped,
              Exists, IsSnapped, NotPlaced
<1>2. CASE NewWrites(u)
  <2>1. PICK b \in Books :
          /\ books[b] = Unborn
          /\ books' = [books EXCEPT ![b] = Draft(work[u].content, work[u].fields)]
          /\ snaps' = snaps /\ calls' = calls
    BY <1>2 DEF NewWrites, Saves
  <2>2. books'[b] = Draft(work[u].content, work[u].fields)  BY <2>1 DEF BooksInv
  <2>3. /\ {"status", "version"} \subseteq DOMAIN books'[b]
        /\ books'[b].status = "draft" /\ books[b].status = "unborn"
    BY <2>1, <2>2 DEF Draft, Unborn
  <2> QED  BY <2>1, <2>3, RowsWritten DEF BooksInv, SnappedOnce
<1>3. CASE UpdateWrites(u)
  <2>0. PICK B : B = work[u].book  OBVIOUS
  <2> DEFINE r    == work[u]
             row  == books[B]
             left == row.fields \ r.seen
             new  == [row EXCEPT !.content = IF r.columns THEN r.edit ELSE row.content,
                                 !.fields = IF r.keys = <<>> THEN row.fields
                                            ELSE left \cup Written(r.keys[1], r.edit),
                                 !.saves = @ + 1]
  <2>1. \/ UNCHANGED <<books, snaps, calls>>
        \/ /\ Exists(B) /\ books' = [books EXCEPT ![B] = new]
           /\ snaps' = snaps /\ calls' = calls
    BY <1>3, <2>0 DEF UpdateWrites, Saves, Drops, ReadsOn
  <2>2. CASE UNCHANGED <<books, snaps, calls>>  BY <1>1, <2>2
  <2>3. ASSUME Exists(B), books' = [books EXCEPT ![B] = new],
               snaps' = snaps, calls' = calls
        PROVE  BooksInv'
    <3>1. CASE B \notin Books
      <4>1. books' = books  BY <2>3, <3>1 DEF BooksInv
      <4> QED  BY <1>1, <2>3, <4>1
    <3>2. CASE B \in Books
      <4>1. books'[B] = new  BY <2>3, <3>2 DEF BooksInv
      <4>2. {"status", "version"} \subseteq DOMAIN row
        BY <2>3, <3>2 DEF BooksInv, RowsHaveColumns
      <4>3. DOMAIN new = DOMAIN row /\ new.status = row.status /\ new.version = row.version
        BY <4>2
      <4> HIDE DEF new
      <4>4. row.status \notin {"unborn", "gone"}  BY <2>3 DEF Exists
      <4>5. row.status = "active" => IsSnapped(B, row.version)
        BY <3>2 DEF BooksInv, ActiveIsSnapped
      <4>6. new.status = "active" => IsSnapped(B, books[B].version)'
        BY <2>3, <4>1, <4>3, <4>5 DEF IsSnapped
      <4>7. books' = [b \in Books |-> books'[b]] /\ \A b \in Books \ {B} : books'[b] = books[b]
        BY <2>3, <3>2 DEF BooksInv
      <4>8. SnappedOnce'  BY <2>3 DEF BooksInv, SnappedOnce
      <4>9. /\ {"status", "version"} \subseteq DOMAIN books'[B]
            /\ books'[B].status = row.status
        BY <4>1, <4>2, <4>3
      <4> QED
        BY <2>3, <3>2, <4>1, <4>3, <4>4, <4>6, <4>7, <4>8, <4>9, RowsWritten
    <3> QED  BY <3>1, <3>2
  <2> QED  BY <2>1, <2>2, <2>3
<1>4. CASE PublishWrites(u)
  <2>0. PICK B, n, snap : /\ B = work[u].book /\ n = work[u].row.version + 1
                          /\ snap = Snapshot(B, n, work[u].row)
    OBVIOUS
  <2> DEFINE r   == work[u]
             row == books[B]
             new == [row EXCEPT !.version = n,
                                !.status = IF r.row.status = "active" THEN row.status
                                           ELSE "active"]
  <2>1. \/ UNCHANGED <<books, snaps, calls>>
        \/ /\ Exists(B) /\ ~IsSnapped(B, n) /\ books' = [books EXCEPT ![B] = new]
           /\ snaps' = snaps \cup {snap} /\ calls' = calls
    BY <1>4, <2>0 DEF PublishWrites, Saves, Drops, ReadsOn
  <2>2. CASE UNCHANGED <<books, snaps, calls>>  BY <1>1, <2>2
  <2>3. ASSUME Exists(B), ~IsSnapped(B, n), books' = [books EXCEPT ![B] = new],
               snaps' = snaps \cup {snap}, calls' = calls
        PROVE  BooksInv'
    <3>1. snap.book = B /\ snap.version = n  BY <2>0 DEF Snapshot
    <3>2. SnappedOnce'
      <4> SUFFICES ASSUME NEW s \in snaps', NEW t \in snaps',
                          s.book = t.book, s.version = t.version
                   PROVE  s = t
        BY DEF SnappedOnce
      <4>1. CASE s \in snaps /\ t \in snaps  BY <4>1 DEF BooksInv, SnappedOnce
      <4>2. CASE s = snap \/ t = snap  BY <2>3, <3>1, <4>2 DEF IsSnapped
      <4> QED  BY <2>3, <4>1, <4>2
    <3>3. snaps \subseteq snaps' /\ \A b, m : IsSnapped(b, m) => IsSnapped(b, m)'
      BY <2>3 DEF IsSnapped
    <3>4. IsSnapped(B, n)'  BY <2>3, <3>1 DEF IsSnapped
    <3>5. CASE B \notin Books
      <4>1. books' = books  BY <2>3, <3>5 DEF BooksInv
      <4>2. ActiveIsSnapped'
        <5> SUFFICES ASSUME NEW b \in Books, books'[b].status = "active"
                     PROVE  IsSnapped(b, books[b].version)'
          BY DEF ActiveIsSnapped
        <5> QED  BY <3>3, <4>1 DEF BooksInv, ActiveIsSnapped, IsSnapped
      <4>3. CallsAreSnapped'
        BY <2>3, <3>3, <4>1 DEF BooksInv, CallsAreSnapped, Exists, IsSnapped, NotPlaced
      <4> QED  BY <2>3, <3>2, <4>1, <4>2, <4>3 DEF BooksInv, RowsHaveColumns, Exists
    <3>6. CASE B \in Books
      <4>1. books'[B] = new  BY <2>3, <3>6 DEF BooksInv
      <4>2. {"status", "version"} \subseteq DOMAIN row
        BY <2>3, <3>6 DEF BooksInv, RowsHaveColumns
      <4>3. DOMAIN new = DOMAIN row /\ new.version = n /\ new.status \in {row.status, "active"}
        BY <4>2
      <4> HIDE DEF new
      <4>4. row.status \notin {"unborn", "gone"}  BY <2>3 DEF Exists
      <4>5. IsSnapped(B, books[B].version)'
        BY <3>4, <4>1, <4>3 DEF IsSnapped
      <4>6. books' = [b \in Books |-> books'[b]] /\ \A b \in Books \ {B} : books'[b] = books[b]
        BY <2>3, <3>6 DEF BooksInv
      <4>7. /\ {"status", "version"} \subseteq DOMAIN books'[B]
            /\ books'[B].status # "unborn"
        BY <4>1, <4>2, <4>3, <4>4
      <4> QED
        BY <2>3, <3>2, <3>3, <3>6, <4>4, <4>5, <4>6, <4>7, RowsWritten
    <3> QED  BY <3>5, <3>6
  <2> QED  BY <2>1, <2>2, <2>3
<1>5. CASE ArchiveWrites(u)
  <2> DEFINE B == work[u].book
  <2>1. \/ UNCHANGED <<books, snaps, calls>>
        \/ /\ Exists(B) /\ books' = [books EXCEPT ![B].status = "archived"]
           /\ snaps' = snaps /\ calls' = calls
    BY <1>5 DEF ArchiveWrites, Saves, Drops, ReadsOn
  <2>2. CASE UNCHANGED <<books, snaps, calls>>  BY <1>1, <2>2
  <2>3. ASSUME Exists(B), books' = [books EXCEPT ![B].status = "archived"],
               snaps' = snaps, calls' = calls
        PROVE  BooksInv'
    <3>1. CASE B \notin Books
      <4>1. books' = books  BY <2>3, <3>1 DEF BooksInv
      <4> QED  BY <1>1, <2>3, <4>1
    <3>2. CASE B \in Books
      <4>1. {"status", "version"} \subseteq DOMAIN books[B]
        BY <2>3, <3>2 DEF BooksInv, RowsHaveColumns
      <4>2. books' = [b \in Books |-> books'[b]] /\ \A b \in Books \ {B} : books'[b] = books[b]
        BY <2>3, <3>2 DEF BooksInv
      <4>3. /\ {"status", "version"} \subseteq DOMAIN books'[B]
            /\ books'[B].status = "archived"
        BY <2>3, <3>2, <4>1 DEF BooksInv
      <4>4. SnappedOnce'  BY <2>3 DEF BooksInv, SnappedOnce
      <4>5. books[B].status # "gone"  BY <2>3 DEF Exists
      <4> QED  BY <2>3, <3>2, <4>2, <4>3, <4>4, <4>5, RowsWritten
    <3> QED  BY <3>1, <3>2
  <2> QED  BY <2>1, <2>2, <2>3
<1>6. CASE DeleteWrites(u)
  <2>0. PICK B : B = work[u].book  OBVIOUS
  <2>1. /\ books' = [books EXCEPT ![B] = Gone]
        /\ snaps' = {s \in snaps : s.book # B} /\ calls' = calls
    BY <1>6, <2>0 DEF DeleteWrites, Saves
  <2>2. \A b, m : b # B /\ IsSnapped(b, m) => IsSnapped(b, m)'
    BY <2>1 DEF IsSnapped
  <2>3. \A b \in Books : books'[b] = IF b = B THEN Gone ELSE books[b]
    BY <2>1 DEF BooksInv
  <2>4. books' = [b \in Books |-> books'[b]]  BY <2>1 DEF BooksInv
  <2>5. RowsHaveColumns'  BY <2>3 DEF BooksInv, RowsHaveColumns, Exists, Gone
  <2>6. SnappedOnce'  BY <2>1 DEF BooksInv, SnappedOnce
  <2>7. ActiveIsSnapped'
    <3> SUFFICES ASSUME NEW b \in Books, books'[b].status = "active"
                 PROVE  IsSnapped(b, books[b].version)'
      BY DEF ActiveIsSnapped
    <3>1. b # B /\ books'[b] = books[b]  BY <2>3 DEF Gone
    <3>2. IsSnapped(b, books[b].version)  BY <3>1 DEF BooksInv, ActiveIsSnapped
    <3> QED  BY <2>1, <3>1, <3>2 DEF IsSnapped
  <2>8. CallsAreSnapped'
    <3> SUFFICES ASSUME NEW c \in Calls, calls[c] # NotPlaced
                 PROVE  /\ calls[c].book \in Books
                        /\ books'[calls[c].book].status # "unborn"
                        /\ Exists(calls[c].book)' => IsSnapped(calls[c].book, calls[c].version)'
      BY <2>1 DEF CallsAreSnapped, NotPlaced
    <3>1. /\ calls[c].book \in Books /\ books[calls[c].book].status # "unborn"
          /\ Exists(calls[c].book) => IsSnapped(calls[c].book, calls[c].version)
      BY DEF BooksInv, CallsAreSnapped
    <3>2. CASE calls[c].book = B  BY <2>1, <2>3, <3>1, <3>2 DEF Exists, Gone
    <3>3. CASE calls[c].book # B  BY <2>1, <2>3, <3>1, <3>3 DEF Exists, IsSnapped
    <3> QED  BY <3>2, <3>3
  <2> QED  BY <2>1, <2>4, <2>5, <2>6, <2>7, <2>8 DEF BooksInv
<1>7. CASE ~(NewWrites(u) \/ UpdateWrites(u) \/ PublishWrites(u) \/ ArchiveWrites(u)
             \/ DeleteWrites(u))
  BY <1>1, <1>7
  DEF Edits, CreateReads, DuplicateReads, DuplicateReadsFields, UpdateReads, UpdateDeletes,
      PublishReads, PublishReadsFields, ArchiveReads, DeleteReads, Opens, ReadsOn, Drops
<1> QED  BY <1>2, <1>3, <1>4, <1>5, <1>6, <1>7

\* A call reads the row of an active playbook, and its fields a moment later.
LEMMA CallScriptStep ==
    ASSUME BooksInv, NEW c \in Calls, CallReads(c) \/ CallReadsFields(c)
    PROVE  BooksInv'
<1>1. UNCHANGED <<books, snaps>>  BY DEF CallReads, CallReadsFields
<1>2. RowsHaveColumns' /\ SnappedOnce' /\ ActiveIsSnapped'
  BY <1>1 DEF BooksInv, RowsHaveColumns, SnappedOnce, ActiveIsSnapped, Exists, IsSnapped
<1>3. calls' = [d \in Calls |-> calls'[d]] /\ \A d \in Calls : d # c => calls'[d] = calls[d]
  BY DEF BooksInv, CallReads, CallReadsFields
<1>4. /\ calls'[c].book \in Books
      /\ books[calls'[c].book].status # "unborn"
      /\ Exists(calls'[c].book) => IsSnapped(calls'[c].book, calls'[c].version)
  <2>1. CASE CallReads(c)
    <3>1. PICK b \in Books :
            /\ books[b].status = "active"
            /\ calls' = [calls EXCEPT ![c] = [stage |-> "row", book |-> b,
                              version |-> books[b].version, content |-> books[b].content]]
      BY <2>1 DEF CallReads
    <3>2. calls'[c].book = b /\ calls'[c].version = books[b].version
      BY <3>1 DEF BooksInv
    <3> QED  BY <3>1, <3>2 DEF BooksInv, ActiveIsSnapped
  <2>2. CASE CallReadsFields(c)
    <3>1. calls[c].stage = "row" /\ calls[c] # NotPlaced
      BY <2>2 DEF CallReadsFields, NotPlaced
    <3>2. calls'[c].book = calls[c].book /\ calls'[c].version = calls[c].version
      BY <2>2 DEF CallReadsFields, BooksInv
    <3> QED  BY <3>1, <3>2 DEF BooksInv, CallsAreSnapped
  <2> QED  BY <2>1, <2>2
<1>5. CallsAreSnapped'
  <2> SUFFICES ASSUME NEW d \in Calls, calls'[d] # NotPlaced
               PROVE  /\ calls'[d].book \in Books
                      /\ books[calls'[d].book].status # "unborn"
                      /\ Exists(calls'[d].book) => IsSnapped(calls'[d].book, calls'[d].version)
    BY <1>1 DEF CallsAreSnapped, NotPlaced, Exists, IsSnapped
  <2>1. CASE d = c  BY <1>4, <2>1
  <2>2. CASE d # c  BY <1>3, <2>2 DEF BooksInv, CallsAreSnapped
  <2> QED  BY <2>1, <2>2
<1> QED  BY <1>1, <1>2, <1>3, <1>5 DEF BooksInv

\* What was read of playbook b after n of its updates is what its row still says,
\* as long as there was no further update.
Told(b, n, content) ==
    /\ b \in Books /\ books[b].status # "unborn" /\ n \in Nat
    /\ Exists(b) => /\ n <= books[b].saves
                    /\ n = books[b].saves => content = books[b].content

ToldFields(b, n, fields) == Exists(b) /\ n = books[b].saves => fields = books[b].fields

\* A row that exists has the columns that an update writes.
RowsCounted ==
    \A b \in Books : Exists(b) =>
        {"content", "fields", "saves"} \subseteq DOMAIN books[b] /\ books[b].saves \in Nat

SnapsTold ==
    \A s \in snaps : Told(s.book, s.saves, s.content) /\ ToldFields(s.book, s.saves, s.fields)

PublishTold(r) ==
    r.op \in {"publish", "snapshot"} =>
        /\ {"saves", "content", "fields"} \subseteq DOMAIN r.row
        /\ Told(r.book, r.row.saves, r.row.content)
        /\ r.op = "snapshot" => ToldFields(r.book, r.row.saves, r.row.fields)

\* What a call has read is what any snapshot of its version has, if no update came
\* between: the script once it has read the row, the fields, too, later on.
CallTold(k) ==
    k # NotPlaced /\ Exists(k.book) =>
        \A s \in snaps : s.book = k.book /\ s.version = k.version =>
            /\ k.stage = "row" /\ s.saves = books[k.book].saves => k.content = s.content
            /\ k.stage = "on" /\ s.saves = k.saves =>
                   k.content = s.content /\ k.fields = s.fields

ScriptInv ==
    /\ RowsCounted /\ SnapsTold
    /\ work = [u \in Editors |-> work[u]] /\ \A u \in Editors : PublishTold(work[u])
    /\ \A c \in Calls : calls[c].stage \in {"none", "row", "on"} /\ CallTold(calls[c])

\* A row stays, or is updated, or comes to exist, or goes.
Moves(b) ==
    /\ books[b].status # "unborn" => books'[b].status # "unborn"
    /\ Exists(b)' =>
        /\ {"content", "fields", "saves"} \subseteq DOMAIN books'[b] /\ books'[b].saves \in Nat
        /\ \/ books[b].status = "unborn"
           \/ /\ Exists(b)
              /\ \/ /\ books'[b].saves = books[b].saves
                    /\ books'[b].content = books[b].content
                    /\ books'[b].fields = books[b].fields
                 \/ books'[b].saves = books[b].saves + 1

\* What was told stays told.
LEMMA ToldStays ==
    ASSUME RowsCounted, NEW b, NEW n, NEW content, NEW fields,
           \A x \in Books : Moves(x), Told(b, n, content)
    PROVE  Told(b, n, content)' /\ (ToldFields(b, n, fields) => ToldFields(b, n, fields)')
<1>1. b \in Books /\ Moves(b)
  BY DEF Told
<1>2. CASE ~Exists(b)'  BY <1>1, <1>2 DEF Told, ToldFields, Moves
<1>3. CASE Exists(b)'
  <2>1. Exists(b) /\ books[b].saves \in Nat /\ n \in Nat
    BY <1>1, <1>3 DEF Told, Moves, RowsCounted
  <2> QED  BY <1>1, <1>3, <2>1 DEF Told, ToldFields, Moves
<1> QED  BY <1>2, <1>3

\* Rows that stay or are updated leave all that was read of them in order; no
\* snapshot that is new has the version of a call that was there before.
LEMMA RowsMove ==
    ASSUME ScriptInv, UNCHANGED calls, \A b \in Books : Moves(b),
           \A s \in snaps' \ snaps :
               /\ Told(s.book, s.saves, s.content) /\ ToldFields(s.book, s.saves, s.fields)
               /\ \A c \in Calls : calls[c] # NotPlaced /\ Exists(calls[c].book) =>
                      ~(s.book = calls[c].book /\ s.version = calls[c].version),
           NEW u \in Editors, work' = [work EXCEPT ![u] = Resting]
    PROVE  ScriptInv'
<1>1. RowsCounted'
  BY DEF RowsCounted, Moves
<1>2. SnapsTold'
  <2> SUFFICES ASSUME NEW s \in snaps'
               PROVE  Told(s.book, s.saves, s.content)' /\ ToldFields(s.book, s.saves, s.fields)'
    BY DEF SnapsTold
  <2>1. Told(s.book, s.saves, s.content) /\ ToldFields(s.book, s.saves, s.fields)
    BY DEF ScriptInv, SnapsTold
  <2> QED  BY <2>1, ToldStays DEF ScriptInv
<1>3. work' = [v \in Editors |-> work'[v]]
  BY DEF ScriptInv
<1>4. ASSUME NEW v \in Editors  PROVE PublishTold(work[v])'
  <2>1. CASE v = u  BY <2>1 DEF ScriptInv, PublishTold, Resting
  <2>2. CASE v # u
    <3>1. work'[v] = work[v]  BY <2>2 DEF ScriptInv
    <3>2. PublishTold(work[v])  BY DEF ScriptInv
    <3>3. CASE work[v].op \notin {"publish", "snapshot"}  BY <3>1, <3>3 DEF PublishTold
    <3>4. CASE work[v].op \in {"publish", "snapshot"}
      <4>1. PICK w : w = work[v]  OBVIOUS
      <4>2. /\ Told(w.book, w.row.saves, w.row.content)
            /\ w.op = "snapshot" => ToldFields(w.book, w.row.saves, w.row.fields)
        BY <3>2, <3>4, <4>1 DEF PublishTold
      <4>3. /\ Told(w.book, w.row.saves, w.row.content)'
            /\ w.op = "snapshot" => ToldFields(w.book, w.row.saves, w.row.fields)'
        BY <4>2, ToldStays DEF ScriptInv
      <4>4. PublishTold(w)'
        BY <3>2, <3>4, <4>1, <4>3 DEF PublishTold
      <4> QED  BY <3>1, <4>1, <4>4 DEF PublishTold
    <3> QED  BY <3>3, <3>4
  <2> QED  BY <2>1, <2>2
<1>5. ASSUME NEW c \in Calls  PROVE CallTold(calls[c])'
  <2> SUFFICES ASSUME calls[c] # NotPlaced, Exists(calls[c].book)', NEW s \in snaps',
                      s.book = calls[c].book, s.version = calls[c].version
               PROVE  /\ calls[c].stage = "row" /\ s.saves = books'[calls[c].book].saves =>
                             calls[c].content = s.content
                      /\ calls[c].stage = "on" /\ s.saves = calls[c].saves =>
                             calls[c].content = s.content /\ calls[c].fields = s.fields
    BY DEF CallTold, NotPlaced
  <2>0. CASE s \notin snaps
    <3>1. Told(s.book, s.saves, s.content)  BY <2>0
    <3>2. Exists(s.book)  BY <3>1 DEF Told, Moves
    <3> QED  BY <2>0, <3>2
  <2>1. CASE s \in snaps
    <3>1. Told(s.book, s.saves, s.content)  BY <2>1 DEF ScriptInv, SnapsTold
    <3>2. Exists(s.book) /\ books[s.book].saves \in Nat /\ s.saves \in Nat
      BY <3>1 DEF Told, Moves, ScriptInv, RowsCounted
    <3>3. \/ books'[s.book].saves = books[s.book].saves
          \/ s.saves # books'[s.book].saves
      BY <3>1, <3>2 DEF Told, Moves
    <3> QED  BY <2>1, <3>2, <3>3 DEF ScriptInv, CallTold
  <2> QED  BY <2>0, <2>1
<1> QED  BY <1>1, <1>2, <1>3, <1>4, <1>5 DEF ScriptInv

\* A step that only the request of one editor goes on with.
LEMMA RequestMoves ==
    ASSUME ScriptInv, UNCHANGED <<books, snaps, calls>>, NEW u \in Editors, NEW r,
           work' = [work EXCEPT ![u] = r], PublishTold(r)
    PROVE  ScriptInv'
<1>1. RowsCounted' /\ SnapsTold'
  BY DEF ScriptInv, RowsCounted, SnapsTold, Told, ToldFields, Exists
<1>2. work' = [v \in Editors |-> work'[v]]
  BY DEF ScriptInv
<1>3. ASSUME NEW v \in Editors  PROVE PublishTold(work[v])'
  <2>1. work'[v] = IF v = u THEN r ELSE work[v]  BY DEF ScriptInv
  <2> QED  BY <2>1 DEF ScriptInv, PublishTold, Told, ToldFields, Exists
<1>4. \A c \in Calls : calls'[c].stage \in {"none", "row", "on"} /\ CallTold(calls[c])'
  BY DEF ScriptInv, CallTold, Exists, NotPlaced
<1> QED  BY <1>1, <1>2, <1>3, <1>4 DEF ScriptInv

\* Each step of an edit, publication, archival or deletion keeps what was read of the
\* playbooks in order.
LEMMA EditTells ==
    ASSUME BooksInv, ScriptInv, NEW u \in Editors, Edits(u)
    PROVE  ScriptInv'
<1>0. PICK B : B = work[u].book  OBVIOUS
<1>1. ASSUME NEW r, r.op \notin {"publish", "snapshot"}, UNCHANGED <<books, snaps, calls>>,
             work' = [work EXCEPT ![u] = r]
      PROVE  ScriptInv'
  <2>1. PublishTold(r)  BY <1>1 DEF PublishTold
  <2> QED  BY <1>1, <2>1, RequestMoves
<1>2. CASE Drops(u)
  BY <1>1, <1>2 DEF Drops, ReadsOn, Resting
<1>3. CASE CreateReads(u) \/ DuplicateReads(u) \/ DuplicateReadsFields(u) \/ UpdateReads(u)
           \/ ArchiveReads(u) \/ DeleteReads(u)
  BY <1>1, <1>3 DEF CreateReads, DuplicateReads, DuplicateReadsFields, UpdateReads,
                    ArchiveReads, DeleteReads, Opens, ReadsOn
<1>4. CASE UpdateDeletes(u)
  <2> DEFINE r == [work[u] EXCEPT !.op = "write",
                     !.seen = IF Exists(work[u].book) THEN books[work[u].book].fields ELSE {}]
  <2>1. work[u].op = "replace" /\ UNCHANGED <<books, snaps, calls>>
        /\ work' = [work EXCEPT ![u] = r]
    BY <1>4 DEF UpdateDeletes, ReadsOn
  <2>2. r.op \notin {"publish", "snapshot"}
    <3>1. CASE "op" \in DOMAIN work[u]  BY <3>1
    <3>2. CASE "op" \notin DOMAIN work[u]  BY <2>1, <3>2
    <3> QED  BY <3>1, <3>2
  <2> HIDE DEF r
  <2> QED  BY <1>1, <2>1, <2>2
<1>5. CASE PublishReads(u)
  <2>1. PICK b \in Books :
          /\ Exists(b) /\ UNCHANGED <<books, snaps, calls>>
          /\ work' = [work EXCEPT ![u] = [op |-> "publish", book |-> b, row |-> books[b]]]
    BY <1>5 DEF PublishReads, Opens
  <2>2. PublishTold([op |-> "publish", book |-> b, row |-> books[b]])
    BY <2>1 DEF PublishTold, Told, Exists, ScriptInv, RowsCounted
  <2> QED  BY <2>1, <2>2, RequestMoves
<1>6. CASE PublishReadsFields(u)
  <2>1. CASE Drops(u)  BY <1>2, <2>1
  <2>2. CASE ~Drops(u)
    <3> DEFINE row == [work[u].row EXCEPT
                         !.fields = IF Exists(B) THEN books[B].fields ELSE {}]
               r   == [op |-> "snapshot", book |-> B, row |-> row]
    <3>1. /\ work[u].op = "publish" /\ UNCHANGED <<books, snaps, calls>>
          /\ work' = [work EXCEPT ![u] = r]
      BY <1>0, <1>6, <2>2 DEF PublishReadsFields, ReadsOn
    <3>2. Told(B, work[u].row.saves, work[u].row.content)
      BY <1>0, <3>1 DEF ScriptInv, PublishTold
    <3>3. {"saves", "content", "fields"} \subseteq DOMAIN work[u].row
      BY <1>0, <3>1 DEF ScriptInv, PublishTold
    <3>4. /\ row.saves = work[u].row.saves /\ row.content = work[u].row.content
          /\ row.fields = IF Exists(B) THEN books[B].fields ELSE {}
          /\ DOMAIN row = DOMAIN work[u].row
      BY <3>3
    <3> HIDE DEF row
    <3>5. Told(B, row.saves, row.content) /\ ToldFields(B, row.saves, row.fields)
      BY <3>2, <3>4 DEF ToldFields
    <3>6. r.book = B /\ r.row = row
      OBVIOUS
    <3> HIDE DEF r
    <3>7. PublishTold(r)  BY <3>3, <3>4, <3>5, <3>6 DEF PublishTold
    <3> QED  BY <3>1, <3>7, RequestMoves
  <2> QED  BY <2>1, <2>2
<1>7. CASE NewWrites(u)
  <2>1. PICK b \in Books :
          /\ books[b] = Unborn
          /\ books' = [books EXCEPT ![b] = Draft(work[u].content, work[u].fields)]
          /\ UNCHANGED <<snaps, calls>> /\ work' = [work EXCEPT ![u] = Resting]
    BY <1>7 DEF NewWrites, Saves
  <2>2. \A x \in Books : books'[x] = IF x = b THEN Draft(work[u].content, work[u].fields)
                                     ELSE books[x]
    BY <2>1 DEF BooksInv
  <2>3. \A x \in Books : Moves(x)
    BY <2>1, <2>2 DEF Moves, Draft, Unborn, Exists, ScriptInv, RowsCounted
  <2> QED  BY <2>1, <2>3, RowsMove
<1>8. CASE UpdateWrites(u) /\ ~Drops(u)
  <2> DEFINE r    == work[u]
             row  == books[B]
             left == row.fields \ r.seen
             new  == [row EXCEPT !.content = IF r.columns THEN r.edit ELSE row.content,
                                 !.fields = IF r.keys = <<>> THEN row.fields
                                            ELSE left \cup Written(r.keys[1], r.edit),
                                 !.saves = @ + 1]
  <2>1. /\ Exists(B) /\ books' = [books EXCEPT ![B] = new]
        /\ UNCHANGED <<snaps, calls>> /\ work' = [work EXCEPT ![u] = Resting]
    BY <1>0, <1>8 DEF UpdateWrites, Saves
  <2>2. ASSUME B \in Books
        PROVE  /\ DOMAIN new = DOMAIN row
               /\ new.saves = row.saves + 1 /\ new.saves \in Nat
               /\ new.status = row.status
    <3>1. {"content", "fields", "saves"} \subseteq DOMAIN row /\ row.saves \in Nat
          /\ "status" \in DOMAIN row
      BY <2>1, <2>2 DEF ScriptInv, RowsCounted, BooksInv, RowsHaveColumns
    <3> QED  BY <3>1
  <2> HIDE DEF new
  <2>3. \A x \in Books : books'[x] = IF x = B THEN new ELSE books[x]
    BY <2>1 DEF BooksInv
  <2>4. \A x \in Books : Moves(x)
    BY <2>1, <2>2, <2>3 DEF Moves, Exists, ScriptInv, RowsCounted
  <2> QED  BY <2>1, <2>4, RowsMove
<1>9. CASE PublishWrites(u) /\ ~Drops(u)
  <2>0. PICK r, n, snap : /\ r = work[u] /\ n = r.row.version + 1
                          /\ snap = Snapshot(B, n, r.row)
    OBVIOUS
  <2> DEFINE row == books[B]
             new == [row EXCEPT !.version = n,
                                !.status = IF r.row.status = "active" THEN row.status
                                           ELSE "active"]
  <2>1. /\ Exists(B) /\ ~IsSnapped(B, n) /\ books' = [books EXCEPT ![B] = new]
        /\ snaps' = snaps \cup {snap} /\ calls' = calls
        /\ r.op = "snapshot" /\ work' = [work EXCEPT ![u] = Resting]
    BY <1>0, <1>9, <2>0 DEF PublishWrites, Saves
  <2>2. ASSUME B \in Books
        PROVE  /\ DOMAIN new = DOMAIN row
               /\ new.saves = row.saves /\ new.content = row.content /\ new.fields = row.fields
               /\ new.status \in {row.status, "active"}
    <3>1. {"status", "version", "content", "fields", "saves"} \subseteq DOMAIN row
      BY <2>1, <2>2 DEF ScriptInv, RowsCounted, BooksInv, RowsHaveColumns
    <3> QED  BY <3>1
  <2> HIDE DEF new
  <2>3. \A x \in Books : books'[x] = IF x = B THEN new ELSE books[x]
    BY <2>1 DEF BooksInv
  <2>4. \A x \in Books : Moves(x)
    BY <2>1, <2>2, <2>3 DEF Moves, Exists, ScriptInv, RowsCounted
  <2>5. PublishTold(r)
    BY <2>0 DEF ScriptInv
  <2>6. /\ snap.book = B /\ snap.version = n /\ snap.saves = r.row.saves
        /\ snap.content = r.row.content /\ snap.fields = r.row.fields
    BY <2>0 DEF Snapshot
  <2>7. /\ Told(snap.book, snap.saves, snap.content)
        /\ ToldFields(snap.book, snap.saves, snap.fields)
    BY <1>0, <2>0, <2>1, <2>5, <2>6 DEF PublishTold
  <2>8. \A c \in Calls : calls[c] # NotPlaced /\ Exists(calls[c].book) =>
           ~(snap.book = calls[c].book /\ snap.version = calls[c].version)
    BY <2>1, <2>6 DEF BooksInv, CallsAreSnapped
  <2>9. snaps' \ snaps \subseteq {snap}
    BY <2>1
  <2> QED  BY <2>1, <2>4, <2>7, <2>8, <2>9, RowsMove
<1>10. CASE ArchiveWrites(u) /\ ~Drops(u)
  <2>1. /\ Exists(B) /\ books' = [books EXCEPT ![B].status = "archived"]
        /\ UNCHANGED <<snaps, calls>> /\ work' = [work EXCEPT ![u] = Resting]
    BY <1>0, <1>10 DEF ArchiveWrites, Saves
  <2>2. \A x \in Books : books'[x] = IF x = B THEN [books[B] EXCEPT !.status = "archived"]
                                     ELSE books[x]
    BY <2>1 DEF BooksInv
  <2>3. B \in Books => {"status", "content", "fields", "saves"} \subseteq DOMAIN books[B]
    BY <2>1 DEF ScriptInv, RowsCounted, BooksInv, RowsHaveColumns
  <2>4. \A x \in Books : Moves(x)
    BY <2>1, <2>2, <2>3 DEF Moves, Exists, ScriptInv, RowsCounted
  <2> QED  BY <2>1, <2>4, RowsMove
<1>11. CASE DeleteWrites(u)
  <2>1. /\ books' = [books EXCEPT ![B] = Gone]
        /\ snaps' = {s \in snaps : s.book # B} /\ calls' = calls
        /\ work' = [work EXCEPT ![u] = Resting]
    BY <1>0, <1>11 DEF DeleteWrites, Saves
  <2>2. \A x \in Books : books'[x] = IF x = B THEN Gone ELSE books[x]
    BY <2>1 DEF BooksInv
  <2>3. \A x \in Books : Moves(x)
    BY <2>2 DEF Moves, Exists, Gone, ScriptInv, RowsCounted
  <2> QED  BY <2>1, <2>3, RowsMove
<1> QED
  BY <1>2, <1>3, <1>4, <1>5, <1>6, <1>7, <1>8, <1>9, <1>10, <1>11 DEF Edits

\* A call reads the row of an active playbook, and its fields a moment later.
LEMMA CallTells ==
    ASSUME BooksInv, ScriptInv, NEW c \in Calls, CallReads(c) \/ CallReadsFields(c)
    PROVE  ScriptInv'
<1>1. UNCHANGED <<books, snaps, work>>  BY DEF CallReads, CallReadsFields
<1>2. RowsCounted' /\ SnapsTold' /\ work' = [u \in Editors |-> work'[u]]
      /\ \A u \in Editors : PublishTold(work[u])'
  BY <1>1 DEF ScriptInv, RowsCounted, SnapsTold, PublishTold, Told, ToldFields, Exists
<1>3. ASSUME NEW d \in Calls, d # c
      PROVE  calls'[d].stage \in {"none", "row", "on"} /\ CallTold(calls[d])'
  <2>1. calls'[d] = calls[d]  BY <1>3 DEF BooksInv, CallReads, CallReadsFields
  <2> QED  BY <1>1, <2>1 DEF ScriptInv, CallTold, Exists, NotPlaced
<1>4. CASE CallReads(c)
  <2>1. PICK b \in Books :
          /\ books[b].status = "active"
          /\ calls' = [calls EXCEPT ![c] = [stage |-> "row", book |-> b,
                            version |-> books[b].version, content |-> books[b].content]]
    BY <1>4 DEF CallReads
  <2>2. calls'[c] = [stage |-> "row", book |-> b, version |-> books[b].version,
                     content |-> books[b].content]
    BY <2>1 DEF BooksInv
  <2>3. CallTold(calls[c])'
    BY <1>1, <2>1, <2>2 DEF CallTold, ScriptInv, SnapsTold, Told, Exists
  <2> QED  BY <1>1, <1>2, <1>3, <2>2, <2>3 DEF ScriptInv
<1>5. CASE CallReadsFields(c)
  <2>1. PICK k : k = calls[c]  OBVIOUS
  <2>2. /\ k.stage = "row" /\ CallTold(k) /\ k # NotPlaced
        /\ calls'[c] = [stage |-> "on", book |-> k.book, version |-> k.version,
                        content |-> k.content,
                        fields |-> IF Exists(k.book) THEN books[k.book].fields ELSE {},
                        saves |-> IF Exists(k.book) THEN books[k.book].saves ELSE 0]
    BY <1>5, <2>1 DEF CallReadsFields, BooksInv, ScriptInv, NotPlaced
  <2>3. CallTold(calls[c])'
    <3> SUFFICES ASSUME Exists(k.book), NEW s \in snaps,
                        s.book = k.book, s.version = k.version, s.saves = books[k.book].saves
                 PROVE  k.content = s.content /\ books[k.book].fields = s.fields
      BY <1>1, <2>2 DEF CallTold, Exists
    <3>1. k.content = s.content
      BY <2>2 DEF CallTold
    <3>2. books[k.book].fields = s.fields
      BY DEF ScriptInv, SnapsTold, ToldFields
    <3> QED  BY <3>1, <3>2
  <2> QED  BY <1>1, <1>2, <1>3, <2>2, <2>3 DEF ScriptInv
<1> QED  BY <1>4, <1>5

\* For any playbooks, editors, calls and number of requests: the number a call goes
\* by is that of one snapshot, and unless an update was saved since that publish read
\* the playbook, so are the script and the fields (CallsRunWhatWasPublished).
THEOREM CallsRunWhatWasPublishedCorrect == BooksSpec => []CallsRunWhatWasPublished
<1>1. BooksInit => BooksInv /\ ScriptInv
  BY DEF BooksInit, BooksInv, RowsHaveColumns, SnappedOnce, ActiveIsSnapped, CallsAreSnapped,
         Draft, Unborn, NotPlaced, Exists, ScriptInv, RowsCounted, SnapsTold, PublishTold,
         CallTold, Resting
<1>2. BooksInv /\ ScriptInv /\ [BooksNext]_bookVars => (BooksInv /\ ScriptInv)'
  <2> SUFFICES ASSUME BooksInv, ScriptInv, [BooksNext]_bookVars PROVE BooksInv' /\ ScriptInv'
    OBVIOUS
  <2>1. CASE UNCHANGED bookVars
    <3>1. BooksInv'
      BY <2>1 DEF bookVars, BooksInv, RowsHaveColumns, SnappedOnce, ActiveIsSnapped,
                  CallsAreSnapped, Exists, IsSnapped, NotPlaced
    <3>2. ScriptInv'
      BY <2>1 DEF bookVars, ScriptInv, RowsCounted, SnapsTold, PublishTold, CallTold, Told,
                  ToldFields, Exists, NotPlaced
    <3> QED  BY <3>1, <3>2
  <2>2. CASE BooksNext
    BY <2>2, EditStep, CallScriptStep, EditTells, CallTells DEF BooksNext
  <2> QED  BY <2>1, <2>2
<1>3. BooksInv /\ ScriptInv => CallsRunWhatWasPublished
  <2> SUFFICES ASSUME BooksInv, ScriptInv, NEW c \in Calls,
                      calls[c].stage = "on", Exists(calls[c].book)
               PROVE  \E s \in snaps :
                        /\ Versions(c) = {s}
                        /\ calls[c].saves = s.saves =>
                               calls[c].content = s.content /\ calls[c].fields = s.fields
    BY DEF CallsRunWhatWasPublished
  <2>1. calls[c] # NotPlaced
    BY DEF NotPlaced
  <2>2. PICK s \in snaps : s.book = calls[c].book /\ s.version = calls[c].version
    BY <2>1 DEF BooksInv, CallsAreSnapped, IsSnapped
  <2>3. Versions(c) = {s}
    BY <2>2 DEF Versions, BooksInv, SnappedOnce
  <2>4. CallTold(calls[c])
    BY DEF ScriptInv
  <2> QED  BY <2>1, <2>2, <2>3, <2>4 DEF CallTold
<1> QED  BY <1>1, <1>2, <1>3, PTL DEF BooksSpec

-----------------------------------------------------------------------------
(* Proofs about the life of a campaign: while it is launched and edited only  *)
(* before it is paused, it is completed only when every execution is done.    *)

\* Executions exist only once there is a workflow that goes with the status; what
\* the tick has counted as finished stays finished until it completes the campaign.
LifeInv ==
    /\ status \in {"draft", "scheduled"} => Enqueued = {}
    /\ status = "scheduled" \/ task.pc = "due" => Enqueued = {} /\ InState("active") = {}
    /\ status = "active" /\ Enqueued # {} => InState("active") # {}
    /\ status = "paused" /\ Enqueued # {} => InState("paused") # {}
    /\ status = "completed" => task.pc \in {"idle", "list"}
    /\ task.pc = "due" => status \in {"scheduled", "archived"}
    /\ task.pc = "decide" /\ AllDone =>
          /\ HasStatus("queued") = {} /\ HasStatus("running") = {}
          /\ Enqueued # {} /\ status \in {"active", "paused", "archived"}
    /\ task.pc = "dispatch" /\ task.batch # {} => Enqueued # {}
    /\ CompletedMeansDone

\* The latest of some workflows is one of them.
LEMMA LatestIsIn ==
    ASSUME NEW n \in Nat, NEW S, S \subseteq 1..n, S # {}
    PROVE  Latest(S) \in S
<1>1. PICK R : R = OpToRel(<, Nat)
  OBVIOUS
<1>2. IsWellFoundedOn(R, Nat)
  BY <1>1, NatLessThanWellFounded
<1>3. PICK T : T = {n - w : w \in S}
  OBVIOUS
<1>4. T \subseteq Nat /\ T # {}
  <2>1. \A w \in S : w \in 1..n /\ n - w \in Nat
    OBVIOUS
  <2>2. \E w : w \in S
    OBVIOUS
  <2> QED
    BY <1>3, <2>1, <2>2
<1>5. PICK x \in T : \A y \in T : ~ (<<y, x>> \in R)
  BY <1>2, <1>4, WFMin
<1>6. PICK w \in S : x = n - w
  BY <1>3
<1>7. ASSUME NEW v \in S PROVE v <= w
  <2>1. n - v \in T /\ n - v \in Nat /\ x \in Nat
    BY <1>3, <1>4
  <2>2. n - v < x => <<n - v, x>> \in R
    BY <1>1, <2>1 DEF OpToRel
  <2>3. ~ (n - v < x)
    BY <1>5, <2>1, <2>2
  <2> QED
    BY <1>6, <2>1, <2>3
<1> QED
  BY <1>7 DEF Latest

\* A query for the latest workflow in a state finds one in that state.
LEMMA LatestInState ==
    ASSUME CampaignTypeOK, NEW s, InState(s) # {}
    PROVE  Latest(InState(s)) \in 1..Len(workflows) /\ workflows[Latest(InState(s))] = s
<1>1. InState(s) \subseteq 1..Len(workflows) /\ Len(workflows) \in Nat
  BY DEF CampaignTypeOK, InState
<1>2. Latest(InState(s)) \in InState(s)
  BY <1>1, LatestIsIn
<1> QED
  BY <1>1, <1>2 DEF InState

\* The queries are counts of finite sets.
LEMMA CountsAreCounts ==
    ASSUME NEW S, S \subseteq Workflows \X Leads
    PROVE  Cardinality(S) \in Nat /\ (Cardinality(S) = 0 <=> S = {})
<1>1. IsFiniteSet(Leads) /\ IsFiniteSet(Workflows)
  BY LifecycleAssumption, FS_Interval DEF Workflows
<1>2. IsFiniteSet(Workflows \X Leads)
  BY <1>1, FS_Product
<1>3. IsFiniteSet(S)
  BY <1>2, FS_Subset
<1> QED
  BY <1>3, FS_CardinalityType, FS_EmptySet

\* What the launch writes is well typed.
LEMMA LaunchType ==
    ASSUME CampaignTypeOK, NEW loaded \in CampaignStatuses, NEW later, DoActivate(loaded, later)
    PROVE  /\ status' \in CampaignStatuses
           /\ workflows' \in Seq({"active", "paused", "completed"})
           /\ Len(workflows') <= MaxWorkflows
           /\ execs' \in [Workflows -> [Leads -> {"none", "queued", "running", "done"}]]
<1>1. /\ MaxWorkflows \in Nat /\ Len(workflows) \in Nat
      /\ execs \in [Workflows -> [Leads -> {"none", "queued", "running", "done"}]]
      /\ workflows \in Seq({"active", "paused", "completed"}) /\ Len(workflows) <= MaxWorkflows
      /\ status \in CampaignStatuses
  BY LifecycleAssumption DEF CampaignTypeOK
<1>2. \A w \in Workflows :
        EnqueueLeads(w) \in [Workflows -> [Leads -> {"none", "queued", "running", "done"}]]
  BY <1>1 DEF EnqueueLeads
<1>3. {"active", "scheduled"} \subseteq CampaignStatuses
  BY DEF CampaignStatuses
<1>4. CASE ActivateExisting(loaded)
  <2>1. Latest(InState("active")) \in Workflows
    BY <1>1, <1>4, LatestInState DEF ActivateExisting, Workflows
  <2> QED
    BY <1>1, <1>2, <1>3, <1>4, <2>1 DEF ActivateExisting, Rewritten
<1>5. CASE ActivateLater(loaded, later)
  BY <1>1, <1>3, <1>5 DEF ActivateLater, Rewritten
<1>6. CASE ActivateNow(loaded, later)
  <2>1. Len(workflows) + 1 \in Workflows
    BY <1>1, <1>6 DEF ActivateNow, Workflows
  <2>2. /\ workflows' = Append(workflows, "active")
        /\ workflows' \in Seq({"active", "paused", "completed"})
        /\ Len(workflows') = Len(workflows) + 1
    BY <1>1, <1>6 DEF ActivateNow
  <2>3. Len(workflows') <= MaxWorkflows
    BY <1>1, <1>6, <2>2 DEF ActivateNow
  <2> QED
    BY <1>2, <1>1, <1>3, <1>6, <2>1, <2>2, <2>3 DEF ActivateNow, Rewritten
<1> QED
  BY <1>4, <1>5, <1>6 DEF DoActivate

\* A workflow changes state: the list stays one of states.
LEMMA WithStateType ==
    ASSUME CampaignTypeOK, NEW w, NEW s \in {"active", "paused", "completed"}
    PROVE  /\ WithState(w, s) \in Seq({"active", "paused", "completed"})
           /\ Len(WithState(w, s)) = Len(workflows)
           /\ w \in 1..Len(workflows) => WithState(w, s)[w] = s
<1>1. PICK n \in Nat : workflows \in [1..n -> {"active", "paused", "completed"}]
  BY DEF CampaignTypeOK
<1>2. Len(workflows) = n
  BY <1>1
<1>3. WithState(w, s) \in [1..n -> {"active", "paused", "completed"}]
  BY <1>1 DEF WithState
<1>4. /\ WithState(w, s) \in Seq({"active", "paused", "completed"})
      /\ Len(WithState(w, s)) = n
  BY <1>3
<1>5. w \in 1..n => WithState(w, s)[w] = s
  BY <1>1 DEF WithState
<1> QED
  BY <1>2, <1>4, <1>5

\* One execution moves on.
LEMMA ExecMoves ==
    ASSUME CampaignTypeOK, NEW w, NEW l, NEW s \in {"none", "queued", "running", "done"}
    PROVE  [execs EXCEPT ![w][l] = s] \in
             [Workflows -> [Leads -> {"none", "queued", "running", "done"}]]
BY DEF CampaignTypeOK

\* What users do keeps the types.
LEMMA UserKeepsType ==
    ASSUME CampaignTypeOK, Activate \/ PutWorkflow \/ Pause \/ Resume \/ Patch \/ Execute
    PROVE  CampaignTypeOK'
<1>1. status \in CampaignStatuses /\ Len(workflows) \in Nat /\ MaxWorkflows \in Nat
      /\ PatchTo \subseteq CampaignStatuses /\ {"active", "paused"} \subseteq CampaignStatuses
  BY LifecycleAssumption DEF CampaignTypeOK, CampaignStatuses
<1>2. CASE Activate
  BY <1>1, <1>2, LaunchType DEF Activate, CampaignTypeOK
<1>3. CASE PutWorkflow
  <2>1. /\ workflows' \in Seq({"active", "paused", "completed"})
        /\ Len(workflows') = Len(workflows) + 1
    BY <1>3 DEF PutWorkflow, CampaignTypeOK
  <2>2. Len(workflows') <= MaxWorkflows
    BY <1>1, <1>3, <2>1 DEF PutWorkflow
  <2> QED
    BY <1>3, <2>1, <2>2 DEF PutWorkflow, CampaignTypeOK
<1>4. CASE Pause
  BY <1>1, <1>4, WithStateType DEF Pause, PausedWorkflow, CampaignTypeOK
<1>5. CASE Resume
  BY <1>1, <1>5, WithStateType DEF Resume, ResumedWorkflow, CampaignTypeOK
<1>6. CASE Patch
  BY <1>1, <1>6 DEF Patch, CampaignTypeOK
<1>7. CASE Execute
  <2>1. PICK x \in HasStatus("queued") : execs' = [execs EXCEPT ![x[1]][x[2]] = "running"]
    BY <1>7 DEF Execute
  <2>2. execs' \in [Workflows -> [Leads -> {"none", "queued", "running", "done"}]]
    BY <2>1, ExecMoves
  <2> QED
    BY <1>7, <2>2 DEF Execute, CampaignTypeOK
<1> QED
  BY <1>2, <1>3, <1>4, <1>5, <1>6, <1>7

\* What the tick does keeps the types.
LEMMA TickKeepsType ==
    ASSUME CampaignTypeOK, TaskStep
    PROVE  CampaignTypeOK'
<1>1. /\ IdleTask \in Task /\ task \in Task /\ MaxWorkflows \in Nat /\ Len(workflows) \in Nat
      /\ "completed" \in CampaignStatuses /\ "scheduled" \in CampaignStatuses
  BY LifecycleAssumption DEF CampaignTypeOK, IdleTask, Task, CampaignStatuses
<1>2. CASE StartTick
  BY <1>1, <1>2 DEF StartTick, CampaignTypeOK, Task
<1>3. CASE ActivateDue
  <2>1. task' \in Task
    BY <1>1, <1>3 DEF ActivateDue, Task
  <2> QED
    BY <1>1, <1>3, <2>1, LaunchType DEF ActivateDue, CampaignTypeOK
<1>4. CASE ListActive
  <2>1. task' \in Task
    BY <1>1, <1>4 DEF ListActive, Task, CampaignTypeOK
  <2> QED
    BY <1>4, <2>1 DEF ListActive, CampaignTypeOK
<1>5. CASE CountExecutions
  <2>1. /\ Cardinality(Enqueued) \in Nat /\ Cardinality(HasStatus("queued")) \in Nat
        /\ Cardinality(HasStatus("running")) \in Nat
    BY CountsAreCounts DEF Enqueued, HasStatus
  <2>2. task' \in Task
    BY <1>1, <1>5, <2>1 DEF CountExecutions, Task
  <2> QED
    BY <1>5, <2>2 DEF CountExecutions, CampaignTypeOK
<1>6. CASE CompleteCampaign
  BY <1>1, <1>6, WithStateType DEF CompleteCampaign, CompletedWorkflow, CampaignTypeOK
<1>7. CASE SelectBatch
  <2>1. InState("active") # {} => Latest(InState("active")) \in 0..MaxWorkflows
    BY <1>1, LatestInState DEF CampaignTypeOK
  <2>2. task' \in Task
    BY <1>1, <1>7, <2>1 DEF SelectBatch, Task
  <2> QED
    BY <1>7, <2>2 DEF SelectBatch, CampaignTypeOK
<1>8. CASE DispatchRow
  <2>1. task' \in Task
    BY <1>1, <1>8 DEF DispatchRow, Task
  <2>2. PICK l \in task.batch : execs' = [execs EXCEPT ![task.wf][l] = "running"]
    BY <1>8 DEF DispatchRow
  <2>3. execs' \in [Workflows -> [Leads -> {"none", "queued", "running", "done"}]]
    BY <2>2, ExecMoves
  <2> QED
    BY <1>8, <2>1, <2>3 DEF DispatchRow, CampaignTypeOK
<1>9. CASE EndTick
  BY <1>1, <1>9 DEF EndTick, CampaignTypeOK
<1> QED
  BY <1>2, <1>3, <1>4, <1>5, <1>6, <1>7, <1>8, <1>9 DEF TaskStep

\* Every step keeps the types.
LEMMA LifeKeepsType == ASSUME CampaignTypeOK, [CampaignNext]_campaignVars PROVE CampaignTypeOK'
<1>1. CASE \E w \in Workflows, l \in Leads : Finish(w, l)
  <2>1. PICK w \in Workflows, l \in Leads : Finish(w, l)
    BY <1>1
  <2>2. execs' = [execs EXCEPT ![w][l] = "done"]
    BY <2>1 DEF Finish
  <2>3. execs' \in [Workflows -> [Leads -> {"none", "queued", "running", "done"}]]
    BY <2>2, ExecMoves
  <2> QED
    BY <2>1, <2>3 DEF Finish, CampaignTypeOK
<1>2. CASE Arrives
  BY <1>2 DEF Arrives, CampaignTypeOK
<1>3. CASE OpenOrClose
  BY <1>3 DEF OpenOrClose, CampaignTypeOK
<1>4. CASE UNCHANGED campaignVars
  BY <1>4 DEF campaignVars, CampaignTypeOK
<1> QED
  BY <1>1, <1>2, <1>3, <1>4, UserKeepsType, TickKeepsType DEF CampaignNext

\* A launch makes executions of the workflow it leaves active.
LEMMA LaunchKeepsLife ==
    ASSUME CampaignTypeOK, LifeInv, CarefulUsers, Activate
    PROVE  LifeInv'
<1>1. status \in {"draft", "active"} /\ DoActivate(status, future \/ ~open) /\ task' = task
  BY DEF Activate, CarefulUsers
<1>2. CASE ActivateExisting(status)
  <2>1. status' = "active" /\ workflows' = workflows /\ InState("active") # {}
    BY <1>1, <1>2 DEF ActivateExisting, Rewritten
  <2>2. Enqueued # {} => execs' = execs
    BY <1>2 DEF ActivateExisting
  <2> QED
    BY <1>1, <2>1, <2>2 DEF LifeInv, CompletedMeansDone, AllDone, Enqueued, HasStatus, InState
<1>3. CASE ActivateLater(status, future \/ ~open)
  <2>1. status' = "scheduled" /\ workflows' = workflows /\ execs' = execs /\ InState("active") = {}
    BY <1>3 DEF ActivateLater, Rewritten
  <2> QED
    BY <1>1, <2>1 DEF LifeInv, CompletedMeansDone, AllDone, Enqueued, HasStatus, InState
<1>4. CASE ActivateNow(status, future \/ ~open)
  <2>1. status' = "active" /\ Enqueued = {} /\ InState("active") = {}
    BY <1>1, <1>4 DEF ActivateNow, Rewritten, LifeInv
  <2>2. workflows' = Append(workflows, "active") /\ Len(workflows) \in Nat
    BY <1>4 DEF ActivateNow, CampaignTypeOK
  <2>3. Len(workflows) + 1 \in DOMAIN workflows' /\ workflows'[Len(workflows) + 1] = "active"
    BY <2>2 DEF CampaignTypeOK
  <2>4. InState("active")' # {}
    BY <2>3 DEF InState
  <2>5. /\ ~(task.pc = "decide" /\ AllDone) /\ task.pc # "due"
        /\ ~(task.pc = "dispatch" /\ task.batch # {})
    BY <1>1, <2>1 DEF LifeInv
  <2>6. /\ ~(task'.pc = "decide" /\ AllDone') /\ task'.pc # "due"
        /\ ~(task'.pc = "dispatch" /\ task'.batch # {})
    BY <1>1, <2>5 DEF AllDone
  <2> QED
    BY <2>1, <2>4, <2>6 DEF LifeInv, CompletedMeansDone
<1> QED
  BY <1>1, <1>2, <1>3, <1>4 DEF DoActivate

\* Editing, pausing, resuming, archiving and dialling by hand move workflows along
\* with the campaign and enqueue nobody.
LEMMA UserKeepsLife ==
    ASSUME CampaignTypeOK, LifeInv, CarefulUsers, PutWorkflow \/ Pause \/ Resume \/ Patch \/ Execute
    PROVE  LifeInv'
<1>1. CASE PutWorkflow
  <2>1. /\ status \in {"draft", "active"} /\ status' = status /\ task' = task /\ execs' = execs
        /\ workflows' = Append(workflows, "active") /\ Len(workflows) \in Nat
    BY <1>1 DEF PutWorkflow, CarefulUsers, CampaignTypeOK
  <2>2. Len(workflows) + 1 \in DOMAIN workflows' /\ workflows'[Len(workflows) + 1] = "active"
    BY <2>1 DEF CampaignTypeOK
  <2>3. InState("active")' # {}
    BY <2>2 DEF InState
  <2>4. Enqueued' = Enqueued /\ HasStatus("queued")' = HasStatus("queued")
        /\ HasStatus("running")' = HasStatus("running") /\ AllDone' = AllDone
    BY <2>1 DEF Enqueued, HasStatus, AllDone
  <2> QED
    BY <2>1, <2>3, <2>4 DEF LifeInv, CompletedMeansDone
<1>2. CASE Pause
  <2>1. /\ status = "active" /\ status' = "paused" /\ task' = task /\ execs' = execs
    BY <1>2 DEF Pause
  <2>2. InState("active") # {} => InState("paused")' # {}
    <3>1. PICK w : w = Latest(InState("active"))
      OBVIOUS
    <3>2. InState("active") # {} => w \in 1..Len(workflows) /\ workflows' = WithState(w, "paused")
      BY <1>2, <3>1, LatestInState DEF Pause, PausedWorkflow
    <3>3. InState("active") # {} =>
            /\ w \in DOMAIN workflows' /\ workflows'[w] = "paused"
      BY <3>2, WithStateType DEF CampaignTypeOK
    <3> QED
      BY <3>3 DEF InState
  <2>3. Enqueued' = Enqueued /\ HasStatus("queued")' = HasStatus("queued")
        /\ HasStatus("running")' = HasStatus("running") /\ AllDone' = AllDone
    BY <2>1 DEF Enqueued, HasStatus, AllDone
  <2> QED
    BY <2>1, <2>2, <2>3 DEF LifeInv, CompletedMeansDone
<1>3. CASE Resume
  <2>1. /\ status = "paused" /\ status' = "active" /\ task' = task /\ execs' = execs
    BY <1>3 DEF Resume
  <2>2. InState("paused") # {} => InState("active")' # {}
    <3>1. PICK w : w = Latest(InState("paused"))
      OBVIOUS
    <3>2. InState("paused") # {} => w \in 1..Len(workflows) /\ workflows' = WithState(w, "active")
      BY <1>3, <3>1, LatestInState DEF Resume, ResumedWorkflow
    <3>3. InState("paused") # {} =>
            /\ w \in DOMAIN workflows' /\ workflows'[w] = "active"
      BY <3>2, WithStateType DEF CampaignTypeOK
    <3> QED
      BY <3>3 DEF InState
  <2>3. Enqueued' = Enqueued /\ HasStatus("queued")' = HasStatus("queued")
        /\ HasStatus("running")' = HasStatus("running") /\ AllDone' = AllDone
    BY <2>1 DEF Enqueued, HasStatus, AllDone
  <2> QED
    BY <2>1, <2>2, <2>3 DEF LifeInv, CompletedMeansDone
<1>4. CASE Patch
  <2>1. /\ status' = "archived" /\ task' = task /\ execs' = execs /\ workflows' = workflows
    BY <1>4 DEF Patch, CarefulUsers
  <2> QED
    BY <2>1 DEF LifeInv, CompletedMeansDone, AllDone, Enqueued, HasStatus, InState
<1>5. CASE Execute
  <2>1. PICK x \in HasStatus("queued") : execs' = [execs EXCEPT ![x[1]][x[2]] = "running"]
    BY <1>5 DEF Execute
  <2>2. /\ status' = status /\ task' = task /\ workflows' = workflows
        /\ status # "completed" /\ ~(task.pc = "decide" /\ AllDone)
    BY <1>5, <2>1 DEF Execute, LifeInv, CompletedMeansDone
  <2>3. Enqueued' = Enqueued
    BY <2>1 DEF Enqueued, HasStatus, CampaignTypeOK
  <2>4. InState("active")' = InState("active") /\ InState("paused")' = InState("paused")
        /\ AllDone' = AllDone
    BY <2>2 DEF InState, AllDone
  <2> QED
    BY <2>2, <2>3, <2>4 DEF LifeInv, CompletedMeansDone
<1> QED
  BY <1>1, <1>2, <1>3, <1>4, <1>5

\* The scheduled launch, by a tick that listed the campaign earlier.
LEMMA TickLaunchKeepsLife ==
    ASSUME CampaignTypeOK, LifeInv, ActivateDue
    PROVE  LifeInv'
<1>1. /\ task.pc = "due" /\ task'.pc = "list" /\ DoActivate("scheduled", ~open)
      /\ InState("active") = {} /\ Enqueued = {} /\ status \in {"scheduled", "archived"}
  BY DEF ActivateDue, LifeInv, CampaignTypeOK, Task
<1>2. CASE ActivateLater("scheduled", ~open)
  <2>1. status' = status /\ workflows' = workflows /\ execs' = execs
    BY <1>2 DEF ActivateLater, Rewritten
  <2> QED
    BY <1>1, <2>1 DEF LifeInv, CompletedMeansDone, Enqueued, InState
<1>3. CASE ActivateNow("scheduled", ~open)
  <2>1. /\ status' = "active" /\ workflows' = Append(workflows, "active")
        /\ Len(workflows) \in Nat
    BY <1>3 DEF ActivateNow, Rewritten, CampaignTypeOK
  <2>2. Len(workflows) + 1 \in DOMAIN workflows' /\ workflows'[Len(workflows) + 1] = "active"
    BY <2>1 DEF CampaignTypeOK
  <2>3. InState("active")' # {}
    BY <2>2 DEF InState
  <2> QED
    BY <1>1, <2>1, <2>3 DEF LifeInv, CompletedMeansDone
<1> QED
  BY <1>1, <1>2, <1>3 DEF DoActivate, ActivateExisting

\* The tick completes only what it has counted to the end.
LEMMA TickKeepsLife ==
    ASSUME CampaignTypeOK, LifeInv,
           StartTick \/ ListActive \/ CountExecutions \/ CompleteCampaign \/ SelectBatch \/ DispatchRow
             \/ EndTick
    PROVE  LifeInv'
<1>1. task = [task EXCEPT !.pc = task.pc] /\ task \in Task
  BY DEF CampaignTypeOK, Task
<1>2. CASE StartTick \/ ListActive \/ SelectBatch \/ EndTick
  <2>1. /\ status' = status /\ execs' = execs /\ workflows' = workflows
    BY <1>2 DEF StartTick, ListActive, SelectBatch, EndTick
  <2>2. /\ task'.pc # "decide"
        /\ status = "completed" => task'.pc \in {"idle", "list"}
        /\ task'.pc = "due" => status = "scheduled"
        /\ task'.pc = "dispatch" /\ task'.batch # {} => Enqueued # {}
    <3>1. CASE StartTick
      BY <1>1, <3>1 DEF StartTick, Task
    <3>2. CASE ListActive
      BY <1>1, <3>2 DEF ListActive, IdleTask, Task
    <3>3. CASE SelectBatch
      <4>1. PICK w : w = Latest(InState("active"))
        OBVIOUS
      <4>2. \/ task' = IdleTask
            \/ /\ InState("active") # {}
               /\ task'.pc = "dispatch" /\ task'.batch = {l \in Leads : execs[w][l] = "queued"}
        BY <3>3, <4>1 DEF SelectBatch, IdleTask
      <4>3. status # "completed"
        BY <3>3 DEF SelectBatch, LifeInv
      <4>4. InState("active") # {} => w \in Workflows
        BY <4>1, LatestInState, LifecycleAssumption DEF CampaignTypeOK, Workflows
      <4>5. \A l \in Leads : InState("active") # {} /\ execs[w][l] = "queued" => <<w, l>> \in Enqueued
        BY <4>4 DEF Enqueued
      <4>6. CASE task' = IdleTask
        BY <4>6 DEF IdleTask
      <4>7. CASE /\ InState("active") # {} /\ task'.pc = "dispatch"
                 /\ task'.batch = {l \in Leads : execs[w][l] = "queued"}
        <5>1. task'.batch # {} => Enqueued # {}
          BY <4>5, <4>7
        <5> QED
          BY <4>3, <4>7, <5>1
      <4> QED
        BY <4>2, <4>6, <4>7
    <3>4. CASE EndTick
      BY <3>4 DEF EndTick, IdleTask
    <3> QED
      BY <1>2, <3>1, <3>2, <3>3, <3>4
  <2> QED
    BY <2>1, <2>2 DEF LifeInv, CompletedMeansDone, Enqueued, HasStatus, InState
<1>3. CASE CountExecutions
  <2>1. /\ status' = status /\ execs' = execs /\ workflows' = workflows
        /\ task.pc = "count" /\ task'.pc = "decide"
        /\ task'.total = Cardinality(Enqueued)
        /\ task'.queued = Cardinality(HasStatus("queued"))
        /\ task'.running = Cardinality(HasStatus("running"))
    BY <1>1, <1>3 DEF CountExecutions, Task
  <2>2. /\ Cardinality(Enqueued) = 0 <=> Enqueued = {}
        /\ Cardinality(HasStatus("queued")) = 0 <=> HasStatus("queued") = {}
        /\ Cardinality(HasStatus("running")) = 0 <=> HasStatus("running") = {}
    BY CountsAreCounts DEF Enqueued, HasStatus
  <2>3. AllDone' => /\ HasStatus("queued") = {} /\ HasStatus("running") = {}
                    /\ Enqueued # {} /\ status \in {"active", "paused", "archived"}
    BY <2>1, <2>2 DEF AllDone, LifeInv, CampaignTypeOK, CampaignStatuses
  <2>4. status # "completed"
    BY <2>1 DEF LifeInv
  <2> QED
    BY <2>1, <2>3, <2>4 DEF LifeInv, CompletedMeansDone, Enqueued, HasStatus, InState
<1>4. CASE CompleteCampaign
  <2>1. /\ status' = "completed" /\ execs' = execs /\ task'.pc = "idle"
        /\ HasStatus("queued") = {} /\ HasStatus("running") = {}
    BY <1>4 DEF CompleteCampaign, IdleTask, LifeInv
  <2> QED
    BY <2>1 DEF LifeInv, CompletedMeansDone, HasStatus
<1>5. CASE DispatchRow
  <2>1. /\ status' = status /\ workflows' = workflows /\ task.pc = "dispatch"
        /\ task'.pc = "dispatch" /\ task.batch # {}
    BY <1>1, <1>5 DEF DispatchRow, Task
  <2>2. PICK l \in task.batch : execs' = [execs EXCEPT ![task.wf][l] = "running"]
    BY <1>5 DEF DispatchRow
  <2>3. PICK x : x \in Enqueued
    BY <2>1 DEF LifeInv
  <2>4. x \in Enqueued'
    BY <2>2, <2>3 DEF Enqueued, CampaignTypeOK
  <2>5. /\ status \notin {"draft", "scheduled", "completed"}
        /\ InState("active")' = InState("active") /\ InState("paused")' = InState("paused")
    BY <2>1, <2>3 DEF LifeInv, InState
  <2> QED
    BY <2>1, <2>3, <2>4, <2>5 DEF LifeInv, CompletedMeansDone
<1> QED
  BY <1>2, <1>3, <1>4, <1>5

\* Calls end, the start time comes, the calling window opens and closes.
LEMMA WorldKeepsLife ==
    ASSUME CampaignTypeOK, LifeInv,
           \/ \E w \in Workflows, l \in Leads : Finish(w, l)
           \/ Arrives \/ OpenOrClose \/ UNCHANGED campaignVars
    PROVE  LifeInv'
<1>1. CASE \E w \in Workflows, l \in Leads : Finish(w, l)
  <2>1. PICK w \in Workflows, l \in Leads : Finish(w, l)
    BY <1>1
  <2>2. /\ status' = status /\ workflows' = workflows /\ task' = task
        /\ execs[w][l] = "running" /\ execs' = [execs EXCEPT ![w][l] = "done"]
    BY <2>1 DEF Finish
  <2>3. /\ Enqueued' = Enqueued /\ HasStatus("queued")' \subseteq HasStatus("queued")
        /\ HasStatus("running")' \subseteq HasStatus("running")
    BY <2>2 DEF Enqueued, HasStatus, CampaignTypeOK
  <2>4. /\ InState("active")' = InState("active") /\ InState("paused")' = InState("paused")
        /\ AllDone' = AllDone
    BY <2>2 DEF InState, AllDone
  <2> QED
    BY <2>2, <2>3, <2>4 DEF LifeInv, CompletedMeansDone
<1>2. CASE Arrives \/ OpenOrClose \/ UNCHANGED campaignVars
  <2>1. UNCHANGED <<status, workflows, execs, task>>
    BY <1>2 DEF Arrives, OpenOrClose, campaignVars
  <2> QED
    BY <2>1 DEF LifeInv, CompletedMeansDone, Enqueued, HasStatus, InState, AllDone
<1> QED
  BY <1>1, <1>2

\* For any leads, workflows and overlapping of one tick with its users: a campaign
\* launched and edited only before it is paused is completed only when every
\* execution of all its workflows is done (CompletedMeansDone).
THEOREM CampaignSettledCorrect ==
    ASSUME CarefulUsers PROVE CampaignSpec => []CompletedMeansDone
<1>1. CampaignInit => CampaignTypeOK /\ LifeInv
  <2> SUFFICES ASSUME CampaignInit PROVE CampaignTypeOK /\ LifeInv
    OBVIOUS
  <2>1. /\ workflows = <<>> /\ task = IdleTask /\ status \in {"draft", "scheduled", "active"}
        /\ open = TRUE /\ future \in BOOLEAN
        /\ execs = [w \in Workflows |-> [l \in Leads |-> "none"]]
    BY DEF CampaignInit
  <2>2. Enqueued = {} /\ InState("active") = {} /\ HasStatus("queued") = {} /\ HasStatus("running") = {}
    BY <2>1 DEF Enqueued, InState, HasStatus
  <2>3. CampaignTypeOK
    BY <2>1, LifecycleAssumption DEF CampaignTypeOK, Task, IdleTask, CampaignStatuses
  <2> QED
    BY <2>1, <2>2, <2>3 DEF LifeInv, CompletedMeansDone, IdleTask
<1>2. CampaignTypeOK /\ LifeInv /\ [CampaignNext]_campaignVars => (CampaignTypeOK /\ LifeInv)'
  BY LifeKeepsType, LaunchKeepsLife, UserKeepsLife, TickLaunchKeepsLife, TickKeepsLife,
     WorldKeepsLife DEF CampaignNext, TaskStep
<1>3. LifeInv => CompletedMeansDone
  BY DEF LifeInv
<1> QED
  BY <1>1, <1>2, <1>3, PTL DEF CampaignSpec

-----------------------------------------------------------------------------
(* Proofs about activations that overlap.                                    *)

Transaction ==
    [pc : {"idle", "look", "count", "existing", "defer", "create", "created"},
     loaded : CampaignStatuses, later : BOOLEAN, wf : 0..MaxWorkflows, fill : BOOLEAN,
     told : {"nothing", "active", "scheduled", "IntegrityError"}]

ActivationType ==
    /\ CampaignTypeOK
    /\ tx \in [Sessions -> Transaction]
    /\ rowsMade \in [Workflows -> [Leads -> Nat]]

\* The lock and the index: one active workflow, one session that has locked it, or
\* one that is about to make it.
LockInv ==
    /\ \A v, w \in InState("active") : v = w
    /\ \A s \in Holders : tx[s].wf \in InState("active")
    /\ \A s, t \in Holders : s = t
    /\ \A s, t \in Inserting : s = t
    /\ Inserting # {} => InState("active") = {} /\ Len(workflows) < MaxWorkflows
    /\ \A s \in Sessions : tx[s].pc \in {"create", "created"} => ~tx[s].later
    /\ \A s \in Sessions : tx[s].pc # "idle" => tx[s].told = "nothing"

\* The rows: what the holder of the lock has counted is still so, a workflow has all
\* leads or none of them, and each once.
RowInv ==
    /\ \A s \in Sessions : tx[s].pc = "existing" => tx[s].fill = (Enqueued = {})
    /\ \A w \in Workflows, l \in Leads :
          rowsMade[w][l] = IF execs[w][l] = "none" THEN 0 ELSE 1
    /\ \A w \in Workflows, l \in Leads : w > Len(workflows) => execs[w][l] = "none"
    /\ \A w \in Workflows, k, l \in Leads : execs[w][k] # "none" => execs[w][l] # "none"
    /\ (\E s \in Sessions : tx[s].told = "active") =>
          \A l \in Leads : \E w \in Workflows : execs[w][l] # "none"
    /\ task.pc = "dispatch" /\ task.batch # {} => task.wf \in Workflows
    /\ task.pc = "dispatch" => \A l \in task.batch : execs[task.wf][l] # "none"

ActivationInv == ActivationType /\ LockInv /\ RowInv

\* Where there is one active workflow, it is the latest.
LEMMA ActiveIsLatest ==
    ASSUME CampaignTypeOK, LockInv, NEW w \in InState("active")
    PROVE  Latest(InState("active")) = w
<1>1. InState("active") \subseteq 1..Len(workflows) /\ Len(workflows) \in Nat
  BY DEF InState, CampaignTypeOK
<1>2. Latest(InState("active")) \in InState("active")
  BY <1>1, LatestIsIn
<1> QED
  BY <1>2 DEF LockInv

\* A workflow is added to the list.
LEMMA OneMoreActive ==
    ASSUME CampaignTypeOK, workflows' = Append(workflows, "active")
    PROVE  /\ Len(workflows') = Len(workflows) + 1 /\ Len(workflows) \in Nat
           /\ InState("active")' = InState("active") \cup {Len(workflows) + 1}
<1>1. PICK n \in Nat : /\ workflows \in [1..n -> {"active", "paused", "completed"}]
                       /\ Len(workflows) = n
  BY DEF CampaignTypeOK
<1>2. /\ Len(workflows') = n + 1 /\ DOMAIN workflows' = 1..(n + 1)
      /\ \A w \in 1..n : workflows'[w] = workflows[w]
      /\ workflows'[n + 1] = "active"
  BY <1>1 DEF CampaignTypeOK
<1> QED
  BY <1>1, <1>2 DEF InState

\* What a launch answered "active" commits is what one that nobody disturbs does.
LEMMA CommitsAsIfAlone ==
    ASSUME ActivationInv, NEW s \in Sessions, CommitExisting(s) \/ CommitNew(s)
    PROVE  DoActivate(tx[s].loaded, tx[s].later)
<1>1. CASE CommitExisting(s)
  <2>1. s \in Holders /\ tx[s].pc = "existing"
    BY <1>1 DEF CommitExisting, Holders
  <2>2. tx[s].wf \in InState("active") /\ tx[s].fill = (Enqueued = {})
    BY <2>1 DEF ActivationInv, LockInv, RowInv
  <2>3. Latest(InState("active")) = tx[s].wf
    BY <2>2, ActiveIsLatest DEF ActivationInv, ActivationType
  <2>4. execs' = IF Enqueued = {} THEN EnqueueLeads(tx[s].wf) ELSE execs
    BY <1>1, <2>2 DEF CommitExisting, MakeRows
  <2> QED
    BY <1>1, <2>2, <2>3, <2>4 DEF CommitExisting, DoActivate, ActivateExisting
<1>2. CASE CommitNew(s)
  <2>1. s \in Inserting /\ tx[s].pc = "created"
    BY <1>2 DEF CommitNew, Inserting
  <2>2. InState("active") = {} /\ Len(workflows) < MaxWorkflows /\ ~tx[s].later
    BY <2>1 DEF ActivationInv, LockInv
  <2> QED
    BY <1>2, <2>2 DEF CommitNew, MakeRows, DoActivate, ActivateNow
<1> QED
  BY <1>1, <1>2

-----------------------------------------------------------------------------
\* Everybody else goes on as in CampaignLifecycle.
LEMMA OthersAreLifecycle == Others => CampaignNext
BY DEF Others, CampaignNext, TaskStep

\* What a session makes of its transaction.
LEMMA TransactionsChange ==
    ASSUME ActivationType, NEW s \in Sessions, ActivateStep(s)
    PROVE  /\ tx' \in [Sessions -> Transaction]
           /\ \A t \in Sessions \ {s} : tx'[t] = tx[t]
<1>1. /\ tx \in [Sessions -> Transaction] /\ tx[s] \in Transaction
      /\ future \in BOOLEAN /\ open \in BOOLEAN /\ MaxWorkflows \in Nat
      /\ Len(workflows) \in Nat /\ Len(workflows) <= MaxWorkflows /\ status \in CampaignStatuses
      /\ {"draft", "scheduled"} \subseteq CampaignStatuses
  BY LifecycleAssumption DEF ActivationType, CampaignTypeOK, CampaignStatuses
<1>0. /\ \A told \in {"nothing", "active", "scheduled", "IntegrityError"} :
            [IdleTx EXCEPT !.told = told] \in Transaction
      /\ \A loaded \in CampaignStatuses, later \in BOOLEAN :
            [IdleTx EXCEPT !.pc = "look", !.loaded = loaded, !.later = later] \in Transaction
      /\ [IdleTx EXCEPT !.pc = "look", !.loaded = "scheduled"] \in Transaction
  <2>1. 0 \in 0..MaxWorkflows /\ "draft" \in CampaignStatuses
    BY <1>1
  <2>2. ASSUME NEW told \in {"nothing", "active", "scheduled", "IntegrityError"}
        PROVE  [IdleTx EXCEPT !.told = told] \in Transaction
    BY <2>1 DEF IdleTx, Transaction
  <2>3. ASSUME NEW loaded \in CampaignStatuses, NEW later \in BOOLEAN
        PROVE  [IdleTx EXCEPT !.pc = "look", !.loaded = loaded, !.later = later]
                  \in Transaction
    BY <2>1 DEF IdleTx, Transaction
  <2>4. [IdleTx EXCEPT !.pc = "look", !.loaded = "scheduled"] \in Transaction
    BY <1>1, <2>1 DEF IdleTx, Transaction
  <2> QED
    BY <2>2, <2>3, <2>4
<1>2. CASE LoadCampaign(s)
  <2>1. PICK r \in Transaction : tx' = [tx EXCEPT ![s] = r]
    BY <1>0, <1>1, <1>2 DEF LoadCampaign
  <2> QED
    BY <1>1, <2>1
<1>3. CASE LookUp(s)
  <2>1. Visible # {} => Latest(Visible) \in 0..MaxWorkflows
    <3>1. Visible \subseteq 1..Len(workflows)
      BY DEF Visible, InState, ActivationType, CampaignTypeOK
    <3>2. Visible # {} => Latest(Visible) \in Visible
      BY <1>1, <3>1, LatestIsIn
    <3>3. PICK w : w = Latest(Visible)
      OBVIOUS
    <3>4. w \in Visible => w \in 0..MaxWorkflows
      BY <1>1, <3>1
    <3> QED
      BY <3>2, <3>3, <3>4
  <2>2. PICK later \in BOOLEAN :
          tx' = IF Visible # {}
                THEN [tx EXCEPT ![s].pc = "count", ![s].wf = Latest(Visible)]
                ELSE [tx EXCEPT ![s].pc = IF later THEN "defer" ELSE "create",
                                ![s].later = later]
    BY <1>1, <1>3 DEF LookUp, Transaction
  <2>3. PICK w : w = Latest(Visible)
    OBVIOUS
  <2>4. \/ Visible # {} /\ tx' = [tx EXCEPT ![s] = [@ EXCEPT !.pc = "count", !.wf = w]]
        \/ tx' = [tx EXCEPT ![s] = [@ EXCEPT !.pc = "defer", !.later = later]]
        \/ tx' = [tx EXCEPT ![s] = [@ EXCEPT !.pc = "create", !.later = later]]
    BY <1>1, <2>2, <2>3
  <2>5. /\ Visible # {} => [tx[s] EXCEPT !.pc = "count", !.wf = w] \in Transaction
        /\ [tx[s] EXCEPT !.pc = "defer", !.later = later] \in Transaction
        /\ [tx[s] EXCEPT !.pc = "create", !.later = later] \in Transaction
    BY <1>1, <2>1, <2>3 DEF Transaction
  <2>6. PICK r \in Transaction : tx' = [tx EXCEPT ![s] = r]
    BY <1>1, <2>4, <2>5
  <2> QED
    BY <1>1, <2>6
<1>4. CASE CountRows(s)
  <2>1. NoneEnqueued \in BOOLEAN
    BY DEF NoneEnqueued
  <2> QED
    BY <1>1, <1>4, <2>1 DEF CountRows, Transaction
<1>5. CASE InsertWorkflow(s)
  BY <1>1, <1>5 DEF InsertWorkflow, Transaction
<1>6. CASE \/ CommitExisting(s) \/ CommitLater(s) \/ CommitNew(s)
           \/ RefuseInsert(s) \/ Abort(s)
  <2>1. \E told \in {"nothing", "active", "scheduled", "IntegrityError"} :
            tx' = [tx EXCEPT ![s] = [IdleTx EXCEPT !.told = told]]
    BY <1>6 DEF CommitExisting, CommitLater, CommitNew, RefuseInsert, Abort, Respond, Raise
  <2> QED
    BY <1>0, <1>1, <2>1
<1> QED
  BY <1>2, <1>3, <1>4, <1>5, <1>6 DEF ActivateStep

\* Every step keeps the types.
LEMMA ActivationKeepsType ==
    ASSUME ActivationInv, ActivationNext PROVE ActivationType'
<1>1. CASE Others /\ UNCHANGED <<tx, rowsMade>>
  <2>1. CampaignTypeOK'
    BY <1>1, OthersAreLifecycle, LifeKeepsType DEF ActivationInv, ActivationType
  <2> QED
    BY <1>1, <2>1 DEF ActivationInv, ActivationType
<1>2. ASSUME NEW s \in Sessions, ActivateStep(s) PROVE ActivationType'
  <2>1. tx' \in [Sessions -> Transaction]
    BY <1>2, TransactionsChange DEF ActivationInv
  <2>2. /\ CampaignTypeOK /\ task \in Task /\ IdleTask \in Task /\ status \in CampaignStatuses
        /\ "scheduled" \in CampaignStatuses /\ tx[s].loaded \in CampaignStatuses
        /\ rowsMade \in [Workflows -> [Leads -> Nat]]
    <3>1. CampaignTypeOK /\ tx[s] \in Transaction /\ rowsMade \in [Workflows -> [Leads -> Nat]]
      BY DEF ActivationInv, ActivationType
    <3>2. task \in Task /\ status \in CampaignStatuses
      BY <3>1 DEF CampaignTypeOK
    <3>3. IdleTask \in Task
      BY LifecycleAssumption DEF IdleTask, Task
    <3> QED
      BY <3>1, <3>2, <3>3 DEF Transaction, CampaignStatuses
  <2>3. CASE LoadCampaign(s) \/ LookUp(s) \/ CountRows(s) \/ InsertWorkflow(s)
    <3>1. UNCHANGED <<campaignVars, rowsMade>>
      BY <2>3 DEF LoadCampaign, LookUp, CountRows, InsertWorkflow
    <3> QED
      BY <2>1, <2>2, <3>1 DEF ActivationType, CampaignTypeOK, campaignVars
  <2>4. CASE CommitLater(s) \/ RefuseInsert(s) \/ Abort(s)
    <3>1. /\ UNCHANGED <<future, open, workflows, execs, rowsMade>>
          /\ status' \in CampaignStatuses
      BY <2>2, <2>4 DEF CommitLater, Rewritten, RefuseInsert, Abort, Raise
    <3>2. task' \in Task
      BY <2>2, <2>4 DEF CommitLater, Respond, RefuseInsert, Abort, Raise, Task
    <3> QED
      BY <2>1, <2>2, <3>1, <3>2 DEF ActivationType, CampaignTypeOK
  <2>5. CASE CommitExisting(s) \/ CommitNew(s)
    <3>1. /\ status' \in CampaignStatuses
          /\ workflows' \in Seq({"active", "paused", "completed"})
          /\ Len(workflows') <= MaxWorkflows
          /\ execs' \in [Workflows -> [Leads -> {"none", "queued", "running", "done"}]]
      BY <2>2, <2>5, CommitsAsIfAlone, LaunchType
    <3>2. task' \in Task
      BY <2>2, <2>5 DEF CommitExisting, CommitNew, Respond, Task
    <3>3. \/ rowsMade' = rowsMade
          \/ \E w : rowsMade' = [rowsMade EXCEPT ![w] = [l \in Leads |-> rowsMade[w][l] + 1]]
      BY <2>5 DEF CommitExisting, CommitNew, MakeRows
    <3>4. rowsMade' \in [Workflows -> [Leads -> Nat]]
      BY <2>2, <3>3
    <3>5. UNCHANGED <<future, open>>
      BY <2>5 DEF CommitExisting, CommitNew
    <3> QED
      BY <2>1, <2>2, <3>1, <3>2, <3>4, <3>5 DEF ActivationType, CampaignTypeOK
  <2> QED
    BY <1>2, <2>3, <2>4, <2>5 DEF ActivateStep
<1> QED
  BY <1>1, <1>2 DEF ActivationNext


-----------------------------------------------------------------------------
\* Who holds the lock and who is inserting, when s alone has moved.
LEMMA OnlyOneMoves ==
    ASSUME NEW s \in Sessions, \A t \in Sessions \ {s} : tx'[t] = tx[t]
    PROVE  /\ Holders' \ {s} = Holders \ {s} /\ Inserting' \ {s} = Inserting \ {s}
           /\ s \in Holders' <=> tx'[s].pc \in {"count", "existing"}
           /\ s \in Inserting' <=> tx'[s].pc = "created"
           /\ \A t \in Holders' \ {s} : tx'[t] = tx[t]
           /\ \A t \in Inserting' \ {s} : tx'[t] = tx[t]
BY DEF Holders, Inserting

\* A transaction that takes neither the lock nor the index, or gives them back.
LEMMA LettingGo ==
    ASSUME LockInv, NEW s \in Sessions, workflows' = workflows,
           \A t \in Sessions \ {s} : tx'[t] = tx[t],
           tx'[s].pc \in {"idle", "look", "defer", "create"},
           tx'[s].pc = "create" => ~tx'[s].later,
           tx'[s].pc # "idle" => tx'[s].told = "nothing"
    PROVE  LockInv'
<1>1. Holders' \subseteq Holders /\ Inserting' \subseteq Inserting
  BY OnlyOneMoves
<1>2. \A t \in Holders' : tx'[t].wf = tx[t].wf
  BY OnlyOneMoves
<1>3. InState("active")' = InState("active")
  BY DEF InState
<1> QED
  BY <1>1, <1>2, <1>3 DEF LockInv

\* Only one session gets the lock, and none while a workflow is being inserted.
LEMMA LookUpKeepsLocks ==
    ASSUME ActivationInv, NEW s \in Sessions, LookUp(s) PROVE LockInv'
<1>1. /\ tx \in [Sessions -> Transaction] /\ LockInv /\ workflows' = workflows
      /\ \A t \in Sessions \ {s} : tx'[t] = tx[t]
  BY TransactionsChange DEF ActivationInv, ActivationType, ActivateStep, LookUp, campaignVars
<1>2. tx[s].pc = "look" /\ tx[s].told = "nothing"
  BY <1>1 DEF LookUp, LockInv
<1>3. CASE Visible = {}
  <2>1. PICK later : tx' = [tx EXCEPT ![s].pc = IF later THEN "defer" ELSE "create",
                                      ![s].later = later]
    BY <1>3 DEF LookUp
  <2>2. /\ tx'[s].pc \in {"defer", "create"} /\ tx'[s].told = "nothing"
        /\ tx'[s].pc = "create" => ~tx'[s].later
    BY <1>1, <1>2, <2>1 DEF Transaction
  <2> QED
    BY <1>1, <2>2, LettingGo
<1>4. CASE Visible # {}
  <2>1. PICK w : w = Latest(Visible)
    OBVIOUS
  <2>2. w \in InState("active") /\ w \notin Locked
    <3>1. Visible \subseteq 1..Len(workflows) /\ Len(workflows) \in Nat
      BY DEF Visible, InState, ActivationInv, ActivationType, CampaignTypeOK
    <3>2. w \in Visible
      BY <1>4, <2>1, <3>1, LatestIsIn
    <3> QED
      BY <3>2 DEF Visible
  <2>3. Holders = {} /\ Inserting = {}
    BY <1>1, <2>2 DEF LockInv, Locked
  <2>4. /\ tx'[s].pc = "count" /\ tx'[s].wf = w /\ tx'[s].told = "nothing"
    <3>1. tx' = [tx EXCEPT ![s].pc = "count", ![s].wf = w]
      BY <1>4, <2>1 DEF LookUp
    <3> QED
      BY <1>1, <1>2, <3>1 DEF Transaction
  <2>5. Holders' = {s} /\ Inserting' = {}
    BY <1>1, <2>3, <2>4, OnlyOneMoves
  <2>6. InState("active")' = InState("active")
    BY <1>1 DEF InState
  <2> QED
    BY <1>1, <2>2, <2>4, <2>5, <2>6 DEF LockInv
<1> QED
  BY <1>3, <1>4

\* The index lets one insertion in at a time, and only where nothing is active.
LEMMA InsertKeepsLocks ==
    ASSUME ActivationInv, NEW s \in Sessions, CountRows(s) \/ InsertWorkflow(s) \/ CommitNew(s)
    PROVE  LockInv'
<1>1. /\ tx \in [Sessions -> Transaction] /\ LockInv /\ CampaignTypeOK
      /\ \A t \in Sessions \ {s} : tx'[t] = tx[t]
  BY TransactionsChange DEF ActivationInv, ActivationType, ActivateStep
<1>2. CASE CountRows(s)
  <2>1. /\ tx[s].pc = "count" /\ workflows' = workflows
        /\ tx' = [tx EXCEPT ![s].pc = "existing", ![s].fill = NoneEnqueued]
    BY <1>2 DEF CountRows, campaignVars
  <2>2. /\ tx'[s].pc = "existing" /\ tx'[s].wf = tx[s].wf /\ tx'[s].told = tx[s].told
    BY <1>1, <2>1 DEF Transaction
  <2>3. s \in Holders /\ Holders' = Holders /\ Inserting' = Inserting
    BY <1>1, <2>1, <2>2 DEF Holders, Inserting
  <2>4. InState("active")' = InState("active")
    BY <2>1 DEF InState
  <2>5. \A t \in Holders : tx'[t].wf = tx[t].wf
    BY <1>1, <2>2 DEF Holders
  <2> QED
    BY <1>1, <2>1, <2>2, <2>3, <2>4, <2>5 DEF LockInv
<1>3. CASE InsertWorkflow(s)
  <2>1. /\ tx[s].pc = "create" /\ workflows' = workflows /\ InState("active") = {}
        /\ Inserting = {} /\ Len(workflows) < MaxWorkflows
        /\ tx' = [tx EXCEPT ![s].pc = "created"]
    BY <1>3 DEF InsertWorkflow, campaignVars
  <2>2. /\ tx'[s].pc = "created" /\ tx'[s].later = tx[s].later /\ tx'[s].told = tx[s].told
    BY <1>1, <2>1 DEF Transaction
  <2>3. Holders = {}
    BY <1>1, <2>1 DEF LockInv
  <2>4. Holders' = {} /\ Inserting' = {s}
    BY <1>1, <2>1, <2>2, <2>3, OnlyOneMoves
  <2>5. InState("active")' = InState("active")
    BY <2>1 DEF InState
  <2> QED
    BY <1>1, <2>1, <2>2, <2>4, <2>5 DEF LockInv
<1>4. CASE CommitNew(s)
  <2>1. s \in Inserting /\ workflows' = Append(workflows, "active")
    BY <1>4 DEF CommitNew, Inserting
  <2>2. InState("active") = {} /\ Holders = {} /\ Inserting = {s}
    BY <1>1, <2>1 DEF LockInv
  <2>3. tx'[s].pc = "idle"
    BY <1>1, <1>4 DEF CommitNew, Respond, IdleTx
  <2>4. Holders' = {} /\ Inserting' = {}
    BY <1>1, <2>2, <2>3, OnlyOneMoves
  <2>5. InState("active")' = {Len(workflows) + 1}
    BY <1>1, <2>1, <2>2, OneMoreActive
  <2> QED
    BY <1>1, <2>3, <2>4, <2>5 DEF LockInv
<1> QED
  BY <1>2, <1>3, <1>4

\* No step of activate breaks the lock or the index.
LEMMA ActivateKeepsLocks ==
    ASSUME ActivationInv, NEW s \in Sessions, ActivateStep(s) PROVE LockInv'
<1>1. /\ tx \in [Sessions -> Transaction] /\ LockInv
      /\ \A t \in Sessions \ {s} : tx'[t] = tx[t]
  BY TransactionsChange DEF ActivationInv, ActivationType
<1>2. CASE LoadCampaign(s)
  <2>1. workflows' = workflows /\ tx'[s].pc = "look" /\ tx'[s].told = "nothing"
    BY <1>1, <1>2 DEF LoadCampaign, campaignVars, IdleTx
  <2> QED
    BY <1>1, <2>1, LettingGo
<1>3. CASE CommitExisting(s) \/ CommitLater(s) \/ RefuseInsert(s) \/ Abort(s)
  <2>1. workflows' = workflows /\ tx'[s].pc = "idle"
    BY <1>1, <1>3 DEF CommitExisting, CommitLater, RefuseInsert, Abort, Respond, Raise, IdleTx
  <2> QED
    BY <1>1, <2>1, LettingGo
<1> QED
  BY <1>2, <1>3, LookUpKeepsLocks, InsertKeepsLocks DEF ActivateStep


\* A workflow leaves the active ones, or becomes one.
LEMMA OneStateChanges ==
    ASSUME CampaignTypeOK, NEW w \in 1..Len(workflows), NEW new \in {"active", "paused", "completed"},
           workflows' = WithState(w, new)
    PROVE  /\ Len(workflows') = Len(workflows)
           /\ InState("active")' = IF new = "active" THEN InState("active") \cup {w}
                                   ELSE InState("active") \ {w}
<1>1. PICK n \in Nat : /\ workflows \in [1..n -> {"active", "paused", "completed"}]
                       /\ Len(workflows) = n
  BY DEF CampaignTypeOK
<1>2. workflows' = [workflows EXCEPT ![w] = new]
  BY DEF WithState
<1>3. DOMAIN workflows' = 1..n /\ Len(workflows') = n
  BY <1>1, <1>2
<1> QED
  BY <1>1, <1>2, <1>3 DEF InState

\* Whoever else makes a workflow active or ends one waits for the lock and the index.
LEMMA OthersKeepLocks ==
    ASSUME ActivationInv, Others, UNCHANGED <<tx, rowsMade>>
    PROVE  LockInv' /\ Len(workflows) <= Len(workflows')
<1>1. /\ CampaignTypeOK /\ LockInv /\ Holders' = Holders /\ Inserting' = Inserting
      /\ Len(workflows) \in Nat
  BY DEF ActivationInv, ActivationType, CampaignTypeOK, Holders, Inserting
<1>2. CASE workflows' = workflows
  <2>1. InState("active")' = InState("active")
    BY <1>2 DEF InState
  <2> QED
    BY <1>1, <1>2, <2>1 DEF LockInv
<1>3. CASE Inserting = {} /\ PutWorkflow
  <2>1. InState("active") = {} /\ workflows' = Append(workflows, "active")
    BY <1>3 DEF PutWorkflow
  <2>2. Holders = {}
    BY <1>1, <2>1 DEF LockInv
  <2>3. InState("active")' = {Len(workflows) + 1} /\ Len(workflows') = Len(workflows) + 1
    BY <1>1, <2>1, OneMoreActive
  <2> QED
    BY <1>1, <1>3, <2>2, <2>3 DEF LockInv
<1>4. CASE Locked = {} /\ (Pause \/ CompleteCampaign) /\ workflows' # workflows
  <2>1. PICK w : w = Latest(InState("active"))
    OBVIOUS
  <2>2. PICK new \in {"paused", "completed"} :
            InState("active") # {} /\ workflows' = WithState(w, new)
    BY <1>4, <2>1 DEF Pause, CompleteCampaign, PausedWorkflow, CompletedWorkflow
  <2>3. w \in 1..Len(workflows) /\ workflows[w] = "active"
    BY <1>1, <2>1, <2>2, LatestInState
  <2>4. /\ InState("active")' = InState("active") \ {w} /\ Len(workflows') = Len(workflows)
    BY <1>1, <2>2, <2>3, OneStateChanges
  <2>5. Holders = {}
    BY <1>4 DEF Locked
  <2>6. Inserting = {}
    BY <1>1, <2>2 DEF LockInv
  <2> QED
    BY <1>1, <2>4, <2>5, <2>6 DEF LockInv
<1>5. CASE (Inserting = {} \/ InState("paused") = {}) /\ Resume /\ workflows' # workflows
  <2>1. PICK w : w = Latest(InState("paused"))
    OBVIOUS
  <2>2. /\ InState("paused") # {} /\ InState("active") = {} /\ Inserting = {}
        /\ workflows' = WithState(w, "active")
    BY <1>5, <2>1 DEF Resume, ResumedWorkflow
  <2>3. w \in 1..Len(workflows)
    BY <1>1, <2>1, <2>2, LatestInState
  <2>4. InState("active")' = {w} /\ Len(workflows') = Len(workflows)
    BY <1>1, <2>2, <2>3, OneStateChanges
  <2>5. Holders = {}
    BY <1>1, <2>2 DEF LockInv
  <2> QED
    BY <1>1, <2>2, <2>4, <2>5 DEF LockInv
<1>6. CASE \/ Patch \/ Execute \/ StartTick \/ ListActive \/ CountExecutions \/ SelectBatch
           \/ DispatchRow \/ EndTick \/ Arrives \/ OpenOrClose
           \/ \E w \in Workflows, l \in Leads : Finish(w, l)
  BY <1>2, <1>6 DEF Patch, Execute, StartTick, ListActive, CountExecutions, SelectBatch,
                    DispatchRow, EndTick, Arrives, OpenOrClose, Finish
<1> QED
  BY <1>2, <1>3, <1>4, <1>5, <1>6 DEF Others

-----------------------------------------------------------------------------
\* Everybody else moves executions on, and neither makes nor removes one.
LEMMA OthersMoveRows ==
    ASSUME ActivationInv, Others
    PROVE  \A w \in Workflows, l \in Leads : execs'[w][l] = "none" <=> execs[w][l] = "none"
<1>1. execs \in [Workflows -> [Leads -> {"none", "queued", "running", "done"}]]
  BY DEF ActivationInv, ActivationType, CampaignTypeOK
<1>2. CASE execs' = execs
  BY <1>2
<1>3. ASSUME NEW v, NEW k, NEW new \in {"running", "done"}, execs[v][k] # "none",
             execs' = [execs EXCEPT ![v][k] = new]
      PROVE  \A w \in Workflows, l \in Leads :
                execs'[w][l] = "none" <=> execs[w][l] = "none"
  BY <1>1, <1>3
<1>4. CASE Execute
  <2>1. PICK x \in HasStatus("queued") : execs' = [execs EXCEPT ![x[1]][x[2]] = "running"]
    BY <1>4 DEF Execute
  <2>2. execs[x[1]][x[2]] # "none"
    BY <2>1 DEF HasStatus
  <2> QED
    BY <1>3, <2>1, <2>2
<1>5. CASE DispatchRow
  <2>1. PICK l \in task.batch : execs' = [execs EXCEPT ![task.wf][l] = "running"]
    BY <1>5 DEF DispatchRow
  <2>2. execs[task.wf][l] # "none"
    BY <1>5, <2>1 DEF DispatchRow, ActivationInv, RowInv
  <2> QED
    BY <1>3, <2>1, <2>2
<1>6. CASE \E w \in Workflows, l \in Leads : Finish(w, l)
  <2>1. PICK w \in Workflows, l \in Leads : Finish(w, l)
    BY <1>6
  <2> QED
    BY <1>3, <2>1 DEF Finish
<1>7. CASE \/ PutWorkflow \/ Pause \/ CompleteCampaign \/ Resume \/ Patch \/ StartTick \/ ListActive
           \/ CountExecutions \/ SelectBatch \/ EndTick \/ Arrives \/ OpenOrClose
  BY <1>2, <1>7 DEF PutWorkflow, Pause, CompleteCampaign, Resume, Patch, StartTick, ListActive,
                    CountExecutions, SelectBatch, EndTick, Arrives, OpenOrClose
<1> QED
  BY <1>4, <1>5, <1>6, <1>7 DEF Others

\* The tick dispatches what it has seen queued.
LEMMA BatchHasRows ==
    ASSUME ActivationInv, Others
    PROVE  task'.pc = "dispatch" =>
              /\ task'.batch # {} => task'.wf \in Workflows
              /\ \A l \in task'.batch : execs'[task'.wf][l] # "none"
<1>1. /\ CampaignTypeOK /\ task \in Task /\ task'.pc \in {"idle", "due", "list", "count", "decide", "dispatch"}
      /\ \A w \in Workflows, l \in Leads : execs'[w][l] = "none" <=> execs[w][l] = "none"
  <2>1. CampaignTypeOK /\ CampaignTypeOK'
    BY OthersAreLifecycle, LifeKeepsType DEF ActivationInv, ActivationType
  <2> QED
    BY <2>1, OthersMoveRows DEF CampaignTypeOK, Task
<1>2. task.batch \subseteq Leads
  BY <1>1 DEF Task
<1>3. CASE task' = task
  BY <1>1, <1>2, <1>3 DEF ActivationInv, RowInv
<1>4. CASE DispatchRow
  <2>1. task'.wf = task.wf /\ task'.batch \subseteq task.batch /\ task.pc = "dispatch"
    BY <1>1, <1>4 DEF DispatchRow, Task
  <2> QED
    BY <1>1, <1>2, <2>1 DEF ActivationInv, RowInv
<1>5. CASE SelectBatch
  <2>1. PICK w : w = Latest(InState("active"))
    OBVIOUS
  <2>2. \/ task'.pc = "idle"
        \/ /\ InState("active") # {} /\ task'.wf = w
           /\ task'.batch = {l \in Leads : execs[w][l] = "queued"}
    BY <1>5, <2>1 DEF SelectBatch, IdleTask
  <2>3. InState("active") # {} => w \in Workflows
    BY <1>1, <2>1, LatestInState, LifecycleAssumption DEF CampaignTypeOK, Workflows
  <2> QED
    BY <1>1, <2>2, <2>3
<1>6. CASE StartTick \/ ListActive \/ CountExecutions \/ CompleteCampaign \/ EndTick
  <2>1. StartTick => task'.pc # "dispatch"
    BY <1>1 DEF StartTick, Task
  <2>2. CountExecutions => task'.pc # "dispatch"
    BY <1>1 DEF CountExecutions, Task
  <2>3. ListActive => task'.pc # "dispatch"
    BY DEF ListActive, IdleTask
  <2>4. CompleteCampaign \/ EndTick => task'.pc # "dispatch"
    BY DEF CompleteCampaign, EndTick, IdleTask
  <2> QED
    BY <1>6, <2>1, <2>2, <2>3, <2>4
<1>7. CASE \/ PutWorkflow \/ Pause \/ Resume \/ Patch \/ Execute \/ Arrives \/ OpenOrClose
           \/ \E w \in Workflows, l \in Leads : Finish(w, l)
  BY <1>3, <1>7 DEF PutWorkflow, Pause, Resume, Patch, Execute, Arrives, OpenOrClose, Finish
<1> QED
  BY <1>4, <1>5, <1>6, <1>7 DEF Others

LEMMA OthersKeepRows ==
    ASSUME ActivationInv, Others, UNCHANGED <<tx, rowsMade>> PROVE RowInv'
<1>1. \A w \in Workflows, l \in Leads : execs'[w][l] = "none" <=> execs[w][l] = "none"
  BY OthersMoveRows
<1>2. Enqueued' = Enqueued
  BY <1>1 DEF Enqueued
<1>3. /\ Len(workflows) \in Nat /\ Len(workflows') \in Nat
      /\ Len(workflows) <= Len(workflows') /\ Workflows \subseteq Int
  <2>1. CampaignTypeOK /\ CampaignTypeOK'
    BY OthersAreLifecycle, LifeKeepsType DEF ActivationInv, ActivationType
  <2> QED
    BY <2>1, OthersKeepLocks, LifecycleAssumption DEF CampaignTypeOK, Workflows
<1>4. \A w \in Workflows, l \in Leads : w > Len(workflows') => execs'[w][l] = "none"
  BY <1>1, <1>3 DEF ActivationInv, RowInv
<1>5. \A w \in Workflows, l \in Leads :
          rowsMade'[w][l] = IF execs'[w][l] = "none" THEN 0 ELSE 1
  BY <1>1 DEF ActivationInv, RowInv
<1>6. task'.pc = "dispatch" =>
         /\ task'.batch # {} => task'.wf \in Workflows
         /\ \A l \in task'.batch : execs'[task'.wf][l] # "none"
  BY BatchHasRows
<1>7. (\E s \in Sessions : tx'[s].told = "active") =>
          \A l \in Leads : \E w \in Workflows : execs'[w][l] # "none"
  BY <1>1 DEF ActivationInv, RowInv
<1>8. \A s \in Sessions : tx'[s].pc = "existing" => tx'[s].fill = (Enqueued' = {})
  BY <1>2 DEF ActivationInv, RowInv
<1>9. \A w \in Workflows, k, l \in Leads :
          execs'[w][k] # "none" => execs'[w][l] # "none"
  BY <1>1 DEF ActivationInv, RowInv
<1> QED
  BY <1>4, <1>5, <1>6, <1>7, <1>8, <1>9 DEF RowInv, Workflows


-----------------------------------------------------------------------------
\* The rows of a workflow that has none are made.
LEMMA RowsAreMade ==
    ASSUME ActivationInv, NEW w \in Workflows, MakeRows(w),
           \A l \in Leads : execs[w][l] = "none"
    PROVE  /\ \A v \in Workflows, l \in Leads :
                rowsMade'[v][l] = IF execs'[v][l] = "none" THEN 0 ELSE 1
           /\ \A l \in Leads : execs'[w][l] # "none"
           /\ \A v \in Workflows \ {w} : execs'[v] = execs[v]
<1>1. /\ rowsMade \in [Workflows -> [Leads -> Nat]]
      /\ execs \in [Workflows -> [Leads -> {"none", "queued", "running", "done"}]]
      /\ \A v \in Workflows, l \in Leads :
            rowsMade[v][l] = IF execs[v][l] = "none" THEN 0 ELSE 1
  BY DEF ActivationInv, ActivationType, CampaignTypeOK, RowInv
<1>2. /\ execs' = [execs EXCEPT ![w] = [l \in Leads |-> "queued"]]
      /\ rowsMade' = [rowsMade EXCEPT ![w] = [l \in Leads |-> rowsMade[w][l] + 1]]
  BY <1>1 DEF MakeRows, EnqueueLeads
<1>3. /\ execs'[w] = [l \in Leads |-> "queued"]
      /\ rowsMade'[w] = [l \in Leads |-> rowsMade[w][l] + 1]
      /\ \A v \in Workflows \ {w} : execs'[v] = execs[v] /\ rowsMade'[v] = rowsMade[v]
  BY <1>1, <1>2
<1>4. \A l \in Leads : rowsMade'[w][l] = 1 /\ execs'[w][l] = "queued"
  BY <1>1, <1>3
<1> QED
  BY <1>1, <1>3, <1>4

\* A launch makes rows only where there are none, and while nobody else counts.
LEMMA CommitMakesRows ==
    ASSUME ActivationInv, NEW s \in Sessions, MakeRows(tx[s].wf), tx[s].fill, CommitExisting(s)
    PROVE  /\ tx[s].wf \in 1..Len(workflows)
           /\ tx[s].wf \in Workflows /\ \A l \in Leads : execs[tx[s].wf][l] = "none"
           /\ \A t \in Sessions \ {s} : tx[t].pc # "existing"
<1>1. tx[s].pc = "existing" /\ s \in Holders
  BY DEF CommitExisting, Holders
<1>2. tx[s].wf \in InState("active") /\ Enqueued = {}
  BY <1>1 DEF ActivationInv, LockInv, RowInv
<1>3. tx[s].wf \in 1..Len(workflows) /\ tx[s].wf \in Workflows
  BY <1>2, LifecycleAssumption DEF InState, ActivationInv, ActivationType, CampaignTypeOK, Workflows
<1>4. \A l \in Leads : execs[tx[s].wf][l] = "none"
  <2>1. PICK w : w = tx[s].wf
    OBVIOUS
  <2>2. \A l \in Leads : execs[w][l] # "none" => <<w, l>> \in Enqueued
    BY <1>3, <2>1 DEF Enqueued
  <2> QED
    BY <1>2, <2>1, <2>2
<1>5. \A t \in Sessions \ {s} : t \notin Holders
  BY <1>1 DEF ActivationInv, LockInv
<1> QED
  BY <1>3, <1>4, <1>5 DEF Holders

\* The same of the workflow that is inserted.
LEMMA InsertMakesRows ==
    ASSUME ActivationInv, NEW s \in Sessions, CommitNew(s)
    PROVE  /\ Len(workflows) + 1 \in Workflows /\ Len(workflows') = Len(workflows) + 1
           /\ \A l \in Leads : execs[Len(workflows) + 1][l] = "none"
           /\ \A t \in Sessions \ {s} : tx[t].pc # "existing"
<1>1. s \in Inserting
  BY DEF CommitNew, Inserting
<1>2. InState("active") = {} /\ Len(workflows) < MaxWorkflows /\ Holders = {}
  BY <1>1 DEF ActivationInv, LockInv
<1>3. Len(workflows') = Len(workflows) + 1 /\ Len(workflows) \in Nat
  BY OneMoreActive DEF CommitNew, ActivationInv, ActivationType
<1>4. Len(workflows) + 1 \in Workflows /\ Len(workflows) + 1 > Len(workflows)
  BY <1>2, <1>3, LifecycleAssumption DEF Workflows
<1> QED
  BY <1>2, <1>3, <1>4 DEF ActivationInv, RowInv, Holders

\* Rows made for a workflow of the list, by the only session that may.
LEMMA MakingKeepsRows ==
    ASSUME ActivationInv, NEW s \in Sessions, NEW w \in Workflows, MakeRows(w),
           \A l \in Leads : execs[w][l] = "none", w <= Len(workflows'),
           Len(workflows) <= Len(workflows'), Len(workflows') \in Nat,
           tx'[s].pc = "idle", \A t \in Sessions \ {s} : tx[t].pc # "existing",
           \A t \in Sessions \ {s} : tx'[t] = tx[t],
           task' = task \/ task'.pc = "list"
    PROVE  RowInv'
<1>1. /\ \A v \in Workflows, l \in Leads :
            rowsMade'[v][l] = IF execs'[v][l] = "none" THEN 0 ELSE 1
      /\ \A l \in Leads : execs'[w][l] # "none"
      /\ \A v \in Workflows \ {w} : execs'[v] = execs[v]
  BY RowsAreMade
<1>2. \A t \in Sessions : tx'[t].pc # "existing"
  OBVIOUS
<1>3. \A v \in Workflows, l \in Leads : v > Len(workflows') => execs'[v][l] = "none"
  <2>1. Len(workflows) \in Nat /\ Workflows \subseteq Int
    BY LifecycleAssumption DEF ActivationInv, ActivationType, CampaignTypeOK, Workflows
  <2>2. \A v \in Workflows : v > Len(workflows') => v > Len(workflows) /\ v # w
    BY <2>1
  <2> QED
    BY <1>1, <2>2 DEF ActivationInv, RowInv
<1>4. \A v \in Workflows, k, l \in Leads :
          execs'[v][k] # "none" => execs'[v][l] # "none"
  BY <1>1 DEF ActivationInv, RowInv
<1>5. \A l \in Leads : \E v \in Workflows : execs'[v][l] # "none"
  BY <1>1
<1>6. task'.pc = "dispatch" =>
         /\ task'.batch # {} => task'.wf \in Workflows
         /\ \A l \in task'.batch : execs'[task'.wf][l] # "none"
  <2>1. CASE task' = task
    <3>1. task.batch \subseteq Leads
      BY DEF ActivationInv, ActivationType, CampaignTypeOK, Task
    <3> QED
      BY <1>1, <2>1, <3>1 DEF ActivationInv, RowInv
  <2> QED
    BY <2>1
<1> QED
  BY <1>1, <1>2, <1>3, <1>4, <1>5, <1>6 DEF RowInv, Workflows

\* No rows are made.
LEMMA NoRowsMade ==
    ASSUME ActivationInv, NEW s \in Sessions, UNCHANGED <<workflows, execs, rowsMade>>,
           \A t \in Sessions \ {s} : tx'[t] = tx[t],
           tx'[s].pc = "existing" => tx'[s].fill = NoneEnqueued,
           tx'[s].told = "active" =>
              \A l \in Leads : \E w \in Workflows : execs[w][l] # "none",
           task' = task \/ task'.pc # "dispatch"
    PROVE  RowInv'
<1>1. \A t \in Sessions : tx'[t].pc = "existing" => tx'[t].fill = (Enqueued' = {})
  BY DEF ActivationInv, RowInv, NoneEnqueued, Enqueued
<1>2. (\E t \in Sessions : tx'[t].told = "active") =>
          \A l \in Leads : \E w \in Workflows : execs'[w][l] # "none"
  BY DEF ActivationInv, RowInv
<1>3. task'.pc = "dispatch" =>
         /\ task'.batch # {} => task'.wf \in Workflows
         /\ \A l \in task'.batch : execs'[task'.wf][l] # "none"
  BY DEF ActivationInv, RowInv
<1> QED
  BY <1>1, <1>2, <1>3 DEF ActivationInv, RowInv, Workflows

LEMMA ActivateKeepsRows ==
    ASSUME ActivationInv, NEW s \in Sessions, ActivateStep(s) PROVE RowInv'
<1>1. /\ tx \in [Sessions -> Transaction] /\ tx[s] \in Transaction /\ LockInv /\ task \in Task
      /\ \A t \in Sessions \ {s} : tx'[t] = tx[t]
  BY TransactionsChange DEF ActivationInv, ActivationType, CampaignTypeOK
<1>2. CASE LoadCampaign(s)
  <2>1. UNCHANGED <<campaignVars, rowsMade>> /\ tx'[s].pc = "look" /\ tx'[s].told = "nothing"
    BY <1>1, <1>2 DEF LoadCampaign, IdleTx
  <2> QED
    BY <1>1, <2>1, NoRowsMade DEF campaignVars
<1>3. CASE LookUp(s)
  <2>1. UNCHANGED <<campaignVars, rowsMade>> /\ tx'[s].pc # "existing" /\ tx'[s].told = tx[s].told
    BY <1>1, <1>3 DEF LookUp, Transaction
  <2>2. tx[s].told # "active"
    BY <1>1, <1>3 DEF LookUp, LockInv
  <2> QED
    BY <1>1, <2>1, <2>2, NoRowsMade DEF campaignVars
<1>4. CASE CountRows(s)
  <2>1. /\ UNCHANGED <<campaignVars, rowsMade>> /\ tx'[s].fill = NoneEnqueued
        /\ tx'[s].told = tx[s].told
    BY <1>1, <1>4 DEF CountRows, Transaction
  <2>2. tx[s].told # "active"
    BY <1>1, <1>4 DEF CountRows, LockInv
  <2> QED
    BY <1>1, <2>1, <2>2, NoRowsMade DEF campaignVars
<1>5. CASE InsertWorkflow(s)
  <2>1. UNCHANGED <<campaignVars, rowsMade>> /\ tx'[s].pc = "created" /\ tx'[s].told = tx[s].told
    BY <1>1, <1>5 DEF InsertWorkflow, Transaction
  <2>2. tx[s].told # "active"
    BY <1>1, <1>5 DEF InsertWorkflow, LockInv
  <2> QED
    BY <1>1, <2>1, <2>2, NoRowsMade DEF campaignVars
<1>6. CASE CommitLater(s) \/ RefuseInsert(s) \/ Abort(s)
  <2>1. /\ UNCHANGED <<workflows, execs, rowsMade>>
        /\ tx'[s].pc = "idle" /\ tx'[s].told # "active"
    BY <1>1, <1>6 DEF CommitLater, RefuseInsert, Abort, Respond, Raise, IdleTx
  <2>2. task' = task \/ task'.pc # "dispatch"
    BY <1>1, <1>6 DEF CommitLater, RefuseInsert, Abort, Respond, Raise, IdleTask, Task
  <2> QED
    BY <1>1, <2>1, <2>2, NoRowsMade
<1>7. CASE CommitExisting(s) /\ ~tx[s].fill
  <2>1. /\ UNCHANGED <<workflows, execs, rowsMade>> /\ tx'[s].pc = "idle"
    BY <1>1, <1>7 DEF CommitExisting, Respond, IdleTx
  <2>2. Enqueued # {}
    BY <1>1, <1>7 DEF CommitExisting, ActivationInv, RowInv
  <2>3. PICK w \in Workflows, k \in Leads : execs[w][k] # "none"
    BY <2>2 DEF Enqueued
  <2>4. \A l \in Leads : execs[w][l] # "none"
    BY <2>3 DEF ActivationInv, RowInv
  <2>5. task' = task \/ task'.pc # "dispatch"
    BY <1>1, <1>7 DEF CommitExisting, Respond, Task
  <2> QED
    BY <1>1, <2>1, <2>4, <2>5, NoRowsMade
<1>8. CASE CommitExisting(s) /\ tx[s].fill
  <2>1. /\ MakeRows(tx[s].wf) /\ workflows' = workflows
        /\ tx'[s].pc = "idle"
    BY <1>1, <1>8 DEF CommitExisting, Respond, IdleTx
  <2>2. task' = task \/ task'.pc = "list"
    BY <1>1, <1>8 DEF CommitExisting, Respond, Task
  <2>3. PICK w : w = tx[s].wf
    OBVIOUS
  <2>4. /\ w \in Workflows /\ w \in 1..Len(workflows)
        /\ \A l \in Leads : execs[w][l] = "none"
        /\ \A t \in Sessions \ {s} : tx[t].pc # "existing"
    BY <1>8, <2>1, <2>3, CommitMakesRows
  <2>5. Len(workflows) \in Nat /\ w <= Len(workflows)
    BY <2>4 DEF ActivationInv, ActivationType, CampaignTypeOK
  <2> QED
    BY <1>1, <2>1, <2>2, <2>3, <2>4, <2>5, MakingKeepsRows
<1>9. CASE CommitNew(s)
  <2>1. MakeRows(Len(workflows) + 1) /\ tx'[s].pc = "idle"
    BY <1>1, <1>9 DEF CommitNew, Respond, IdleTx
  <2>2. task' = task \/ task'.pc = "list"
    BY <1>1, <1>9 DEF CommitNew, Respond, Task
  <2>3. PICK w : w = Len(workflows) + 1
    OBVIOUS
  <2>4. /\ w \in Workflows /\ Len(workflows') = w
        /\ \A l \in Leads : execs[w][l] = "none"
        /\ \A t \in Sessions \ {s} : tx[t].pc # "existing"
    BY <1>9, <2>3, InsertMakesRows
  <2>5. Len(workflows) \in Nat
    BY DEF ActivationInv, ActivationType, CampaignTypeOK
  <2>6. w <= Len(workflows') /\ Len(workflows) <= Len(workflows') /\ Len(workflows') \in Nat
    BY <2>3, <2>4, <2>5
  <2> QED
    BY <1>1, <2>1, <2>2, <2>3, <2>4, <2>6, MakingKeepsRows
<1> QED
  BY <1>2, <1>3, <1>4, <1>5, <1>6, <1>7, <1>8, <1>9 DEF ActivateStep

-----------------------------------------------------------------------------
LEMMA ActivationInitInv == ActivationInit => ActivationInv
<1> SUFFICES ASSUME ActivationInit PROVE ActivationInv
  OBVIOUS
<1>1. /\ workflows = <<>> /\ task = IdleTask /\ status \in {"draft", "scheduled", "active"}
      /\ open = TRUE /\ future \in BOOLEAN
      /\ execs = [w \in Workflows |-> [l \in Leads |-> "none"]]
      /\ tx = [s \in Sessions |-> IdleTx]
      /\ rowsMade = [w \in Workflows |-> [l \in Leads |-> 0]]
  BY DEF ActivationInit, CampaignInit
<1>2. CampaignTypeOK
  BY <1>1, LifecycleAssumption DEF CampaignTypeOK, Task, IdleTask, CampaignStatuses
<1>3. IdleTx \in Transaction
  BY LifecycleAssumption DEF IdleTx, Transaction, CampaignStatuses
<1>4. ActivationType
  BY <1>1, <1>2, <1>3 DEF ActivationType
<1>5. Holders = {} /\ Inserting = {} /\ InState("active") = {}
  BY <1>1 DEF Holders, Inserting, InState, IdleTx
<1>6. LockInv
  BY <1>1, <1>5 DEF LockInv, IdleTx
<1>7. RowInv
  BY <1>1 DEF RowInv, IdleTx, IdleTask
<1> QED
  BY <1>4, <1>6, <1>7 DEF ActivationInv

LEMMA ActivationStep == ActivationInv /\ [ActivationNext]_activationVars => ActivationInv'
<1> SUFFICES ASSUME ActivationInv, [ActivationNext]_activationVars PROVE ActivationInv'
  OBVIOUS
<1>1. CASE ActivationNext
  <2>1. ActivationType'
    BY <1>1, ActivationKeepsType
  <2>2. LockInv' /\ RowInv'
    BY <1>1, ActivateKeepsLocks, ActivateKeepsRows, OthersKeepLocks, OthersKeepRows
       DEF ActivationNext
  <2> QED
    BY <2>1, <2>2 DEF ActivationInv
<1>2. CASE UNCHANGED activationVars
  BY <1>2 DEF activationVars, campaignVars, ActivationInv, ActivationType, CampaignTypeOK, LockInv, RowInv,
              Holders, Inserting, InState, Enqueued
<1> QED
  BY <1>1, <1>2

\* For any leads, workflows, sessions and users, and whatever interleaves with
\* whatever: one active workflow, every lead in it once, and nobody is told that the
\* campaign is active before its leads are enqueued (ActivatesOnce).
THEOREM ActivatesOnceCorrect == ActivationSpec => []ActivatesOnce
<1>1. ActivationInv => ActivatesOnce
  <2> SUFFICES ASSUME ActivationInv PROVE ActivatesOnce
    OBVIOUS
  <2>1. \A v, w \in InState("active") : v = w
    BY DEF ActivationInv, LockInv
  <2>2. \A w \in Workflows, l \in Leads :
            rowsMade[w][l] = IF execs[w][l] = "none" THEN 0 ELSE 1
    BY DEF ActivationInv, RowInv
  <2>3. (\E s \in Sessions : tx[s].told = "active") =>
            \A l \in Leads : \E w \in Workflows : execs[w][l] # "none"
    BY DEF ActivationInv, RowInv
  <2>4. \A w \in Workflows, l \in Leads : rowsMade[w][l] <= 1
    BY <2>2
  <2>5. \A w \in Workflows, l \in Leads : execs[w][l] # "none" => rowsMade[w][l] > 0
    BY <2>2
  <2> QED
    BY <2>1, <2>3, <2>4, <2>5 DEF ActivatesOnce
<1> QED
  BY <1>1, ActivationInitInv, ActivationStep, PTL DEF ActivationSpec

\* The same for what a launch commits: it is what the one transaction of
\* CampaignLifecycle would do there (ActivatesAsIfAlone).
THEOREM ActivatesAsIfAloneCorrect == ActivationSpec => ActivatesAsIfAlone
<1> DEFINE Alone == \A s \in Sessions :
        tx[s].pc \in {"existing", "created"} /\ tx'[s].told = "active" =>
            DoActivate(tx[s].loaded, tx[s].later)
<1>1. ActivationInv /\ [ActivationNext]_activationVars => [Alone]_activationVars
  <2> SUFFICES ASSUME ActivationInv, ActivationNext, NEW s \in Sessions,
                      tx[s].pc \in {"existing", "created"}, tx'[s].told = "active"
               PROVE  DoActivate(tx[s].loaded, tx[s].later)
    OBVIOUS
  <2>1. tx[s].told = "nothing" /\ tx \in [Sessions -> Transaction]
    BY DEF ActivationInv, ActivationType, LockInv
  <2>2. tx'[s] # tx[s]
    BY <2>1
  <2>3. ActivateStep(s)
    BY <2>2, TransactionsChange DEF ActivationNext, ActivationInv
  <2>4. ~ (CommitLater(s) \/ RefuseInsert(s) \/ Abort(s))
    BY <2>1 DEF CommitLater, RefuseInsert, Abort, Respond, Raise, IdleTx
  <2>5. CommitExisting(s) \/ CommitNew(s)
    BY <2>3, <2>4 DEF ActivateStep, LoadCampaign, LookUp, CountRows, InsertWorkflow
  <2> QED
    BY <2>5, CommitsAsIfAlone
<1> QED
  BY <1>1, ActivationInitInv, ActivationStep, PTL DEF ActivationSpec, ActivatesAsIfAlone

=============================================================================
