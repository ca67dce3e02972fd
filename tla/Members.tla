------------------------------ MODULE Members ------------------------------
(***************************************************************************)
(* Accounts, organizations and the memberships that tie them: the members  *)
(* API (members/service.py), ownership transfer and deletion               *)
(* (organization/router.py), registration and sign-in (auth/service.py).   *)
(*                                                                         *)
(* The members and organization endpoints run in FastAPI's thread pool,    *)
(* each in a READ COMMITTED transaction: what a request has read may be    *)
(* out of date when it commits.  The auth endpoints run on the event loop  *)
(* and wait for nothing: one step each.                                    *)
(***************************************************************************)
EXTENDS Integers, Sequences, FiniteSets

CONSTANTS
    Persons,        \* people, by e-mail address
    Orgs,           \* organizations that may come to exist
    Founding,       \* the memberships there are at first
    Referenced,     \* users whom rows of other tables refer to
    Requests,       \* requests under way at once
    KindsOf,        \* what each may be
    MaxMembers,     \* bound on memberships created
    NewRoles,       \* roles that create and update_role are called with
    Deletable,      \* organizations without campaigns, leads or calls of their own
    SigningIn       \* users who sign in and out

Kinds == {"create", "update_role", "reset_password", "remove",
          "transfer_ownership", "delete_org"}
Roles    == {"owner", "admin", "agent", "member"}
Statuses == {"active", "pending"}

Membership == [user : Persons, org : Orgs, role : Roles \cup {"gone"}, status : Statuses]

ASSUME MembersAssumption ==
    /\ Persons # {}
    /\ Founding \in Seq([user : Persons, org : Orgs, role : Roles, status : Statuses])
    /\ Referenced \subseteq Persons
    /\ KindsOf \in [Requests -> SUBSET Kinds]
    /\ MaxMembers \in Nat
    /\ NewRoles \subseteq Roles
    /\ Deletable \subseteq Orgs /\ SigningIn \subseteq Persons
    /\ \A i \in DOMAIN Founding : \E j \in DOMAIN Founding :
          Founding[j].org = Founding[i].org /\ Founding[j].role = "owner"

VARIABLES
    accounts,       \* users with a row in users
    sessions,       \* ... with a session that is not revoked
    orgs,           \* organizations
    memberships,    \* in the order of created_at; "gone" once deleted
    requests,       \* what each request does and has read
    clean           \* history: no request committed after a commit it did not see

membersVars == <<accounts, sessions, orgs, memberships, requests, clean>>

\* as is the membership get_current_tenant found, with its role then; the body is
\* a target, or a user, and a role; seen, fresh and known (in a transfer, role too)
\* come from rows the handler has read, owners and orphan from counts; stale says
\* that others have committed since.
Request == [pc : {"idle", "read", "count", "orphan", "commit"}, kind : Kinds,
            as : Nat, role : Roles \cup {"gone"}, target : Nat, user : Persons, to : Roles,
            seen : Roles \cup {"gone"}, fresh : BOOLEAN, known : BOOLEAN,
            owners : Nat, orphan : BOOLEAN, stale : BOOLEAN]

NoRequest == [pc |-> "idle", kind |-> "create", as |-> 0, role |-> "member", target |-> 0,
         user |-> CHOOSE u \in Persons : TRUE, to |-> "member",
         seen |-> "gone", fresh |-> FALSE, known |-> FALSE,
         owners |-> 0, orphan |-> FALSE, stale |-> FALSE]

MembersTypeOK ==
    /\ accounts \subseteq Persons /\ sessions \subseteq Persons
    /\ orgs \subseteq Orgs
    /\ memberships \in Seq(Membership)
    /\ requests \in [Requests -> Request]
    /\ clean \in BOOLEAN

MembersInit ==
    /\ accounts = {Founding[i].user : i \in DOMAIN Founding}
    /\ sessions = {}
    /\ orgs = {Founding[i].org : i \in DOMAIN Founding}
    /\ memberships = Founding
    /\ requests = [r \in Requests |-> NoRequest]
    /\ clean = TRUE

-----------------------------------------------------------------------------
(* Queries. *)

Present(i)    == memberships[i].role # "gone"
MembersOf(o)  == {i \in DOMAIN memberships : memberships[i].org = o /\ Present(i)}
Owners(o)     == {i \in MembersOf(o) : memberships[i].role = "owner"}
HeldBy(u)     == {i \in DOMAIN memberships : memberships[i].user = u /\ Present(i)}

RoleRank(role) == CASE role = "owner" -> 0 [] role = "admin" -> 1
                    [] role = "agent" -> 2 [] role = "member" -> 3 [] OTHER -> 99
StatusRank(status) == IF status = "active" THEN 0 ELSE 1

\* The order of resolve_tenant: active first, then by role, then the newest.
Ranks(i, j) ==
    LET s == StatusRank(memberships[i].status) - StatusRank(memberships[j].status)
        r == RoleRank(memberships[i].role) - RoleRank(memberships[j].role)
    IN  s < 0 \/ (s = 0 /\ (r < 0 \/ (r = 0 /\ i > j)))

\* resolve_tenant: the membership a user acts with (none: 403).
Tenants(u) == {i \in HeldBy(u) : \A j \in HeldBy(u) \ {i} : Ranks(i, j)}

-----------------------------------------------------------------------------
(* One request, statement by statement. *)

Actor(q) == memberships[q.as].user
Org(q)   == memberships[q.as].org

GoesOn(r, q)  == requests' = [requests EXCEPT ![r] = q]
Refused(r)  == GoesOn(r, NoRequest) /\ UNCHANGED <<accounts, sessions, orgs, memberships, clean>>
Reads(r, q) == GoesOn(r, q) /\ UNCHANGED <<accounts, sessions, orgs, memberships, clean>>

\* The request's writes are there: those under way have read something older.
Commits(r) ==
    /\ requests' = [q \in Requests |->
                      IF q = r \/ requests[q].pc = "idle" THEN (IF q = r THEN NoRequest ELSE requests[q])
                      ELSE [requests[q] EXCEPT !.stale = TRUE]]
    /\ clean' = (clean /\ ~requests[r].stale)

\* requires(...): the token may outlive the session and even the account.
Allowed(kind) == IF kind \in {"transfer_ownership", "delete_org"} THEN {"owner"}
                 ELSE {"owner", "admin"}

BeginRequest(r) ==
    /\ requests[r].pc = "idle"
    /\ \E u \in Persons, kind \in KindsOf[r] :
         \E i \in Tenants(u) :
           /\ memberships[i].role \in Allowed(kind)
           /\ kind = "delete_org" => memberships[i].org \in Deletable
           /\ \E t \in DOMAIN memberships, v \in Persons, role \in NewRoles :
                GoesOn(r, [NoRequest EXCEPT !.pc = "read", !.kind = kind, !.as = i,
                           !.role = memberships[i].role,
                           !.target = IF kind \in {"create", "delete_org"} THEN 0 ELSE t,
                           !.user = IF kind = "create" THEN v ELSE @,
                           !.to = IF kind \in {"create", "update_role"} THEN role ELSE @])
    /\ UNCHANGED <<accounts, sessions, orgs, memberships, clean>>

\* get_membership_with_user: the membership asked for, of this organization.
IsMember(q) == q.target \in MembersOf(Org(q))

\* create: the account and the membership, if there are any.
ReadAccount(r, q) ==
    /\ q.kind = "create"
    /\ IF q.user \in accounts /\ HeldBy(q.user) \cap MembersOf(Org(q)) # {}
       THEN Refused(r)
       ELSE Reads(r, [q EXCEPT !.pc = "commit", !.known = q.user \in accounts])

MayChangeRole(q, target) ==
    /\ target.user # Actor(q)
    /\ target.role # q.to
    /\ q.to = "owner" => q.role = "owner"

MayReset(q, target) ==
    /\ target.user # Actor(q)
    /\ target.role = "owner" => q.role = "owner"

MayRemove(q, target) == MayReset(q, target)

MayTransfer(q) == q.target # q.as /\ Present(q.as)

Loaded(q) == [q EXCEPT !.seen = memberships[q.target].role, !.role = memberships[q.as].role,
                       !.fresh = memberships[q.target].status = "pending"]

ReadMember(r, q) ==
    /\ q.kind \notin {"create", "delete_org"}
    /\ IF /\ IsMember(q)
          /\ q.kind = "update_role"        => MayChangeRole(q, memberships[q.target])
          /\ q.kind = "reset_password"     => MayReset(q, memberships[q.target])
          /\ q.kind = "remove"             => MayRemove(q, memberships[q.target])
          /\ q.kind = "transfer_ownership" => MayTransfer(q)
       THEN Reads(r, [Loaded(q) EXCEPT !.pc =
                IF q.kind \in {"update_role", "remove"} /\ memberships[q.target].role = "owner"
                THEN "count" ELSE IF q.kind = "remove" THEN "orphan" ELSE "commit"])
       ELSE Refused(r)

ReadOrg(r, q) ==
    /\ q.kind = "delete_org"
    /\ IF Org(q) \in orgs THEN Reads(r, [q EXCEPT !.pc = "commit"]) ELSE Refused(r)

ReadRequest(r) ==
    /\ requests[r].pc = "read"
    /\ \/ ReadAccount(r, requests[r]) \/ ReadMember(r, requests[r]) \/ ReadOrg(r, requests[r])

\* Slip: the owners are counted, and one is enough.
Slip_OneIsEnough(n) == n < 1
TooFew(n)           == n <= 1

\* count_owners, in a statement of its own.
CountOwners(r) ==
    /\ requests[r].pc = "count"
    /\ LET q == requests[r]
           n == Cardinality(Owners(Org(q)))
       IN  IF TooFew(n) THEN Refused(r)
           ELSE Reads(r, [q EXCEPT !.owners = n,
                            !.pc = IF q.kind = "remove" THEN "orphan" ELSE "commit"])

\* Slip: the row to be deleted is still there to be counted.
Slip_NotFlushed(u, i) == HeldBy(u)
OtherMemberships(u, i) == HeldBy(u) \ {i}

\* The membership is deleted and flushed, and count_user_memberships counts what
\* others have committed.
CountMemberships(r) ==
    /\ requests[r].pc = "orphan"
    /\ LET q == requests[r]
       IN  Reads(r, [q EXCEPT !.pc = "commit",
                       !.orphan = OtherMemberships(memberships[q.target].user, q.target) = {}])

-----------------------------------------------------------------------------
(* What the requests commit: nothing, when a row to be updated is gone or a      *)
(* foreign or unique key is violated.  All but delete_org log their actor, whose *)
(* account audit_logs refers to.                                                 *)

CommitCreate(r, q) ==
    /\ q.kind = "create" /\ Len(memberships) < MaxMembers
    /\ IF Actor(q) \in accounts /\ Org(q) \in orgs /\ (q.known <=> q.user \in accounts)
       THEN \E status \in (IF q.known THEN {"active"} ELSE Statuses) :
              /\ memberships' = Append(memberships, [user |-> q.user, org |-> Org(q),
                                             role |-> q.to, status |-> status])
              /\ accounts' = accounts \cup {q.user}
              /\ Commits(r)
              /\ UNCHANGED <<sessions, orgs>>
       ELSE Refused(r)

CommitRole(r, q) ==
    /\ q.kind = "update_role"
    /\ IF Actor(q) \in accounts /\ Present(q.target)
       THEN /\ memberships' = [memberships EXCEPT ![q.target] = [@ EXCEPT !.role = q.to]]
            /\ Commits(r)
            /\ UNCHANGED <<accounts, sessions, orgs>>
       ELSE Refused(r)

\* A row loaded as pending is not written; its user always is.
CommitReset(r, q) ==
    /\ q.kind = "reset_password"
    /\ IF /\ Actor(q) \in accounts /\ memberships[q.target].user \in accounts
          /\ Present(q.target) \/ q.fresh
       THEN /\ memberships' = IF q.fresh THEN memberships
                          ELSE [memberships EXCEPT ![q.target] = [@ EXCEPT !.status = "pending"]]
            /\ Commits(r)
            /\ UNCHANGED <<accounts, sessions, orgs>>
       ELSE Refused(r)

\* The last membership takes the sessions and the account with it.  Deleting what
\* is deleted already is no error.
CommitRemove(r, q) ==
    /\ q.kind = "remove"
    /\ LET u == memberships[q.target].user
       IN  IF /\ Actor(q) \in accounts
              /\ q.orphan => u \notin Referenced /\ OtherMemberships(u, q.target) = {}
           THEN /\ memberships' = [memberships EXCEPT ![q.target] = [@ EXCEPT !.role = "gone"]]
                /\ accounts' = IF q.orphan THEN accounts \ {u} ELSE accounts
                /\ sessions' = IF q.orphan THEN sessions \ {u} ELSE sessions
                /\ Commits(r)
                /\ UNCHANGED orgs
           ELSE Refused(r)

\* Roles that are as they were loaded are not written.
CommitTransfer(r, q) ==
    /\ q.kind = "transfer_ownership"
    /\ IF /\ Actor(q) \in accounts
          /\ Present(q.target) \/ q.seen = "owner"
          /\ Present(q.as) \/ q.role = "admin"
       THEN /\ memberships' = [i \in DOMAIN memberships |->
                  IF i = q.as /\ q.role # "admin" THEN [memberships[i] EXCEPT !.role = "admin"]
                  ELSE IF i = q.target /\ q.seen # "owner"
                       THEN [memberships[i] EXCEPT !.role = "owner"] ELSE memberships[i]]
            /\ Commits(r)
            /\ UNCHANGED <<accounts, sessions, orgs>>
       ELSE Refused(r)

CommitDelete(r, q) ==
    /\ q.kind = "delete_org"
    /\ memberships' = [i \in DOMAIN memberships |->
                     IF memberships[i].org = Org(q) THEN [memberships[i] EXCEPT !.role = "gone"]
                     ELSE memberships[i]]
    /\ orgs' = orgs \ {Org(q)}
    /\ Commits(r)
    /\ UNCHANGED <<accounts, sessions>>

CommitRequest(r) ==
    /\ requests[r].pc = "commit"
    /\ \/ CommitCreate(r, requests[r]) \/ CommitRole(r, requests[r])
       \/ CommitReset(r, requests[r]) \/ CommitRemove(r, requests[r])
       \/ CommitTransfer(r, requests[r]) \/ CommitDelete(r, requests[r])

-----------------------------------------------------------------------------
(* auth/service.py. *)

\* An organization nobody has ever been a member of.
Register ==
    /\ Len(memberships) < MaxMembers
    /\ \E u \in Persons \ accounts, o \in Orgs \ orgs :
         /\ \A i \in DOMAIN memberships : memberships[i].org # o
         /\ accounts' = accounts \cup {u}
         /\ orgs' = orgs \cup {o}
         /\ memberships' = Append(memberships, [user |-> u, org |-> o, role |-> "owner",
                                        status |-> "active"])
    /\ requests' = [r \in Requests |-> IF requests[r].pc = "idle" THEN requests[r]
                                       ELSE [requests[r] EXCEPT !.stale = TRUE]]
    /\ UNCHANGED <<sessions, clean>>

Login ==
    /\ \E u \in accounts \cap SigningIn : sessions' = sessions \cup {u}
    /\ UNCHANGED <<accounts, orgs, memberships, requests, clean>>

\* logout, or a new password set with the link that forgot_password mailed.
SignOut ==
    /\ \E u \in sessions : sessions' = sessions \ {u}
    /\ UNCHANGED <<accounts, orgs, memberships, requests, clean>>

MembersNext ==
    \/ \E r \in Requests : BeginRequest(r) \/ ReadRequest(r) \/ CountOwners(r) \/ CountMemberships(r)
                           \/ CommitRequest(r)
    \/ Register \/ Login \/ SignOut

MembersSpec == MembersInit /\ [][MembersNext]_membersVars

-----------------------------------------------------------------------------
(* Properties.                                                             *)

OwnerRemains == \A o \in orgs : Owners(o) # {}

NobodyIsStranded ==
    \A u \in accounts :
        \/ HeldBy(u) # {}
        \/ \E i \in DOMAIN memberships : memberships[i].user = u /\ memberships[i].org \notin orgs

\* As long as no request commits after a commit it has not seen: "The last
\* remaining OWNER cannot be demoted" nor removed, and a transfer leaves an owner
\* behind; and whoever has an account has a membership to act with, or has lost it
\* with the organization (remove takes the account along with the last membership,
\* counting those of all organizations).
MembershipsHold == clean => OwnerRemains /\ NobodyIsStranded

\* update_role promises that the last remaining owner cannot be demoted, whatever
\* else happens at the time.
LastOwnerStays == \A o \in orgs : Owners(o) # {}
=============================================================================
