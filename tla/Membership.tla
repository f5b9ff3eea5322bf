------------------------------ MODULE Membership ------------------------------
(***************************************************************************)
(* The membership table of one organization under concurrent requests.     *)
(*                                                                         *)
(* A request is admitted by TenantGuard, which reads the actor's role      *)
(* once, and by PermissionsGuard.  The handlers MembersService.changeRole  *)
(* and .remove then run one SERIALIZABLE transaction: it reads the target  *)
(* row and the owner count from its snapshot, decides, writes the row and  *)
(* the audit entry and commits, or fails.  The membership row created by   *)
(* accepting an invitation and OrganizationsService.softDelete run at the  *)
(* default isolation level.                                                *)
(*                                                                         *)
(* PostgreSQL is modelled by what it refuses.  Of two transactions that    *)
(* overlap, the second to commit fails if both wrote the same row, or if   *)
(* both are SERIALIZABLE and each wrote what the other had read.  Every    *)
(* transaction here reads the whole set of OWNER rows, so the latter means *)
(* that both wrote an OWNER row.  Longer cycles, which PostgreSQL refuses  *)
(* too, are let through: the properties do not rest on them.               *)
(***************************************************************************)
EXTENDS Rbac, FiniteSets

CONSTANTS
  Users,      \* everyone who can sign in
  Requests    \* request slots: how many requests may be in flight at once

ASSUME UsersFinite == IsFiniteSet(Users)

VARIABLES
  status,        \* the organization row: "absent", "active" or "deleted"
  members,       \* members[u]: the role in u's membership row, or "NONE"
  replayed,      \* replayed[u]: u's role as the audit log tells it
  request,       \* request[r]: what r asks for, as the guards let it through
  phase,         \* phase[r]: "idle", "admitted", or "judged" (inside its transaction)
  seenRole,      \* seenRole[r]: the target's role in r's snapshot
  rowStale,      \* rowStale[r]: r's target row was written after r's snapshot
  ownersStale    \* ownersStale[r]: a SERIALIZABLE writer of an OWNER row
                 \* committed after r's snapshot

vars == <<status, members, replayed, request, phase, seenRole, rowStale, ownersStale>>
txVars == <<seenRole, rowStale, ownersStale>>

NoRole == "NONE"
RoleOrNone == Roles \cup {NoRole}

Request ==
  [op : {"changeRole"}, actor : Users, actorRole : Roles, target : Users, newRole : Roles]
  \cup [op : {"remove", "softDelete"}, actor : Users, actorRole : Roles, target : Users]

NoRequest == [op |-> "none"]

Owners == {u \in Users : members[u] = "OWNER"}
OwnerCount == Cardinality(Owners)

\* The request is judged as the code judges it: with the role the guard read,
\* against the given row and owner count.
Allowed(q, targetRole, ownerCount) ==
  \/ /\ q.op = "changeRole"
     /\ CanChangeRole(q.actorRole, targetRole, q.newRole, q.target = q.actor, ownerCount)
  \/ /\ q.op = "remove"
     /\ CanRemoveMember(q.actorRole, targetRole, q.target = q.actor, ownerCount)

\* The audit log, read from the beginning, replays to a role for each user; an
\* entry whose "from" is not the role replayed so far breaks the replay.
Replay(u, from, to) ==
  [replayed EXCEPT ![u] = IF @ = from THEN to ELSE "BROKEN"]

Init ==
  /\ status = "absent"
  /\ members = [u \in Users |-> NoRole]
  /\ replayed = [u \in Users |-> NoRole]
  /\ phase = [r \in Requests |-> "idle"]
  /\ request = [r \in Requests |-> NoRequest]
  /\ seenRole = [r \in Requests |-> NoRole]
  /\ rowStale = [r \in Requests |-> FALSE]
  /\ ownersStale = [r \in Requests |-> FALSE]

-----------------------------------------------------------------------------

\* OrganizationsService.create: the organization, its owner's membership and
\* the audit entry are one transaction.
Create(u) ==
  /\ status = "absent"
  /\ status' = "active"
  /\ members' = [members EXCEPT ![u] = "OWNER"]
  /\ replayed' = Replay(u, NoRole, "OWNER")
  /\ UNCHANGED <<request, phase, txVars>>

RoutePermission(op, role) ==
  CASE op = "changeRole" -> Can(role, "members.update")
    [] op = "softDelete" -> Can(role, "organization.delete")
    [] op = "remove"     -> TRUE

\* TenantGuard.canActivate, then PermissionsGuard.canActivate.
Admit(r, q) ==
  /\ phase[r] = "idle"
  /\ status = "active"
  /\ members[q.actor] = q.actorRole
  /\ RoutePermission(q.op, q.actorRole)
  /\ q.op = "softDelete" => q.target = q.actor   \* it has no target
  /\ request' = [request EXCEPT ![r] = q]
  /\ phase' = [phase EXCEPT ![r] = "admitted"]
  /\ UNCHANGED <<status, members, replayed, txVars>>

\* The transaction's two reads, from one snapshot, and the decision.
Judge(r) ==
  LET q == request[r] IN
  /\ phase[r] = "admitted"
  /\ members[q.target] # NoRole
  /\ Allowed(q, members[q.target], OwnerCount)
  /\ phase' = [phase EXCEPT ![r] = "judged"]
  /\ seenRole' = [seenRole EXCEPT ![r] = members[q.target]]
  /\ UNCHANGED <<status, members, replayed, request, rowStale, ownersStale>>

\* The request is answered, and what its slot held is gone.
Finish(r) ==
  /\ phase' = [phase EXCEPT ![r] = "idle"]
  /\ request' = [request EXCEPT ![r] = NoRequest]
  /\ seenRole' = [seenRole EXCEPT ![r] = NoRole]

\* MEMBER_NOT_FOUND, or one of the denials.
Refuse(r) ==
  LET q == request[r] IN
  /\ phase[r] = "admitted"
  /\ q.op \in {"changeRole", "remove"}
  /\ members[q.target] # NoRole => ~Allowed(q, members[q.target], OwnerCount)
  /\ Finish(r)
  /\ UNCHANGED <<status, members, replayed, rowStale, ownersStale>>

\* The role the request leaves its target with.
Outcome(r) == IF request[r].op = "remove" THEN NoRole ELSE request[r].newRole

WritesOwnerRow(r) == "OWNER" \in {seenRole[r], Outcome(r)}

\* Mutants of Conflicts: the transaction at REPEATABLE READ, where two writers
\* of different rows never conflict, and at the default READ COMMITTED.
ConflictsRepeatableRead(r) == rowStale[r]
ConflictsReadCommitted(r) == FALSE

\* isolationLevel Serializable: what PostgreSQL refuses to commit.
Conflicts(r) == rowStale[r] \/ (WritesOwnerRow(r) /\ ownersStale[r])

\* s has read its snapshot and is still open when r ends.
Overlaps(s, r) == s # r /\ phase[s] = "judged"

\* The row and its audit entry, committed together.  Transactions still open
\* now hold a snapshot that this write is missing from.
Commit(r) ==
  LET target == request[r].target IN
  /\ phase[r] = "judged"
  /\ ~Conflicts(r)
  /\ members' = [members EXCEPT ![target] = Outcome(r)]
  /\ replayed' = Replay(target, seenRole[r], Outcome(r))
  /\ rowStale' = [s \in Requests |->
        /\ Overlaps(s, r)
        /\ rowStale[s] \/ request[s].target = target]
  /\ ownersStale' = [s \in Requests |->
        /\ Overlaps(s, r)
        /\ ownersStale[s] \/ WritesOwnerRow(r)]
  /\ Finish(r)
  /\ UNCHANGED status

\* Mutant of Abort: the audit entry goes through the pool instead of the
\* transaction (AuditService.record without its tx argument).
AbortKeepsAudit(r) ==
  /\ phase[r] = "judged"
  /\ replayed' = Replay(request[r].target, seenRole[r], Outcome(r))
  /\ Finish(r)
  /\ rowStale' = [rowStale EXCEPT ![r] = FALSE]
  /\ ownersStale' = [ownersStale EXCEPT ![r] = FALSE]
  /\ UNCHANGED <<status, members>>

\* A serialization failure, a lost connection or a crash of the API process:
\* the transaction rolls back, its audit entry with it, and nothing retries.
Abort(r) ==
  /\ phase[r] = "judged"
  /\ Finish(r)
  /\ rowStale' = [rowStale EXCEPT ![r] = FALSE]
  /\ ownersStale' = [ownersStale EXCEPT ![r] = FALSE]
  /\ UNCHANGED <<status, members, replayed>>

\* The membership an accepted invitation creates.  It is an insert under the
\* unique index on (organization, user), at the default isolation level.
Join(u, role) ==
  /\ status # "absent"
  /\ members[u] = NoRole
  /\ members' = [members EXCEPT ![u] = role]
  /\ replayed' = Replay(u, NoRole, role)
  /\ UNCHANGED <<status, request, phase, txVars>>

\* OrganizationsService.softDelete.  It does not look whether the organization
\* is deleted already.
SoftDelete(r) ==
  /\ phase[r] = "admitted"
  /\ request[r].op = "softDelete"
  /\ request[r].actorRole = "OWNER"
  /\ status' = "deleted"
  /\ Finish(r)
  /\ UNCHANGED <<members, replayed, rowStale, ownersStale>>

Next ==
  \/ \E u \in Users : Create(u) \/ \E role \in Roles : Join(u, role)
  \/ \E r \in Requests :
       \/ \E q \in Request : Admit(r, q)
       \/ Judge(r) \/ Refuse(r) \/ Commit(r) \/ Abort(r) \/ SoftDelete(r)

Spec == Init /\ [][Next]_vars

-----------------------------------------------------------------------------

TypeOK ==
  /\ status \in {"absent", "active", "deleted"}
  /\ members \in [Users -> RoleOrNone]
  /\ replayed \in [Users -> RoleOrNone]
  /\ request \in [Requests -> Request \cup {NoRequest}]
  /\ phase \in [Requests -> {"idle", "admitted", "judged"}]
  /\ seenRole \in [Requests -> RoleOrNone]
  /\ rowStale \in [Requests -> BOOLEAN]
  /\ ownersStale \in [Requests -> BOOLEAN]

\* However role changes, removals, departures and joins interleave, an
\* organization that exists has an owner: two demotions of the last two owners
\* never both commit (members.service.ts, the comment on changeRole).
OwnerExists == status # "absent" => Owners # {}

\* The audit log replays to exactly the membership table, and every entry's
\* "from" is the role its operation really replaced: the entries committed in
\* the transactions of create, changeRole, remove and accept miss nothing and
\* record nothing that was rolled back.
AuditReplaysToTable == replayed = members

\* Each transaction takes effect as if it were judged and applied in one step on
\* the table as it is when it commits: the atomic specification, whose steps
\* decide on current rows, is implemented.
Atomic == INSTANCE AtomicMembership WITH Users <- Users, status <- status, members <- members
RefinesAtomic == Atomic!Spec
=============================================================================
