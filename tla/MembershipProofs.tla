--------------------------- MODULE MembershipProofs ---------------------------
(***************************************************************************)
(* Proofs about concurrent membership requests, for every finite set of    *)
(* users and any set of request slots.                                     *)
(*                                                                         *)
(* The argument: what a transaction read from its snapshot may be out of   *)
(* date when it commits, but never in a way that matters, because the      *)
(* stale flags record every write that could invalidate it.  SnapshotOK    *)
(* says so; with it each Commit is a step of AtomicMembership, and owner   *)
(* safety is inherited from there.                                         *)
(***************************************************************************)
EXTENDS Membership, FiniteSetTheorems, TLAPS

\* An open transaction was allowed on what it saw; the row it saw is the present
\* row unless rowStale says otherwise, and unless ownersStale says otherwise an
\* owner it is about to take away is not the last one.
SnapshotOK(r) ==
  phase[r] = "judged" =>
    LET q == request[r] IN
    /\ q.op \in {"changeRole", "remove"}
    /\ seenRole[r] \in Roles
    /\ Allowed(q, seenRole[r], 2)
    /\ ~rowStale[r] => members[q.target] = seenRole[r]
    /\ (~ownersStale[r] /\ seenRole[r] = "OWNER" /\ Outcome(r) # "OWNER")
         => OwnerCount >= 2

\* A request in flight has a request in its slot.
SlotOK(r) == phase[r] # "idle" => request[r] \in Request

\* Before it is created an organization has no members and no requests.
AbsentOK ==
  status = "absent" =>
    /\ \A u \in Users : members[u] = NoRole
    /\ \A r \in Requests : phase[r] = "idle"

IInv ==
  /\ TypeOK
  /\ AbsentOK
  /\ \A r \in Requests : SlotOK(r) /\ SnapshotOK(r)
  /\ AuditReplaysToTable

-----------------------------------------------------------------------------

\* A set of users that contains another has at least as many.
LEMMA CountGrows ==
  ASSUME NEW S \in SUBSET Users, NEW T \in SUBSET Users, S \subseteq T
  PROVE  /\ Cardinality(S) \in Nat /\ Cardinality(T) \in Nat
         /\ Cardinality(S) <= Cardinality(T)
BY UsersFinite, FS_Subset, FS_CardinalityType

\* The decisions use the owner count only to tell whether it exceeds one.
LEMMA DecisionUsesLastOwnerOnly ==
  ASSUME NEW q, NEW role, NEW m \in Nat, NEW n \in Nat,
         Allowed(q, role, m),
         role = "OWNER" /\ (q.op = "remove" \/ q.newRole # "OWNER") => n >= 2
  PROVE  Allowed(q, role, n)
BY SMT DEF Allowed, CanChangeRole, CanRemoveMember

\* The strengthened invariant holds before the organization is created.
LEMMA InitInv == Init => IInv
BY DEF Init, IInv, TypeOK, SlotOK, SnapshotOK, AuditReplaysToTable, RoleOrNone, NoRole, AbsentOK

\* A request slot whose own fields keep their values stays in order while no row
\* and no flag of it changes.
LEMMA SlotFrame ==
  ASSUME NEW s \in Requests, SlotOK(s), SnapshotOK(s),
         phase'[s] = phase[s], request'[s] = request[s], seenRole'[s] = seenRole[s],
         rowStale'[s] = rowStale[s], ownersStale'[s] = ownersStale[s],
         members' = members
  PROVE  SlotOK(s)' /\ SnapshotOK(s)'
<1>1. OwnerCount' = OwnerCount
  BY DEF OwnerCount, Owners
<1>2. Outcome(s)' = Outcome(s)
  BY DEF Outcome
<1>3. QED
  BY <1>1, <1>2 DEF SlotOK, SnapshotOK

\* A slot that has become idle holds nothing to keep in order.
LEMMA SlotIdle ==
  ASSUME NEW s \in Requests, phase'[s] = "idle"
  PROVE  SlotOK(s)' /\ SnapshotOK(s)'
BY DEF SlotOK, SnapshotOK

\* Creating the organization finds nobody in it and no request in flight.
LEMMA CreateInv ==
  ASSUME IInv, NEW u \in Users, Create(u)
  PROVE  IInv'
<1> USE DEF Create, txVars
<1>1. TypeOK' /\ AuditReplaysToTable'
  BY DEF IInv, AbsentOK, TypeOK, AuditReplaysToTable, Replay, RoleOrNone, Roles, NoRole
<1>2. AbsentOK'
  BY DEF AbsentOK
<1>3. \A r \in Requests : SlotOK(r)' /\ SnapshotOK(r)'
  BY SlotIdle DEF IInv, AbsentOK
<1>4. QED
  BY <1>1, <1>2, <1>3 DEF IInv

\* An admitted request has read nothing yet.
LEMMA AdmitInv ==
  ASSUME IInv, NEW r \in Requests, NEW q \in Request, Admit(r, q)
  PROVE  IInv'
<1> USE DEF Admit, txVars
<1>1. TypeOK' /\ AuditReplaysToTable' /\ AbsentOK'
  BY DEF IInv, TypeOK, AuditReplaysToTable, AbsentOK
<1>2. ASSUME NEW s \in Requests
      PROVE  SlotOK(s)' /\ SnapshotOK(s)'
  <2>1. CASE s = r
    BY <2>1 DEF IInv, TypeOK, SlotOK, SnapshotOK
  <2>2. CASE s # r
    BY <2>2, SlotFrame DEF IInv, TypeOK
  <2>3. QED
    BY <2>1, <2>2
<1>3. QED
  BY <1>1, <1>2 DEF IInv

\* A transaction that goes on was allowed on what it has just read.
LEMMA JudgeInv ==
  ASSUME IInv, NEW r \in Requests, Judge(r)
  PROVE  IInv'
<1> DEFINE q == request[r]
<1> USE DEF Judge
<1>1. q \in Request /\ q.target \in Users /\ members[q.target] \in Roles
  BY DEF IInv, TypeOK, SlotOK, Request, RoleOrNone
<1>2. TypeOK' /\ AuditReplaysToTable' /\ AbsentOK'
  BY <1>1 DEF IInv, TypeOK, AuditReplaysToTable, AbsentOK, RoleOrNone
<1>3. ASSUME NEW s \in Requests
      PROVE  SlotOK(s)' /\ SnapshotOK(s)'
  <2>1. CASE s # r
    BY <2>1, SlotFrame DEF IInv, TypeOK
  <2>2. CASE s = r
    <3>1. OwnerCount \in Nat /\ OwnerCount' = OwnerCount
      BY CountGrows DEF OwnerCount, Owners
    <3>2. Allowed(q, members[q.target], 2)
      BY <3>1, DecisionUsesLastOwnerOnly
    <3>3. SlotOK(r)'
      BY <1>1 DEF SlotOK
    <3>4. phase'[r] = "judged" /\ seenRole'[r] = members[q.target] /\ request'[r] = q
          /\ members' = members
      BY DEF IInv, TypeOK
    <3>5. q.op \in {"changeRole", "remove"}
      BY DEF Allowed
    <3>6. ASSUME members[q.target] = "OWNER", Outcome(r)' # "OWNER"
          PROVE  OwnerCount >= 2
      BY <3>1, <3>4, <3>5, <3>6 DEF Allowed, CanChangeRole, CanRemoveMember, Outcome
    <3>7. QED
      BY <1>1, <2>2, <3>1, <3>2, <3>3, <3>4, <3>5, <3>6 DEF SnapshotOK
  <2>3. QED
    BY <2>1, <2>2
<1>4. QED
  BY <1>2, <1>3 DEF IInv

\* Refuse, Abort and SoftDelete end a request and leave every row alone.
LEMMA FinishInv ==
  ASSUME IInv, NEW r \in Requests, Refuse(r) \/ Abort(r) \/ SoftDelete(r)
  PROVE  IInv'
<1> USE DEF Refuse, Abort, SoftDelete, Finish
<1>1. TypeOK' /\ AuditReplaysToTable' /\ AbsentOK'
  BY DEF IInv, TypeOK, AuditReplaysToTable, AbsentOK, RoleOrNone
<1>2. ASSUME NEW s \in Requests
      PROVE  SlotOK(s)' /\ SnapshotOK(s)'
  <2>1. CASE s = r
    BY <2>1, SlotIdle DEF IInv, TypeOK
  <2>2. CASE s # r
    BY <2>2, SlotFrame DEF IInv, TypeOK
  <2>3. QED
    BY <2>1, <2>2
<1>3. QED
  BY <1>1, <1>2 DEF IInv

\* A new member makes no snapshot stale: the row was not one that a transaction had
\* read, and owners only become more.
LEMMA JoinInv ==
  ASSUME IInv, NEW u \in Users, NEW role \in Roles, Join(u, role)
  PROVE  IInv'
<1> USE DEF Join, txVars
<1>1. TypeOK' /\ AuditReplaysToTable' /\ AbsentOK'
  BY DEF IInv, TypeOK, AuditReplaysToTable, AbsentOK, Replay, RoleOrNone
<1>2. ASSUME NEW s \in Requests
      PROVE  SlotOK(s)' /\ SnapshotOK(s)'
  <2>1. OwnerCount \in Nat /\ OwnerCount' \in Nat /\ OwnerCount <= OwnerCount'
    <3>1. Owners \subseteq Owners' /\ Owners \in SUBSET Users /\ Owners' \in SUBSET Users
      BY DEF IInv, TypeOK, Owners, NoRole
    <3>2. QED
      BY <3>1, CountGrows DEF OwnerCount
  <2>2. SlotOK(s)'
    BY DEF IInv, SlotOK
  <2>3. ASSUME phase[s] = "judged", ~rowStale[s]
        PROVE  members'[request[s].target] = seenRole[s]
    BY <2>3 DEF IInv, SnapshotOK, TypeOK, Roles, NoRole
  <2>4. Outcome(s)' = Outcome(s)
    BY DEF Outcome
  <2>5. QED
    BY <2>1, <2>2, <2>3, <2>4 DEF IInv, SnapshotOK
<1>3. QED
  BY <1>1, <1>2 DEF IInv

-----------------------------------------------------------------------------

\* The heart of the argument: a transaction that commits was judged on a row that
\* is still there, and if it takes an owner away, another remains.
LEMMA CommitJudgedOnPresent ==
  ASSUME IInv, NEW r \in Requests, Commit(r)
  PROVE  LET q == request[r] IN
         /\ q \in Request
         /\ q.op \in {"changeRole", "remove"}
         /\ members[q.target] \in Roles
         /\ members[q.target] = seenRole[r]
         /\ Allowed(q, members[q.target], OwnerCount)
<1> DEFINE q == request[r]
<1>1. SlotOK(r) /\ SnapshotOK(r) /\ phase[r] = "judged"
  BY DEF IInv, Commit
<1>2. q \in Request /\ q.op \in {"changeRole", "remove"} /\ members[q.target] = seenRole[r]
      /\ seenRole[r] \in Roles
  BY <1>1 DEF SlotOK, SnapshotOK, Commit, Conflicts
<1>3. Allowed(q, seenRole[r], 2)
  BY <1>1 DEF SnapshotOK
<1>4. OwnerCount \in Nat
  BY CountGrows DEF OwnerCount, Owners
<1>5. ASSUME seenRole[r] = "OWNER", q.op = "remove" \/ q.newRole # "OWNER"
      PROVE  OwnerCount >= 2
  <2>1. Outcome(r) # "OWNER" /\ ~ownersStale[r]
    BY <1>5 DEF Outcome, NoRole, Commit, Conflicts, WritesOwnerRow
  <2>2. QED
    BY <1>1, <1>5, <2>1 DEF SnapshotOK
<1>6. Allowed(q, seenRole[r], OwnerCount)
  BY <1>3, <1>4, <1>5, DecisionUsesLastOwnerOnly
<1>7. QED
  BY <1>2, <1>6

\* A commit marks every open transaction whose reads it has invalidated.
LEMMA CommitInv ==
  ASSUME IInv, NEW r \in Requests, Commit(r)
  PROVE  IInv'
<1> DEFINE q == request[r]
<1>1. /\ q \in Request /\ q.op \in {"changeRole", "remove"}
      /\ q.target \in Users /\ Outcome(r) \in RoleOrNone
      /\ members[q.target] = seenRole[r] /\ seenRole[r] \in Roles
  BY CommitJudgedOnPresent DEF Request, Outcome, RoleOrNone
<1>2. TypeOK' /\ AuditReplaysToTable'
  BY <1>1 DEF IInv, TypeOK, AuditReplaysToTable, Commit, Finish, Replay, RoleOrNone
<1>3. AbsentOK'
  BY DEF IInv, AbsentOK, Commit
<1>4. ASSUME NEW s \in Requests
      PROVE  SlotOK(s)' /\ SnapshotOK(s)'
  <2>1. CASE s = r \/ phase[s] # "judged"
    BY <2>1 DEF IInv, TypeOK, SlotOK, SnapshotOK, Commit, Finish
  <2>2. CASE s # r /\ phase[s] = "judged"
    <3>1. /\ phase'[s] = phase[s] /\ request'[s] = request[s] /\ seenRole'[s] = seenRole[s]
          /\ ~rowStale'[s] => ~rowStale[s] /\ request[s].target # q.target
          /\ ~ownersStale'[s] => ~ownersStale[s] /\ ~WritesOwnerRow(r)
          /\ members' = [members EXCEPT ![q.target] = Outcome(r)]
      BY <2>2 DEF IInv, TypeOK, Commit, Finish, Overlaps
    <3>2. SlotOK(s)' /\ Outcome(s)' = Outcome(s)
      BY <3>1 DEF IInv, SlotOK, Outcome
    <3>3. ASSUME ~rowStale'[s]
          PROVE  members'[request[s].target] = seenRole[s]
      BY <2>2, <3>1, <3>3 DEF IInv, SnapshotOK, TypeOK
    <3>4. ASSUME ~ownersStale'[s]
          PROVE  OwnerCount' = OwnerCount
      BY <1>1, <3>1, <3>4 DEF WritesOwnerRow, OwnerCount, Owners, IInv, TypeOK
    <3>5. QED
      BY <2>2, <3>1, <3>2, <3>3, <3>4 DEF IInv, SnapshotOK
  <2>3. QED
    BY <2>1, <2>2
<1>5. QED
  BY <1>2, <1>3, <1>4 DEF IInv

\* Every step keeps the strengthened invariant.
LEMMA StepInv == IInv /\ [Next]_vars => IInv'
<1>1. IInv /\ UNCHANGED vars => IInv'
  BY DEF vars, IInv, TypeOK, AbsentOK, SlotOK, SnapshotOK, AuditReplaysToTable,
         OwnerCount, Owners, Outcome
<1>2. QED
  BY <1>1, CreateInv, JoinInv, AdmitInv, JudgeInv, FinishInv, CommitInv DEF Next

\* So it holds of every behaviour.
LEMMA Invariance == Spec => []IInv
BY InitInv, StepInv, PTL DEF Spec

\* Every variable keeps its type; in particular the audit log never breaks.
THEOREM TypeCorrect == Spec => []TypeOK
BY Invariance, PTL DEF IInv

\* The audit entries committed with each operation replay to the membership
\* table: nothing is missing from them and nothing in them was rolled back.
THEOREM AuditFaithful == Spec => []AuditReplaysToTable
BY Invariance, PTL DEF IInv

-----------------------------------------------------------------------------

(* The atomic table.                                                        *)

\* Every membership row holds a role of schema.prisma's Role enum, and the
\* organization row is absent, active or deleted.
LEMMA AtomicTypeCorrect == Atomic!Spec => []Atomic!TypeOK
<1>1. Atomic!Init => Atomic!TypeOK
  BY DEF Atomic!Init, Atomic!TypeOK, Atomic!NoRole
<1>2. Atomic!TypeOK /\ [Atomic!Next]_Atomic!vars => Atomic!TypeOK'
  BY DEF Atomic!TypeOK, Atomic!Next, Atomic!vars, Atomic!Create, Atomic!ChangeRole, Atomic!Remove,
         Atomic!Join, Atomic!SoftDelete, Atomic!NoRole, Atomic!Roles
<1>3. QED
  BY <1>1, <1>2, PTL DEF Atomic!Spec

\* The last OWNER cannot be demoted, removed, or allowed to leave
\* (docs/security.md, owner safety): an organization that was created has an
\* owner, whatever sequence of allowed operations follows.
THEOREM AtomicOwnerSafety == Atomic!Spec => []Atomic!OwnerExists
<1>1. Atomic!Init => Atomic!OwnerExists
  BY DEF Atomic!Init, Atomic!OwnerExists
<1>2. Atomic!TypeOK /\ Atomic!OwnerExists /\ [Atomic!Next]_Atomic!vars => Atomic!OwnerExists'
  <2> SUFFICES ASSUME Atomic!TypeOK, Atomic!OwnerExists, [Atomic!Next]_Atomic!vars,
                      status' # "absent"
               PROVE  \E v \in Users : members'[v] = "OWNER"
    BY DEF Atomic!OwnerExists, Atomic!Owners
  <2>1. CASE UNCHANGED Atomic!vars
    BY <2>1 DEF Atomic!vars, Atomic!OwnerExists, Atomic!Owners
  <2>2. CASE Atomic!SoftDelete
    BY <2>2 DEF Atomic!SoftDelete, Atomic!OwnerExists, Atomic!Owners
  <2>3. ASSUME NEW u \in Users, Atomic!Create(u)
        PROVE  \E v \in Users : members'[v] = "OWNER"
    BY <2>3 DEF Atomic!Create, Atomic!TypeOK
  <2>4. ASSUME NEW u \in Users, NEW role \in Atomic!Roles, Atomic!Join(u, role)
        PROVE  \E v \in Users : members'[v] = "OWNER"
    BY <2>4 DEF Atomic!Join, Atomic!TypeOK, Atomic!NoRole, Atomic!OwnerExists, Atomic!Owners
  <2>5. ASSUME NEW u \in Users, NEW actorRole \in Atomic!Roles, NEW self \in BOOLEAN,
               Atomic!Remove(actorRole, self, u)
        PROVE  \E v \in Users : members'[v] = "OWNER"
    <3>1. PICK v \in Atomic!Owners : v # u
      BY <2>5 DEF Atomic!Remove, Atomic!NotTheLastOwner, Atomic!OwnerExists, Atomic!Owners,
                  Atomic!TypeOK, Atomic!NoRole
    <3>2. QED
      BY <2>5, <3>1 DEF Atomic!Remove, Atomic!TypeOK, Atomic!Owners
  <2>6. ASSUME NEW u \in Users, NEW actorRole \in Atomic!Roles, NEW self \in BOOLEAN,
               NEW new \in Atomic!Roles, Atomic!ChangeRole(actorRole, self, u, new)
        PROVE  \E v \in Users : members'[v] = "OWNER"
    <3>1. CASE new = "OWNER"
      BY <2>6, <3>1 DEF Atomic!ChangeRole, Atomic!TypeOK
    <3>2. CASE new # "OWNER"
      <4>1. PICK v \in Atomic!Owners : v # u
        BY <2>6, <3>2 DEF Atomic!ChangeRole, Atomic!NotTheLastOwner, Atomic!OwnerExists,
                          Atomic!Owners, Atomic!TypeOK, Atomic!NoRole
      <4>2. QED
        BY <2>6, <4>1 DEF Atomic!ChangeRole, Atomic!TypeOK, Atomic!Owners
    <3>3. QED
      BY <3>1, <3>2
  <2>7. QED
    BY <2>1, <2>2, <2>3, <2>4, <2>5, <2>6 DEF Atomic!Next
<1>3. QED
  BY <1>1, <1>2, AtomicTypeCorrect, PTL DEF Atomic!Spec

-----------------------------------------------------------------------------
(* The refinement.                                                          *)

\* The atomic table reads the same matrix.
LEMMA SameMatrix ==
  /\ Atomic!Roles = Roles /\ Atomic!NoRole = NoRole /\ Atomic!Rank = Rank
  /\ \A role, permission : Atomic!Can(role, permission) <=> Can(role, permission)
  /\ \A role, current :
       Atomic!OutranksOrEquals(role, current) <=> OutranksOrEquals(role, current)
<1>1. Atomic!Roles = Roles /\ Atomic!NoRole = NoRole
  BY DEF Atomic!Roles, Roles, Atomic!NoRole, NoRole
<1>2. Atomic!Rank = Rank
  BY DEF Atomic!Rank, Rank, Atomic!Roles, Roles
<1>3. Atomic!RolePermissions = RolePermissions
  BY DEF Atomic!RolePermissions, RolePermissions, Atomic!Roles, Roles,
         Atomic!OwnerPermissions, OwnerPermissions, Atomic!AdminPermissions, AdminPermissions,
         Atomic!MemberPermissions, MemberPermissions,
         Atomic!ViewerPermissions, ViewerPermissions
<1>4. ASSUME NEW role, NEW permission
      PROVE  Atomic!Can(role, permission) <=> Can(role, permission)
  BY <1>3 DEF Atomic!Can, Can
<1>5. ASSUME NEW role, NEW current
      PROVE  Atomic!OutranksOrEquals(role, current) <=> OutranksOrEquals(role, current)
  BY <1>2 DEF Atomic!OutranksOrEquals, OutranksOrEquals
<1>6. QED
  BY <1>1, <1>2, <1>4, <1>5

\* A count above one means that losing any one owner leaves another.
LEMMA AnotherOwner ==
  ASSUME NEW u, ~(OwnerCount <= 1)
  PROVE  \E v \in Owners : v # u
<1>1. SUFFICES ASSUME Owners \subseteq {u}
               PROVE  FALSE
  OBVIOUS
<1>2. IsFiniteSet({u}) /\ Cardinality({u}) = 1
  BY FS_Singleton
<1>3. Cardinality(Owners) <= 1
  BY <1>1, <1>2, FS_Subset
<1>4. QED
  BY <1>3 DEF OwnerCount

\* A commit is an atomic operation on the table; every other step is one too, or a
\* stutter.
LEMMA StepRefines ==
  ASSUME IInv, [Next]_vars
  PROVE  [Atomic!Next]_Atomic!vars
<1> USE DEF Atomic!vars
<1>1. CASE UNCHANGED vars
  BY <1>1 DEF vars
<1>2. ASSUME NEW u \in Users, Create(u)
      PROVE  Atomic!Next
  BY <1>2 DEF Create, Atomic!Create, Atomic!Next
<1>3. ASSUME NEW u \in Users, NEW role \in Roles, Join(u, role)
      PROVE  Atomic!Next
  BY <1>3, SameMatrix DEF Join, Atomic!Join, Atomic!Next
<1>4. ASSUME NEW r \in Requests, NEW q \in Request, Admit(r, q)
      PROVE  UNCHANGED Atomic!vars
  BY <1>4 DEF Admit
<1>5. ASSUME NEW r \in Requests, Judge(r) \/ Refuse(r) \/ Abort(r)
      PROVE  UNCHANGED Atomic!vars
  BY <1>5 DEF Judge, Refuse, Abort
<1>6. ASSUME NEW r \in Requests, SoftDelete(r)
      PROVE  Atomic!Next
  BY <1>6 DEF SoftDelete, Atomic!SoftDelete, Atomic!Next, IInv, AbsentOK
<1>7. ASSUME NEW r \in Requests, Commit(r)
      PROVE  Atomic!Next
  <2> DEFINE q == request[r]
  <2>1. q \in Request /\ members[q.target] \in Roles
        /\ Allowed(q, members[q.target], OwnerCount)
    BY <1>7, CommitJudgedOnPresent
  <2>2. status' = status /\ members' = [members EXCEPT ![q.target] = Outcome(r)]
    BY <1>7 DEF Commit
  <2>3. members[q.target] # NoRole /\ q.target \in Users /\ q.actorRole \in Roles
    BY <2>1 DEF Request, Roles, NoRole
  <2>4. CASE q.op = "changeRole"
    <3>1. q.newRole \in Roles /\ Outcome(r) = q.newRole
      BY <2>1, <2>4 DEF Request, Outcome
    <3>2. q.newRole # "OWNER" => Atomic!NotTheLastOwner(q.target)
      BY <2>1, <2>4, AnotherOwner
      DEF Allowed, CanChangeRole, Atomic!NotTheLastOwner, Atomic!Owners, Owners
    <3>3. Atomic!ChangeRole(q.actorRole, q.target = q.actor, q.target, q.newRole)
      BY SameMatrix, <2>1, <2>2, <2>3, <2>4, <3>1, <3>2
      DEF Allowed, CanChangeRole, Atomic!ChangeRole
    <3>4. QED
      BY SameMatrix, <2>3, <3>1, <3>3 DEF Atomic!Next
  <2>5. CASE q.op = "remove"
    <3>1. Atomic!NotTheLastOwner(q.target)
      BY <2>1, <2>5, AnotherOwner
      DEF Allowed, CanRemoveMember, Atomic!NotTheLastOwner, Atomic!Owners, Owners
    <3>2. Atomic!Remove(q.actorRole, q.target = q.actor, q.target)
      BY SameMatrix, <2>1, <2>2, <2>3, <2>5, <3>1
      DEF Allowed, CanRemoveMember, Outcome, Atomic!Remove
    <3>3. QED
      BY SameMatrix, <2>3, <3>2 DEF Atomic!Next
  <2>6. QED
    BY <2>1, <2>4, <2>5 DEF Allowed
<1>8. QED
  BY <1>1, <1>2, <1>3, <1>4, <1>5, <1>6, <1>7 DEF Next

\* changeRole and remove, with the guard's role read before the transaction and
\* decisions made on a snapshot, implement the atomic membership table.
THEOREM Refinement == Spec => RefinesAtomic
<1>1. Init => Atomic!Init
  BY DEF Init, Atomic!Init, NoRole, Atomic!NoRole
<1>2. IInv /\ [Next]_vars => [Atomic!Next]_Atomic!vars
  BY StepRefines
<1>3. QED
  BY <1>1, <1>2, Invariance, PTL DEF Spec, RefinesAtomic, Atomic!Spec

\* Owner safety under concurrency: it holds of the atomic table, and this
\* specification implements it.
THEOREM OwnerSafety == Spec => []OwnerExists
<1>1. Atomic!Spec => []Atomic!OwnerExists
  BY AtomicOwnerSafety
<1>2. Atomic!OwnerExists <=> OwnerExists
  BY DEF Atomic!OwnerExists, OwnerExists, Atomic!Owners, Owners
<1>3. QED
  BY <1>1, <1>2, Refinement, PTL DEF RefinesAtomic

-----------------------------------------------------------------------------
(* Ranks.                                                                   *)

\* packages/types/src/permissions.ts:190, "Everyone below OWNER may only act on strictly
\* lower roles": who loses or changes a role leaves, or is acted upon by a request that
\* was admitted as an OWNER's, or as an ADMIN's on a MEMBER or VIEWER who does not
\* become an OWNER by it.  It speaks of the role that is replaced, not of the one that
\* the transaction has read.
RanksRespected ==
  \A u \in Users : (members[u] # NoRole /\ members'[u] # members[u]) =>
    \E r \in Requests :
      /\ phase[r] = "judged" /\ request[r].target = u
      /\ \/ request[r].actor = u /\ members'[u] = NoRole
         \/ request[r].actorRole = "OWNER"
         \/ /\ request[r].actorRole = "ADMIN"
            /\ members[u] \in {"MEMBER", "VIEWER"}
            /\ members'[u] # "OWNER"

\* Administering members is for ADMINs and OWNERs.
LEMMA Administrators ==
  ASSUME NEW role \in Roles, Can(role, "members.update") \/ Can(role, "members.remove")
  PROVE  role \in {"OWNER", "ADMIN"}
BY DEF Roles, Can, RolePermissions, OwnerPermissions, AdminPermissions,
       MemberPermissions, ViewerPermissions

\* An ADMIN ranks above nobody but MEMBERs and VIEWERs, and below an OWNER.
LEMMA AdminRank ==
  /\ \A role \in Roles : ~OutranksOrEquals("ADMIN", role) => role \in {"MEMBER", "VIEWER"}
  /\ ~(Rank["OWNER"] <= Rank["ADMIN"])
BY DEF Roles, Rank, OutranksOrEquals

\* A decision stays within the actor's rank.
LEMMA DecisionRespectsRank ==
  ASSUME NEW q \in Request, NEW role \in Roles, NEW n \in Nat, Allowed(q, role, n)
  PROVE  \/ q.op = "remove" /\ q.target = q.actor
         \/ q.actorRole = "OWNER"
         \/ /\ q.actorRole = "ADMIN" /\ role \in {"MEMBER", "VIEWER"}
            /\ q.op = "remove" \/ q.newRole # "OWNER"
<1>1. q.actorRole \in Roles
  BY DEF Request
<1>2. CASE q.op = "changeRole"
  BY <1>1, <1>2, Administrators, AdminRank DEF Allowed, CanChangeRole
<1>3. CASE q.op = "remove"
  BY <1>1, <1>3, Administrators, AdminRank DEF Allowed, CanRemoveMember
<1>4. QED
  BY <1>2, <1>3 DEF Allowed

\* No interleaving of role changes lets an ADMIN act on an owner or on a fellow ADMIN, be it
\* one who was promoted after the decision: then the commit is refused.
THEOREM RankSafety == Spec => [][RanksRespected]_vars
<1>1. ASSUME IInv, [Next]_vars
      PROVE  [RanksRespected]_vars
  <2>1. CASE UNCHANGED members
    BY <2>1 DEF RanksRespected
  <2>2. ASSUME NEW u \in Users, Create(u) \/ \E role \in Roles : Join(u, role)
        PROVE  RanksRespected
    BY <1>1, <2>2 DEF Create, Join, RanksRespected, IInv, AbsentOK, TypeOK
  <2>3. ASSUME NEW r \in Requests, Commit(r)
        PROVE  RanksRespected
    <3> DEFINE q == request[r]
    <3>1. /\ q \in Request /\ members[q.target] \in Roles
          /\ Allowed(q, members[q.target], OwnerCount)
      BY <1>1, <2>3, CommitJudgedOnPresent
    <3>2. OwnerCount \in Nat
      BY CountGrows DEF OwnerCount, Owners
    <3>3. \/ q.op = "remove" /\ q.target = q.actor
          \/ q.actorRole = "OWNER"
          \/ /\ q.actorRole = "ADMIN" /\ members[q.target] \in {"MEMBER", "VIEWER"}
             /\ q.op = "remove" \/ q.newRole # "OWNER"
      BY <3>1, <3>2, DecisionRespectsRank
    <3>4. /\ phase[r] = "judged"
          /\ \A u \in Users : members'[u] = IF u = q.target THEN Outcome(r) ELSE members[u]
      BY <1>1, <2>3 DEF Commit, IInv, TypeOK
    <3>5. QED
      BY <3>3, <3>4 DEF RanksRespected, Outcome, NoRole
  <2>4. QED
    BY <1>1, <2>1, <2>2, <2>3 DEF Next, vars, Admit, Judge, Refuse, Abort, SoftDelete
<1>2. QED
  BY <1>1, Invariance, PTL DEF Spec
=============================================================================
