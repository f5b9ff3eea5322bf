--------------------------- MODULE AtomicMembership ---------------------------
(***************************************************************************)
(* What the membership table of one organization promises: every operation *)
(* is one indivisible step, judged on the table as it is at that very      *)
(* moment, and an owner is given up only while another one remains.        *)
(* Nothing here mentions requests, transactions, snapshots or counts; the  *)
(* module Membership shows that the code's serializable transactions       *)
(* implement it.                                                           *)
(*                                                                         *)
(* The role an actor acts with is left open: it is the role the tenant     *)
(* guard read, which need not be the actor's role any more.                *)
(***************************************************************************)
EXTENDS Rbac

CONSTANT Users

VARIABLES
  status,    \* "absent", "active" or "deleted": the organization row
  members    \* members[u]: the role in u's membership row, "NONE" without one

vars == <<status, members>>

NoRole == "NONE"

Owners == {u \in Users : members[u] = "OWNER"}

Init ==
  /\ status = "absent"
  /\ members = [u \in Users |-> NoRole]

Create(u) ==
  /\ status = "absent"
  /\ status' = "active"
  /\ members' = [members EXCEPT ![u] = "OWNER"]

NotTheLastOwner(u) == members[u] = "OWNER" => \E v \in Owners : v # u

ChangeRole(actorRole, actorIsTarget, u, new) ==
  /\ members[u] # NoRole
  /\ Can(actorRole, "members.update")
  /\ ~actorIsTarget
  /\ ~OutranksOrEquals(actorRole, members[u])
  /\ Rank[new] <= Rank[actorRole]
  /\ new # "OWNER" => NotTheLastOwner(u)
  /\ members' = [members EXCEPT ![u] = new]
  /\ UNCHANGED status

Remove(actorRole, actorIsTarget, u) ==
  /\ members[u] # NoRole
  /\ \/ actorIsTarget
     \/ /\ Can(actorRole, "members.remove")
        /\ ~OutranksOrEquals(actorRole, members[u])
  /\ NotTheLastOwner(u)
  /\ members' = [members EXCEPT ![u] = NoRole]
  /\ UNCHANGED status

Join(u, role) ==
  /\ status # "absent"
  /\ members[u] = NoRole
  /\ members' = [members EXCEPT ![u] = role]
  /\ UNCHANGED status

SoftDelete ==
  /\ status # "absent"
  /\ status' = "deleted"
  /\ UNCHANGED members

Next ==
  \/ SoftDelete
  \/ \E u \in Users :
       \/ Create(u)
       \/ \E role \in Roles : Join(u, role)
       \/ \E actorRole \in Roles, actorIsTarget \in BOOLEAN :
            \/ Remove(actorRole, actorIsTarget, u)
            \/ \E new \in Roles : ChangeRole(actorRole, actorIsTarget, u, new)

Spec == Init /\ [][Next]_vars

-----------------------------------------------------------------------------

TypeOK ==
  /\ status \in {"absent", "active", "deleted"}
  /\ members \in [Users -> Roles \cup {NoRole}]

\* An organization that has been created always has an owner, deleted or not:
\* the rule canChangeRole and canRemoveMember exist to protect.
OwnerExists == status # "absent" => Owners # {}
=============================================================================
