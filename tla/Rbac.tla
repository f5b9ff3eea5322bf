-------------------------------- MODULE Rbac --------------------------------
(***************************************************************************)
(* The role-based access control matrix of packages/types/src/permissions: *)
(* what each organization role may do, and the two relational decisions a  *)
(* permission cannot express, changing a member's role and removing a      *)
(* member.  Decisions are Booleans: which of several reasons a denial      *)
(* carries is left out, since no state depends on it.                      *)
(***************************************************************************)
EXTENDS Integers

Roles == {"OWNER", "ADMIN", "MEMBER", "VIEWER"}

Rank == [r \in Roles |-> CASE r = "OWNER"  -> 4
                           [] r = "ADMIN"  -> 3
                           [] r = "MEMBER" -> 2
                           [] r = "VIEWER" -> 1]

ViewerPermissions ==
  {"organization.read", "members.read", "teams.read", "workspaces.read",
   "projects.read", "workitems.read"}

MemberPermissions ==
  ViewerPermissions \cup
  {"projects.create", "projects.update",
   "workitems.create", "workitems.update", "workitems.delete"}

AdminPermissions ==
  MemberPermissions \cup
  {"organization.update", "members.invite", "members.update", "members.remove",
   "teams.create", "teams.update", "teams.delete",
   "workspaces.create", "workspaces.update", "workspaces.delete",
   "projects.archive", "projects.delete",
   "apikeys.read", "apikeys.create", "apikeys.revoke",
   "audit.read", "settings.read", "settings.update"}

OwnerPermissions == AdminPermissions \cup {"organization.delete"}

RolePermissions ==
  [r \in Roles |-> CASE r = "OWNER"  -> OwnerPermissions
                     [] r = "ADMIN"  -> AdminPermissions
                     [] r = "MEMBER" -> MemberPermissions
                     [] r = "VIEWER" -> ViewerPermissions]

Can(role, permission) == permission \in RolePermissions[role]

\* A peer outranks, except that an OWNER may act on a fellow OWNER.
OutranksOrEquals(actorRole, targetRole) ==
  \/ Rank[targetRole] > Rank[actorRole]
  \/ Rank[targetRole] = Rank[actorRole] /\ actorRole # "OWNER"

CanChangeRole(actorRole, current, new, actorIsTarget, ownerCount) ==
  /\ Can(actorRole, "members.update")
  /\ ~actorIsTarget
  /\ ~OutranksOrEquals(actorRole, current)
  /\ Rank[new] <= Rank[actorRole]
  /\ ~(current = "OWNER" /\ new # "OWNER" /\ ownerCount <= 1)

\* Mutant of CanRemoveMember: leaving is checked for nothing, as if the early
\* return for the actor's own row came before the last-owner rule.
CanRemoveMemberLeaveFirst(actorRole, targetRole, actorIsTarget, ownerCount) ==
  \/ actorIsTarget
  \/ /\ Can(actorRole, "members.remove")
     /\ ~OutranksOrEquals(actorRole, targetRole)
     /\ ~(targetRole = "OWNER" /\ ownerCount <= 1)

CanRemoveMember(actorRole, targetRole, actorIsTarget, ownerCount) ==
  /\ \/ actorIsTarget
     \/ /\ Can(actorRole, "members.remove")
        /\ ~OutranksOrEquals(actorRole, targetRole)
  /\ ~(targetRole = "OWNER" /\ ownerCount <= 1)

AssignableRoles(actorRole) ==
  {role \in Roles : /\ Can(actorRole, "members.invite")
                    /\ Rank[role] <= Rank[actorRole]}
=============================================================================
