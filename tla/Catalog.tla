-------------------------------- MODULE Catalog --------------------------------
(***************************************************************************)
(* The workspaces, teams and projects of one organization, and what the    *)
(* audit log says of them, under concurrent requests that may fail at any  *)
(* query (WorkspacesService, TeamsService, ProjectsService).               *)
(*                                                                         *)
(* Checks are queries outside the transaction that relies on them, and the *)
(* entry for a creation or an update is written after it, on its own.      *)
(* Names, slugs and keys are left out, and so are the updates of those     *)
(* alone.                                                                  *)
(***************************************************************************)
EXTENDS FiniteSets

CONSTANTS
  Workspaces,
  Default,     \* the workspace the organization was created with
  Teams,
  Projects,
  Requests

ASSUME DefaultIsAWorkspace == Default \in Workspaces
ASSUME KindsAreDisjoint ==
  Workspaces \cap Teams = {} /\ Workspaces \cap Projects = {} /\ Teams \cap Projects = {}
ASSUME NoneIsNoRow == "none" \notin Workspaces \cup Teams
ASSUME NewIsNoProject == "new" \notin Projects

VARIABLES
  workspace,   \* workspace[w]: "absent", "present" or "deleted"
  team,        \* team[t]: likewise
  project,     \* project[p]: NoProject, or where it is or was
  audit,       \* the entries of the audit log
  request      \* request[r]: what r is about to do

vars == <<workspace, team, project, audit, request>>

MaybeTeam == Teams \cup {"none"}
Lifecycle == {"absent", "present", "deleted"}

NoProject == [there |-> FALSE, workspace |-> "none", team |-> "none"]
Project == [there : BOOLEAN, workspace : Workspaces, team : MaybeTeam]

Entry == [action : {"created", "updated", "deleted"}, of : Workspaces \cup Teams \cup Projects]

Idle == [step |-> "idle"]
Placing == [step : {"team", "write"}, project : Projects \cup {"new"},
            workspace : Workspaces, team : MaybeTeam]
\* before: history, the projects there were when the removal was checked.
DroppingWorkspace == [step : {"deleteWorkspace"}, workspace : Workspaces,
                      before : SUBSET Projects]
DroppingProject == [step : {"deleteProject"}, project : Projects]
DroppingTeam == [step : {"unassign", "deleteTeam"}, team : Teams, unassigned : SUBSET Projects]
Recording == [step : {"audit"}, entry : Entry]

Init ==
  /\ workspace = [w \in Workspaces |-> IF w = Default THEN "present" ELSE "absent"]
  /\ team = [t \in Teams |-> "absent"]
  /\ project = [p \in Projects |-> NoProject]
  /\ audit = {}
  /\ request = [r \in Requests |-> Idle]

Live == {p \in Projects : project[p].there}

\* The projects of w, and those assigned to t.
In(w) == {p \in Live : project[p].workspace = w}
AssignedTo(t) == {p \in Live : project[p].team = t}

\* What the transactions under way have written, and nobody else can write.
Locked ==
  UNION {request[r].unassigned : r \in {q \in Requests : request[q].step = "deleteTeam"}}

Become(r, state) == request' = [request EXCEPT ![r] = state]

ThenRecord(r, action, x) ==
  Become(r, [step |-> "audit", entry |-> [action |-> action, of |-> x]])

\* An entry written in the transaction that deletes x.
RecordDeleted(x) == audit' = audit \cup {[action |-> "deleted", of |-> x]}

-----------------------------------------------------------------------------

CreateWorkspace(r, w) ==
  /\ request[r] = Idle
  /\ workspace[w] = "absent"
  /\ workspace' = [workspace EXCEPT ![w] = "present"]
  /\ ThenRecord(r, "created", w)
  /\ UNCHANGED <<team, project, audit>>

CreateTeam(r, t) ==
  /\ request[r] = Idle
  /\ team[t] = "absent"
  /\ team' = [team EXCEPT ![t] = "present"]
  /\ ThenRecord(r, "created", t)
  /\ UNCHANGED <<workspace, project, audit>>

\* audit.record on the unscoped client, after the fact.
Record(r) ==
  /\ request[r].step = "audit"
  /\ audit' = audit \cup {request[r].entry}
  /\ Become(r, Idle)
  /\ UNCHANGED <<workspace, team, project>>

\* ProjectsService.create looks up the workspace, update the project.
StartCreate(r, w, t) ==
  /\ request[r] = Idle
  /\ workspace[w] = "present"
  /\ Become(r, [step |-> "team", project |-> "new", workspace |-> w, team |-> t])
  /\ UNCHANGED <<workspace, team, project, audit>>

StartUpdate(r, p, t) ==
  /\ request[r] = Idle
  /\ p \in Live
  /\ Become(r, [step |-> "team", project |-> p,
                workspace |-> project[p].workspace, team |-> t])
  /\ UNCHANGED <<workspace, team, project, audit>>

\* Both look up the team, if there is one.
CheckTeam(r) ==
  LET t == request[r].team IN
  /\ request[r].step = "team"
  /\ Become(r, IF t = "none" \/ team[t] = "present"
                 THEN [request[r] EXCEPT !.step = "write"] ELSE Idle)
  /\ UNCHANGED <<workspace, team, project, audit>>

\* What the foreign keys of a project demand.
References(w, t) ==
  /\ workspace[w] = "present"
  /\ t # "none" => team[t] = "present"

Insert(r, p) ==
  LET w == request[r].workspace
      t == request[r].team
  IN
  /\ request[r].step = "write"
  /\ request[r].project = "new"
  /\ project[p] = NoProject
  /\ References(w, t)
  /\ project' = [project EXCEPT ![p] = [there |-> TRUE, workspace |-> w, team |-> t]]
  /\ ThenRecord(r, "created", p)
  /\ UNCHANGED <<workspace, team, audit>>

\* project.update, which waits for whoever has written the row.
Retarget(r) ==
  LET p == request[r].project
      t == request[r].team
  IN
  /\ request[r].step = "write"
  /\ p \in Live \ Locked
  /\ References(project[p].workspace, t)
  /\ project' = [project EXCEPT ![p].team = t]
  /\ ThenRecord(r, "updated", p)
  /\ UNCHANGED <<workspace, team, audit>>

StartDeleteProject(r, p) ==
  /\ request[r] = Idle
  /\ p \in Live
  /\ Become(r, [step |-> "deleteProject", project |-> p])
  /\ UNCHANGED <<workspace, team, project, audit>>

\* Mutant of DeleteProject: the entry is recorded best-effort.
DeleteProjectBestEffort(r) ==
  LET p == request[r].project IN
  /\ request[r].step = "deleteProject"
  /\ p \in Live \ Locked
  /\ project' = [project EXCEPT ![p].there = FALSE]
  /\ RecordDeleted(p) \/ UNCHANGED audit
  /\ Become(r, Idle)
  /\ UNCHANGED <<workspace, team>>

DeleteProject(r) ==
  LET p == request[r].project IN
  /\ request[r].step = "deleteProject"
  /\ p \in Live \ Locked
  /\ project' = [project EXCEPT ![p].there = FALSE]
  /\ RecordDeleted(p)
  /\ Become(r, Idle)
  /\ UNCHANGED <<workspace, team>>

\* Mutant of Removable: projects without a team are not counted.
RemovableUnassigned(w) == w # Default /\ In(w) \subseteq AssignedTo("none")

\* Neither the default workspace nor one that holds projects.
Removable(w) == w # Default /\ In(w) = {}

StartDeleteWorkspace(r, w) ==
  /\ request[r] = Idle
  /\ workspace[w] = "present"
  /\ Removable(w)
  /\ Become(r, [step |-> "deleteWorkspace", workspace |-> w, before |-> Live])
  /\ UNCHANGED <<workspace, team, project, audit>>

\* The foreign key cascades to whatever is in the workspace by now.
DeleteWorkspace(r) ==
  LET w == request[r].workspace IN
  /\ request[r].step = "deleteWorkspace"
  /\ workspace[w] = "present"
  /\ In(w) \cap Locked = {}
  /\ workspace' = [workspace EXCEPT ![w] = "deleted"]
  /\ project' = [p \in Projects |->
       IF p \in In(w) THEN [project[p] EXCEPT !.there = FALSE] ELSE project[p]]
  /\ RecordDeleted(w)
  /\ Become(r, Idle)
  /\ UNCHANGED team

StartDeleteTeam(r, t) ==
  /\ request[r] = Idle
  /\ team[t] = "present"
  /\ Become(r, [step |-> "unassign", team |-> t, unassigned |-> {}])
  /\ UNCHANGED <<workspace, team, project, audit>>

\* Mutant of Unassign: the projects are unassigned outside the transaction.
UnassignAtOnce(r) ==
  /\ request[r].step = "unassign"
  /\ AssignedTo(request[r].team) \cap Locked = {}
  /\ project' = [p \in Projects |->
       IF p \in AssignedTo(request[r].team) THEN [project[p] EXCEPT !.team = "none"]
                                            ELSE project[p]]
  /\ Become(r, [request[r] EXCEPT !.step = "deleteTeam"])
  /\ UNCHANGED <<workspace, team, audit>>

\* The first statement of the transaction locks the rows it writes; nobody sees
\* them before the commit.
Unassign(r) ==
  /\ request[r].step = "unassign"
  /\ AssignedTo(request[r].team) \cap Locked = {}
  /\ Become(r, [request[r] EXCEPT !.step = "deleteTeam",
                                  !.unassigned = AssignedTo(request[r].team)])
  /\ UNCHANGED <<workspace, team, project, audit>>

\* Mutant of Unreferenced: the foreign key does not restrict.
NeverRestricted(t, unassigned) == TRUE

\* What Project.team's onDelete: Restrict demands.
Unreferenced(t, unassigned) == AssignedTo(t) \subseteq unassigned

\* Mutant of DeleteTeam: SET NULL, which nulls every column of the key.
DeleteTeamSetNull(r) ==
  LET t == request[r].team IN
  /\ request[r].step = "deleteTeam"
  /\ team[t] = "present"
  /\ team' = [team EXCEPT ![t] = "deleted"]
  /\ project' = [p \in Projects |->
       IF p \in AssignedTo(t)
         THEN [project[p] EXCEPT !.team = "none", !.workspace = "none"] ELSE project[p]]
  /\ RecordDeleted(t)
  /\ Become(r, Idle)
  /\ UNCHANGED workspace

\* The second statement, and the commit.
DeleteTeam(r) ==
  LET t == request[r].team IN
  /\ request[r].step = "deleteTeam"
  /\ team[t] = "present"
  /\ Unreferenced(t, request[r].unassigned)
  /\ team' = [team EXCEPT ![t] = "deleted"]
  /\ project' = [p \in Projects |->
       IF p \in request[r].unassigned THEN [project[p] EXCEPT !.team = "none"]
                                      ELSE project[p]]
  /\ RecordDeleted(t)
  /\ Become(r, Idle)
  /\ UNCHANGED workspace

\* A query of r fails, finds its row gone or violates a foreign key, or the process
\* dies; the transaction of r, if any, rolls back.
Abandon(r) ==
  /\ request[r] # Idle
  /\ Become(r, Idle)
  /\ UNCHANGED <<workspace, team, project, audit>>

RequestStep(r) ==
  \/ \E w \in Workspaces : CreateWorkspace(r, w) \/ StartDeleteWorkspace(r, w)
  \/ \E t \in Teams : CreateTeam(r, t) \/ StartDeleteTeam(r, t)
  \/ \E w \in Workspaces, t \in MaybeTeam : StartCreate(r, w, t)
  \/ \E p \in Projects, t \in MaybeTeam : StartUpdate(r, p, t)
  \/ \E p \in Projects : Insert(r, p) \/ StartDeleteProject(r, p)
  \/ CheckTeam(r) \/ Retarget(r) \/ Record(r)
  \/ DeleteProject(r) \/ DeleteWorkspace(r)
  \/ Unassign(r) \/ DeleteTeam(r) \/ Abandon(r)

Next == \E r \in Requests : RequestStep(r)

Spec == Init /\ [][Next]_vars

-----------------------------------------------------------------------------

TypeOK ==
  /\ workspace \in [Workspaces -> Lifecycle]
  /\ team \in [Teams -> Lifecycle]
  /\ project \in [Projects -> Project \cup {NoProject}]
  /\ audit \subseteq Entry
  /\ request \in [Requests -> {Idle} \cup Placing \cup DroppingWorkspace \cup DroppingProject
                                     \cup DroppingTeam \cup Recording]

\* schema.prisma:289-295: whatever is deleted meanwhile, a project is in a workspace
\* there is and assigned to no team or one there is; and the default workspace is
\* always there to take projects in (workspaces.service.ts:147).
NoDanglingProject ==
  /\ \A p \in Live : References(project[p].workspace, project[p].team)
  /\ workspace[Default] = "present"

\* workspaces.service.ts:150, as far as it goes: deleting a workspace erases no project
\* that existed when the removal was checked.
ErasesOnlyNewer ==
  [][\A r \in Requests : DeleteWorkspace(r) =>
       \A p \in request[r].before : project'[p].there = project[p].there]_vars

\* teams.service.ts:163: "a half-done delete would leave projects unassigned from a team
\* that still exists".  A project loses its team only to an update of that project, or
\* together with the team.
LosesTeamWithTeam ==
  [][\A p \in Live :
       \/ project'[p].team = project[p].team
       \/ \E r \in Requests : Retarget(r) /\ request[r].project = p
       \/ team'[project[p].team] = "deleted"]_vars

Told(x) == [action |-> "deleted", of |-> x] \in audit

\* audit.service.ts:99: nothing disappears without an entry: a deleted workspace or team
\* has its own, an erased project its own or that of its workspace.
LossesExplained ==
  /\ \A w \in Workspaces : workspace[w] = "deleted" <=> Told(w)
  /\ \A t \in Teams : team[t] = "deleted" <=> Told(t)
  /\ \A p \in Projects : (project[p] # NoProject /\ ~project[p].there) =>
                           Told(p) \/ Told(project[p].workspace)

\* The rows there are, without what is left of those that are gone.
WorkspacesThere == {w \in Workspaces : workspace[w] = "present"}
TeamsThere == {t \in Teams : team[t] = "present"}
Place(row) == [workspace |-> IF row.there THEN row.workspace ELSE "none",
               team |-> IF row.there THEN row.team ELSE "none"]
Places == [p \in Projects |-> Place(project[p])]

\* Whatever is looked up too early, deleted meanwhile or rolled back, each operation
\* takes effect as if it were one step on the rows as they are when it commits: the
\* foreign keys and the locks make up for checks outside the transaction.
Atomic == INSTANCE AtomicCatalog
  WITH workspaces <- WorkspacesThere, teams <- TeamsThere, place <- Places
RefinesAtomic == Atomic!Spec
=============================================================================
