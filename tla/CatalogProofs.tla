----------------------------- MODULE CatalogProofs -----------------------------
(***************************************************************************)
(* Theorems about Catalog for any workspaces, teams and projects and any   *)
(* number of concurrent requests.                                          *)
(***************************************************************************)
EXTENDS Catalog, TLAPS

\* A workspace about to be deleted is not the default one, and of the projects its
\* check saw none is in it.
CheckHolds ==
  \A r \in Requests : request[r].step = "deleteWorkspace" =>
    /\ request[r].workspace # Default
    /\ \A p \in request[r].before :
         /\ project[p] # NoProject
         /\ project[p].there => project[p].workspace # request[r].workspace

\* A transaction that has unassigned projects of a team keeps their rows to itself.
RowsHeld ==
  /\ \A r \in Requests : request[r].step = "deleteTeam" =>
       \A p \in request[r].unassigned :
         p \in Projects /\ project[p].there /\ project[p].team = request[r].team
  /\ \A q, r \in Requests :
       (q # r /\ request[q].step = "deleteTeam" /\ request[r].step = "deleteTeam")
         => request[q].unassigned \cap request[r].unassigned = {}

\* Entries written after the fact tell of no deletion.
AfterTheFact ==
  \A r \in Requests : request[r].step = "audit" => request[r].entry.action # "deleted"

IInv ==
  /\ TypeOK
  /\ CheckHolds
  /\ RowsHeld
  /\ AfterTheFact
  /\ NoDanglingProject
  /\ LossesExplained

-----------------------------------------------------------------------------

\* All the states a request can be in.
Requesting ==
  {Idle} \cup Placing \cup DroppingWorkspace \cup DroppingProject \cup DroppingTeam \cup Recording

\* The step of a request tells its kind.
LEMMA RequestKinds ==
  ASSUME TypeOK, NEW r \in Requests
  PROVE  /\ request[r].step \in {"team", "write"} => request[r] \in Placing
         /\ request[r].step = "deleteWorkspace" => request[r] \in DroppingWorkspace
         /\ request[r].step = "deleteProject" => request[r] \in DroppingProject
         /\ request[r].step \in {"unassign", "deleteTeam"} => request[r] \in DroppingTeam
         /\ request[r].step = "audit" => request[r] \in Recording
<1>1. request[r] \in Requesting BY DEF TypeOK, Requesting
<1> QED BY <1>1 DEF Requesting, Idle, Placing, DroppingWorkspace, DroppingProject,
                    DroppingTeam, Recording

\* The row of a project that was ever created is typed, and NoProject is none.
LEMMA ProjectKinds ==
  ASSUME TypeOK, NEW p \in Projects
  PROVE  /\ project[p].there => project[p] \in Project
         /\ project[p] # NoProject => project[p] \in Project
         /\ NoProject \notin Project
         /\ ~NoProject.there
BY NoneIsNoRow DEF TypeOK, NoProject, Project

\* A request that only moves on keeps the invariant, if it may stand where it goes.
LEMMA QuietStep ==
  ASSUME IInv, NEW r \in Requests, NEW state \in Requesting, Become(r, state),
         UNCHANGED <<workspace, team, project, audit>>,
         state.step = "deleteWorkspace" =>
           /\ state.workspace # Default
           /\ \A p \in state.before :
                /\ project[p] # NoProject
                /\ project[p].there => project[p].workspace # state.workspace,
         state.step = "deleteTeam" =>
           /\ state.unassigned \subseteq AssignedTo(state.team)
           /\ state.unassigned \cap Locked = {},
         state.step = "audit" => state.entry.action # "deleted"
  PROVE  IInv'
<1> USE DEF IInv, TypeOK
<1>1. request' = [request EXCEPT ![r] = state] BY DEF Become
<1>2. request' \in [Requests -> Requesting] BY <1>1 DEF Requesting
<1>3. TypeOK' BY <1>2 DEF Requesting
<1>4. CheckHolds' BY <1>1 DEF CheckHolds
<1>5. RowsHeld'
  <2>1. \A p \in state.unassigned : state.step = "deleteTeam" =>
           p \in Projects /\ project[p].there /\ project[p].team = state.team
    BY DEF AssignedTo, Live
  <2>2. \A q \in Requests : request'[q].step = "deleteTeam" =>
           \A p \in request'[q].unassigned :
             p \in Projects /\ project'[p].there /\ project'[p].team = request'[q].team
    BY <1>1, <2>1 DEF RowsHeld
  <2>3. \A q \in Requests : request[q].step = "deleteTeam" => request[q].unassigned \subseteq Locked
    BY DEF Locked
  <2>4. \A q, s \in Requests :
          (q # s /\ request'[q].step = "deleteTeam" /\ request'[s].step = "deleteTeam")
            => request'[q].unassigned \cap request'[s].unassigned = {}
    BY <1>1, <2>3 DEF RowsHeld
  <2> QED BY <2>2, <2>4 DEF RowsHeld
<1>6. AfterTheFact' BY <1>1 DEF AfterTheFact
<1>7. NoDanglingProject' BY DEF NoDanglingProject, References, Live
<1>8. LossesExplained' BY DEF LossesExplained, Told
<1> QED BY <1>3, <1>4, <1>5, <1>6, <1>7, <1>8

\* What a request leaves behind that is done with its tables: no claim of its own, and
\* everybody else's.
LEMMA Leaving ==
  ASSUME IInv, NEW r \in Requests, NEW state \in Requesting, Become(r, state),
         state.step \in {"idle", "audit"},
         state.step = "audit" => state.entry.action # "deleted"
  PROVE  /\ request' \in [Requests -> Requesting]
         /\ AfterTheFact'
         /\ \A q \in Requests : request'[q].step \in {"deleteWorkspace", "deleteTeam"} =>
              q # r /\ request'[q] = request[q]
<1>1. request \in [Requests -> Requesting] BY DEF IInv, TypeOK, Requesting
<1> QED BY <1>1 DEF IInv, AfterTheFact, Become

\* The request that is about to record an entry has a proper state.
LEMMA RecordingState ==
  ASSUME NEW action \in {"created", "updated"},
         NEW x \in Workspaces \cup Teams \cup Projects
  PROVE  LET state == [step |-> "audit", entry |-> [action |-> action, of |-> x]]
         IN  state \in Requesting /\ state.step = "audit" /\ state.entry.action # "deleted"
BY DEF Requesting, Recording, Entry

\* A new workspace keeps the invariant.
LEMMA CreateWorkspaceStep ==
  ASSUME IInv, NEW r \in Requests, NEW w \in Workspaces, CreateWorkspace(r, w)
  PROVE  IInv'
<1> USE DEF IInv, TypeOK, CreateWorkspace
<1>1. /\ request' \in [Requests -> Requesting]
      /\ AfterTheFact'
      /\ \A q \in Requests : request'[q].step \in {"deleteWorkspace", "deleteTeam"} =>
           q # r /\ request'[q] = request[q]
  BY Leaving, RecordingState DEF ThenRecord
<1>2. TypeOK' BY <1>1 DEF Lifecycle, Requesting
<1>3. CheckHolds' BY <1>1 DEF CheckHolds
<1>4. RowsHeld' BY <1>1 DEF RowsHeld
<1>5. NoDanglingProject' BY DEF NoDanglingProject, References, Live
<1>6. LossesExplained' BY DEF LossesExplained, Told
<1> QED BY <1>1, <1>2, <1>3, <1>4, <1>5, <1>6

\* A new team keeps the invariant.
LEMMA CreateTeamStep ==
  ASSUME IInv, NEW r \in Requests, NEW t \in Teams, CreateTeam(r, t)
  PROVE  IInv'
<1> USE DEF IInv, TypeOK, CreateTeam
<1>1. /\ request' \in [Requests -> Requesting]
      /\ AfterTheFact'
      /\ \A q \in Requests : request'[q].step \in {"deleteWorkspace", "deleteTeam"} =>
           q # r /\ request'[q] = request[q]
  BY Leaving, RecordingState DEF ThenRecord
<1>2. TypeOK' BY <1>1 DEF Lifecycle, Requesting
<1>3. CheckHolds' BY <1>1 DEF CheckHolds
<1>4. RowsHeld' BY <1>1 DEF RowsHeld
<1>5. NoDanglingProject'
  BY ProjectKinds DEF NoDanglingProject, References, Live, Project, MaybeTeam
<1>6. LossesExplained' BY DEF LossesExplained, Told
<1> QED BY <1>1, <1>2, <1>3, <1>4, <1>5, <1>6

\* An entry recorded after the fact keeps the invariant.
LEMMA RecordStep ==
  ASSUME IInv, NEW r \in Requests, Record(r)
  PROVE  IInv'
<1> USE DEF IInv, TypeOK, Record
<1>1. /\ request' \in [Requests -> Requesting]
      /\ AfterTheFact'
      /\ \A q \in Requests : request'[q].step \in {"deleteWorkspace", "deleteTeam"} =>
           q # r /\ request'[q] = request[q]
  BY Leaving DEF Requesting, Idle
<1>2. request[r] \in Recording BY RequestKinds
<1>3. request[r].entry \in Entry /\ request[r].entry.action # "deleted"
  BY <1>2 DEF Recording, AfterTheFact
<1>4. TypeOK' BY <1>1, <1>3 DEF Requesting
<1>5. CheckHolds' BY <1>1 DEF CheckHolds
<1>6. RowsHeld' BY <1>1 DEF RowsHeld
<1>7. NoDanglingProject' BY DEF NoDanglingProject, References, Live
<1>8. \A x : Told(x)' <=> Told(x) BY <1>3 DEF Told
<1>9. LossesExplained' BY <1>8 DEF LossesExplained
<1> QED BY <1>1, <1>4, <1>5, <1>6, <1>7, <1>9

\* A new project keeps the invariant: no check and no transaction knows of it.
LEMMA InsertStep ==
  ASSUME IInv, NEW r \in Requests, NEW p \in Projects, Insert(r, p)
  PROVE  IInv'
<1> USE DEF IInv, TypeOK
<1>1. /\ request' \in [Requests -> Requesting]
      /\ AfterTheFact'
      /\ \A q \in Requests : request'[q].step \in {"deleteWorkspace", "deleteTeam"} =>
           q # r /\ request'[q] = request[q]
  BY Leaving, RecordingState DEF ThenRecord, Insert
<1>2. request[r] \in Placing BY RequestKinds DEF Insert
<1>3. PICK row \in Project : /\ row.there
                             /\ References(row.workspace, row.team)
                             /\ project' = [project EXCEPT ![p] = row]
  <2>1. [there |-> TRUE, workspace |-> request[r].workspace, team |-> request[r].team] \in Project
    BY <1>2 DEF Placing, Project
  <2> QED BY <2>1 DEF Insert
<1>4. project[p] = NoProject /\ ~NoProject.there /\ NoProject \notin Project
  BY ProjectKinds DEF Insert
<1>5. UNCHANGED <<workspace, team, audit>> BY DEF Insert
<1>6. TypeOK' BY <1>1, <1>3, <1>5 DEF Requesting
<1>7. CheckHolds'
  <2>1. \A q \in Requests : request[q].step = "deleteWorkspace" => p \notin request[q].before
    BY <1>4 DEF CheckHolds
  <2>2. \A q \in Requests : request[q].step = "deleteWorkspace" => request[q].before \subseteq Projects
    BY RequestKinds DEF DroppingWorkspace
  <2> QED BY <1>1, <1>3, <2>1, <2>2 DEF CheckHolds
<1>8. RowsHeld'
  <2>1. \A q \in Requests : request[q].step = "deleteTeam" => p \notin request[q].unassigned
    BY <1>4 DEF RowsHeld
  <2> QED BY <1>1, <1>3, <2>1 DEF RowsHeld
<1>9. NoDanglingProject' BY <1>3, <1>5 DEF NoDanglingProject, References, Live
<1>10. LossesExplained' BY <1>3, <1>5 DEF LossesExplained, Told
<1> QED BY <1>1, <1>6, <1>7, <1>8, <1>9, <1>10

\* Nobody's unassigned projects include one that is not locked.
LEMMA Unlocked ==
  ASSUME IInv, NEW p \in Projects, p \notin Locked, NEW q \in Requests,
         request[q].step = "deleteTeam"
  PROVE  p \notin request[q].unassigned
BY DEF Locked

\* Assigning a project to another team keeps the invariant.
LEMMA RetargetStep ==
  ASSUME IInv, NEW r \in Requests, Retarget(r)
  PROVE  IInv'
<1> USE DEF IInv, TypeOK
<1>1. PICK p \in Projects : p = request[r].project /\ p \in Live /\ p \notin Locked
  BY DEF Retarget, Live
<1>2. PICK t \in MaybeTeam : /\ project' = [project EXCEPT ![p].team = t]
                             /\ References(project[p].workspace, t)
  <2>1. request[r] \in Placing BY RequestKinds DEF Retarget
  <2> QED BY <1>1, <2>1 DEF Retarget, Placing
<1>3. ThenRecord(r, "updated", p) /\ UNCHANGED <<workspace, team, audit>>
  BY <1>1 DEF Retarget
<1>4. /\ request' \in [Requests -> Requesting]
      /\ AfterTheFact'
      /\ \A q \in Requests : request'[q].step \in {"deleteWorkspace", "deleteTeam"} =>
           q # r /\ request'[q] = request[q]
  BY <1>3, Leaving, RecordingState DEF ThenRecord
<1>5. project[p] \in Project /\ project[p].there BY <1>1, ProjectKinds DEF Live
<1>6. /\ project'[p].there
      /\ project'[p].workspace = project[p].workspace
      /\ project'[p].team = t
      /\ project'[p] \in Project
  BY <1>2, <1>5 DEF Project
<1>7. \A o \in Projects : o # p => project'[o] = project[o] BY <1>2
<1>8. TypeOK'
  <2>1. project' \in [Projects -> Project \cup {NoProject}] BY <1>2, <1>6
  <2> QED BY <1>3, <1>4, <2>1 DEF Requesting
<1>9. CheckHolds'
  <2>1. \A q \in Requests : request[q].step = "deleteWorkspace" => request[q].before \subseteq Projects
    BY RequestKinds DEF DroppingWorkspace
  <2> QED BY <1>4, <1>5, <1>6, <1>7, <2>1, ProjectKinds DEF CheckHolds
<1>10. RowsHeld'
  <2>1. \A q \in Requests : request[q].step = "deleteTeam" => p \notin request[q].unassigned
    BY <1>1, Unlocked
  <2> QED BY <1>4, <1>7, <2>1 DEF RowsHeld
<1>11. NoDanglingProject' BY <1>2, <1>3, <1>6, <1>7 DEF NoDanglingProject, References, Live
<1>12. LossesExplained' BY <1>3, <1>6, <1>7 DEF LossesExplained, Told
<1> QED BY <1>4, <1>8, <1>9, <1>10, <1>11, <1>12

\* Deleting a project keeps the invariant.
LEMMA DeleteProjectStep ==
  ASSUME IInv, NEW r \in Requests, DeleteProject(r)
  PROVE  IInv'
<1> USE DEF IInv, TypeOK
<1>1. PICK p \in Projects : p = request[r].project /\ p \in Live /\ p \notin Locked
  BY DEF DeleteProject, Live
<1>2. /\ project' = [project EXCEPT ![p].there = FALSE]
      /\ RecordDeleted(p)
      /\ Become(r, Idle)
      /\ UNCHANGED <<workspace, team>>
  BY <1>1 DEF DeleteProject
<1>3. /\ request' \in [Requests -> Requesting]
      /\ AfterTheFact'
      /\ \A q \in Requests : request'[q].step \in {"deleteWorkspace", "deleteTeam"} =>
           q # r /\ request'[q] = request[q]
  BY <1>2, Leaving DEF Requesting, Idle
<1>4. project[p] \in Project /\ project[p].there BY <1>1, ProjectKinds DEF Live
<1>5. /\ ~project'[p].there
      /\ project'[p].workspace = project[p].workspace
      /\ project'[p] \in Project
  BY <1>2, <1>4 DEF Project
<1>6. \A o \in Projects : o # p => project'[o] = project[o] BY <1>2
<1>7. [action |-> "deleted", of |-> p] \in Entry BY DEF Entry
<1>8. TypeOK'
  <2>1. project' \in [Projects -> Project \cup {NoProject}] BY <1>2, <1>5
  <2>2. audit' \subseteq Entry BY <1>2, <1>7 DEF RecordDeleted
  <2> QED BY <1>2, <1>3, <2>1, <2>2 DEF Requesting
<1>9. CheckHolds'
  <2>1. \A q \in Requests : request[q].step = "deleteWorkspace" => request[q].before \subseteq Projects
    BY RequestKinds DEF DroppingWorkspace
  <2> QED BY <1>3, <1>5, <1>6, <2>1, ProjectKinds DEF CheckHolds
<1>10. RowsHeld'
  <2>1. \A q \in Requests : request[q].step = "deleteTeam" => p \notin request[q].unassigned
    BY <1>1, Unlocked
  <2> QED BY <1>3, <1>6, <2>1 DEF RowsHeld
<1>11. NoDanglingProject' BY <1>2, <1>5, <1>6 DEF NoDanglingProject, References, Live
<1>12. LossesExplained'
  <2>1. Told(p)' BY <1>2 DEF Told, RecordDeleted
  <2>2. \A x : x # p => (Told(x)' <=> Told(x)) BY <1>2 DEF Told, RecordDeleted
  <2>3. p \notin Workspaces /\ p \notin Teams BY KindsAreDisjoint
  <2>4. \A o \in Projects : project[o] # NoProject => project[o].workspace \in Workspaces
    BY ProjectKinds DEF Project
  <2> QED BY <1>2, <1>6, <2>1, <2>2, <2>3, <2>4 DEF LossesExplained
<1> QED BY <1>3, <1>8, <1>9, <1>10, <1>11, <1>12

\* Deleting a workspace, with all that is in it by then, keeps the invariant.
LEMMA DeleteWorkspaceStep ==
  ASSUME IInv, NEW r \in Requests, DeleteWorkspace(r)
  PROVE  IInv'
<1> USE DEF IInv, TypeOK
<1>1. PICK w \in Workspaces : w = request[r].workspace
  BY RequestKinds DEF DeleteWorkspace, DroppingWorkspace
<1>2. /\ workspace' = [workspace EXCEPT ![w] = "deleted"]
      /\ project' = [p \in Projects |->
           IF p \in In(w) THEN [project[p] EXCEPT !.there = FALSE] ELSE project[p]]
      /\ RecordDeleted(w)
      /\ Become(r, Idle)
      /\ UNCHANGED team
      /\ In(w) \cap Locked = {}
      /\ w # Default
  BY <1>1 DEF DeleteWorkspace, CheckHolds
<1>3. /\ request' \in [Requests -> Requesting]
      /\ AfterTheFact'
      /\ \A q \in Requests : request'[q].step \in {"deleteWorkspace", "deleteTeam"} =>
           q # r /\ request'[q] = request[q]
  BY <1>2, Leaving DEF Requesting, Idle
<1>4. ASSUME NEW p \in In(w)
      PROVE  /\ p \in Projects /\ project[p].workspace = w
             /\ ~project'[p].there
             /\ project'[p].workspace = w
             /\ project'[p] \in Project
  <2>1. p \in Projects /\ project[p].workspace = w /\ project[p].there BY DEF In, Live
  <2>2. project[p] \in Project BY <2>1, ProjectKinds
  <2> QED BY <1>2, <2>1, <2>2 DEF Project
<1>5. \A p \in Projects : p \notin In(w) => project'[p] = project[p] BY <1>2
<1>6. [action |-> "deleted", of |-> w] \in Entry BY DEF Entry
<1>7. TypeOK'
  <2>1. project' \in [Projects -> Project \cup {NoProject}] BY <1>2, <1>4, <1>5
  <2>2. audit' \subseteq Entry BY <1>2, <1>6 DEF RecordDeleted
  <2> QED BY <1>2, <1>3, <2>1, <2>2 DEF Requesting, Lifecycle
<1>8. CheckHolds'
  <2>1. \A q \in Requests : request[q].step = "deleteWorkspace" => request[q].before \subseteq Projects
    BY RequestKinds DEF DroppingWorkspace
  <2> QED BY <1>3, <1>4, <1>5, <2>1, ProjectKinds DEF CheckHolds
<1>9. RowsHeld'
  <2>1. \A q \in Requests, p \in Projects :
          request[q].step = "deleteTeam" /\ p \in request[q].unassigned => p \notin In(w)
    BY <1>2 DEF Locked
  <2> QED BY <1>3, <1>5, <2>1 DEF RowsHeld
<1>10. NoDanglingProject'
  <2>1. \A p \in Live' : p \in Live /\ project'[p] = project[p] /\ project[p].workspace # w
    BY <1>4, <1>5 DEF Live, In
  <2>2. \A p \in Live : project[p].workspace \in Workspaces
    BY ProjectKinds DEF Live, Project
  <2>3. ASSUME NEW p \in Live'
        PROVE  References(project[p].workspace, project[p].team)'
    BY <1>2, <2>1, <2>2 DEF NoDanglingProject, References
  <2>4. workspace'[Default] = "present" BY <1>2, DefaultIsAWorkspace DEF NoDanglingProject
  <2> QED BY <2>3, <2>4 DEF NoDanglingProject
<1>11. LossesExplained'
  <2>1. Told(w)' BY <1>2 DEF Told, RecordDeleted
  <2>2. \A x : x # w => (Told(x)' <=> Told(x)) BY <1>2 DEF Told, RecordDeleted
  <2>3. w \notin Teams BY KindsAreDisjoint
  <2>4. \A o \in Projects : (project'[o] # NoProject /\ ~project'[o].there) =>
                              (Told(o) \/ Told(project[o].workspace))'
    BY <1>4, <1>5, <2>1, <2>2 DEF LossesExplained
  <2> QED BY <1>2, <2>1, <2>2, <2>3, <2>4 DEF LossesExplained
<1> QED BY <1>3, <1>7, <1>8, <1>9, <1>10, <1>11

\* Deleting a team nothing else refers to keeps the invariant.
LEMMA DeleteTeamStep ==
  ASSUME IInv, NEW r \in Requests, DeleteTeam(r)
  PROVE  IInv'
<1> USE DEF IInv, TypeOK
<1>1. PICK t \in Teams : t = request[r].team
  BY RequestKinds DEF DeleteTeam, DroppingTeam
<1>2. PICK gone \in SUBSET Projects : gone = request[r].unassigned
  BY RequestKinds DEF DeleteTeam, DroppingTeam
<1>3. /\ team' = [team EXCEPT ![t] = "deleted"]
      /\ project' = [p \in Projects |->
           IF p \in gone THEN [project[p] EXCEPT !.team = "none"] ELSE project[p]]
      /\ RecordDeleted(t)
      /\ Become(r, Idle)
      /\ UNCHANGED workspace
      /\ AssignedTo(t) \subseteq gone
      /\ request[r].step = "deleteTeam"
  BY <1>1, <1>2 DEF DeleteTeam, Unreferenced
<1>4. /\ request' \in [Requests -> Requesting]
      /\ AfterTheFact'
      /\ \A q \in Requests : request'[q].step \in {"deleteWorkspace", "deleteTeam"} =>
           q # r /\ request'[q] = request[q]
  BY <1>3, Leaving DEF Requesting, Idle
<1>5. ASSUME NEW p \in gone
      PROVE  /\ p \in Projects /\ project[p].there
             /\ project'[p].there
             /\ project'[p].workspace = project[p].workspace
             /\ project'[p].team = "none"
             /\ project'[p] \in Project
  <2>1. p \in Projects /\ project[p].there BY <1>2, <1>3 DEF RowsHeld
  <2>2. project[p] \in Project BY <2>1, ProjectKinds
  <2> QED BY <1>3, <2>1, <2>2 DEF Project, MaybeTeam
<1>6. \A p \in Projects : p \notin gone => project'[p] = project[p] BY <1>3
<1>7. [action |-> "deleted", of |-> t] \in Entry BY DEF Entry
<1>8. TypeOK'
  <2>1. project' \in [Projects -> Project \cup {NoProject}] BY <1>3, <1>5, <1>6
  <2>2. audit' \subseteq Entry BY <1>3, <1>7 DEF RecordDeleted
  <2> QED BY <1>3, <1>4, <2>1, <2>2 DEF Requesting, Lifecycle
<1>9. CheckHolds'
  <2>1. \A q \in Requests : request[q].step = "deleteWorkspace" => request[q].before \subseteq Projects
    BY RequestKinds DEF DroppingWorkspace
  <2> QED BY <1>4, <1>5, <1>6, <2>1, ProjectKinds DEF CheckHolds
<1>10. RowsHeld'
  <2>1. \A q \in Requests, p \in Projects :
          q # r /\ request[q].step = "deleteTeam" /\ p \in request[q].unassigned => p \notin gone
    BY <1>2, <1>3 DEF RowsHeld
  <2> QED BY <1>4, <1>6, <2>1 DEF RowsHeld
<1>11. NoDanglingProject'
  <2>1. ASSUME NEW p \in Live'
        PROVE  References(project[p].workspace, project[p].team)'
    <3>1. p \in Projects BY DEF Live
    <3>2. CASE p \in gone
      BY <1>3, <1>5, <3>2 DEF NoDanglingProject, References, Live
    <3>3. CASE p \notin gone
      <4>1. project'[p] = project[p] /\ p \in Live BY <1>6, <3>1, <3>3 DEF Live
      <4>2. project[p].team # t BY <1>3, <3>3, <4>1 DEF AssignedTo
      <4>3. project[p].team \in MaybeTeam BY <4>1, <3>1, ProjectKinds DEF Live, Project
      <4> QED BY <1>3, <4>1, <4>2, <4>3 DEF NoDanglingProject, References, MaybeTeam
    <3> QED BY <3>2, <3>3
  <2>2. workspace'[Default] = "present" BY <1>3 DEF NoDanglingProject
  <2> QED BY <2>1, <2>2 DEF NoDanglingProject
<1>12. LossesExplained'
  <2>1. Told(t)' BY <1>3 DEF Told, RecordDeleted
  <2>2. \A x : x # t => (Told(x)' <=> Told(x)) BY <1>3 DEF Told, RecordDeleted
  <2>3. t \notin Workspaces /\ t \notin Projects BY KindsAreDisjoint
  <2>4. \A o \in Projects : (project'[o] # NoProject /\ ~project'[o].there) =>
                              (Told(o) \/ Told(project[o].workspace))'
    <3> SUFFICES ASSUME NEW o \in Projects, project'[o] # NoProject, ~project'[o].there
                 PROVE  (Told(o) \/ Told(project[o].workspace))'
      OBVIOUS
    <3>1. project'[o] = project[o] BY <1>5, <1>6
    <3>2. project[o].workspace \in Workspaces BY <3>1, ProjectKinds DEF Project
    <3> QED BY <2>2, <2>3, <3>1, <3>2 DEF LossesExplained
  <2> QED BY <1>3, <2>1, <2>2, <2>3, <2>4 DEF LossesExplained
<1> QED BY <1>4, <1>8, <1>9, <1>10, <1>11, <1>12

\* The steps that only read, and those that give up.
LEMMA ReadingStep ==
  ASSUME IInv, NEW r \in Requests,
         \/ \E w \in Workspaces, t \in MaybeTeam : StartCreate(r, w, t)
         \/ \E p \in Projects, t \in MaybeTeam : StartUpdate(r, p, t)
         \/ \E p \in Projects : StartDeleteProject(r, p)
         \/ \E w \in Workspaces : StartDeleteWorkspace(r, w)
         \/ \E t \in Teams : StartDeleteTeam(r, t)
         \/ CheckTeam(r) \/ Unassign(r) \/ Abandon(r)
  PROVE  IInv'
<1>1. ASSUME NEW w \in Workspaces, NEW t \in MaybeTeam, StartCreate(r, w, t)
      PROVE  IInv'
  <2> DEFINE state == [step |-> "team", project |-> "new", workspace |-> w, team |-> t]
  <2>1. state \in Requesting BY DEF Requesting, Placing
  <2> QED BY <1>1, <2>1, QuietStep DEF StartCreate
<1>2. ASSUME NEW p \in Projects, NEW t \in MaybeTeam, StartUpdate(r, p, t)
      PROVE  IInv'
  <2> DEFINE state == [step |-> "team", project |-> p,
                       workspace |-> project[p].workspace, team |-> t]
  <2>1. project[p].workspace \in Workspaces
    BY <1>2, ProjectKinds DEF StartUpdate, IInv, Live, Project
  <2>2. state \in Requesting BY <2>1 DEF Requesting, Placing
  <2> QED BY <1>2, <2>2, QuietStep DEF StartUpdate
<1>3. ASSUME NEW p \in Projects, StartDeleteProject(r, p)
      PROVE  IInv'
  <2> DEFINE state == [step |-> "deleteProject", project |-> p]
  <2>1. state \in Requesting BY DEF Requesting, DroppingProject
  <2> QED BY <1>3, <2>1, QuietStep DEF StartDeleteProject
<1>4. ASSUME NEW w \in Workspaces, StartDeleteWorkspace(r, w)
      PROVE  IInv'
  <2> DEFINE state == [step |-> "deleteWorkspace", workspace |-> w, before |-> Live]
  <2>1. state \in Requesting BY DEF Requesting, DroppingWorkspace, Live
  <2>2. w # Default /\ In(w) = {} BY <1>4 DEF StartDeleteWorkspace, Removable
  <2>3. \A p \in Live : p \in Projects /\ project[p].there /\ project[p] # NoProject
    BY ProjectKinds DEF IInv, Live
  <2>4. \A p \in Live : project[p].workspace # w BY <2>2 DEF In
  <2> QED BY <1>4, <2>1, <2>2, <2>3, <2>4, QuietStep DEF StartDeleteWorkspace
<1>5. ASSUME NEW t \in Teams, StartDeleteTeam(r, t)
      PROVE  IInv'
  <2> DEFINE state == [step |-> "unassign", team |-> t, unassigned |-> {}]
  <2>1. state \in Requesting BY DEF Requesting, DroppingTeam
  <2> QED BY <1>5, <2>1, QuietStep DEF StartDeleteTeam
<1>6. CASE CheckTeam(r)
  <2>1. request[r] \in Placing BY <1>6, RequestKinds DEF CheckTeam, IInv
  <2>2. PICK state : /\ Become(r, state)
                     /\ state = [request[r] EXCEPT !.step = "write"] \/ state = Idle
    BY <1>6 DEF CheckTeam
  <2>3. [request[r] EXCEPT !.step = "write"] \in Placing BY <2>1 DEF Placing
  <2>4. state \in Requesting /\ state.step \in {"write", "idle"}
    BY <2>1, <2>2, <2>3 DEF Requesting, Idle, Placing
  <2> QED BY <1>6, <2>2, <2>4, QuietStep DEF CheckTeam
<1>7. CASE Unassign(r)
  <2> DEFINE state == [request[r] EXCEPT !.step = "deleteTeam",
                                         !.unassigned = AssignedTo(request[r].team)]
  <2>1. request[r] \in DroppingTeam BY <1>7, RequestKinds DEF Unassign, IInv
  <2>2. AssignedTo(request[r].team) \in SUBSET Projects BY DEF AssignedTo, Live
  <2>3. state \in DroppingTeam BY <2>1, <2>2 DEF DroppingTeam
  <2>4. /\ state.step = "deleteTeam"
        /\ state.team = request[r].team
        /\ state.unassigned = AssignedTo(request[r].team)
    BY <2>1 DEF DroppingTeam
  <2>5. state \in Requesting BY <2>3 DEF Requesting
  <2>6. Become(r, state) /\ UNCHANGED <<workspace, team, project, audit>>
    BY <1>7 DEF Unassign
  <2>7. state.unassigned \cap Locked = {} BY <1>7, <2>4 DEF Unassign
  <2> HIDE DEF state
  <2> QED BY <2>4, <2>5, <2>6, <2>7, QuietStep
<1>8. CASE Abandon(r)
  <2>1. Idle \in Requesting /\ Idle.step = "idle" BY DEF Requesting, Idle
  <2> QED BY <1>8, <2>1, QuietStep DEF Abandon
<1> QED BY <1>1, <1>2, <1>3, <1>4, <1>5, <1>6, <1>7, <1>8

\* IInv holds in every reachable state.
LEMMA Invariance == Spec => []IInv
<1>1. Init => IInv
  BY DefaultIsAWorkspace DEF Init, IInv, TypeOK, Lifecycle, CheckHolds, RowsHeld, AfterTheFact,
     NoDanglingProject, References, LossesExplained, Told, Live, Idle, NoProject
<1>2. IInv /\ [Next]_vars => IInv'
  <2> SUFFICES ASSUME IInv, [Next]_vars PROVE IInv'
    OBVIOUS
  <2>1. CASE UNCHANGED vars
    BY <2>1 DEF vars, IInv, TypeOK, CheckHolds, RowsHeld, AfterTheFact,
       NoDanglingProject, References, LossesExplained, Told, Live
  <2>2. ASSUME NEW r \in Requests, RequestStep(r) PROVE IInv'
    BY <2>2, CreateWorkspaceStep, CreateTeamStep, RecordStep, InsertStep, RetargetStep,
       DeleteProjectStep, DeleteWorkspaceStep, DeleteTeamStep, ReadingStep DEF RequestStep
  <2> QED BY <2>1, <2>2 DEF Next
<1> QED BY <1>1, <1>2, PTL DEF Spec

\* The tables, the audit log and the requests in flight keep their types.
THEOREM TypeCorrect == Spec => []TypeOK
BY Invariance, PTL DEF IInv

\* Whatever is deleted meanwhile, no project refers to a workspace or a team that is
\* not there, and the default workspace stays.
THEOREM ReferencesHold == Spec => []NoDanglingProject
BY Invariance, PTL DEF IInv

\* The audit log explains every workspace, team and project that is gone.
THEOREM Explained == Spec => []LossesExplained
BY Invariance, PTL DEF IInv

\* The removal of a workspace erases no project its check has seen.
THEOREM CheckedProjectsKept == Spec => ErasesOnlyNewer
<1>1. IInv /\ [Next]_vars =>
        [\A r \in Requests : DeleteWorkspace(r) =>
           \A p \in request[r].before : project'[p].there = project[p].there]_vars
  <2> SUFFICES ASSUME IInv, NEW r \in Requests, DeleteWorkspace(r),
                      NEW p \in request[r].before
               PROVE  project'[p].there = project[p].there
    OBVIOUS
  <2>1. p \in Projects BY RequestKinds DEF IInv, DeleteWorkspace, DroppingWorkspace
  <2>2. p \notin In(request[r].workspace) BY DEF IInv, CheckHolds, DeleteWorkspace, In, Live
  <2> QED BY <2>1, <2>2 DEF DeleteWorkspace
<1> QED BY <1>1, Invariance, PTL DEF Spec, ErasesOnlyNewer

\* A project keeps its team until it is updated or the team goes, whatever fails between
\* the two statements of the team's removal.
THEOREM TeamKept == Spec => LosesTeamWithTeam
<1>1. IInv /\ [Next]_vars =>
        [\A p \in Live :
           \/ project'[p].team = project[p].team
           \/ \E r \in Requests : Retarget(r) /\ request[r].project = p
           \/ team'[project[p].team] = "deleted"]_vars
  <2> SUFFICES ASSUME IInv, NEW r \in Requests, RequestStep(r), NEW p \in Live
               PROVE  \/ project'[p].team = project[p].team
                      \/ Retarget(r) /\ request[r].project = p
                      \/ team'[project[p].team] = "deleted"
    BY DEF Next
  <2>1. p \in Projects /\ project[p].there /\ project[p] # NoProject /\ project[p] \in Project
    BY ProjectKinds DEF IInv, Live
  <2>2. ASSUME NEW q \in Projects, Insert(r, q)
        PROVE  project'[p] = project[p]
    BY <2>1, <2>2 DEF Insert, IInv, TypeOK
  <2>3. CASE Retarget(r)
    <3>1. CASE request[r].project = p
      BY <2>3, <3>1
    <3>2. CASE request[r].project # p
      BY <2>1, <2>3, <3>2 DEF Retarget, IInv, TypeOK
    <3>3. QED
      BY <3>1, <3>2
  <2>4. CASE DeleteProject(r) \/ DeleteWorkspace(r)
    <3>1. \/ project'[p] = project[p]
          \/ project'[p] = [project[p] EXCEPT !.there = FALSE]
      BY <2>1, <2>4 DEF DeleteProject, DeleteWorkspace, IInv, TypeOK
    <3>2. [project[p] EXCEPT !.there = FALSE].team = project[p].team
      BY <2>1 DEF Project
    <3>3. QED
      BY <3>1, <3>2
  <2>5. CASE DeleteTeam(r)
    <3>1. request[r].team \in Teams /\ team'[request[r].team] = "deleted"
      BY <2>5, RequestKinds DEF DeleteTeam, IInv, TypeOK, DroppingTeam
    <3>2. p \in request[r].unassigned => project[p].team = request[r].team
      BY <2>5 DEF DeleteTeam, IInv, RowsHeld
    <3>3. p \notin request[r].unassigned => project'[p] = project[p]
      BY <2>1, <2>5 DEF DeleteTeam
    <3>4. QED
      BY <3>1, <3>2, <3>3
  <2>6. CASE UNCHANGED project
    BY <2>6
  <2>7. QED
    BY <2>2, <2>3, <2>4, <2>5, <2>6
    DEF RequestStep, CreateWorkspace, StartDeleteWorkspace, CreateTeam, StartDeleteTeam,
        StartCreate, StartUpdate, StartDeleteProject, CheckTeam, Record, Unassign, Abandon
<1> QED BY <1>1, Invariance, PTL DEF Spec, LosesTeamWithTeam

-----------------------------------------------------------------------------
(* The atomic catalog.                                                      *)

\* Every step of the atomic catalog keeps the references.
THEOREM AtomicReferences == Atomic!Spec => [](Atomic!TypeOK /\ Atomic!NothingDangles)
<1> USE DEF Atomic!TypeOK, Atomic!NothingDangles, Atomic!Nowhere, Atomic!Assignable
<1>1. Atomic!Init => Atomic!TypeOK /\ Atomic!NothingDangles
  BY DefaultIsAWorkspace DEF Atomic!Init
<1>2. Atomic!TypeOK /\ Atomic!NothingDangles /\ [Atomic!Next]_Atomic!vars
        => Atomic!TypeOK' /\ Atomic!NothingDangles'
  <2> SUFFICES ASSUME Atomic!TypeOK, Atomic!NothingDangles, [Atomic!Next]_Atomic!vars
               PROVE  Atomic!TypeOK' /\ Atomic!NothingDangles'
    OBVIOUS
  <2>1. CASE UNCHANGED Atomic!vars
    BY <2>1 DEF Atomic!vars
  <2>2. ASSUME NEW w \in Workspaces, Atomic!CreateWorkspace(w)
        PROVE  Atomic!TypeOK' /\ Atomic!NothingDangles'
    BY <2>2 DEF Atomic!CreateWorkspace
  <2>3. ASSUME NEW t \in Teams, Atomic!CreateTeam(t)
        PROVE  Atomic!TypeOK' /\ Atomic!NothingDangles'
    BY <2>3 DEF Atomic!CreateTeam
  <2>4. ASSUME NEW p \in Projects, NEW w \in Workspaces, NEW t \in Teams \cup {"none"},
               Atomic!CreateProject(p, w, t)
        PROVE  Atomic!TypeOK' /\ Atomic!NothingDangles'
    BY <2>4 DEF Atomic!CreateProject
  <2>5. ASSUME NEW p \in Projects, NEW t \in Teams \cup {"none"}, Atomic!Reassign(p, t)
        PROVE  Atomic!TypeOK' /\ Atomic!NothingDangles'
    BY <2>5, NoneIsNoRow DEF Atomic!Reassign
  <2>6. ASSUME NEW p \in Projects, Atomic!DeleteProject(p)
        PROVE  Atomic!TypeOK' /\ Atomic!NothingDangles'
    BY <2>6 DEF Atomic!DeleteProject
  <2>7. ASSUME NEW w \in Workspaces, Atomic!DeleteWorkspace(w)
        PROVE  Atomic!TypeOK' /\ Atomic!NothingDangles'
    BY <2>7 DEF Atomic!DeleteWorkspace
  <2>8. ASSUME NEW t \in Teams, Atomic!DeleteTeam(t)
        PROVE  Atomic!TypeOK' /\ Atomic!NothingDangles'
    BY <2>8, NoneIsNoRow DEF Atomic!DeleteTeam
  <2>9. QED
    BY <2>1, <2>2, <2>3, <2>4, <2>5, <2>6, <2>7, <2>8 DEF Atomic!Next
<1>3. QED
  BY <1>1, <1>2, PTL DEF Atomic!Spec

-----------------------------------------------------------------------------
(* The refinement.                                                          *)

\* Where a project is in the atomic catalog.
LEMMA PlaceOf ==
  ASSUME TypeOK, NEW p \in Projects
  PROVE  /\ project[p].there =>
              Places[p] = [workspace |-> project[p].workspace, team |-> project[p].team]
         /\ ~project[p].there => Places[p] = Atomic!Nowhere
         /\ project[p].there <=> Places[p] # Atomic!Nowhere
<1>1. project[p].there => project[p].workspace \in Workspaces
  BY ProjectKinds DEF Project
<1>2. QED
  BY <1>1, NoneIsNoRow DEF Places, Place, Atomic!Nowhere

\* A project whose row a step leaves alone stays where it is.
LEMMA PlaceKept ==
  ASSUME NEW p \in Projects, project'[p] = project[p]
  PROVE  Places'[p] = Places[p]
BY DEF Places, Place

\* What the requests' steps that only read, or only write the audit log, do is not seen.
LEMMA QuietRefines ==
  ASSUME UNCHANGED <<workspace, team, project>>
  PROVE  UNCHANGED Atomic!vars
BY DEF Atomic!vars, WorkspacesThere, TeamsThere, Places

\* A workspace and a team are created in one step in both.
LEMMA CreationRefines ==
  ASSUME IInv, NEW r \in Requests
  PROVE  /\ \A w \in Workspaces : CreateWorkspace(r, w) => Atomic!CreateWorkspace(w)
         /\ \A t \in Teams : CreateTeam(r, t) => Atomic!CreateTeam(t)
<1> USE DEF IInv, TypeOK, WorkspacesThere, TeamsThere, Places
<1>1. ASSUME NEW w \in Workspaces, CreateWorkspace(r, w)
      PROVE  Atomic!CreateWorkspace(w)
  BY <1>1 DEF CreateWorkspace, Atomic!CreateWorkspace
<1>2. ASSUME NEW t \in Teams, CreateTeam(r, t)
      PROVE  Atomic!CreateTeam(t)
  BY <1>2 DEF CreateTeam, Atomic!CreateTeam
<1>3. QED
  BY <1>1, <1>2

\* The foreign keys check what the lookups have checked once more.
LEMMA InsertRefines ==
  ASSUME IInv, NEW r \in Requests, NEW p \in Projects, Insert(r, p)
  PROVE  Atomic!CreateProject(p, request[r].workspace, request[r].team)
<1> DEFINE w == request[r].workspace
           t == request[r].team
<1>1. w \in Workspaces /\ t \in MaybeTeam
  BY RequestKinds DEF IInv, Insert, Placing
<1>2. /\ project[p] = NoProject /\ References(w, t)
      /\ project' = [project EXCEPT ![p] = [there |-> TRUE, workspace |-> w, team |-> t]]
      /\ UNCHANGED <<workspace, team>>
  BY DEF Insert
<1>3. w \in WorkspacesThere /\ t \in Atomic!Assignable
  BY <1>1, <1>2 DEF References, WorkspacesThere, TeamsThere, Atomic!Assignable, MaybeTeam
<1>4. project'[p] = [there |-> TRUE, workspace |-> w, team |-> t]
  BY <1>2 DEF IInv, TypeOK
<1>5. Places[p] = Atomic!Nowhere
  <2>1. TypeOK
    BY DEF IInv
  <2>2. ~project[p].there
    BY <1>2 DEF NoProject
  <2>3. QED
    BY <2>1, <2>2, PlaceOf
<1>6. Places'[p] = [workspace |-> w, team |-> t]
  BY <1>4 DEF Places, Place
<1>7. \A q \in Projects : q # p => Places'[q] = Places[q]
  BY <1>2, PlaceKept DEF IInv, TypeOK
<1>8. Places' = [Places EXCEPT ![p] = [workspace |-> w, team |-> t]]
  BY <1>6, <1>7 DEF Places
<1>9. QED
  BY <1>2, <1>3, <1>5, <1>8 DEF Atomic!CreateProject, WorkspacesThere, TeamsThere

\* The update's statement, with its foreign keys, is the whole of an atomic reassignment.
LEMMA RetargetRefines ==
  ASSUME IInv, NEW r \in Requests, Retarget(r)
  PROVE  \E p \in Projects, t \in MaybeTeam : Atomic!Reassign(p, t)
<1>1. PICK p \in Projects : p = request[r].project /\ project[p].there
  BY DEF Retarget, Live
<1>2. PICK t \in MaybeTeam : t = request[r].team
  BY RequestKinds DEF IInv, Retarget, Placing
<1>3. /\ project' = [project EXCEPT ![p].team = t]
      /\ References(project[p].workspace, t)
      /\ UNCHANGED <<workspace, team>>
  BY <1>1, <1>2 DEF Retarget
<1>4. project[p] \in Project
  BY <1>1, ProjectKinds DEF IInv
<1>5. project'[p] = [project[p] EXCEPT !.team = t]
  BY <1>3 DEF IInv, TypeOK
<1>6. project'[p].there /\ project'[p].workspace = project[p].workspace /\ project'[p].team = t
  BY <1>1, <1>4, <1>5 DEF Project
<1>7. /\ Places[p] # Atomic!Nowhere
      /\ Places[p].workspace = project[p].workspace
  <2>1. TypeOK
    BY DEF IInv
  <2>2. Places[p] = [workspace |-> project[p].workspace, team |-> project[p].team]
    BY <1>1, <2>1, PlaceOf
  <2>3. Places[p] # Atomic!Nowhere
    BY <1>1, <2>1, PlaceOf
  <2>4. QED
    BY <2>2, <2>3
<1>8. Places'[p] = [workspace |-> Places[p].workspace, team |-> t]
  BY <1>6, <1>7 DEF Places, Place
<1>9. \A q \in Projects : q # p => Places'[q] = Places[q]
  BY <1>3, PlaceKept DEF IInv, TypeOK
<1>10. Places' = [Places EXCEPT ![p] = [workspace |-> Places[p].workspace, team |-> t]]
  BY <1>8, <1>9 DEF Places
<1>11. t \in Atomic!Assignable
  BY <1>3 DEF References, TeamsThere, Atomic!Assignable, MaybeTeam
<1>12. QED
  BY <1>3, <1>7, <1>10, <1>11 DEF Atomic!Reassign, WorkspacesThere, TeamsThere

\* Deleting a project asks nothing of the rows it refers to.
LEMMA DeleteProjectRefines ==
  ASSUME IInv, NEW r \in Requests, DeleteProject(r)
  PROVE  \E p \in Projects : Atomic!DeleteProject(p)
<1>1. PICK p \in Projects : p = request[r].project /\ project[p].there
  BY DEF DeleteProject, Live
<1>2. /\ project' = [project EXCEPT ![p].there = FALSE]
      /\ UNCHANGED <<workspace, team>>
  BY <1>1 DEF DeleteProject
<1>3. project[p] \in Project
  BY <1>1, ProjectKinds DEF IInv
<1>4. ~project'[p].there
  BY <1>2, <1>3 DEF IInv, TypeOK, Project
<1>5. Places'[p] = Atomic!Nowhere
  BY <1>4 DEF Places, Place, Atomic!Nowhere
<1>6. \A q \in Projects : q # p => Places'[q] = Places[q]
  BY <1>2, PlaceKept DEF IInv, TypeOK
<1>7. Places' = [Places EXCEPT ![p] = Atomic!Nowhere] /\ Places[p] # Atomic!Nowhere
  BY <1>1, <1>5, <1>6, PlaceOf DEF Places, IInv
<1>8. QED
  BY <1>2, <1>7 DEF Atomic!DeleteProject, WorkspacesThere, TeamsThere

\* The cascade takes the workspace and what is in it by then in one step.
LEMMA DeleteWorkspaceRefines ==
  ASSUME IInv, NEW r \in Requests, DeleteWorkspace(r)
  PROVE  \E w \in Workspaces : Atomic!DeleteWorkspace(w)
<1>1. PICK w \in Workspaces : w = request[r].workspace
  BY RequestKinds DEF IInv, DeleteWorkspace, DroppingWorkspace
<1>2. /\ w # Default /\ workspace[w] = "present"
      /\ workspace' = [workspace EXCEPT ![w] = "deleted"]
      /\ project' = [p \in Projects |->
           IF p \in In(w) THEN [project[p] EXCEPT !.there = FALSE] ELSE project[p]]
      /\ UNCHANGED team
  BY <1>1 DEF DeleteWorkspace, IInv, CheckHolds
<1>3. WorkspacesThere' = WorkspacesThere \ {w} /\ w \in WorkspacesThere
  BY <1>2 DEF WorkspacesThere, IInv, TypeOK
<1>4. ASSUME NEW p \in Projects
      PROVE  Places'[p] = IF Places[p].workspace = w THEN Atomic!Nowhere ELSE Places[p]
  <2>1. Places[p].workspace = w <=> p \in In(w)
    <3>1. Places[p].workspace = IF project[p].there THEN project[p].workspace ELSE "none"
      BY DEF Places, Place
    <3>2. QED
      BY <3>1, NoneIsNoRow DEF In, Live
  <2>2. CASE p \in In(w)
    <3>1. project[p] \in Project /\ project'[p] = [project[p] EXCEPT !.there = FALSE]
      BY <1>2, <2>2, ProjectKinds DEF IInv, In, Live
    <3>2. ~project'[p].there
      BY <3>1 DEF Project
    <3>3. Places'[p] = Atomic!Nowhere
      BY <3>2 DEF Places, Place, Atomic!Nowhere
    <3>4. QED
      BY <2>1, <2>2, <3>3
  <2>3. CASE p \notin In(w)
    BY <1>2, <2>1, <2>3, PlaceKept
  <2>4. QED
    BY <2>2, <2>3
<1>5. Places' = [p \in Projects |->
        IF Places[p].workspace = w THEN Atomic!Nowhere ELSE Places[p]]
  BY <1>4 DEF Places
<1>6. QED
  BY <1>2, <1>3, <1>5 DEF Atomic!DeleteWorkspace, TeamsThere

\* The transaction unassigns just the projects that the team still has at its commit: the
\* rows it has written are locked, and a further one would violate the foreign key.
LEMMA DeleteTeamRefines ==
  ASSUME IInv, NEW r \in Requests, DeleteTeam(r)
  PROVE  \E t \in Teams : Atomic!DeleteTeam(t)
<1>1. PICK t \in Teams : t = request[r].team
  BY RequestKinds DEF IInv, DeleteTeam, DroppingTeam
<1>2. request[r].unassigned = AssignedTo(t)
  BY <1>1 DEF DeleteTeam, Unreferenced, IInv, RowsHeld, AssignedTo, Live
<1>3. /\ team[t] = "present" /\ team' = [team EXCEPT ![t] = "deleted"]
      /\ project' = [p \in Projects |->
           IF p \in AssignedTo(t) THEN [project[p] EXCEPT !.team = "none"] ELSE project[p]]
      /\ UNCHANGED workspace
  BY <1>1, <1>2 DEF DeleteTeam
<1>4. TeamsThere' = TeamsThere \ {t} /\ t \in TeamsThere
  BY <1>3 DEF TeamsThere, IInv, TypeOK
<1>5. ASSUME NEW p \in Projects
      PROVE  Places'[p] = IF Places[p].team = t
                          THEN [workspace |-> Places[p].workspace, team |-> "none"]
                          ELSE Places[p]
  <2>1. Places[p].team = t <=> p \in AssignedTo(t)
    <3>1. Places[p].team = IF project[p].there THEN project[p].team ELSE "none"
      BY DEF Places, Place
    <3>2. QED
      BY <3>1, NoneIsNoRow DEF AssignedTo, Live
  <2>2. CASE p \in AssignedTo(t)
    <3>1. project[p].there /\ project[p] \in Project /\ project'[p] = [project[p] EXCEPT !.team = "none"]
      BY <1>3, <2>2, ProjectKinds DEF IInv, AssignedTo, Live
    <3>2. project'[p].there /\ project'[p].team = "none" /\ project'[p].workspace = project[p].workspace
      BY <3>1 DEF Project
    <3>3. Places[p].workspace = project[p].workspace
      BY <3>1 DEF Places, Place
    <3>4. Places'[p] = [workspace |-> Places[p].workspace, team |-> "none"]
      BY <3>2, <3>3 DEF Places, Place
    <3>5. QED
      BY <2>1, <2>2, <3>4
  <2>3. CASE p \notin AssignedTo(t)
    BY <1>3, <2>1, <2>3, PlaceKept
  <2>4. QED
    BY <2>2, <2>3
<1>6. Places' = [p \in Projects |->
        IF Places[p].team = t THEN [workspace |-> Places[p].workspace, team |-> "none"]
                              ELSE Places[p]]
  BY <1>5 DEF Places
<1>7. QED
  BY <1>3, <1>4, <1>6 DEF Atomic!DeleteTeam, WorkspacesThere

\* Every step of a request is a step of the atomic catalog, or is not seen in it.
LEMMA StepRefines ==
  ASSUME IInv, [Next]_vars
  PROVE  [Atomic!Next]_Atomic!vars
<1>1. CASE UNCHANGED vars
  BY <1>1, QuietRefines DEF vars
<1>2. ASSUME NEW r \in Requests, RequestStep(r)
      PROVE  Atomic!Next \/ UNCHANGED Atomic!vars
  <2>1. CASE \/ \E w \in Workspaces : StartDeleteWorkspace(r, w)
             \/ \E t \in Teams : StartDeleteTeam(r, t)
             \/ \E w \in Workspaces, t \in MaybeTeam : StartCreate(r, w, t)
             \/ \E p \in Projects, t \in MaybeTeam : StartUpdate(r, p, t)
             \/ \E p \in Projects : StartDeleteProject(r, p)
             \/ CheckTeam(r) \/ Record(r) \/ Unassign(r) \/ Abandon(r)
    BY <2>1, QuietRefines DEF StartDeleteWorkspace, StartDeleteTeam, StartCreate, StartUpdate,
       StartDeleteProject, CheckTeam, Record, Unassign, Abandon
  <2>2. CASE \/ \E w \in Workspaces : CreateWorkspace(r, w)
             \/ \E t \in Teams : CreateTeam(r, t)
    BY <2>2, CreationRefines DEF Atomic!Next
  <2>3. ASSUME NEW p \in Projects, Insert(r, p)
        PROVE  Atomic!Next
    <3>1. request[r].workspace \in Workspaces /\ request[r].team \in Teams \cup {"none"}
      BY <2>3, RequestKinds DEF IInv, Insert, Placing, MaybeTeam
    <3>2. QED
      BY <2>3, <3>1, InsertRefines DEF Atomic!Next
  <2>4. CASE Retarget(r) \/ DeleteProject(r)
    BY <2>4, RetargetRefines, DeleteProjectRefines DEF Atomic!Next, MaybeTeam
  <2>5. CASE DeleteWorkspace(r) \/ DeleteTeam(r)
    BY <2>5, DeleteWorkspaceRefines, DeleteTeamRefines DEF Atomic!Next
  <2>6. QED
    BY <1>2, <2>1, <2>2, <2>3, <2>4, <2>5 DEF RequestStep
<1>3. QED
  BY <1>1, <1>2 DEF Next

\* The queries and transactions of concurrent requests implement the atomic catalog.
THEOREM Refinement == Spec => RefinesAtomic
<1>1. Init => Atomic!Init
  BY DefaultIsAWorkspace
     DEF Init, Atomic!Init, WorkspacesThere, TeamsThere, Places, Place, NoProject, Atomic!Nowhere
<1>2. IInv /\ [Next]_vars => [Atomic!Next]_Atomic!vars
  BY StepRefines
<1>3. QED
  BY <1>1, <1>2, Invariance, PTL DEF Spec, RefinesAtomic, Atomic!Spec
=============================================================================
