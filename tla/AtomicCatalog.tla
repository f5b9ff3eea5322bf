---------------------------- MODULE AtomicCatalog ----------------------------
(***************************************************************************)
(* What the catalog of one organization promises: every operation is one   *)
(* indivisible step on the rows as they are at that very moment.  A        *)
(* project is put into a workspace and a team that are there; a team that  *)
(* is deleted lets go of its projects, and a workspace takes its projects  *)
(* with it, in the same step.  Nothing here mentions requests, lookups,    *)
(* row locks or foreign keys; the module Catalog shows that the code's     *)
(* queries and transactions implement it.                                  *)
(***************************************************************************)
CONSTANTS Workspaces, Default, Teams, Projects

VARIABLES
  workspaces,  \* the workspaces there are
  teams,       \* the teams there are
  place        \* place[p]: the workspace and the team of p, or Nowhere

vars == <<workspaces, teams, place>>

Nowhere == [workspace |-> "none", team |-> "none"]

Assignable == teams \cup {"none"}

Init ==
  /\ workspaces = {Default}
  /\ teams = {}
  /\ place = [p \in Projects |-> Nowhere]

CreateWorkspace(w) ==
  /\ w \notin workspaces
  /\ workspaces' = workspaces \cup {w}
  /\ UNCHANGED <<teams, place>>

CreateTeam(t) ==
  /\ t \notin teams
  /\ teams' = teams \cup {t}
  /\ UNCHANGED <<workspaces, place>>

CreateProject(p, w, t) ==
  /\ place[p] = Nowhere
  /\ w \in workspaces /\ t \in Assignable
  /\ place' = [place EXCEPT ![p] = [workspace |-> w, team |-> t]]
  /\ UNCHANGED <<workspaces, teams>>

Reassign(p, t) ==
  /\ place[p] # Nowhere
  /\ t \in Assignable
  /\ place' = [place EXCEPT ![p] = [workspace |-> place[p].workspace, team |-> t]]
  /\ UNCHANGED <<workspaces, teams>>

DeleteProject(p) ==
  /\ place[p] # Nowhere
  /\ place' = [place EXCEPT ![p] = Nowhere]
  /\ UNCHANGED <<workspaces, teams>>

DeleteWorkspace(w) ==
  /\ w \in workspaces \ {Default}
  /\ workspaces' = workspaces \ {w}
  /\ place' = [p \in Projects |-> IF place[p].workspace = w THEN Nowhere ELSE place[p]]
  /\ UNCHANGED teams

DeleteTeam(t) ==
  /\ t \in teams
  /\ teams' = teams \ {t}
  /\ place' = [p \in Projects |->
       IF place[p].team = t THEN [workspace |-> place[p].workspace, team |-> "none"]
                            ELSE place[p]]
  /\ UNCHANGED workspaces

Next ==
  \/ \E w \in Workspaces : CreateWorkspace(w) \/ DeleteWorkspace(w)
  \/ \E t \in Teams : CreateTeam(t) \/ DeleteTeam(t)
  \/ \E p \in Projects :
       \/ \E w \in Workspaces, t \in Teams \cup {"none"} : CreateProject(p, w, t)
       \/ \E t \in Teams \cup {"none"} : Reassign(p, t)
       \/ DeleteProject(p)

Spec == Init /\ [][Next]_vars

-----------------------------------------------------------------------------

TypeOK ==
  /\ Default \in workspaces /\ workspaces \subseteq Workspaces
  /\ teams \subseteq Teams
  /\ place \in [Projects -> [workspace : Workspaces, team : Teams \cup {"none"}] \cup {Nowhere}]

\* Every project is in a workspace there is, and of a team there is or of none.
NothingDangles ==
  \A p \in Projects :
    place[p] # Nowhere => place[p].workspace \in workspaces /\ place[p].team \in Assignable
=============================================================================
