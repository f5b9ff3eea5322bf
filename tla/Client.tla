------------------------------- MODULE Client -------------------------------
(***************************************************************************)
(* The browser's copy of the server's data: one entry of the query cache   *)
(* that the pages of apps/web share, the fetches that fill it and the      *)
(* operations of the dialogs, which change the server and then invalidate  *)
(* the entries they name.  The entry is any one of the application's; the  *)
(* others behave alike and do not touch it.                                *)
(*                                                                         *)
(* invalidateQueries, cancelQueries, setQueryData and clear do what        *)
(* TanStack Query 5 does with an entry that is or is not on screen.        *)
(***************************************************************************)
EXTENDS Naturals

CONSTANTS
  Users,
  Nobody,
  Mutations,       \* operations under way at once
  MaxOperations    \* bound: operations per behaviour

ASSUME NobodyIsNoUser == Nobody \notin Users /\ Users # {}
ASSUME OperationsBounded == MaxOperations \in Nat

VARIABLES
  watched,    \* the resource of the entry, fixed for a behaviour
  page,       \* the page on screen
  who,        \* whose session the browser's cookie opens
  version,    \* how often the user's operations have changed the server's answer
  entry,      \* the cache entry
  fetch,      \* the fetch of the entry under way
  mutation,   \* mutation[m]: what m is doing
  due,        \* history: the answer since the last operation that drops the entry, once done
  owed,       \* history: the same for the operations that name it, whether it is dropped or not
  operations

client == <<watched, page, who, version, entry, fetch, mutation, due, owed, operations>>
server == <<who, version>>
promised == <<due, owed>>

-----------------------------------------------------------------------------
(* What the server's answers are made of, and the operations: what they write, which    *)
(* answers the page then names to be fetched anew, and where it leads.                  *)

\* The answers that carry a piece of data: its rows, a name from them or their number.
Carriers ==
  [person |-> {"me", "members", "team", "project", "work-items", "invitations", "api-keys",
               "audit-logs"},
   lastLogin |-> {"members"},
   sessions |-> {"sessions"},
   ownOrganizations |-> {"organizations"},
   organization |-> {"organizations", "organization"},
   settings |-> {"settings"},
   memberships |-> {"members", "organizations", "organization"},
   roles |-> {"members"},
   invitations |-> {"invitations"},
   teams |-> {"teams", "organization"},
   teamMembers |-> {"team", "teams"},
   workspaces |-> {"workspaces"},
   projects |-> {"projects", "team", "teams", "workspaces", "organization"},
   project |-> {"project", "projects", "team", "teams", "work-items"},
   projectMembers |-> {"project", "projects"},
   workItems |-> {"work-items", "project", "projects"},
   status |-> {"work-items"},
   keys |-> {"api-keys"},
   log |-> {"audit-logs", "audit-actions"}]

Operation(writes, names) ==
  [changes |-> UNION {Carriers[data] : data \in writes}, names |-> names,
   invalidates |-> names, kind |-> "plain", session |-> "keep", then |-> "stay"]
Leading(operation, destination) == [operation EXCEPT !.then = destination]
Clearing(writes, destination) ==
  [Leading(Operation(writes, {}), destination) EXCEPT !.kind = "clear"]

CreateTeam == Operation({"teams", "log"}, {"teams"})
RemoveTeamMember == Operation({"teamMembers"}, {"team", "teams"})
\* keys.projects(slug) is ['projects', slug, undefined], which no list's key begins with.
CreateProject ==
  Leading([Operation({"projects", "log"}, {"projects"}) EXCEPT !.invalidates = {}], "project")
EditProject == Operation({"project", "log"}, {"project", "projects"})
\* Its work items and their memberships go with it.
DeleteProject ==
  Leading(Operation({"projects", "project", "workItems", "projectMembers", "log"}, {"projects"}),
          "projects")
CreateWorkspace == Operation({"workspaces", "log"}, {"workspaces"})
DeleteWorkspace == Operation({"workspaces", "log"}, {"workspaces"})
RenameOrganization == Operation({"organization", "log"}, {"organization", "organizations"})
SaveSettings == Operation({"settings", "log"}, {"settings"})
SaveAccessPolicy == SaveSettings
SaveSessionPolicy == SaveSettings
DeleteOrganization == Clearing({"organization", "log"}, "organizations")
CreateKey == Operation({"keys", "log"}, {"api-keys"})
RevokeKey == Operation({"keys", "log"}, {"api-keys"})
ChangeRole == Operation({"roles", "log"}, {"members", "organizations"})
\* The memberships of teams and projects go with that of the organization.
RemoveMember ==
  Operation({"memberships", "teamMembers", "projectMembers", "log"}, {"members", "organizations"})
Invite == Operation({"invitations", "log"}, {"invitations"})
RevokeInvitation == Operation({"invitations", "log"}, {"invitations"})
Rename == Operation({"person"}, {"me"})
ChangePassword == Operation({"sessions"}, {"sessions"})
\* The new one's own answers are other entries.
CreateOrganization == Leading(Operation({"ownOrganizations"}, {"organizations"}), "overview")
\* Mutant of SignIn: the cache is left as it is.
SignInKeeping ==
  [Leading(Operation({"sessions", "lastLogin"}, {}), "overview") EXCEPT !.session = "open"]
SignIn == [Clearing({"sessions", "lastLogin"}, "overview") EXCEPT !.session = "open"]
SignUp == [Clearing({"sessions"}, "onboarding") EXCEPT !.session = "open"]
SignOut == [Clearing({"sessions"}, "signIn") EXCEPT !.session = "close"]
\* useWorkItemStatus.
ChangeStatus == [Operation({"status"}, {"work-items"}) EXCEPT !.kind = "guess"]

\* What a page shows, and the operations that it offers.
Page(shows, offers) == [shows |-> shows, offers |-> offers, shell |-> FALSE]
ShellPage(shows, offers) ==
  [Page(shows \cup {"me", "organizations"}, offers) EXCEPT !.shell = TRUE]

SignInPage == Page({}, {SignIn})
SignUpPage == Page({}, {SignUp})
OnboardingPage == Page({"organizations"}, {CreateOrganization})
OrganizationsPage == Page({"organizations"}, {})
ProfilePage == Page({"me", "organizations", "sessions"}, {Rename, ChangePassword, SignOut})
OverviewPage == ShellPage({"work-items", "projects"}, {})
ProjectsPage == ShellPage({"projects", "workspaces", "teams"}, {CreateProject})
ProjectPage == ShellPage({"project", "work-items", "teams"},
                         {EditProject, DeleteProject, ChangeStatus})
WorkItemsPage == ShellPage({"work-items"}, {ChangeStatus})
TeamsPage == ShellPage({"teams", "team"}, {CreateTeam, RemoveTeamMember})
WorkspacesPage == ShellPage({"workspaces"}, {CreateWorkspace, DeleteWorkspace})
MembersPage == ShellPage({"members", "invitations"},
                         {ChangeRole, RemoveMember, Invite, RevokeInvitation})
SettingsPage == ShellPage({"organization", "settings"},
                          {RenameOrganization, SaveAccessPolicy, SaveSessionPolicy,
                           DeleteOrganization})
ApiKeysPage == ShellPage({"api-keys"}, {CreateKey, RevokeKey})
ActivityPage == ShellPage({"audit-logs", "audit-actions"}, {})

Pages ==
  [signIn |-> SignInPage, signUp |-> SignUpPage, onboarding |-> OnboardingPage,
   organizations |-> OrganizationsPage, profile |-> ProfilePage, overview |-> OverviewPage,
   projects |-> ProjectsPage, project |-> ProjectPage, workItems |-> WorkItemsPage,
   teams |-> TeamsPage, workspaces |-> WorkspacesPage, members |-> MembersPage,
   settings |-> SettingsPage, apiKeys |-> ApiKeysPage, activity |-> ActivityPage]

PageNames == DOMAIN Pages
Resources == UNION {Pages[name].shows : name \in PageNames}

\* What an operation is to the entry of a resource.
Effect(operation, resource) ==
  [operation EXCEPT !.changes = resource \in operation.changes,
                    !.names = resource \in operation.names,
                    !.invalidates = resource \in operation.invalidates]
Untouched(operation) ==
  operation.kind # "clear" /\ ~operation.changes /\ ~operation.names

\* Pages are of one kind for an entry if they show it or do not, in the shell or out of
\* it, and the same operations touch it from there.
Kind ==
  [resource \in Resources |-> [name \in PageNames |->
     [shows |-> resource \in Pages[name].shows, shell |-> Pages[name].shell,
      offers |-> {operation \in {Effect(o, resource) : o \in Pages[name].offers} :
                    ~Untouched(operation)}]]]
Kinds(resource) == {Kind[resource][name] : name \in PageNames}
Outdone(kind, other) ==
  /\ kind # other /\ kind.shows = other.shows /\ kind.shell = other.shell
  /\ kind.offers \subseteq other.offers
\* Bound: one page of each kind, unless a page of another kind offers more than it.
Visited ==
  [resource \in Resources |->
     {CHOOSE name \in PageNames : Kind[resource][name] = kind :
        kind \in {k \in Kinds(resource) : \A other \in Kinds(resource) : ~Outdone(k, other)}}]

-----------------------------------------------------------------------------

Absent ==
  [has |-> FALSE, version |-> 0, owner |-> Nobody, guess |-> FALSE, stale |-> FALSE,
   failed |-> FALSE, joined |-> FALSE]
NoFetch == [step |-> "none", version |-> 0, owner |-> Nobody, joined |-> FALSE]
Asked == [NoFetch EXCEPT !.step = "asked"]
NoMutation == [step |-> "none"]

\* The application is opened, at any address, with a cookie or without.  Users are alike.
ClientInit ==
  /\ watched \in Resources
  /\ page \in Visited[watched]
  /\ who \in {Nobody, CHOOSE user \in Users : TRUE}
  /\ version = 0
  /\ entry = Absent
  /\ fetch = IF watched \in Pages[page].shows THEN Asked ELSE NoFetch
  /\ mutation = [m \in Mutations |-> NoMutation]
  /\ due = 0
  /\ owed = 0
  /\ operations = 0

On(name) == watched \in Pages[name].shows
Shown == On(page)
\* A page that comes on screen fetches what has been invalidated of what it shows; one
\* that leaves it aborts its fetch.
FetchOn(name, e) == IF On(name) /\ (~e.has \/ e.stale) THEN Asked ELSE NoFetch

\* The shell stays on screen from one of its pages to another.
GoTo(name) ==
  /\ page' = name
  /\ fetch' = IF Pages[page].shell /\ Pages[name].shell /\ watched \in {"me", "organizations"}
              THEN fetch ELSE FetchOn(name, entry)

Navigate(name) ==
  /\ name # page
  /\ GoTo(name)
  /\ UNCHANGED <<watched, server, entry, mutation, promised, operations>>

\* What is on screen is older than staleTime when the page appears or gains the focus.
Focus ==
  /\ Shown /\ fetch = NoFetch
  /\ fetch' = Asked
  /\ UNCHANGED <<watched, page, server, entry, mutation, promised, operations>>

\* The server answers whoever the cookie stands for.
Respond ==
  /\ fetch.step = "asked"
  /\ who # Nobody
  /\ fetch' = [fetch EXCEPT !.step = "answered", !.version = version, !.owner = who]
  /\ UNCHANGED <<watched, page, server, entry, mutation, promised, operations>>

\* The answer becomes the entry, whatever has been noted of the former one.
Receive ==
  /\ fetch.step = "answered"
  /\ entry' = [Absent EXCEPT !.has = TRUE, !.version = fetch.version, !.owner = fetch.owner,
                             !.joined = fetch.joined]
  /\ fetch' = NoFetch
  /\ UNCHANGED <<watched, page, server, mutation, promised, operations>>

\* The last attempt that retryPolicy allows; the others leave the fetch asked.
FetchFails ==
  /\ fetch.step = "asked"
  /\ fetch' = NoFetch
  /\ entry' = [entry EXCEPT !.failed = TRUE]
  /\ UNCHANGED <<watched, page, server, mutation, promised, operations>>

\* It expires, or is revoked from elsewhere.
SessionEnds ==
  /\ who # Nobody
  /\ who' = Nobody
  /\ UNCHANGED <<watched, page, version, entry, fetch, mutation, promised, operations>>

-----------------------------------------------------------------------------

\* Mutant of Invalidated: a fetch under way is taken for the one that is asked for.
InvalidatedJoining(e, f) ==
  <<[e EXCEPT !.stale = TRUE], IF Shown /\ f = NoFetch THEN Asked ELSE f>>

\* invalidateQueries: what is on screen is fetched anew.  A fetch under way is given up
\* for that, but the first one of an entry is joined.
Invalidated(e, f) ==
  <<[e EXCEPT !.stale = TRUE],
    IF ~Shown THEN f
    ELSE IF f # NoFetch /\ ~e.has THEN [f EXCEPT !.joined = TRUE]
    ELSE Asked>>

Refresh(operation, e, f) ==
  IF operation.invalidates THEN Invalidated(e, f) ELSE <<e, f>>

Hold(pair) == entry' = pair[1] /\ fetch' = pair[2]
Set(m, state) == mutation' = [mutation EXCEPT ![m] = state]

\* Which one a new operation takes makes no difference.
Free == CHOOSE m \in Mutations : mutation[m] = NoMutation \/ \A n \in Mutations : mutation[n] # NoMutation

\* onMutate of useWorkItemStatus cancels the fetch and puts the guess in its place.
Submit(m, operation) ==
  LET guessing == operation.kind = "guess" /\ operation.invalidates IN
  /\ mutation[m] = NoMutation /\ m = Free
  /\ operations < MaxOperations
  /\ operations' = operations + 1
  /\ Set(m, [step |-> "sent", operation |-> operation, version |-> 0,
             snapshot |-> IF guessing THEN entry ELSE Absent])
  /\ fetch' = IF guessing THEN NoFetch ELSE fetch
  /\ entry' = IF guessing /\ entry.has
              THEN [entry EXCEPT !.guess = TRUE, !.stale = FALSE] ELSE entry
  /\ UNCHANGED <<watched, page, server, promised>>

\* The server does it.
Commit(m) ==
  LET operation == mutation[m].operation IN
  /\ mutation[m].step = "sent"
  /\ version' = IF operation.changes THEN version + 1 ELSE version
  /\ who' = IF operation.session = "close" THEN Nobody ELSE who
  /\ operation.session = "keep" => who # Nobody
  /\ Set(m, [mutation[m] EXCEPT !.step = "committed",
                                !.version = IF operation.changes THEN version' ELSE 0])
  /\ UNCHANGED <<watched, page, entry, fetch, promised, operations>>

Told(counts, before, done) == IF counts /\ done > before THEN done ELSE before

StartOver(name) ==
  /\ page' = name
  /\ entry' = Absent
  /\ fetch' = FetchOn(name, entry')

\* The answer: what the operation names is invalidated, and fetched anew before
\* the page leads on.
Succeed(m) ==
  LET operation == mutation[m].operation IN
  /\ mutation[m].step = "committed"
  /\ who' \in IF operation.session = "open" THEN Users ELSE {who}
  /\ due' = Told(operation.invalidates \/ operation.kind = "clear", due, mutation[m].version)
  /\ owed' = Told(operation.names \/ operation.kind = "clear", owed, mutation[m].version)
  /\ IF operation.kind = "clear" THEN StartOver(operation.then) /\ Set(m, NoMutation)
     ELSE /\ Hold(Refresh(operation, entry, fetch))
          /\ Set(m, IF operation.then = "stay" THEN NoMutation
                    ELSE [mutation[m] EXCEPT !.step = "refetching"])
          /\ UNCHANGED page
  /\ UNCHANGED <<watched, version, operations>>

Finish(m) ==
  LET then == mutation[m].operation.then IN
  /\ mutation[m].step = "refetching"
  /\ mutation[m].operation.invalidates => fetch = NoFetch
  /\ IF then = page THEN UNCHANGED <<page, fetch>> ELSE GoTo(then)
  /\ Set(m, NoMutation)
  /\ UNCHANGED <<watched, server, entry, promised, operations>>

\* Mutant of Restored: onError puts the snapshot back and leaves it at that.
RestoredOnly(operation, snapshot) ==
  IF operation.kind = "guess" /\ operation.invalidates /\ snapshot.has
  THEN <<[snapshot EXCEPT !.stale = FALSE], fetch>> ELSE <<entry, fetch>>

\* onError of useWorkItemStatus puts the snapshot back, onSettled invalidates it.
Restored(operation, snapshot) ==
  IF operation.kind # "guess" THEN <<entry, fetch>>
  ELSE Refresh(operation, IF snapshot.has THEN snapshot ELSE entry, fetch)

\* The request is refused or lost, or its answer is: an error is shown, but signing out
\* goes on all the same.
Recover(m) ==
  LET operation == mutation[m].operation IN
  /\ mutation[m].step \in {"sent", "committed"}
  /\ IF operation.session = "close" THEN StartOver(operation.then)
     ELSE Hold(Restored(operation, mutation[m].snapshot)) /\ UNCHANGED page
  /\ Set(m, NoMutation)
  /\ UNCHANGED <<watched, server, promised, operations>>

\* The shell signs out by a hard navigation, which ends every script, once the session
\* has ended or the request for that has failed.
Leave ==
  /\ Pages[page].shell
  /\ StartOver("signIn")
  /\ mutation' = [m \in Mutations |-> NoMutation]
  /\ UNCHANGED <<watched, server, promised, operations>>

Conclude(m) == Commit(m) \/ Succeed(m) \/ Finish(m) \/ Recover(m)

ClientNext ==
  \/ \E name \in Visited[watched] : Navigate(name)
  \/ Focus \/ Respond \/ Receive \/ FetchFails \/ SessionEnds \/ Leave
  \/ \E m \in Mutations :
       \/ \E operation \in Kind[watched][page].offers : Submit(m, operation)
       \/ Conclude(m)

\* A request is answered or fails, and what waits for it goes on.
ClientFairness ==
  /\ WF_client(Respond \/ FetchFails \/ Receive)
  /\ WF_client(\E m \in Mutations : Conclude(m))

ClientSpec == ClientInit /\ [][ClientNext]_client /\ ClientFairness

-----------------------------------------------------------------------------

Quiet == \A m \in Mutations : mutation[m] = NoMutation
Settled == Shown /\ Quiet /\ fetch = NoFetch /\ entry.has /\ ~entry.stale /\ ~entry.failed

\* useTenantMutation and useWorkItemStatus: once nothing is under way and no error is
\* shown, the screen shows no guess, and nothing from before the last operation that has
\* invalidated or cleared the entry and was told to be done; but for an operation begun
\* while the entry was first loading.
SettledIsCurrent == Settled => ~entry.guess /\ (entry.version >= due \/ entry.joined)

\* queries.ts:400, "a refetch is cheap and always correct": the same of every operation
\* whose page names the resource.
OwnChangesShow == Settled => entry.version >= owed \/ entry.joined

\* sign-in/page.tsx:74, "a new session means a new principal": with no operation under
\* way the screen shows the data of whoever is signed in, or is about to fetch it.
NoOneElsesData ==
  Shown /\ Quiet /\ entry.has /\ who # Nobody => entry.owner = who \/ entry.stale

\* Once the user stays on a page, what an operation has changed and invalidated comes on
\* screen there, or an error does.
Converges ==
  <>[][page' = page]_client
    => <>[](Shown => entry.version >= due \/ entry.failed \/ entry.joined)
=============================================================================
