----------------------------- MODULE CacheProofs -----------------------------
(***************************************************************************)
(* Proofs about the two caches of the system: of sessions in Redis, for    *)
(* any sessions, any numbers of concurrent requests, any TTL, with or      *)
(* without faults; and of answers in the browser, for any resource, any    *)
(* users and any numbers of operations, overlapping or in a row.           *)
(***************************************************************************)
EXTENDS SessionCache, Client, TLAPS

-----------------------------------------------------------------------------
(* The sessions in Redis.                                                   *)

\* Every action keeps the variables in their types.
LEMMA TypeStep == TypeOK /\ [Next]_vars => TypeOK'
<1> SUFFICES ASSUME TypeOK, [Next]_vars
             PROVE  TypeOK'
  OBVIOUS
<1> USE CacheTTLAssumption, MaxProfileAssumption DEF TypeOK
<1>1. CASE UNCHANGED vars
  BY <1>1 DEF vars
<1>2. CASE Tick
  <2>1. ASSUME NEW s \in Sessions
        PROVE  cache'[s] \in Cached \cup {Miss}
    BY <1>2 DEF Tick, Cached, Miss
  <2>2. DOMAIN cache' = Sessions /\ cache' = [s \in Sessions |-> cache'[s]]
    BY <1>2 DEF Tick
  <2>3. QED
    BY <1>2, <2>1, <2>2 DEF Tick
<1>3. ASSUME NEW s \in Sessions, Open(s) \/ Expire(s)
      PROVE  TypeOK'
  BY <1>3 DEF Open, Expire
<1>4. ASSUME NEW r \in Resolvers, NEW s \in Sessions, MissCache(r, s)
      PROVE  TypeOK'
  BY <1>4 DEF MissCache, Resolver
<1>5. ASSUME NEW r \in Resolvers, ReadRow(r)
      PROVE  TypeOK'
  BY <1>5 DEF ReadRow, Resolver, NoResolver
<1>6. ASSUME NEW r \in Resolvers, WriteCache(r)
      PROVE  TypeOK'
  BY <1>6 DEF WriteCache, Resolver, NoResolver, Cached
<1>7. ASSUME NEW r \in Resolvers, LoseResolver(r)
      PROVE  TypeOK'
  BY <1>7 DEF LoseResolver
<1>8. ASSUME NEW w \in Workers, NEW s \in Sessions, Logout(w, s) \/ RevokeOthers(w, s)
      PROVE  TypeOK'
  BY <1>8 DEF Logout, RevokeOthers, Start, Worker
<1>9. ASSUME NEW w \in Workers, NEW s \in Sessions, Evict(w, s)
      PROVE  TypeOK'
  BY <1>9 DEF Evict, Continue, Worker, NoWorker
<1>10. ASSUME NEW w \in Workers, ListOthers(w) \/ ListCached(w)
       PROVE  TypeOK'
  BY <1>10 DEF ListOthers, ListCached, Continue, Worker, Unrevoked
<1>11. ASSUME NEW w \in Workers, RevokeListed(w)
       PROVE  TypeOK'
  BY <1>11 DEF RevokeListed, Continue, Worker, NoWorker
<1>12. ASSUME NEW w \in Workers, UpdateProfile(w)
       PROVE  TypeOK'
  BY <1>12 DEF UpdateProfile, Start, Worker
<1>13. ASSUME NEW w \in Workers, Answer(w) \/ LoseWorker(w)
       PROVE  TypeOK'
  BY <1>13 DEF Answer, LoseWorker, Continue
<1>14. QED
  BY <1>1, <1>2, <1>3, <1>4, <1>5, <1>6, <1>7, <1>8, <1>9, <1>10, <1>11, <1>12, <1>13
  DEF Next, Resolve, Work

\* Rows, cached copies and requests in flight keep their types; in particular no
\* cached copy is ever trusted for longer than SESSION_CACHE_TTL_SECONDS.
THEOREM TypeCorrect == Spec => []TypeOK
<1>1. Init => TypeOK
  BY MaxProfileAssumption DEF Init, TypeOK
<1>2. QED
  BY <1>1, TypeStep, PTL DEF Spec

\* A revoked row stays revoked: nothing in the service clears revokedAt.
LEMMA RevokedStays ==
  ASSUME TypeOK, [Next]_vars, NEW s \in Sessions, row[s] = "revoked"
  PROVE  row'[s] = "revoked"
BY DEF TypeOK, Next, vars, Resolve, Work, Tick, Open, Expire, MissCache, ReadRow, WriteCache,
       LoseResolver, Logout, RevokeOthers, ListOthers, RevokeListed, UpdateProfile, ListCached,
       Evict, Answer, LoseWorker

\* No request reads a revoked row into its hands.
LEMMA NoNewCopy ==
  ASSUME TypeOK, [Next]_vars, NEW s \in Sessions, row[s] = "revoked", ~Filling(s)
  PROVE  ~Filling(s)'
<1>1. ASSUME NEW r \in Resolvers, Resolve(r)
      PROVE  ~Filling(s)'
  <2>1. ASSUME NEW q \in Resolvers, q # r
        PROVE  resolver'[q] = resolver[q]
    BY <1>1, <2>1 DEF Resolve, MissCache, ReadRow, WriteCache, LoseResolver, TypeOK
  <2>2. ~(resolver'[r].pc = "filling" /\ resolver'[r].session = s)
    BY <1>1 DEF Resolve, MissCache, ReadRow, WriteCache, LoseResolver, TypeOK, LiveRow, NoResolver
  <2>3. QED
    BY <2>1, <2>2 DEF Filling
<1>2. CASE UNCHANGED resolver
  BY <1>2 DEF Filling
<1>3. QED
  BY <1>1, <1>2 DEF Next, vars, Tick, Open, Expire, Work, Logout, RevokeOthers, Evict,
     ListOthers, RevokeListed, UpdateProfile, ListCached, Answer, LoseWorker

\* Only a request with a copy in its hands puts one into Redis.
LEMMA NoNewEntry ==
  ASSUME TypeOK, [Next]_vars, NEW s \in Sessions, cache[s] = Miss, ~Filling(s)
  PROVE  cache'[s] = Miss
<1>1. ASSUME NEW r \in Resolvers, WriteCache(r)
      PROVE  cache'[s] = Miss
  BY <1>1 DEF WriteCache, Filling, TypeOK
<1>2. CASE Tick
  BY <1>2 DEF Tick, Miss
<1>3. ASSUME NEW w \in Workers, NEW t \in Sessions, Evict(w, t)
      PROVE  cache'[s] = Miss
  BY <1>3 DEF Evict, TypeOK
<1>4. QED
  BY <1>1, <1>2, <1>3 DEF Next, vars, Open, Expire, Resolve, Work, MissCache, ReadRow,
     LoseResolver, Logout, RevokeOthers, ListOthers, RevokeListed, UpdateProfile, ListCached,
     Answer, LoseWorker

\* A revoked session that has left Redis and every request's hands is gone for
\* good, whatever fails and however requests interleave.
THEOREM NoResurrection == Spec => GoneForGood
<1>1. TypeOK /\ [Next]_vars => [\A s \in Sessions : Gone(s) => Gone(s)']_vars
  BY RevokedStays, NoNewCopy, NoNewEntry DEF Gone
<1>2. QED
  BY <1>1, TypeCorrect, PTL DEF Spec, GoneForGood

-----------------------------------------------------------------------------
(* The entry in the browser.                                                *)

Entry ==
  [has : BOOLEAN, version : Nat, owner : Users \cup {Nobody}, guess : BOOLEAN,
   stale : BOOLEAN, failed : BOOLEAN, joined : BOOLEAN]
Fetch ==
  [step : {"none", "asked", "answered"}, version : Nat, owner : Users \cup {Nobody},
   joined : BOOLEAN]
Operations == UNION {Pages[name].offers : name \in PageNames}
Effects(resource) == {Effect(o, resource) : o \in Operations}
Mutation(resource) ==
  [step : {"sent", "committed", "refetching"}, operation : Effects(resource), version : Nat,
   snapshot : Entry]

ClientTypeOK ==
  /\ watched \in Resources
  /\ page \in PageNames
  /\ who \in Users \cup {Nobody}
  /\ version \in Nat
  /\ entry \in Entry
  /\ fetch \in Fetch
  /\ mutation \in [Mutations -> Mutation(watched) \cup {NoMutation}]
  /\ due \in Nat

\* Only what is on screen is fetched.
FetchShown == fetch # NoFetch => Shown

\* What the user was told was done, and what the client is about to tell, has been done.
ToldIsDone ==
  /\ due <= version
  /\ \A m \in Mutations : mutation[m].step = "committed" => mutation[m].version <= version

\* The operation has put a guess on screen, or will put back what was there.
Guessing(m) ==
  /\ mutation[m].step \in {"sent", "committed"}
  /\ mutation[m].operation.kind = "guess"
  /\ mutation[m].operation.invalidates

\* What is put back is put back over a guess, and what is waited for is a page.
MutationsSound ==
  \A m \in Mutations :
    /\ mutation[m].step \in {"sent", "committed"} => Guessing(m) \/ ~mutation[m].snapshot.has
    /\ mutation[m].step = "refetching" => mutation[m].operation.then # "stay"

\* An entry that nothing is about to replace is current and the user's own.
EntryGood ==
  entry.has /\ ~entry.stale =>
    \/ \E m \in Mutations : Guessing(m)
    \/ /\ ~entry.guess
       /\ entry.version >= due \/ entry.joined
       /\ who # Nobody => entry.owner = who

\* So is the answer that is about to become the entry.
FetchGood ==
  fetch.step = "answered" =>
    /\ fetch.version >= due \/ fetch.joined
    /\ who # Nobody => fetch.owner = who

ClientInv ==
  ClientTypeOK /\ FetchShown /\ ToldIsDone /\ MutationsSound /\ EntryGood /\ FetchGood

\* The pages, by name.
LEMMA PageNamesListed ==
  PageNames = {"signIn", "signUp", "onboarding", "organizations", "profile", "overview",
               "projects", "project", "workItems", "teams", "workspaces", "members",
               "settings", "apiKeys", "activity"}
BY DEF PageNames, Pages

\* The operations that some page offers.
LEMMA OperationsListed ==
  Operations \subseteq
    {SignIn, SignUp, CreateOrganization, Rename, ChangePassword, SignOut, CreateProject,
     EditProject, DeleteProject, ChangeStatus, CreateTeam, RemoveTeamMember, CreateWorkspace,
     DeleteWorkspace, ChangeRole, RemoveMember, Invite, RevokeInvitation, RenameOrganization,
     SaveAccessPolicy, SaveSessionPolicy, DeleteOrganization, CreateKey, RevokeKey}
BY PageNamesListed
   DEF Operations, Pages, Page, ShellPage, SignInPage, SignUpPage, OnboardingPage,
       OrganizationsPage, ProfilePage, OverviewPage, ProjectsPage, ProjectPage, WorkItemsPage,
       TeamsPage, WorkspacesPage, MembersPage, SettingsPage, ApiKeysPage, ActivityPage

\* The shell is on every page that has one: it shows who is signed in, and where.
LEMMA ShellShows ==
  \A name \in PageNames : Pages[name].shell => {"me", "organizations"} \subseteq Pages[name].shows
BY PageNamesListed
   DEF Pages, Page, ShellPage, SignInPage, SignUpPage, OnboardingPage,
       OrganizationsPage, ProfilePage, OverviewPage, ProjectsPage, ProjectPage, WorkItemsPage,
       TeamsPage, WorkspacesPage, MembersPage, SettingsPage, ApiKeysPage, ActivityPage


\* Sessions change with the cache cleared only, and what clears it leads to a page.
Sound(o) ==
  /\ o.session # "keep" => o.kind = "clear"
  /\ o.kind = "clear" => o.then \in PageNames

\* Every operation is sound, whatever it changes and invalidates.
LEMMA OperationFacts ==
  ASSUME NEW o \in Operations
  PROVE  /\ \E c, n, i, k, s, t : o = [changes |-> c, names |-> n, invalidates |-> i, kind |-> k,
                                       session |-> s, then |-> t]
         /\ o.kind \in {"plain", "guess", "clear"}
         /\ o.then \in PageNames \cup {"stay"}
         /\ Sound(o)
<1>1. CASE o \in {CreateTeam, RemoveTeamMember, EditProject, CreateWorkspace, DeleteWorkspace,
                  RenameOrganization, SaveAccessPolicy, SaveSessionPolicy, CreateKey, RevokeKey,
                  ChangeRole, RemoveMember, Invite, RevokeInvitation, Rename, ChangePassword}
  <2>1. PICK w, n : o = Operation(w, n)
    BY <1>1, Zenon
       DEF CreateTeam, RemoveTeamMember, EditProject, CreateWorkspace, DeleteWorkspace,
           RenameOrganization, SaveAccessPolicy, SaveSessionPolicy, SaveSettings, CreateKey,
           RevokeKey, ChangeRole, RemoveMember, Invite, RevokeInvitation, Rename, ChangePassword
  <2>2. QED
    BY <2>1 DEF Operation, Sound
<1>2. CASE o \in {CreateProject, DeleteProject, CreateOrganization, ChangeStatus}
  <2>1. PICK c, n, i, k, t :
          /\ o = [changes |-> c, names |-> n, invalidates |-> i, kind |-> k, session |-> "keep",
                  then |-> t]
          /\ k \in {"plain", "guess"}
          /\ t \in {"project", "projects", "overview", "stay"}
    BY <1>2 DEF CreateProject, DeleteProject, CreateOrganization, ChangeStatus, Leading, Operation
  <2>2. QED
    BY <2>1, PageNamesListed DEF Sound
<1>3. CASE o \in {SignIn, SignUp, SignOut, DeleteOrganization}
  <2>1. PICK c, n, i, s, t :
          /\ o = [changes |-> c, names |-> n, invalidates |-> i, kind |-> "clear", session |-> s,
                  then |-> t]
          /\ t \in {"overview", "onboarding", "signIn", "organizations"}
    BY <1>3 DEF SignIn, SignUp, SignOut, DeleteOrganization, Clearing, Leading, Operation
  <2>2. QED
    BY <2>1, PageNamesListed DEF Sound
<1>4. QED
  BY <1>1, <1>2, <1>3, OperationsListed

\* The same, for one resource.
LEMMA EffectFacts ==
  ASSUME NEW resource, NEW e \in Effects(resource)
  PROVE  /\ e.changes \in BOOLEAN /\ e.names \in BOOLEAN /\ e.invalidates \in BOOLEAN
         /\ e.kind \in {"plain", "guess", "clear"}
         /\ e.then \in PageNames \cup {"stay"}
         /\ Sound(e)
<1>1. PICK o \in Operations : e = Effect(o, resource)
  BY DEF Effects
<1>2. PICK c, n, i, k, s, t :
        o = [changes |-> c, names |-> n, invalidates |-> i, kind |-> k, session |-> s, then |-> t]
  BY OperationFacts, Zenon
<1>3. e = [changes |-> resource \in c, names |-> resource \in n, invalidates |-> resource \in i,
           kind |-> k, session |-> s, then |-> t]
  <2> DEFINE whole == [changes |-> c, names |-> n, invalidates |-> i, kind |-> k, session |-> s,
                       then |-> t]
  <2>1. \A x, y, z : [whole EXCEPT !.changes = x, !.names = y, !.invalidates = z]
                     = [changes |-> x, names |-> y, invalidates |-> z, kind |-> k, session |-> s,
                        then |-> t]
    <3> TAKE x, y, z
    <3>1. [whole EXCEPT !.changes = x]
            = [changes |-> x, names |-> n, invalidates |-> i, kind |-> k, session |-> s, then |-> t]
      OBVIOUS
    <3>2. [[changes |-> x, names |-> n, invalidates |-> i, kind |-> k, session |-> s, then |-> t]
             EXCEPT !.names = y]
            = [changes |-> x, names |-> y, invalidates |-> i, kind |-> k, session |-> s, then |-> t]
      OBVIOUS
    <3>3. [[changes |-> x, names |-> y, invalidates |-> i, kind |-> k, session |-> s, then |-> t]
             EXCEPT !.invalidates = z]
            = [changes |-> x, names |-> y, invalidates |-> z, kind |-> k, session |-> s, then |-> t]
      OBVIOUS
    <3>4. QED
      BY <3>1, <3>2, <3>3
  <2>2. whole.changes = c /\ whole.names = n /\ whole.invalidates = i
    OBVIOUS
  <2> HIDE DEF whole
  <2>3. Effect(whole, resource)
          = [changes |-> resource \in c, names |-> resource \in n,
             invalidates |-> resource \in i, kind |-> k, session |-> s, then |-> t]
    <3>1. Effect(whole, resource)
            = [whole EXCEPT !.changes = resource \in whole.changes,
                            !.names = resource \in whole.names,
                            !.invalidates = resource \in whole.invalidates]
      BY Zenon DEF Effect
    <3>2. [whole EXCEPT !.changes = resource \in c, !.names = resource \in n,
                        !.invalidates = resource \in i]
            = [changes |-> resource \in c, names |-> resource \in n,
               invalidates |-> resource \in i, kind |-> k, session |-> s, then |-> t]
      BY <2>1, Zenon
    <3>3. QED
      BY <2>2, <3>1, <3>2
  <2>4. QED
    BY <1>1, <1>2, <2>3 DEF whole
<1>4. /\ e.changes \in BOOLEAN /\ e.names \in BOOLEAN /\ e.invalidates \in BOOLEAN
      /\ e.kind = o.kind /\ e.then = o.then
      /\ e.session = o.session
  BY <1>2, <1>3
<1>5. QED
  BY <1>4, OperationFacts DEF Sound

\* What a page offers to the entry's user is an operation, as it touches the entry.
LEMMA OffersAreEffects ==
  ASSUME NEW resource \in Resources, NEW name \in PageNames
  PROVE  Kind[resource][name].offers \subseteq Effects(resource)
<1>1. Kind[resource][name].offers =
        {operation \in {Effect(o, resource) : o \in Pages[name].offers} :
           ~Untouched(operation)}
  BY Zenon DEF Kind
<1>2. QED
  BY <1>1, Zenon DEF Effects, Operations

\* The pages that stand for their kind are pages.
LEMMA VisitedArePages ==
  ASSUME NEW resource \in Resources, NEW name \in Visited[resource]
  PROVE  name \in PageNames
<1>1. Visited[resource] =
        {CHOOSE n \in PageNames : Kind[resource][n] = kind :
           kind \in {k \in Kinds(resource) : \A other \in Kinds(resource) : ~Outdone(k, other)}}
  BY Zenon DEF Visited
<1>2. PICK kind \in Kinds(resource) : name = CHOOSE n \in PageNames : Kind[resource][n] = kind
  BY <1>1
<1>3. PICK n \in PageNames : Kind[resource][n] = kind
  BY <1>2 DEF Kinds
<1>4. QED
  BY <1>2, <1>3

\* What the steps of a mutation need to know of it.
LEMMA MutationFacts ==
  ASSUME ClientTypeOK, NEW m \in Mutations, mutation[m].step # "none"
  PROVE  /\ mutation[m] \in Mutation(watched)
         /\ mutation[m].snapshot \in Entry
         /\ mutation[m].operation \in Effects(watched)
BY DEF ClientTypeOK, Mutation, NoMutation

\* The absent entry is an entry without data.
LEMMA AbsentTyped == Absent \in Entry /\ ~Absent.has
BY NobodyIsNoUser DEF Absent, Entry

\* What may be in flight is no fetch, a fetch without an answer, or one with an answer.
LEMMA FetchesTyped ==
  /\ NoFetch \in Fetch /\ NoFetch.step = "none"
  /\ Asked \in Fetch /\ Asked.step = "asked"
BY DEF NoFetch, Asked, Fetch

\* Neither of the two is an answer, and only what is on screen is asked for.
LEMMA FetchOnFacts ==
  ASSUME NEW name, NEW e
  PROVE  /\ FetchOn(name, e) \in Fetch
         /\ FetchOn(name, e).step # "answered"
         /\ FetchOn(name, e) # NoFetch => On(name)
BY FetchesTyped DEF FetchOn

\* The client starts with nobody signed in, an empty cache and no mutation.
LEMMA ClientInitInv == ClientInit => ClientInv
<1> SUFFICES ASSUME ClientInit
             PROVE  ClientInv
  OBVIOUS
<1> USE DEF ClientInit
<1>1. ClientTypeOK
  <2>1. page \in PageNames
    BY VisitedArePages
  <2>2. who \in Users \cup {Nobody}
    BY NobodyIsNoUser
  <2>3. mutation \in [Mutations -> Mutation(watched) \cup {NoMutation}]
    OBVIOUS
  <2>4. QED
    BY <2>1, <2>2, <2>3, AbsentTyped, FetchesTyped DEF ClientTypeOK
<1>2. FetchShown
  BY DEF FetchShown, Shown, On
<1>3. ToldIsDone /\ MutationsSound
  BY DEF ToldIsDone, MutationsSound, NoMutation
<1>4. EntryGood /\ FetchGood
  BY AbsentTyped, FetchesTyped DEF EntryGood, FetchGood
<1>5. QED
  BY <1>1, <1>2, <1>3, <1>4 DEF ClientInv

\* The parts that neither the page, nor the entry, nor the fetch has to do with.
LEMMA MutationsKept ==
  ASSUME ToldIsDone, MutationsSound, UNCHANGED <<version, due, mutation>>
  PROVE  /\ ToldIsDone' /\ MutationsSound'
         /\ \A m \in Mutations : Guessing(m)' = Guessing(m)
BY DEF ToldIsDone, MutationsSound, Guessing

\* Going to another page leaves the entry and the mutations as they are, and fetches at
\* most the entry.
LEMMA GoToKeeps ==
  ASSUME ClientInv, NEW name \in PageNames, GoTo(name), UNCHANGED watched
  PROVE  /\ fetch' \in Fetch
         /\ FetchShown'
         /\ fetch'.step = "answered" => fetch' = fetch
<1>1. CASE Pages[page].shell /\ Pages[name].shell /\ watched \in {"me", "organizations"}
  <2>1. watched \in Pages[name].shows
    BY <1>1, ShellShows
  <2>2. QED
    BY <1>1, <2>1 DEF GoTo, ClientInv, ClientTypeOK, FetchShown, Shown, On
<1>2. CASE ~(Pages[page].shell /\ Pages[name].shell /\ watched \in {"me", "organizations"})
  <2>1. fetch' = FetchOn(name, entry) /\ page' = name
    BY <1>2, Zenon DEF GoTo
  <2>2. QED
    BY <2>1, FetchOnFacts DEF FetchShown, Shown, On
<1>3. QED
  BY <1>1, <1>2

\* The user follows a link.
LEMMA NavigateKeeps ==
  ASSUME ClientInv, NEW name \in Visited[watched], Navigate(name)
  PROVE  ClientInv'
<1>1. name \in PageNames
  BY VisitedArePages DEF ClientInv, ClientTypeOK
<1>2. GoTo(name) /\ page' = name /\ UNCHANGED <<watched, who, version, entry, mutation, due>>
  BY DEF Navigate, GoTo, server, promised
<1>3. fetch' \in Fetch /\ FetchShown' /\ (fetch'.step = "answered" => fetch' = fetch)
  BY <1>1, <1>2, GoToKeeps
<1>4. ToldIsDone' /\ MutationsSound' /\ \A m \in Mutations : Guessing(m)' = Guessing(m)
  BY <1>2, MutationsKept DEF ClientInv
<1>5. ClientTypeOK'
  BY <1>1, <1>2, <1>3 DEF ClientInv, ClientTypeOK
<1>6. EntryGood' /\ FetchGood'
  BY <1>2, <1>3, <1>4 DEF ClientInv, EntryGood, FetchGood
<1>7. QED
  BY <1>3, <1>4, <1>5, <1>6 DEF ClientInv

\* The window gets the focus: a stale entry is fetched.
LEMMA FocusKeeps == ClientInv /\ Focus => ClientInv'
<1> SUFFICES ASSUME ClientInv, Focus
             PROVE  ClientInv'
  OBVIOUS
<1>1. /\ Shown /\ fetch' = Asked
      /\ UNCHANGED <<watched, page, who, version, entry, mutation, due>>
  BY DEF Focus, server, promised
<1>2. ToldIsDone' /\ MutationsSound' /\ \A m \in Mutations : Guessing(m)' = Guessing(m)
  BY <1>1, MutationsKept DEF ClientInv
<1>3. ClientTypeOK' /\ FetchShown' /\ FetchGood'
  BY <1>1, FetchesTyped DEF ClientInv, ClientTypeOK, FetchShown, Shown, On, FetchGood
<1>4. EntryGood'
  BY <1>1, <1>2 DEF ClientInv, EntryGood
<1>5. QED
  BY <1>2, <1>3, <1>4 DEF ClientInv

\* The API answers a fetch with the data of the moment.
LEMMA RespondKeeps == ClientInv /\ Respond => ClientInv'
<1> SUFFICES ASSUME ClientInv, Respond
             PROVE  ClientInv'
  OBVIOUS
<1>1. /\ fetch.step = "asked" /\ who # Nobody
      /\ fetch' = [fetch EXCEPT !.step = "answered", !.version = version, !.owner = who]
      /\ UNCHANGED <<watched, page, who, version, entry, mutation, due>>
  BY DEF Respond, server, promised
<1>2. ToldIsDone' /\ MutationsSound' /\ \A m \in Mutations : Guessing(m)' = Guessing(m)
  BY <1>1, MutationsKept DEF ClientInv
<1>3. fetch' \in Fetch /\ fetch'.version = version /\ fetch'.owner = who
  BY <1>1 DEF ClientInv, ClientTypeOK, Fetch
<1>4. ClientTypeOK'
  BY <1>1, <1>3 DEF ClientInv, ClientTypeOK
<1>5. FetchShown'
  BY <1>1, FetchesTyped DEF ClientInv, FetchShown, Shown, On
<1>6. FetchGood'
  BY <1>1, <1>3 DEF ClientInv, ClientTypeOK, ToldIsDone, FetchGood
<1>7. EntryGood'
  BY <1>1, <1>2 DEF ClientInv, EntryGood
<1>8. QED
  BY <1>2, <1>4, <1>5, <1>6, <1>7 DEF ClientInv

\* The answer becomes the entry; it is of no earlier data than the entry was due.
LEMMA ReceiveKeeps == ClientInv /\ Receive => ClientInv'
<1> SUFFICES ASSUME ClientInv, Receive
             PROVE  ClientInv'
  OBVIOUS
<1>1. /\ fetch.step = "answered" /\ fetch' = NoFetch
      /\ entry' = [Absent EXCEPT !.has = TRUE, !.version = fetch.version,
                                 !.owner = fetch.owner, !.joined = fetch.joined]
      /\ UNCHANGED <<watched, page, who, version, mutation, due>>
  BY DEF Receive, server, promised
<1>2. ToldIsDone' /\ MutationsSound' /\ \A m \in Mutations : Guessing(m)' = Guessing(m)
  BY <1>1, MutationsKept DEF ClientInv
<1>3. /\ entry' \in Entry /\ ~entry'.guess /\ entry'.version = fetch.version
      /\ entry'.owner = fetch.owner /\ entry'.joined = fetch.joined
  BY <1>1 DEF ClientInv, ClientTypeOK, Fetch, Entry, Absent
<1>4. ClientTypeOK' /\ FetchShown' /\ FetchGood'
  BY <1>1, <1>3, FetchesTyped DEF ClientInv, ClientTypeOK, FetchShown, FetchGood
<1>5. EntryGood'
  BY <1>1, <1>3 DEF ClientInv, EntryGood, FetchGood
<1>6. QED
  BY <1>2, <1>4, <1>5 DEF ClientInv

\* A fetch that fails leaves what was on screen.
LEMMA FetchFailsKeeps == ClientInv /\ FetchFails => ClientInv'
<1> SUFFICES ASSUME ClientInv, FetchFails
             PROVE  ClientInv'
  OBVIOUS
<1>1. /\ fetch' = NoFetch /\ entry' = [entry EXCEPT !.failed = TRUE]
      /\ UNCHANGED <<watched, page, who, version, mutation, due>>
  BY DEF FetchFails, server, promised
<1>2. ToldIsDone' /\ MutationsSound' /\ \A m \in Mutations : Guessing(m)' = Guessing(m)
  BY <1>1, MutationsKept DEF ClientInv
<1>3. ClientTypeOK' /\ FetchShown' /\ FetchGood'
  BY <1>1, FetchesTyped DEF ClientInv, ClientTypeOK, Entry, FetchShown, FetchGood
<1>4. EntryGood'
  BY <1>1, <1>2 DEF ClientInv, ClientTypeOK, Entry, EntryGood
<1>5. QED
  BY <1>2, <1>3, <1>4 DEF ClientInv

\* The session ends on the server: the client does not know yet.
LEMMA SessionEndsKeeps == ClientInv /\ SessionEnds => ClientInv'
<1> SUFFICES ASSUME ClientInv, SessionEnds
             PROVE  ClientInv'
  OBVIOUS
<1>1. who' = Nobody /\ UNCHANGED <<watched, page, version, entry, fetch, mutation, due>>
  BY DEF SessionEnds, promised
<1>2. ToldIsDone' /\ MutationsSound' /\ \A m \in Mutations : Guessing(m)' = Guessing(m)
  BY <1>1, MutationsKept DEF ClientInv
<1>3. ClientTypeOK' /\ FetchShown' /\ FetchGood'
  BY <1>1 DEF ClientInv, ClientTypeOK, FetchShown, Shown, On, FetchGood
<1>4. EntryGood'
  BY <1>1, <1>2 DEF ClientInv, EntryGood
<1>5. QED
  BY <1>2, <1>3, <1>4 DEF ClientInv

\* A cache that is cleared holds nothing of anybody.
LEMMA StartOverKeeps ==
  ASSUME ClientInv, NEW name \in PageNames, StartOver(name), UNCHANGED watched
  PROVE  /\ page' \in PageNames /\ entry' \in Entry /\ fetch' \in Fetch
         /\ FetchShown' /\ EntryGood' /\ FetchGood'
<1>1. page' = name /\ entry' = Absent /\ fetch' = FetchOn(name, Absent)
  BY Zenon DEF StartOver
<1>2. FetchShown'
  BY <1>1, FetchOnFacts DEF FetchShown, Shown, On
<1>3. EntryGood' /\ FetchGood'
  BY <1>1, FetchOnFacts, AbsentTyped DEF EntryGood, FetchGood
<1>4. QED
  BY <1>1, <1>2, <1>3, FetchOnFacts, AbsentTyped

\* Signing out clears the cache.
LEMMA LeaveKeeps == ClientInv /\ Leave => ClientInv'
<1> SUFFICES ASSUME ClientInv, Leave
             PROVE  ClientInv'
  OBVIOUS
<1>1. /\ StartOver("signIn") /\ "signIn" \in PageNames
      /\ mutation' = [m \in Mutations |-> NoMutation]
      /\ UNCHANGED <<watched, who, version, due>>
  BY PageNamesListed DEF Leave, server, promised
<1>2. /\ page' \in PageNames /\ entry' \in Entry /\ fetch' \in Fetch
      /\ FetchShown' /\ EntryGood' /\ FetchGood'
  BY <1>1, StartOverKeeps
<1>3. ToldIsDone' /\ MutationsSound'
  BY <1>1 DEF ClientInv, ToldIsDone, MutationsSound, NoMutation
<1>4. ClientTypeOK'
  BY <1>1, <1>2 DEF ClientInv, ClientTypeOK
<1>5. QED
  BY <1>2, <1>3, <1>4 DEF ClientInv

\* A change to one mutation leaves the others in their types and at their guesses.
LEMMA SetTyped ==
  ASSUME ClientTypeOK, UNCHANGED watched, NEW m \in Mutations,
         NEW state \in Mutation(watched) \cup {NoMutation}, Set(m, state)
  PROVE  /\ mutation' \in [Mutations -> Mutation(watched)' \cup {NoMutation}]
         /\ mutation'[m] = state
         /\ \A n \in Mutations \ {m} : mutation'[n] = mutation[n] /\ Guessing(n)' = Guessing(n)
<1>1. Mutation(watched)' = Mutation(watched)
  BY DEF Mutation, Effects
<1>2. mutation' = [mutation EXCEPT ![m] = state]
  BY DEF Set
<1>3. /\ mutation' \in [Mutations -> Mutation(watched)' \cup {NoMutation}]
      /\ mutation'[m] = state
      /\ \A n \in Mutations \ {m} : mutation'[n] = mutation[n]
  BY <1>1, <1>2 DEF ClientTypeOK
<1>4. QED
  BY <1>3 DEF Guessing

\* A mutation begins, with its guess if it has one.
LEMMA SubmitKeeps ==
  ASSUME ClientInv, NEW m \in Mutations, NEW o \in Kind[watched][page].offers, Submit(m, o)
  PROVE  ClientInv'
<1> DEFINE guessing == o.kind = "guess" /\ o.invalidates
           snapshot == IF guessing THEN entry ELSE Absent
           sent == [step |-> "sent", operation |-> o, version |-> 0, snapshot |-> snapshot]
<1>1. /\ mutation[m] = NoMutation /\ Set(m, sent)
      /\ fetch' = IF guessing THEN NoFetch ELSE fetch
      /\ entry' = IF guessing /\ entry.has
                  THEN [entry EXCEPT !.guess = TRUE, !.stale = FALSE] ELSE entry
      /\ UNCHANGED <<watched, page, who, version, due>>
  BY DEF Submit, server, promised
<1>2. o \in Effects(watched)
  BY OffersAreEffects DEF ClientInv, ClientTypeOK
<1>3. snapshot \in Entry /\ (~guessing => ~snapshot.has)
  BY AbsentTyped DEF ClientInv, ClientTypeOK
<1>4. sent \in Mutation(watched)
  BY <1>2, <1>3 DEF Mutation
<1>5. /\ mutation' \in [Mutations -> Mutation(watched)' \cup {NoMutation}]
      /\ mutation'[m] = sent
      /\ \A n \in Mutations \ {m} : mutation'[n] = mutation[n] /\ Guessing(n)' = Guessing(n)
  BY <1>1, <1>4, SetTyped DEF ClientInv
<1>6. /\ mutation'[m].step = "sent" /\ mutation'[m].snapshot = snapshot
      /\ Guessing(m)' <=> guessing
  <2>1. sent.step = "sent" /\ sent.operation = o /\ sent.snapshot = snapshot
    <3> HIDE DEF snapshot
    <3> QED
      OBVIOUS
  <2> HIDE DEF sent
  <2>2. QED
    BY <1>5, <2>1 DEF Guessing
<1>7. ~Guessing(m)
  BY <1>1 DEF Guessing, NoMutation
<1>8. ClientTypeOK'
  <2>1. fetch' \in Fetch
    BY <1>1, FetchesTyped DEF ClientInv, ClientTypeOK
  <2>2. entry' \in Entry
    BY <1>1 DEF ClientInv, ClientTypeOK, Entry
  <2>3. QED
    BY <1>1, <1>5, <2>1, <2>2 DEF ClientInv, ClientTypeOK
<1>9. FetchShown' /\ FetchGood'
  BY <1>1, FetchesTyped DEF ClientInv, FetchShown, Shown, On, FetchGood
<1>10. ToldIsDone'
  BY <1>1, <1>5 DEF ClientInv, ToldIsDone
<1>11. MutationsSound'
  <2>1. ASSUME NEW n \in Mutations \ {m}
        PROVE  /\ mutation'[n].step \in {"sent", "committed"}
                    => Guessing(n)' \/ ~mutation'[n].snapshot.has
               /\ mutation'[n].step = "refetching" => mutation'[n].operation.then # "stay"
    BY <1>5 DEF ClientInv, MutationsSound
  <2>2. mutation'[m].step = "sent" /\ (Guessing(m)' \/ ~mutation'[m].snapshot.has)
    BY <1>3, <1>6
  <2>3. QED
    BY <2>1, <2>2 DEF MutationsSound
<1>12. EntryGood'
  <2>1. CASE guessing
    BY <1>6, <2>1 DEF EntryGood
  <2>2. CASE ~guessing
    <3>1. entry' = entry
      BY <1>1, <2>2
    <3>2. (\E n \in Mutations : Guessing(n)) => \E n \in Mutations : Guessing(n)'
      BY <1>5, <1>7
    <3>3. QED
      BY <1>1, <3>1, <3>2 DEF ClientInv, EntryGood
  <2>3. QED
    BY <2>1, <2>2
<1>13. QED
  BY <1>8, <1>9, <1>10, <1>11, <1>12 DEF ClientInv

\* The API does what a mutation asks: the data change, and the mutation knows.
LEMMA CommitKeeps ==
  ASSUME ClientInv, NEW m \in Mutations, Commit(m)
  PROVE  ClientInv'
<1> DEFINE o == mutation[m].operation
           done == [mutation[m] EXCEPT !.step = "committed",
                                       !.version = IF o.changes THEN version' ELSE 0]
<1>1. /\ mutation[m].step = "sent" /\ Set(m, done)
      /\ version' = IF o.changes THEN version + 1 ELSE version
      /\ who' = IF o.session = "close" THEN Nobody ELSE who
      /\ UNCHANGED <<watched, page, entry, fetch, due>>
  BY DEF Commit, promised
<1>2. mutation[m] \in Mutation(watched) /\ o \in Effects(watched)
  BY <1>1, MutationFacts DEF ClientInv
<1>3. version' \in Nat /\ version <= version'
  BY <1>1 DEF ClientInv, ClientTypeOK
<1>4. /\ done \in Mutation(watched)
      /\ done.step = "committed" /\ done.operation = o /\ done.snapshot = mutation[m].snapshot
      /\ done.version = IF o.changes THEN version' ELSE 0
  BY <1>2, <1>3 DEF Mutation
<1> HIDE DEF done
<1>5. /\ mutation' \in [Mutations -> Mutation(watched)' \cup {NoMutation}]
      /\ mutation'[m] = done
      /\ \A n \in Mutations \ {m} : mutation'[n] = mutation[n] /\ Guessing(n)' = Guessing(n)
  BY <1>1, <1>4, SetTyped DEF ClientInv
<1>6. Guessing(m)' = Guessing(m)
  BY <1>1, <1>4, <1>5 DEF Guessing
<1>7. ClientTypeOK'
  BY <1>1, <1>3, <1>5 DEF ClientInv, ClientTypeOK
<1>8. FetchShown' /\ FetchGood'
  BY <1>1 DEF ClientInv, FetchShown, Shown, On, FetchGood
<1>9. ToldIsDone'
  <2>1. due' <= version'
    BY <1>1, <1>3 DEF ClientInv, ClientTypeOK, ToldIsDone
  <2>2. ASSUME NEW n \in Mutations, mutation'[n].step = "committed"
        PROVE  mutation'[n].version <= version'
    <3>1. CASE n = m
      BY <1>3, <1>4, <1>5, <3>1
    <3>2. CASE n # m
      <4>1. mutation'[n] = mutation[n] /\ mutation[n].step = "committed"
        BY <1>5, <2>2, <3>2
      <4>2. mutation[n].version \in Nat
        BY <4>1, MutationFacts DEF ClientInv, Mutation
      <4>3. QED
        BY <1>3, <4>1, <4>2 DEF ClientInv, ClientTypeOK, ToldIsDone
    <3>3. QED
      BY <3>1, <3>2
  <2>3. QED
    BY <2>1, <2>2 DEF ToldIsDone
<1>10. MutationsSound'
  <2>1. ASSUME NEW n \in Mutations
        PROVE  /\ mutation'[n].step \in {"sent", "committed"}
                    => Guessing(n)' \/ ~mutation'[n].snapshot.has
               /\ mutation'[n].step = "refetching" => mutation'[n].operation.then # "stay"
    BY <1>1, <1>4, <1>5, <1>6 DEF ClientInv, MutationsSound
  <2>2. QED
    BY <2>1 DEF MutationsSound
<1>11. EntryGood'
  BY <1>1, <1>5, <1>6 DEF ClientInv, EntryGood
<1>12. QED
  BY <1>7, <1>8, <1>9, <1>10, <1>11 DEF ClientInv

\* A mutation that waited for its refetch ends.
LEMMA FinishKeeps ==
  ASSUME ClientInv, NEW m \in Mutations, Finish(m)
  PROVE  ClientInv'
<1> DEFINE then == mutation[m].operation.then
<1>1. /\ mutation[m].step = "refetching" /\ Set(m, NoMutation)
      /\ IF then = page THEN UNCHANGED <<page, fetch>> ELSE GoTo(then)
      /\ UNCHANGED <<watched, who, version, entry, due>>
  BY DEF Finish, server, promised
<1>2. /\ mutation' \in [Mutations -> Mutation(watched)' \cup {NoMutation}]
      /\ mutation'[m] = NoMutation
      /\ \A n \in Mutations \ {m} : mutation'[n] = mutation[n] /\ Guessing(n)' = Guessing(n)
  BY <1>1, SetTyped DEF ClientInv
<1>3. ~Guessing(m)
  BY <1>1 DEF Guessing
<1>4. ToldIsDone' /\ MutationsSound'
  BY <1>1, <1>2 DEF ClientInv, ToldIsDone, MutationsSound, Guessing, NoMutation
<1>5. EntryGood'
  BY <1>1, <1>2, <1>3 DEF ClientInv, EntryGood
<1>6. /\ page' \in PageNames /\ fetch' \in Fetch /\ FetchShown'
      /\ fetch'.step = "answered" => fetch' = fetch
  <2>1. CASE then = page
    BY <1>1, <2>1 DEF ClientInv, ClientTypeOK, FetchShown, Shown, On
  <2>2. CASE then # page
    <3>1. then \in PageNames
      BY <1>1, MutationFacts, EffectFacts DEF ClientInv, MutationsSound, Sound
    <3>2. GoTo(then) /\ page' = then
      BY <1>1, <2>2 DEF GoTo
    <3>3. QED
      BY <1>1, <3>1, <3>2, GoToKeeps
  <2>3. QED
    BY <2>1, <2>2
<1>7. ClientTypeOK' /\ FetchGood'
  BY <1>1, <1>2, <1>6 DEF ClientInv, ClientTypeOK, FetchGood
<1>8. QED
  BY <1>4, <1>5, <1>6, <1>7 DEF ClientInv

\* What is invalidated is stale, and an answer that is still awaited is joined.
LEMMA RefreshFacts ==
  ASSUME ClientInv, NEW o, NEW e \in Entry, Hold(Refresh(o, e, fetch)),
         UNCHANGED <<watched, page>>
  PROVE  /\ entry' \in Entry /\ fetch' \in Fetch /\ FetchShown'
         /\ o.invalidates => entry'.stale
         /\ ~o.invalidates => entry' = e /\ fetch' = fetch
         /\ fetch'.step = "answered" =>
              /\ fetch.step = "answered"
              /\ fetch'.version = fetch.version /\ fetch'.owner = fetch.owner
              /\ (o.invalidates \/ fetch.joined) => fetch'.joined
<1>1. CASE ~o.invalidates
  <2>1. entry' = e /\ fetch' = fetch
    BY <1>1 DEF Hold, Refresh
  <2>2. QED
    BY <1>1, <2>1 DEF ClientInv, ClientTypeOK, FetchShown, Shown, On
<1>2. CASE o.invalidates
  <2>1. /\ entry' = [e EXCEPT !.stale = TRUE]
        /\ fetch' = IF ~Shown THEN fetch
                    ELSE IF fetch # NoFetch /\ ~e.has THEN [fetch EXCEPT !.joined = TRUE]
                    ELSE Asked
    BY <1>2 DEF Hold, Refresh, Invalidated
  <2>2. entry' \in Entry /\ entry'.stale
    BY <2>1 DEF Entry
  <2>3. CASE ~Shown
    BY <1>2, <2>1, <2>2, <2>3, FetchesTyped DEF ClientInv, ClientTypeOK, FetchShown, Shown, On
  <2>4. CASE Shown /\ fetch # NoFetch /\ ~e.has
    <3>1. fetch' = [fetch EXCEPT !.joined = TRUE]
      BY <2>1, <2>4
    <3>2. /\ fetch' \in Fetch /\ fetch'.step = fetch.step /\ fetch'.version = fetch.version
          /\ fetch'.owner = fetch.owner /\ fetch'.joined
      BY <3>1 DEF ClientInv, ClientTypeOK, Fetch
    <3>3. FetchShown'
      BY <2>4 DEF FetchShown, Shown, On
    <3>4. QED
      BY <1>2, <2>2, <3>2, <3>3
  <2>5. CASE Shown /\ ~(fetch # NoFetch /\ ~e.has)
    BY <1>2, <2>1, <2>2, <2>5, FetchesTyped DEF FetchShown, Shown, On
  <2>6. QED
    BY <2>3, <2>4, <2>5
<1>3. QED
  BY <1>1, <1>2

\* What the user is told next has been done; nothing new is told without an invalidation.
LEMMA DueFacts ==
  ASSUME ClientInv, NEW m \in Mutations, mutation[m].step = "committed", NEW counts \in BOOLEAN,
         due' = Told(counts, due, mutation[m].version)
  PROVE  /\ due' \in Nat /\ due' <= version
         /\ ~counts => due' = due
<1>1. mutation[m].version \in Nat /\ mutation[m].version <= version
  BY MutationFacts DEF ClientInv, Mutation, ToldIsDone
<1>2. due \in Nat /\ due <= version
  BY DEF ClientInv, ClientTypeOK, ToldIsDone
<1>3. QED
  BY <1>1, <1>2 DEF Told

\* A mutation that is over, or that waits only for what it has invalidated, changes
\* nothing for the others.
LEMMA SetKeeps ==
  ASSUME ClientInv, UNCHANGED <<watched, version>>, due' <= version, NEW m \in Mutations,
         NEW state \in Mutation(watched) \cup {NoMutation}, Set(m, state),
         state = NoMutation \/ (state.step = "refetching" /\ state.operation.then # "stay")
  PROVE  /\ mutation' \in [Mutations -> Mutation(watched)' \cup {NoMutation}]
         /\ ToldIsDone' /\ MutationsSound'
         /\ \A n \in Mutations \ {m} : Guessing(n)' = Guessing(n)
<1>1. /\ mutation' \in [Mutations -> Mutation(watched)' \cup {NoMutation}]
      /\ mutation'[m] = state
      /\ \A n \in Mutations \ {m} : mutation'[n] = mutation[n] /\ Guessing(n)' = Guessing(n)
  BY SetTyped DEF ClientInv
<1>2. state.step \notin {"sent", "committed"}
      /\ (state.step = "refetching" => state.operation.then # "stay")
  BY DEF NoMutation
<1>3. ToldIsDone'
  BY <1>1, <1>2 DEF ClientInv, ToldIsDone
<1>4. MutationsSound'
  <2>1. ASSUME NEW n \in Mutations
        PROVE  /\ mutation'[n].step \in {"sent", "committed"}
                    => Guessing(n)' \/ ~mutation'[n].snapshot.has
               /\ mutation'[n].step = "refetching" => mutation'[n].operation.then # "stay"
    BY <1>1, <1>2 DEF ClientInv, MutationsSound
  <2>2. QED
    BY <2>1 DEF MutationsSound
<1>5. QED
  BY <1>1, <1>3, <1>4

\* A success is told to the client, which invalidates what the operation names.
LEMMA SucceedKeeps ==
  ASSUME ClientInv, NEW m \in Mutations, Succeed(m)
  PROVE  ClientInv'
<1> DEFINE o == mutation[m].operation
           waiting == [mutation[m] EXCEPT !.step = "refetching"]
<1>1. /\ mutation[m].step = "committed"
      /\ who' \in IF o.session = "open" THEN Users ELSE {who}
      /\ due' = Told(o.invalidates \/ o.kind = "clear", due, mutation[m].version)
      /\ UNCHANGED <<watched, version>>
  BY DEF Succeed
<1>2. mutation[m] \in Mutation(watched) /\ o \in Effects(watched)
  BY <1>1, MutationFacts DEF ClientInv
<1>3. due' \in Nat /\ due' <= version /\ (o.kind # "clear" /\ ~o.invalidates => due' = due)
  <2>1. (o.invalidates \/ o.kind = "clear") \in BOOLEAN
    BY <1>2, EffectFacts
  <2>2. QED
    BY <1>1, <2>1, DueFacts
<1>4. who' \in Users \cup {Nobody} /\ (o.kind # "clear" => who' = who)
  BY <1>1, <1>2, EffectFacts DEF Sound, ClientInv, ClientTypeOK
<1>5. CASE o.kind = "clear"
  <2>1. StartOver(o.then) /\ Set(m, NoMutation)
    BY <1>5 DEF Succeed
  <2>2. o.then \in PageNames
    BY <1>2, <1>5, EffectFacts DEF Sound
  <2>3. /\ page' \in PageNames /\ entry' \in Entry /\ fetch' \in Fetch
        /\ FetchShown' /\ EntryGood' /\ FetchGood'
    BY <1>1, <2>1, <2>2, StartOverKeeps
  <2>4. /\ mutation' \in [Mutations -> Mutation(watched)' \cup {NoMutation}]
        /\ ToldIsDone' /\ MutationsSound'
    BY <1>1, <1>3, <2>1, SetKeeps
  <2>5. ClientTypeOK'
    BY <1>1, <1>3, <1>4, <2>3, <2>4 DEF ClientInv, ClientTypeOK
  <2>6. QED
    BY <2>3, <2>4, <2>5 DEF ClientInv
<1>6. CASE o.kind # "clear"
  <2>1. /\ Hold(Refresh(o, entry, fetch))
        /\ Set(m, IF o.then = "stay" THEN NoMutation ELSE waiting)
        /\ UNCHANGED page
    BY <1>6 DEF Succeed
  <2>2. waiting \in Mutation(watched) /\ waiting.step = "refetching" /\ waiting.operation = o
    BY <1>2 DEF Mutation
  <2> HIDE DEF waiting
  <2>3. /\ mutation' \in [Mutations -> Mutation(watched)' \cup {NoMutation}]
        /\ ToldIsDone' /\ MutationsSound'
        /\ \A n \in Mutations \ {m} : Guessing(n)' = Guessing(n)
    <3> DEFINE state == IF o.then = "stay" THEN NoMutation ELSE waiting
    <3>1. /\ state \in Mutation(watched) \cup {NoMutation}
          /\ state = NoMutation \/ (state.step = "refetching" /\ state.operation.then # "stay")
      BY <2>2
    <3>2. Set(m, state)
      BY <2>1
    <3> HIDE DEF state
    <3>3. QED
      BY <1>1, <1>3, <3>1, <3>2, SetKeeps
  <2>4. /\ entry' \in Entry /\ fetch' \in Fetch /\ FetchShown'
        /\ o.invalidates => entry'.stale
        /\ ~o.invalidates => entry' = entry /\ fetch' = fetch
        /\ fetch'.step = "answered" =>
             /\ fetch.step = "answered"
             /\ fetch'.version = fetch.version /\ fetch'.owner = fetch.owner
             /\ (o.invalidates \/ fetch.joined) => fetch'.joined
    <3>1. entry \in Entry
      BY DEF ClientInv, ClientTypeOK
    <3>2. QED
      BY <1>1, <2>1, <3>1, RefreshFacts
  <2>5. ClientTypeOK'
    BY <1>1, <1>3, <1>4, <2>1, <2>3, <2>4 DEF ClientInv, ClientTypeOK
  <2>6. FetchGood'
    BY <1>3, <1>4, <1>6, <2>4 DEF ClientInv, FetchGood
  <2>7. EntryGood'
    <3>1. CASE o.invalidates
      BY <2>4, <3>1 DEF EntryGood
    <3>2. CASE ~o.invalidates
      <4>1. ~Guessing(m)
        BY <3>2 DEF Guessing
      <4>2. QED
        BY <1>3, <1>4, <1>6, <2>3, <2>4, <3>2, <4>1 DEF ClientInv, EntryGood
    <3>3. QED
      BY <3>1, <3>2
  <2>8. QED
    BY <2>3, <2>4, <2>5, <2>6, <2>7 DEF ClientInv
<1>7. QED
  BY <1>5, <1>6

\* A failure puts back what was there, and invalidates it.
LEMMA RecoverKeeps ==
  ASSUME ClientInv, NEW m \in Mutations, Recover(m)
  PROVE  ClientInv'
<1> DEFINE o == mutation[m].operation
           snapshot == mutation[m].snapshot
           restored == IF snapshot.has THEN snapshot ELSE entry
<1>1. /\ mutation[m].step \in {"sent", "committed"} /\ Set(m, NoMutation)
      /\ IF o.session = "close" THEN StartOver(o.then)
         ELSE Hold(Restored(o, snapshot)) /\ UNCHANGED page
      /\ UNCHANGED <<watched, who, version, due>>
  BY DEF Recover, server, promised
<1>2. o \in Effects(watched) /\ snapshot \in Entry
  BY <1>1, MutationFacts DEF ClientInv
<1>3. Guessing(m) \/ ~snapshot.has
  BY <1>1 DEF ClientInv, ToldIsDone, MutationsSound
<1>4. /\ mutation' \in [Mutations -> Mutation(watched)' \cup {NoMutation}]
      /\ ToldIsDone' /\ MutationsSound'
      /\ \A n \in Mutations \ {m} : Guessing(n)' = Guessing(n)
  <2>1. due' <= version
    BY <1>1 DEF ClientInv, ToldIsDone
  <2>2. QED
    BY <1>1, <2>1, SetKeeps
<1>5. CASE o.session = "close"
  <2>1. o.then \in PageNames
    BY <1>2, <1>5, EffectFacts DEF Sound
  <2>2. /\ page' \in PageNames /\ entry' \in Entry /\ fetch' \in Fetch
        /\ FetchShown' /\ EntryGood' /\ FetchGood'
    BY <1>1, <1>5, <2>1, StartOverKeeps
  <2>3. ClientTypeOK'
    BY <1>1, <1>4, <2>2 DEF ClientInv, ClientTypeOK
  <2>4. QED
    BY <1>4, <2>2, <2>3 DEF ClientInv
<1>6. CASE o.session # "close" /\ o.kind # "guess"
  <2>1. entry' = entry /\ fetch' = fetch /\ page' = page
    BY <1>1, <1>6 DEF Restored, Hold
  <2>2. ~Guessing(m)
    BY <1>6 DEF Guessing
  <2>3. ClientTypeOK' /\ FetchShown' /\ FetchGood'
    BY <1>1, <1>4, <2>1 DEF ClientInv, ClientTypeOK, FetchShown, Shown, On, FetchGood
  <2>4. EntryGood'
    BY <1>1, <1>4, <2>1, <2>2 DEF ClientInv, EntryGood
  <2>5. QED
    BY <1>4, <2>3, <2>4 DEF ClientInv
<1>7. CASE o.session # "close" /\ o.kind = "guess"
  <2>1. Hold(Refresh(o, restored, fetch)) /\ page' = page
    BY <1>1, <1>7 DEF Restored
  <2>2. restored \in Entry
    BY <1>2 DEF ClientInv, ClientTypeOK
  <2>3. /\ entry' \in Entry /\ fetch' \in Fetch /\ FetchShown'
        /\ o.invalidates => entry'.stale
        /\ ~o.invalidates => entry' = restored /\ fetch' = fetch
        /\ fetch'.step = "answered" =>
             /\ fetch.step = "answered"
             /\ fetch'.version = fetch.version /\ fetch'.owner = fetch.owner
             /\ (o.invalidates \/ fetch.joined) => fetch'.joined
    <3> HIDE DEF restored
    <3> QED
      BY <1>1, <2>1, <2>2, RefreshFacts
  <2>4. ClientTypeOK' /\ FetchGood'
    BY <1>1, <1>4, <2>1, <2>3 DEF ClientInv, ClientTypeOK, FetchGood
  <2>5. EntryGood'
    <3>1. CASE o.invalidates
      BY <2>3, <3>1 DEF EntryGood
    <3>2. CASE ~o.invalidates
      <4>1. ~Guessing(m)
        BY <3>2 DEF Guessing
      <4>2. entry' = entry
        BY <1>1, <2>3, <3>2, <4>1 DEF ClientInv, MutationsSound
      <4>3. QED
        BY <1>1, <1>4, <4>1, <4>2 DEF ClientInv, EntryGood
    <3>3. QED
      BY <3>1, <3>2
  <2>6. QED
    BY <1>4, <2>3, <2>4, <2>5 DEF ClientInv
<1>8. QED
  BY <1>5, <1>6, <1>7

\* Every reachable state of the client satisfies its invariant.
LEMMA ClientInvariance == ClientSpec => []ClientInv
<1>1. ClientInv /\ [ClientNext]_client => ClientInv'
  <2> SUFFICES ASSUME ClientInv, [ClientNext]_client
               PROVE  ClientInv'
    OBVIOUS
  <2>1. CASE UNCHANGED client
    BY <2>1 DEF client, ClientInv, ClientTypeOK, FetchShown, Shown, On, ToldIsDone,
                MutationsSound, Guessing, EntryGood, FetchGood, Mutation, Effects
  <2>2. CASE ClientNext
    BY <2>2, NavigateKeeps, FocusKeeps, RespondKeeps, ReceiveKeeps, FetchFailsKeeps,
       SessionEndsKeeps, LeaveKeeps, SubmitKeeps, CommitKeeps, SucceedKeeps, FinishKeeps,
       RecoverKeeps
    DEF ClientNext, Conclude
  <2>3. QED
    BY <2>1, <2>2
<1>2. QED
  BY <1>1, ClientInitInv, PTL DEF ClientSpec

\* useTenantMutation and useWorkItemStatus: whatever operations overlap, whatever they
\* change and whatever fetches fail, a screen at rest shows no guess, and nothing older than
\* the last operation that invalidated or cleared the entry and was told to be done; but for
\* an operation begun while the entry was first loading.
THEOREM ScreenSettles == ClientSpec => []SettledIsCurrent
<1>1. ClientInv => SettledIsCurrent
  <2> SUFFICES ASSUME ClientInv, Settled
               PROVE  ~entry.guess /\ (entry.version >= due \/ entry.joined)
    BY DEF SettledIsCurrent
  <2>1. \A m \in Mutations : ~Guessing(m)
    BY DEF Settled, Quiet, Guessing, NoMutation
  <2>2. QED
    BY <2>1 DEF ClientInv, EntryGood, Settled
<1>2. QED
  BY <1>1, ClientInvariance, PTL

\* Signing in, up and out: the data of another user is on no screen, unless it is being
\* fetched anew.
THEOREM PrincipalsApart == ClientSpec => []NoOneElsesData
<1>1. ClientInv => NoOneElsesData
  <2> SUFFICES ASSUME ClientInv, Quiet, entry.has, who # Nobody, ~entry.stale
               PROVE  entry.owner = who
    BY DEF NoOneElsesData
  <2>1. \A m \in Mutations : ~Guessing(m)
    BY DEF Quiet, Guessing, NoMutation
  <2>2. QED
    BY <2>1 DEF ClientInv, EntryGood
<1>2. QED
  BY <1>1, ClientInvariance, PTL
=============================================================================
