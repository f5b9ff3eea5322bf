------------------------------- MODULE Access -------------------------------
(***************************************************************************)
(* What a request passes before its handler runs, and what the handler can *)
(* reach: ApiKeyGuard, AuthGuard, RateLimitGuard, TenantGuard and          *)
(* PermissionsGuard, in the order of app.module.ts and of the controllers, *)
(* and the tenant-scoped database client.  One user, one API key; roles    *)
(* change, organizations are deleted and the key dies between the guards.  *)
(*                                                                         *)
(* A refused request just ends, as does one whose query or process fails.  *)
(***************************************************************************)
EXTENDS Rbac

CONSTANTS
  Organizations,
  Home,            \* the organization the API key was created in
  Requests,
  MaxHits,         \* a route's RateLimit.max
  WindowTicks,     \* its windowSeconds
  MaxChanges       \* bound: changes of roles, organizations and the key, and losses of
                   \* the counter

ASSUME HomeExists == Home \in Organizations
ASSUME LimitsPositive == MaxHits \in Nat \ {0} /\ WindowTicks \in Nat \ {0}
ASSUME ChangesBounded == MaxChanges \in Nat

VARIABLES
  role,       \* role[o]: the user's role in o, or Stranger
  deleted,    \* the organizations that are soft-deleted
  key,        \* the API key: absent, active, revoked or expired
  request,    \* request[r]: where r is among the guards
  window,     \* the counter of one rate-limit bucket, and its time to live
  recent,     \* history: recent[a], the counted requests let through in the last a ticks
  losses,     \* history: losses[a], the losses of the counter in the last a ticks
  reached,    \* reached[r]: the owners of the rows that r has read or written
  changes     \* how many changes and losses there have been

vars == <<role, deleted, key, request, window, recent, losses, reached, changes>>
limiter == <<window, recent, losses>>
world == <<role, deleted, key, changes>>

Stranger == "no membership"
NoPermission == "none"
Permissions == OwnerPermissions \cup {NoPermission}
Callers == {"anonymous", "session", "forged", "key"}
Steps == {"key", "session", "limit", "tenant", "permission", "handler"}

-----------------------------------------------------------------------------
(* The routes, as their decorators and their use of requireUser declare them. *)

RouteType ==
  [permission : Permissions, tenant : BOOLEAN, safe : BOOLEAN, actor : BOOLEAN,
   entry : {"protected", "public", "exempt"}, metered : BOOLEAN]

Reading(p) ==
  [permission |-> p, tenant |-> TRUE, safe |-> TRUE, actor |-> FALSE,
   entry |-> "protected", metered |-> FALSE]
Changing(p) == [Reading(p) EXCEPT !.safe = FALSE, !.actor = TRUE]
Unattributed(route) == [route EXCEPT !.actor = FALSE]
Attributed(route) == [route EXCEPT !.actor = TRUE]
Metered(route) == [route EXCEPT !.metered = TRUE]
Untenanted(route) == [route EXCEPT !.tenant = FALSE]
Open(entry, route) == [Unattributed(Untenanted(route)) EXCEPT !.entry = entry]

ApiKeyRoutes == {Reading("apikeys.read"), Changing("apikeys.create"), Changing("apikeys.revoke")}
AuditRoutes == {Reading("audit.read")}
AuthRoutes ==
  {Metered(Open("exempt", Changing(NoPermission))),
   Untenanted(Changing(NoPermission)), Untenanted(Attributed(Reading(NoPermission))),
   Metered(Untenanted(Changing(NoPermission)))}
HealthRoutes == {Open("public", Reading(NoPermission))}
InvitationRoutes ==
  {Reading("members.read"), Metered(Changing("members.invite")), Changing("members.invite")}
RedemptionRoutes ==
  {Metered(Open("public", Reading(NoPermission))), Metered(Untenanted(Changing(NoPermission)))}
MemberRoutes == {Reading("members.read"), Changing("members.update"), Changing(NoPermission)}
OrganizationRoutes ==
  {Untenanted(Attributed(Reading(NoPermission))), Metered(Untenanted(Changing(NoPermission))),
   Reading("organization.read"), Changing("organization.update"), Changing("organization.delete")}
ProjectRoutes ==
  {Reading("projects.read"), Changing("projects.create"), Changing("projects.update"),
   Changing("projects.delete")}
SettingsRoutes == {Reading("settings.read"), Changing("settings.update")}
TeamRoutes ==
  {Reading("teams.read"), Changing("teams.create"), Changing("teams.update"),
   Changing("teams.delete"), Unattributed(Changing("teams.update"))}
WorkItemRoutes ==
  {Attributed(Reading("workitems.read")), Reading("workitems.read"),
   Changing("workitems.create"), Unattributed(Changing("workitems.update")),
   Unattributed(Changing("workitems.delete"))}
WorkspaceRoutes ==
  {Reading("workspaces.read"), Changing("workspaces.create"), Changing("workspaces.update"),
   Changing("workspaces.delete")}

Routes ==
  UNION {ApiKeyRoutes, AuditRoutes, AuthRoutes, HealthRoutes, InvitationRoutes,
         RedemptionRoutes, MemberRoutes, OrganizationRoutes, ProjectRoutes,
         SettingsRoutes, TeamRoutes, WorkItemRoutes, WorkspaceRoutes}

-----------------------------------------------------------------------------

Idle == [step |-> "idle"]
Admission ==
  [step : Steps, route : Routes, caller : Callers, org : Organizations,
   user : BOOLEAN, role : Roles \cup {Stranger}, skewed : BOOLEAN]

Fresh == [count |-> 0, ttl |-> 0]
Ages == 0..(WindowTicks - 1)

Init ==
  /\ role = [o \in Organizations |-> "OWNER"]
  /\ deleted = {}
  /\ key \in {"absent", "active"}
  /\ request = [r \in Requests |-> Idle]
  /\ window = Fresh
  /\ recent = [a \in Ages |-> 0]
  /\ losses = [a \in Ages |-> 0]
  /\ reached = [r \in Requests |-> {}]
  /\ changes = 0

At(r, step) == request[r].step = step
Go(r, q) == request' = [request EXCEPT ![r] = q]

\* A request that sends a cookie and no CSRF header is forged, or lost its own.
Arrive(r, route, caller, o) ==
  /\ request[r] = Idle
  /\ ~route.tenant => o = Home     \* it is not looked at
  /\ Go(r, [step |-> "key", route |-> route, caller |-> caller, org |-> o,
            user |-> FALSE, role |-> Stranger, skewed |-> FALSE])
  /\ UNCHANGED <<world, limiter, reached>>

\* A guard refuses the request, its query fails, or it has been answered.
End(r) ==
  /\ request[r] # Idle
  /\ Go(r, Idle)
  /\ reached' = [reached EXCEPT ![r] = {}]
  /\ UNCHANGED <<world, limiter>>

KeyLive == key = "active" /\ Home \notin deleted

\* Mutant of CheckKey: the row is there, whatever its dates say.
CheckKeyKnown(r) ==
  /\ At(r, "key")
  /\ request[r].caller = "key" => key # "absent"
  /\ Go(r, [request[r] EXCEPT !.step = "session"])
  /\ UNCHANGED <<world, limiter, reached>>

\* ApiKeyGuard with ApiKeysService.verify: without an Authorization header the request
\* goes on, and a key that is not live ends it.
CheckKey(r) ==
  /\ At(r, "key")
  /\ request[r].caller = "key" => KeyLive
  /\ Go(r, [request[r] EXCEPT !.step = "session"])
  /\ UNCHANGED <<world, limiter, reached>>

CsrfPasses(q) == q.caller = "session" \/ q.route.safe \/ q.route.entry = "exempt"

\* AuthGuard: a key needs no session.  A session that resolves makes the request the
\* user's, once its CSRF token is checked; whoever has none only enters public routes.
Authenticate(r) ==
  LET q == request[r] IN
  /\ At(r, "session")
  /\ \/ /\ q.caller = "key"
        /\ Go(r, [q EXCEPT !.step = "limit"])
     \/ /\ q.caller \in {"session", "forged"}
        /\ CsrfPasses(q)
        /\ Go(r, [q EXCEPT !.step = "limit", !.user = TRUE])
     \/ /\ q.caller # "key"
        /\ q.route.entry # "protected"
        /\ Go(r, [q EXCEPT !.step = "limit"])
  /\ UNCHANGED <<world, limiter, reached>>

-----------------------------------------------------------------------------

\* A history counts what happens now in each of its spans; a tick makes them one longer.
Noted(history) == [a \in Ages |-> history[a] + 1]
Older(history) == [a \in Ages |-> IF a = 0 THEN 0 ELSE history[a - 1]]

\* Mutant of Increment: EXPIRE without NX, so that every request starts the window anew.
IncrementAnew ==
  [count |-> IF window.count > MaxHits THEN window.count ELSE window.count + 1,
   ttl |-> WindowTicks]

\* incrementWindow: INCR, EXPIRE NX and TTL in one MULTI.  A count above MaxHits is
\* kept at MaxHits + 1: no step tells higher ones apart.
Increment ==
  [count |-> IF window.count > MaxHits THEN window.count ELSE window.count + 1,
   ttl |-> IF window.ttl = 0 THEN WindowTicks ELSE window.ttl]

\* Mutant of WithinBudget: one more than the limit.
WithinBudgetLate(count) == count <= MaxHits + 1

WithinBudget(count) == count <= MaxHits

\* RateLimitGuard for a request of the bucket that is watched: Redis counts it, or Redis
\* is away and the request goes on uncounted.
Limit(r) ==
  LET on == [request[r] EXCEPT !.step = "tenant"] IN
  /\ At(r, "limit")
  /\ request[r].route.metered
  /\ \/ /\ window' = Increment
        /\ IF WithinBudget(window'.count)
           THEN Go(r, on) /\ recent' = Noted(recent)
           ELSE Go(r, Idle) /\ UNCHANGED recent
        /\ UNCHANGED losses
     \/ Go(r, on) /\ UNCHANGED limiter
  /\ UNCHANGED <<world, reached>>

\* RateLimitGuard for a request of another bucket, and for a route without a limit.
LimitElsewhere(r) ==
  /\ At(r, "limit")
  /\ Go(r, [request[r] EXCEPT !.step = "tenant"])
  /\ UNCHANGED <<world, limiter, reached>>

\* A tick of the clock, and the counter that Redis drops when its time is up.
Tick ==
  /\ window' = IF window.ttl = 1 THEN Fresh
               ELSE [window EXCEPT !.ttl = IF @ = 0 THEN 0 ELSE @ - 1]
  /\ recent' = Older(recent)
  /\ losses' = Older(losses)
  /\ UNCHANGED <<world, request, reached>>

\* Redis keeps nothing on disk: it restarts without the counter.  Or it evicts it.
LoseCounter ==
  /\ window # Fresh
  /\ changes < MaxChanges
  /\ changes' = changes + 1
  /\ window' = Fresh
  /\ losses' = Noted(losses)
  /\ UNCHANGED <<role, deleted, key, request, recent, reached>>

-----------------------------------------------------------------------------

\* Mutant of TenantRole: a key names its organization, whatever the URL says.
TenantRoleOfKey(q) ==
  IF q.caller = "key" THEN "VIEWER" ELSE IF q.org \in deleted THEN Stranger ELSE role[q.org]

\* The role the tenant is resolved with: a key reads its own organization, the user has
\* the role of the membership that is found with the slug.
TenantRole(q) ==
  IF q.org \in deleted THEN Stranger
  ELSE IF q.caller = "key" THEN IF q.org = Home THEN "VIEWER" ELSE Stranger
  ELSE IF q.user THEN role[q.org] ELSE Stranger

\* Mutant of ReadTenant: the request goes on when no membership is found.
ReadTenantAnyway(r) ==
  /\ At(r, "tenant")
  /\ Go(r, [request[r] EXCEPT !.step = "permission", !.role = TenantRole(request[r])])
  /\ UNCHANGED <<world, limiter, reached>>

\* TenantGuard: the slug leads to a membership, or the request is refused.
ReadTenant(r) ==
  LET q == request[r] IN
  /\ At(r, "tenant")
  /\ q.route.tenant => TenantRole(q) # Stranger
  /\ Go(r, [q EXCEPT !.step = "permission",
                     !.role = IF q.route.tenant THEN TenantRole(q) ELSE Stranger])
  /\ UNCHANGED <<world, limiter, reached>>

\* Mutant of Permitted: a handler without a permission takes any tenant.
PermittedAlone(q) == q.route.permission # NoPermission => Can(q.role, q.route.permission)

\* PermissionsGuard, and then the handler's requireUser.
Permitted(q) ==
  /\ q.route.permission # NoPermission => Can(q.role, q.route.permission)
  /\ q.route.actor => q.user

CheckPermission(r) ==
  /\ At(r, "permission")
  /\ Permitted(request[r])
  /\ Go(r, [request[r] EXCEPT !.step = "handler"])
  /\ UNCHANGED <<world, limiter, reached>>

-----------------------------------------------------------------------------
(* The scoped client.  A query has an operation, the organization its where and its *)
(* data claim, if they do, and the owner of the row it asks for.                    *)

Unclaimed == "unclaimed"
ASSUME UnclaimedIsNoOrganization == Unclaimed \notin Organizations
Claims == Organizations \cup {Unclaimed}
Queries == [op : {"where", "create", "upsert"}, where : Claims, data : Claims, row : Organizations]

InjectWhere(q, bound) == [q EXCEPT !.where = bound]
InjectCreateData(q, bound) == [q EXCEPT !.data = bound]

\* Mutant of Scoped: only the reads and the creates are rewritten.
ScopedPlainly(q, bound) ==
  CASE q.op = "where"  -> InjectWhere(q, bound)
    [] q.op = "create" -> InjectCreateData(q, bound)
    [] q.op = "upsert" -> InjectWhere(q, bound)

\* forOrganization for a model that a tenant owns.
Scoped(q, bound) ==
  CASE q.op = "where"  -> InjectWhere(q, bound)
    [] q.op = "create" -> InjectCreateData(q, bound)
    [] q.op = "upsert" -> InjectCreateData(InjectWhere(q, bound), bound)

\* What the database does with it: the owner of the rows it finds or makes.
Found(q) == {o \in {q.row} : q.op # "create" /\ q.where \in {o, Unclaimed}}
Reached(q) == IF Found(q) # {} THEN Found(q) ELSE IF q.op = "where" THEN {} ELSE {q.data}

\* One query of the handler on a table that a tenant owns.  A where that claims another
\* organization than the one bound is an error.
Query(r, q) ==
  LET bound == request[r].org IN
  /\ At(r, "handler")
  /\ request[r].route.tenant
  /\ q.where \in {bound, Unclaimed}
  /\ reached' = [reached EXCEPT ![r] = @ \cup Reached(Scoped(q, bound))]
  /\ UNCHANGED <<world, request, limiter>>

-----------------------------------------------------------------------------

\* Marks the requests for which what a guard has read is no longer so.
Skew(outdated) ==
  request' = [r \in Requests |->
    IF r \in outdated THEN [request[r] EXCEPT !.skewed = TRUE] ELSE request[r]]

PastTenant(o) == {r \in Requests : request[r].step \in {"permission", "handler"} /\ request[r].org = o}
PastKey == {r \in Requests : request[r].step \in Steps \ {"key"} /\ request[r].caller = "key"}

Change(outdated) ==
  /\ changes < MaxChanges
  /\ changes' = changes + 1
  /\ Skew(outdated)
  /\ UNCHANGED <<limiter, reached>>

\* MembersService.changeRole and remove, InvitationsService.accept.
ChangeRole(o, new) ==
  /\ new # role[o]
  /\ role' = [role EXCEPT ![o] = new]
  /\ Change({r \in PastTenant(o) : request[r].user})
  /\ UNCHANGED <<deleted, key>>

SoftDelete(o) ==
  /\ o \notin deleted
  /\ deleted' = deleted \cup {o}
  /\ Change(PastTenant(o) \cup (IF o = Home THEN PastKey ELSE {}))
  /\ UNCHANGED <<role, key>>

\* ApiKeysService.create.
CreateKey ==
  /\ key = "absent"
  /\ key' = "active"
  /\ Change({})
  /\ UNCHANGED <<role, deleted>>

\* ApiKeysService.revoke: a key revoked twice is revoked, with the later date.
RevokeKey ==
  /\ key \in {"active", "expired"}
  /\ key' = "revoked"
  /\ Change(PastKey)
  /\ UNCHANGED <<role, deleted>>

ExpireKey ==
  /\ key = "active"
  /\ key' = "expired"
  /\ Change(PastKey)
  /\ UNCHANGED <<role, deleted>>

Guard(r) ==
  \/ CheckKey(r) \/ Authenticate(r) \/ Limit(r) \/ LimitElsewhere(r)
  \/ ReadTenant(r) \/ CheckPermission(r) \/ End(r)

Next ==
  \/ \E r \in Requests :
       \/ \E route \in Routes, caller \in Callers, o \in Organizations : Arrive(r, route, caller, o)
       \/ Guard(r)
       \/ \E q \in Queries : Query(r, q)
  \/ Tick \/ LoseCounter
  \/ \E o \in Organizations :
       SoftDelete(o) \/ \E new \in Roles \cup {Stranger} : ChangeRole(o, new)
  \/ CreateKey \/ RevokeKey \/ ExpireKey

Spec == Init /\ [][Next]_vars /\ WF_vars(Tick)

-----------------------------------------------------------------------------

TypeOK ==
  /\ role \in [Organizations -> Roles \cup {Stranger}]
  /\ deleted \subseteq Organizations
  /\ key \in {"absent", "active", "revoked", "expired"}
  /\ request \in [Requests -> {Idle} \cup Admission]
  /\ \A r \in Requests :
       request[r].step \in {"permission", "handler"} /\ request[r].route.tenant => request[r].role \in Roles
  /\ window \in [count : 0..(MaxHits + 1), ttl : 0..WindowTicks]
  /\ recent \in [Ages -> Nat] /\ losses \in [Ages -> Nat]
  /\ reached \in [Requests -> SUBSET Claims]
  /\ changes \in 0..MaxChanges

\* Only what a user asked for from the application itself changes anything, but for
\* signing up and in: not a key, which also passes the routes that ask for no
\* permission, nor a page that can only send the user's cookies (auth.guard.ts:99).
WritersAreUsers ==
  \A r \in Requests :
    At(r, "handler") /\ ~request[r].route.safe
      => \/ request[r].user /\ request[r].caller = "session"
         \/ request[r].route.entry = "exempt"

Authorized(q) ==
  /\ q.caller = "key" => KeyLive /\ (q.route.tenant => q.org = Home)
  /\ q.route.tenant =>
       /\ q.org \notin deleted
       /\ q.user => role[q.org] # Stranger
       /\ q.user /\ q.route.permission # NoPermission => Can(role[q.org], q.route.permission)

\* A handler runs with the authority its route asks for, of the organization in its
\* URL, as it is now, or as it was when the guard read it if it has changed since.
ActsWithAuthority ==
  \A r \in Requests : At(r, "handler") => request[r].skewed \/ Authorized(request[r])

\* tenant-scope.ts:141, "a caller physically cannot observe or mutate another tenant's
\* rows": whatever a handler asks for, each row reached is of the addressed tenant.
OneTenant == \A r \in Requests : reached[r] # {} => reached[r] = {request[r].org}

\* redis.service.ts:79, "a fixed window admits up to 2x the limit across a boundary", and
\* decision 0008, losing the counters gives "a fresh allowance": of the requests that Redis
\* counts, no span of at most WindowTicks ticks lets through 2x the limit, and once the
\* limit more for each time the counter is lost in it.
AllowancesBound == \A a \in Ages : recent[a] < (2 + losses[a]) * MaxHits

\* redis.service.ts:76, "an un-expiring counter would lock a user out permanently": a
\* client over its limit gets a new window, whatever it goes on sending.
LockoutEnds == window.count > MaxHits ~> window = Fresh
=============================================================================
