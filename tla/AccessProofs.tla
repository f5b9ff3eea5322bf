----------------------------- MODULE AccessProofs -----------------------------
(***************************************************************************)
(* Proofs about the guards and the scoped client, for any organizations,   *)
(* limits and numbers of concurrent requests and changes.                  *)
(*                                                                         *)
(* The argument: each guard leaves a fact with the request, and the marks  *)
(* of Skew record every change that could make one of them untrue.         *)
(***************************************************************************)
EXTENDS Access, TLAPS

-----------------------------------------------------------------------------
(* The routes.                                                              *)

\* A changing route that does not ask for a user is either open to whoever has no
\* session, or asks for a permission that a viewer does not have.
RouteAttributed(route) ==
  ~route.safe /\ ~route.actor
    => \/ route.entry = "exempt"
       \/ /\ route.entry = "protected"
          /\ route.tenant
          /\ route.permission # NoPermission
          /\ ~Can("VIEWER", route.permission)

\* Routes that read are safe.
LEMMA ReadingSafe == \A p : Reading(p).safe
BY DEF Reading

\* A changing route asks for its user, metered or not,
LEMMA ChangingAttributed == \A p : Changing(p).actor /\ Metered(Changing(p)).actor
BY DEF Changing, Reading, Metered

\* whether or not it has a tenant;
LEMMA UntenantedAttributed ==
  \A p : /\ Untenanted(Changing(p)).actor
         /\ Metered(Untenanted(Changing(p))).actor
         /\ Untenanted(Attributed(Reading(p))).safe
         /\ Attributed(Reading(p)).safe
BY DEF Untenanted, Changing, Reading, Attributed, Metered

\* those that are open to all are safe or exempt from the session check.
LEMMA OpenAttributed ==
  \A p : /\ Open("public", Reading(p)).safe
         /\ Metered(Open("public", Reading(p))).safe
         /\ Metered(Open("exempt", Changing(p))).entry = "exempt"
BY DEF Open, Unattributed, Untenanted, Changing, Reading, Metered

\* A changing route that does not ask for its user is guarded if a viewer may not do
\* it,
LEMMA UnattributedGuarded ==
  ASSUME NEW p, p # NoPermission, ~Can("VIEWER", p)
  PROVE  RouteAttributed(Unattributed(Changing(p)))
<1>1. /\ Unattributed(Changing(p)).permission = p
      /\ Unattributed(Changing(p)).tenant
      /\ Unattributed(Changing(p)).entry = "protected"
  BY DEF Unattributed, Changing, Reading
<1>2. QED
  BY <1>1 DEF RouteAttributed

\* which is so for the three permissions of such routes.
LEMMA ViewerOnlyReads ==
  \A p \in {"teams.update", "workitems.update", "workitems.delete"} :
    p # NoPermission /\ ~Can("VIEWER", p)
BY DEF Can, RolePermissions, Roles, ViewerPermissions, NoPermission

\* The two together, over all routes of the API.
LEMMA RoutesAttributed == \A route \in Routes : RouteAttributed(route)
<1> USE ReadingSafe, ChangingAttributed, UntenantedAttributed, OpenAttributed DEF RouteAttributed
<1>1. \A route \in ApiKeyRoutes \cup AuditRoutes \cup SettingsRoutes : RouteAttributed(route)
  BY DEF ApiKeyRoutes, AuditRoutes, SettingsRoutes
<1>2. \A route \in AuthRoutes \cup HealthRoutes \cup RedemptionRoutes : RouteAttributed(route)
  BY DEF AuthRoutes, HealthRoutes, RedemptionRoutes
<1>3. \A route \in InvitationRoutes \cup MemberRoutes \cup OrganizationRoutes : RouteAttributed(route)
  BY DEF InvitationRoutes, MemberRoutes, OrganizationRoutes
<1>4. \A route \in ProjectRoutes \cup WorkspaceRoutes : RouteAttributed(route)
  BY DEF ProjectRoutes, WorkspaceRoutes
<1>5. \A route \in TeamRoutes : RouteAttributed(route)
  <2>1. RouteAttributed(Unattributed(Changing("teams.update")))
    BY ViewerOnlyReads, UnattributedGuarded
  <2>2. QED
    BY <2>1 DEF TeamRoutes
<1>6. \A route \in WorkItemRoutes : RouteAttributed(route)
  <2>1. /\ RouteAttributed(Unattributed(Changing("workitems.update")))
        /\ RouteAttributed(Unattributed(Changing("workitems.delete")))
    BY ViewerOnlyReads, UnattributedGuarded
  <2>2. QED
    BY <2>1 DEF WorkItemRoutes
<1>7. QED
  BY <1>1, <1>2, <1>3, <1>4, <1>5, <1>6 DEF Routes

-----------------------------------------------------------------------------
(* Type correctness.                                                        *)

TenantRead(q) == q.step \in {"permission", "handler"}

\* Go keeps the requests' type, and what holds of all of them.
LEMMA GoType ==
  ASSUME TypeOK, NEW r \in Requests, NEW q \in {Idle} \cup Admission, Go(r, q),
         TenantRead(q) /\ q.route.tenant => q.role \in Roles
  PROVE  /\ request' \in [Requests -> {Idle} \cup Admission]
         /\ \A s \in Requests :
              request'[s].step \in {"permission", "handler"} /\ request'[s].route.tenant
                => request'[s].role \in Roles
BY DEF Go, TypeOK, TenantRead

\* A request that is among the guards is an admission.
LEMMA InsideIsAdmission ==
  ASSUME TypeOK, NEW r \in Requests, request[r].step \in Steps
  PROVE  request[r] \in Admission
BY DEF TypeOK, Idle, Steps

\* A request that is idle is before no guard.
LEMMA IdleIsOut == Idle.step \notin Steps
BY DEF Idle, Steps

\* The tenant guard reads a role or finds a stranger.
LEMMA TenantRoleType ==
  ASSUME TypeOK, NEW q \in Admission
  PROVE  TenantRole(q) \in Roles \cup {Stranger}
BY DEF TypeOK, Admission, TenantRole, Roles

\* Marking requests keeps them where they are.
LEMMA SkewFrame ==
  ASSUME TypeOK, NEW outdated, outdated \subseteq {r \in Requests : request[r].step \in Steps},
         Skew(outdated)
  PROVE  \A r \in Requests :
           /\ request'[r] \in {Idle} \cup Admission
           /\ request[r].step = request'[r].step
           /\ request'[r].step \in Steps =>
                /\ request'[r] = [request[r] EXCEPT !.skewed = request'[r].skewed]
                /\ request[r].skewed => request'[r].skewed
                /\ r \in outdated => request'[r].skewed
                /\ request'[r].route = request[r].route
                /\ request'[r].caller = request[r].caller
                /\ request'[r].org = request[r].org
                /\ request'[r].user = request[r].user
                /\ request'[r].role = request[r].role
<1> SUFFICES ASSUME NEW r \in Requests
             PROVE  /\ request'[r] \in {Idle} \cup Admission
                    /\ request[r].step = request'[r].step
                    /\ request'[r].step \in Steps =>
                         /\ request'[r] = [request[r] EXCEPT !.skewed = request'[r].skewed]
                         /\ request[r].skewed => request'[r].skewed
                         /\ r \in outdated => request'[r].skewed
                         /\ request'[r].route = request[r].route
                         /\ request'[r].caller = request[r].caller
                         /\ request'[r].org = request[r].org
                         /\ request'[r].user = request[r].user
                         /\ request'[r].role = request[r].role
  OBVIOUS
<1>1. CASE r \in outdated
  <2>1. request[r] \in Admission
    BY <1>1, InsideIsAdmission
  <2>2. request'[r] = [request[r] EXCEPT !.skewed = TRUE]
    BY <1>1 DEF Skew
  <2>3. QED
    BY <1>1, <2>1, <2>2 DEF Admission
<1>2. CASE r \notin outdated
  <2>1. request'[r] = request[r]
    BY <1>2 DEF Skew
  <2>2. request[r] \in Admission => request[r] = [request[r] EXCEPT !.skewed = request[r].skewed]
    BY DEF Admission
  <2>3. QED
    BY <1>2, <2>1, <2>2, InsideIsAdmission DEF TypeOK
<1>3. QED
  BY <1>1, <1>2

\* Only requests that are among the guards are outdated by a change.
LEMMA OutdatedInside ==
  /\ \A o \in Organizations : PastTenant(o) \subseteq {r \in Requests : request[r].step \in Steps}
  /\ PastKey \subseteq {r \in Requests : request[r].step \in Steps}
BY DEF PastTenant, PastKey, Steps

\* The changes of the world, by what they outdate.
WorldStep(outdated) ==
  /\ outdated \subseteq {r \in Requests : request[r].step \in Steps}
  /\ Change(outdated)

\* Each change outdates the requests that have read what it changes.
LEMMA WorldSteps ==
  /\ \A o \in Organizations, new \in Roles \cup {Stranger} :
       ChangeRole(o, new) => WorldStep({r \in PastTenant(o) : request[r].user})
  /\ \A o \in Organizations :
       SoftDelete(o) => WorldStep(PastTenant(o) \cup (IF o = Home THEN PastKey ELSE {}))
  /\ CreateKey => WorldStep({})
  /\ RevokeKey \/ ExpireKey => WorldStep(PastKey)
BY OutdatedInside DEF WorldStep, ChangeRole, SoftDelete, CreateKey, RevokeKey, ExpireKey

\* A change keeps the requests in their types.
LEMMA WorldType ==
  ASSUME TypeOK, NEW outdated, WorldStep(outdated),
         role' \in [Organizations -> Roles \cup {Stranger}],
         deleted' \subseteq Organizations,
         key' \in {"absent", "active", "revoked", "expired"}
  PROVE  TypeOK'
<1>1. \A r \in Requests :
        /\ request'[r] \in {Idle} \cup Admission
        /\ request[r].step = request'[r].step
        /\ request'[r].step \in Steps =>
             request'[r].route = request[r].route /\ request'[r].role = request[r].role
  BY SkewFrame DEF WorldStep, Change
<1>2. request' \in [Requests -> {Idle} \cup Admission]
  BY <1>1 DEF WorldStep, Change, Skew
<1>3. \A r \in Requests :
        request'[r].step \in {"permission", "handler"} /\ request'[r].route.tenant
          => request'[r].role \in Roles
  BY <1>1 DEF TypeOK, Steps
<1>4. changes' \in 0..MaxChanges
  BY ChangesBounded DEF TypeOK, WorldStep, Change
<1>5. QED
  BY <1>2, <1>3, <1>4 DEF TypeOK, WorldStep, Change, limiter

\* Every action keeps the variables in their types.
LEMMA TypeStep == TypeOK /\ [Next]_vars => TypeOK'
<1> SUFFICES ASSUME TypeOK, [Next]_vars
             PROVE  TypeOK'
  OBVIOUS
<1> USE DEF world, limiter
<1>1. CASE UNCHANGED vars
  BY <1>1 DEF vars, TypeOK
<1>2. ASSUME NEW r \in Requests, NEW route \in Routes, NEW caller \in Callers, NEW o \in Organizations,
             Arrive(r, route, caller, o)
      PROVE  TypeOK'
  <2> DEFINE q == [step |-> "key", route |-> route, caller |-> caller, org |-> o,
                   user |-> FALSE, role |-> Stranger, skewed |-> FALSE]
  <2>1. q \in Admission /\ ~TenantRead(q)
    BY DEF Admission, Steps, TenantRead
  <2>2. Go(r, q)
    BY <1>2 DEF Arrive
  <2>3. QED
    BY <1>2, <2>1, <2>2, GoType DEF Arrive, TypeOK
<1>3. ASSUME NEW r \in Requests, End(r)
      PROVE  TypeOK'
  <2>1. Go(r, Idle) /\ ~TenantRead(Idle)
    BY <1>3 DEF End, TenantRead, Idle
  <2>2. QED
    BY <1>3, <2>1, GoType DEF End, TypeOK
<1>4. ASSUME NEW r \in Requests, CheckKey(r) \/ Authenticate(r) \/ LimitElsewhere(r)
      PROVE  TypeOK'
  <2>1. request[r] \in Admission
    BY <1>4, InsideIsAdmission DEF CheckKey, Authenticate, LimitElsewhere, At, Steps
  <2>2. PICK q \in Admission : Go(r, q) /\ ~TenantRead(q)
    <3>1. \A step \in {"session", "limit", "tenant"} :
            /\ [request[r] EXCEPT !.step = step] \in Admission
            /\ ~TenantRead([request[r] EXCEPT !.step = step])
            /\ [request[r] EXCEPT !.step = step, !.user = TRUE] \in Admission
            /\ ~TenantRead([request[r] EXCEPT !.step = step, !.user = TRUE])
      BY <2>1 DEF Admission, Steps, TenantRead
    <3>2. QED
      BY <1>4, <3>1 DEF CheckKey, Authenticate, LimitElsewhere
  <2>3. QED
    BY <1>4, <2>2, GoType DEF CheckKey, Authenticate, LimitElsewhere, TypeOK
<1>5. ASSUME NEW r \in Requests, Limit(r)
      PROVE  TypeOK'
  <2>1. request[r] \in Admission
    BY <1>5, InsideIsAdmission DEF Limit, At, Steps
  <2>2. PICK q \in {Idle} \cup Admission : Go(r, q) /\ ~TenantRead(q)
    <3>1. /\ [request[r] EXCEPT !.step = "tenant"] \in Admission
          /\ ~TenantRead([request[r] EXCEPT !.step = "tenant"])
          /\ ~TenantRead(Idle)
      BY <2>1 DEF Admission, Steps, TenantRead, Idle
    <3>2. QED
      BY <1>5, <3>1 DEF Limit
  <2>3. window' \in [count : 0..(MaxHits + 1), ttl : 0..WindowTicks]
    BY <1>5, LimitsPositive DEF Limit, Increment, TypeOK
  <2>4. recent' \in [Ages -> Nat] /\ losses' \in [Ages -> Nat]
    BY <1>5, LimitsPositive DEF Limit, Noted, TypeOK, Ages
  <2>5. QED
    BY <1>5, <2>2, <2>3, <2>4, GoType DEF Limit, TypeOK
<1>6. ASSUME NEW r \in Requests, ReadTenant(r)
      PROVE  TypeOK'
  <2> DEFINE q == [request[r] EXCEPT !.step = "permission",
                     !.role = IF request[r].route.tenant THEN TenantRole(request[r]) ELSE Stranger]
  <2>1. request[r] \in Admission
    BY <1>6, InsideIsAdmission DEF ReadTenant, At, Steps
  <2>2. TenantRole(request[r]) \in Roles \cup {Stranger}
    BY <2>1, TenantRoleType
  <2>3. q \in Admission /\ (q.route.tenant => q.role \in Roles)
    BY <1>6, <2>1, <2>2 DEF ReadTenant, Admission, Steps
  <2>4. Go(r, q)
    BY <1>6 DEF ReadTenant
  <2>5. QED
    BY <1>6, <2>3, <2>4, GoType DEF ReadTenant, TypeOK
<1>7. ASSUME NEW r \in Requests, CheckPermission(r)
      PROVE  TypeOK'
  <2> DEFINE q == [request[r] EXCEPT !.step = "handler"]
  <2>1. request[r] \in Admission
    BY <1>7, InsideIsAdmission DEF CheckPermission, At, Steps
  <2>2. q \in Admission /\ (q.route.tenant => q.role \in Roles)
    BY <1>7, <2>1 DEF CheckPermission, At, Admission, Steps, TypeOK
  <2>3. QED
    BY <1>7, <2>2, GoType DEF CheckPermission, TypeOK
<1>8. ASSUME NEW r \in Requests, NEW q \in Queries, Query(r, q)
      PROVE  TypeOK'
  <2>1. request[r].org \in Organizations
    BY <1>8, InsideIsAdmission DEF Query, At, Steps, Admission
  <2>2. Scoped(q, request[r].org) \in Queries
    BY <2>1 DEF Scoped, InjectWhere, InjectCreateData, Queries, Claims
  <2>3. Reached(Scoped(q, request[r].org)) \subseteq Claims
    BY <2>2 DEF Reached, Found, Queries, Claims
  <2>4. reached' \in [Requests -> SUBSET Claims]
    BY <1>8, <2>3 DEF Query, TypeOK
  <2>5. QED
    BY <1>8, <2>4 DEF Query, TypeOK
<1>9. CASE Tick
  <2>1. window' \in [count : 0..(MaxHits + 1), ttl : 0..WindowTicks]
    BY <1>9, LimitsPositive DEF Tick, Fresh, TypeOK
  <2>2. recent' \in [Ages -> Nat] /\ losses' \in [Ages -> Nat]
    BY <1>9, LimitsPositive DEF Tick, Older, TypeOK, Ages
  <2>3. QED
    BY <1>9, <2>1, <2>2 DEF Tick, TypeOK
<1>10. ASSUME NEW o \in Organizations, NEW new \in Roles \cup {Stranger}, ChangeRole(o, new)
       PROVE  TypeOK'
  <2>1. role' \in [Organizations -> Roles \cup {Stranger}]
    BY <1>10 DEF ChangeRole, TypeOK
  <2>2. QED
    BY <1>10, <2>1, WorldSteps, WorldType DEF ChangeRole, TypeOK
<1>11. ASSUME NEW o \in Organizations, SoftDelete(o)
       PROVE  TypeOK'
  BY <1>11, WorldSteps, WorldType DEF SoftDelete, TypeOK
<1>12. CASE CreateKey \/ RevokeKey \/ ExpireKey
  BY <1>12, WorldSteps, WorldType DEF CreateKey, RevokeKey, ExpireKey, TypeOK
<1>13. CASE LoseCounter
  <2>1. window' \in [count : 0..(MaxHits + 1), ttl : 0..WindowTicks]
    BY <1>13, LimitsPositive DEF LoseCounter, Fresh
  <2>2. losses' \in [Ages -> Nat] /\ changes' \in 0..MaxChanges
    BY <1>13, ChangesBounded DEF LoseCounter, Noted, TypeOK, Ages
  <2>3. QED
    BY <1>13, <2>1, <2>2 DEF LoseCounter, TypeOK
<1>14. QED
  BY <1>1, <1>2, <1>3, <1>4, <1>5, <1>6, <1>7, <1>8, <1>9, <1>10, <1>11, <1>12, <1>13 DEF Next, Guard

-----------------------------------------------------------------------------
(* What each guard leaves with the request.                                 *)

KeyOK(q) ==
  q.step \in Steps \ {"key"} /\ q.caller = "key" => q.skewed \/ KeyLive

UserOK(q) ==
  /\ q.step \in Steps /\ q.user => q.caller \in {"session", "forged"} /\ CsrfPasses(q)
  /\ q.step \in {"limit", "tenant", "permission", "handler"} /\ ~q.user /\ q.caller # "key"
       => q.route.entry # "protected"

TenantOK(q) ==
  TenantRead(q) /\ q.route.tenant =>
    /\ q.caller = "key" => q.role = "VIEWER"
    /\ q.caller # "key" => q.user
    /\ q.skewed \/ q.role = TenantRole(q)

PermissionOK(q) == q.step = "handler" => Permitted(q)

AdmissionOK(q) == KeyOK(q) /\ UserOK(q) /\ TenantOK(q) /\ PermissionOK(q)

\* A query reaches rows of the tenant that its client is bound to.
ReachedOK ==
  \A r \in Requests : reached[r] # {} => At(r, "handler") /\ reached[r] = {request[r].org}

IInv == TypeOK /\ ReachedOK /\ \A r \in Requests : AdmissionOK(request[r])

\* Nothing is known of an idle request.
LEMMA IdleOK == AdmissionOK(Idle)
BY DEF AdmissionOK, KeyOK, UserOK, TenantOK, PermissionOK, TenantRead, Idle, Steps

\* The invariant holds before the first request.
LEMMA InitInv == Init => IInv
<1> SUFFICES ASSUME Init
             PROVE  IInv
  OBVIOUS
<1>1. TypeOK
  BY LimitsPositive, ChangesBounded DEF Init, TypeOK, Fresh, Ages, Roles, Idle
<1>2. QED
  BY <1>1, IdleOK DEF Init, IInv, ReachedOK

\* While the world stays as it is, so does what is known of the requests that stay.
LEMMA AdmissionHere ==
  ASSUME TypeOK, \A s \in Requests : AdmissionOK(request[s]), UNCHANGED world,
         NEW r \in Requests, NEW q, Go(r, q), AdmissionOK(q)
  PROVE  \A s \in Requests : AdmissionOK(request[s])'
<1> SUFFICES ASSUME NEW s \in Requests
             PROVE  AdmissionOK(request[s])'
  OBVIOUS
<1>1. AdmissionOK(request'[s])
  BY DEF Go, TypeOK
<1>2. QED
  BY <1>1 DEF world, AdmissionOK, KeyOK, UserOK, TenantOK, PermissionOK, KeyLive, TenantRole,
             TenantRead, Permitted, CsrfPasses

\* Each guard leaves what it has found with the request it lets through.
LEMMA GuardAdmission ==
  ASSUME TypeOK, \A s \in Requests : AdmissionOK(request[s]), NEW r \in Requests,
         \/ Guard(r)
         \/ \E route \in Routes, caller \in Callers, o \in Organizations : Arrive(r, route, caller, o)
  PROVE  \A s \in Requests : AdmissionOK(request[s])'
<1> DEFINE q == request[r]
<1> USE DEF At
<1>1. q.step \in Steps => q \in Admission
  BY InsideIsAdmission
<1>2. ASSUME NEW route \in Routes, NEW caller \in Callers, NEW o \in Organizations,
             Arrive(r, route, caller, o)
      PROVE  \A s \in Requests : AdmissionOK(request[s])'
  <2> DEFINE new == [step |-> "key", route |-> route, caller |-> caller, org |-> o,
                     user |-> FALSE, role |-> Stranger, skewed |-> FALSE]
  <2>1. AdmissionOK(new)
    BY DEF AdmissionOK, KeyOK, UserOK, TenantOK, PermissionOK, TenantRead, Steps
  <2>2. Go(r, new) /\ UNCHANGED world
    BY <1>2 DEF Arrive
  <2>3. QED
    BY <2>1, <2>2, AdmissionHere
<1>3. CASE End(r)
  BY <1>3, IdleOK, AdmissionHere DEF End
<1>4. CASE CheckKey(r)
  <2> DEFINE new == [q EXCEPT !.step = "session"]
  <2>1. q \in Admission
    BY <1>1, <1>4 DEF CheckKey, Steps
  <2>2. AdmissionOK(new)
    BY <1>4, <2>1 DEF CheckKey, Admission, AdmissionOK, KeyOK, UserOK, TenantOK, PermissionOK,
                      TenantRead, CsrfPasses, Steps
  <2>3. QED
    BY <1>4, <2>2, AdmissionHere DEF CheckKey
<1>5. CASE Authenticate(r)
  <2>1. q \in Admission /\ q.step = "session" /\ AdmissionOK(q)
    BY <1>1, <1>5 DEF Authenticate, Steps
  <2> DEFINE passed == [q EXCEPT !.step = "limit"]
             known == [q EXCEPT !.step = "limit", !.user = TRUE]
  <2>2. \/ Go(r, passed) /\ (q.caller = "key" \/ q.route.entry # "protected")
        \/ Go(r, known) /\ q.caller \in {"session", "forged"} /\ CsrfPasses(q)
    BY <1>5 DEF Authenticate
  <2>3. q.caller = "key" \/ q.route.entry # "protected" => AdmissionOK(passed)
    BY <2>1 DEF Admission, AdmissionOK, KeyOK, UserOK, TenantOK, PermissionOK,
                TenantRead, CsrfPasses, Steps
  <2>4. q.caller \in {"session", "forged"} /\ CsrfPasses(q) => AdmissionOK(known)
    BY <2>1 DEF Admission, AdmissionOK, KeyOK, UserOK, TenantOK, PermissionOK,
                TenantRead, CsrfPasses, Steps
  <2>5. QED
    BY <1>5, <2>2, <2>3, <2>4, AdmissionHere DEF Authenticate
<1>6. CASE Limit(r) \/ LimitElsewhere(r)
  <2> DEFINE new == [q EXCEPT !.step = "tenant"]
  <2>1. q \in Admission /\ q.step = "limit" /\ AdmissionOK(q)
    BY <1>1, <1>6 DEF Limit, LimitElsewhere, Steps
  <2>2. AdmissionOK(new)
    BY <2>1 DEF Admission, AdmissionOK, KeyOK, UserOK, TenantOK, PermissionOK,
                TenantRead, CsrfPasses, Steps
  <2>3. (Go(r, new) \/ Go(r, Idle)) /\ UNCHANGED world
    BY <1>6 DEF Limit, LimitElsewhere
  <2>4. QED
    BY <2>2, <2>3, IdleOK, AdmissionHere
<1>7. CASE ReadTenant(r)
  <2> DEFINE new == [q EXCEPT !.step = "permission",
                              !.role = IF q.route.tenant THEN TenantRole(q) ELSE Stranger]
  <2>1. q \in Admission /\ q.step = "tenant" /\ AdmissionOK(q)
    BY <1>1, <1>7 DEF ReadTenant, Steps
  <2>2. /\ new.step = "permission" /\ new.route = q.route /\ new.caller = q.caller
        /\ new.org = q.org /\ new.user = q.user /\ new.skewed = q.skewed
        /\ new.role = IF q.route.tenant THEN TenantRole(q) ELSE Stranger
    BY <2>1 DEF Admission
  <2> HIDE DEF new
  <2>3. KeyOK(new) /\ UserOK(new) /\ PermissionOK(new)
    BY <2>1, <2>2 DEF AdmissionOK, KeyOK, UserOK, PermissionOK, CsrfPasses, Steps
  <2>4. TenantOK(new)
    <3>1. TenantRole(new) = TenantRole(q)
      BY <2>2 DEF TenantRole
    <3>2. q.route.tenant => TenantRole(q) # Stranger
      BY <1>7 DEF ReadTenant
    <3>3. TenantRole(q) # Stranger =>
            (q.caller = "key" => TenantRole(q) = "VIEWER") /\ (q.caller # "key" => q.user)
      BY DEF TenantRole
    <3>4. QED
      BY <2>2, <3>1, <3>2, <3>3 DEF TenantOK
  <2>5. Go(r, new) /\ UNCHANGED world
    BY <1>7 DEF ReadTenant, new
  <2>6. QED
    BY <2>3, <2>4, <2>5, AdmissionHere DEF AdmissionOK
<1>8. CASE CheckPermission(r)
  <2> DEFINE new == [q EXCEPT !.step = "handler"]
  <2>1. q \in Admission /\ q.step = "permission" /\ AdmissionOK(q) /\ Permitted(q)
    BY <1>1, <1>8 DEF CheckPermission, Steps
  <2>2. AdmissionOK(new)
    BY <2>1 DEF Admission, AdmissionOK, KeyOK, UserOK, TenantOK, PermissionOK, Permitted,
                TenantRead, TenantRole, CsrfPasses, Steps
  <2>3. QED
    BY <1>8, <2>2, AdmissionHere DEF CheckPermission
<1>9. QED
  BY <1>2, <1>3, <1>4, <1>5, <1>6, <1>7, <1>8 DEF Guard

\* A change keeps what is known of the requests it does not mark.
LEMMA WorldAdmission ==
  ASSUME TypeOK, \A s \in Requests : AdmissionOK(request[s]), NEW outdated, WorldStep(outdated),
         \A s \in Requests \ outdated : request[s].step \in Steps /\ ~request[s].skewed =>
           /\ request[s].step # "key" /\ request[s].caller = "key" /\ KeyLive => KeyLive'
           /\ TenantRead(request[s]) /\ request[s].route.tenant
                => TenantRole(request[s])' = TenantRole(request[s])
  PROVE  \A s \in Requests : AdmissionOK(request[s])'
<1> SUFFICES ASSUME NEW s \in Requests
             PROVE  AdmissionOK(request[s])'
  OBVIOUS
<1>1. /\ request[s].step = request'[s].step
      /\ request'[s].step \in Steps =>
           /\ request[s].skewed => request'[s].skewed
           /\ s \in outdated => request'[s].skewed
           /\ request'[s].route = request[s].route
           /\ request'[s].caller = request[s].caller
           /\ request'[s].org = request[s].org
           /\ request'[s].user = request[s].user
           /\ request'[s].role = request[s].role
  BY SkewFrame DEF WorldStep, Change
<1>2. UserOK(request[s])' /\ PermissionOK(request[s])'
  BY <1>1 DEF AdmissionOK, UserOK, PermissionOK, Permitted, CsrfPasses, Steps
<1>3. KeyOK(request[s])'
  BY <1>1 DEF AdmissionOK, KeyOK
<1>4. TenantOK(request[s])'
  <2> SUFFICES ASSUME TenantRead(request'[s]), request'[s].route.tenant
               PROVE  /\ request'[s].caller = "key" => request'[s].role = "VIEWER"
                      /\ request'[s].caller # "key" => request'[s].user
                      /\ request'[s].skewed \/ request'[s].role = TenantRole(request[s])'
    BY DEF TenantOK, TenantRead
  <2>1. request'[s].step \in Steps /\ TenantRead(request[s]) /\ request[s].route.tenant
    BY <1>1 DEF TenantRead, Steps
  <2>2. /\ request[s].caller = "key" => request[s].role = "VIEWER"
        /\ request[s].caller # "key" => request[s].user
        /\ request[s].skewed \/ request[s].role = TenantRole(request[s])
    BY <2>1 DEF AdmissionOK, TenantOK
  <2>3. QED
    BY <1>1, <2>1, <2>2
<1>5. QED
  BY <1>2, <1>3, <1>4 DEF AdmissionOK

\* What the guards have found stays so, or the request is marked.
LEMMA AdmissionStep ==
  TypeOK /\ (\A r \in Requests : AdmissionOK(request[r])) /\ [Next]_vars
    => (\A r \in Requests : AdmissionOK(request[r]))'
<1> SUFFICES ASSUME TypeOK, \A r \in Requests : AdmissionOK(request[r]), [Next]_vars
             PROVE  \A r \in Requests : AdmissionOK(request[r])'
  OBVIOUS
<1>1. CASE UNCHANGED <<role, deleted, key, request>>
  BY <1>1 DEF AdmissionOK, KeyOK, UserOK, TenantOK, PermissionOK, KeyLive, TenantRole,
              TenantRead, Permitted, CsrfPasses
<1>2. ASSUME NEW r \in Requests,
             \/ Guard(r)
             \/ \E route \in Routes, caller \in Callers, o \in Organizations :
                  Arrive(r, route, caller, o)
      PROVE  \A s \in Requests : AdmissionOK(request[s])'
  BY <1>2, GuardAdmission
<1>3. ASSUME NEW r \in Requests, NEW q \in Queries, Query(r, q)
      PROVE  \A s \in Requests : AdmissionOK(request[s])'
  BY <1>1, <1>3 DEF Query, world
<1>4. CASE Tick \/ LoseCounter
  BY <1>1, <1>4 DEF Tick, LoseCounter, world
<1>5. ASSUME NEW o \in Organizations, NEW new \in Roles \cup {Stranger}, ChangeRole(o, new)
      PROVE  \A s \in Requests : AdmissionOK(request[s])'
  <2> DEFINE outdated == {r \in PastTenant(o) : request[r].user}
  <2>1. WorldStep(outdated)
    BY <1>5, WorldSteps
  <2>2. ASSUME NEW s \in Requests \ outdated, request[s].step \in Steps
        PROVE  /\ KeyLive => KeyLive'
               /\ TenantRead(request[s]) /\ request[s].route.tenant
                    => TenantRole(request[s])' = TenantRole(request[s])
    <3>1. KeyLive => KeyLive'
      BY <1>5 DEF ChangeRole, KeyLive
    <3>2. ASSUME TenantRead(request[s]), request[s].route.tenant
          PROVE  TenantRole(request[s])' = TenantRole(request[s])
      <4>1. s \notin outdated /\ s \in Requests
        OBVIOUS
      <4>2. request'[s] = request[s]
        BY <1>5, <4>1 DEF ChangeRole, Change, Skew
      <4>3. request[s].org = o => ~request[s].user
        BY <3>2, <4>1 DEF PastTenant, TenantRead
      <4>4. request[s].org \in Organizations
        BY <2>2, InsideIsAdmission DEF Admission
      <4>5. QED
        BY <1>5, <4>2, <4>3, <4>4 DEF ChangeRole, TenantRole, TypeOK
    <3>3. QED
      BY <3>1, <3>2
  <2>3. QED
    BY <2>1, <2>2, WorldAdmission
<1>6. ASSUME NEW o \in Organizations, SoftDelete(o)
      PROVE  \A s \in Requests : AdmissionOK(request[s])'
  <2> DEFINE outdated == PastTenant(o) \cup (IF o = Home THEN PastKey ELSE {})
  <2>1. WorldStep(outdated)
    BY <1>6, WorldSteps
  <2>2. ASSUME NEW s \in Requests \ outdated, request[s].step \in Steps
        PROVE  /\ request[s].step # "key" /\ request[s].caller = "key" /\ KeyLive => KeyLive'
               /\ TenantRead(request[s]) /\ request[s].route.tenant
                    => TenantRole(request[s])' = TenantRole(request[s])
    <3>1. ASSUME request[s].step # "key", request[s].caller = "key", KeyLive
          PROVE  KeyLive'
      BY <1>6, <2>2, <3>1 DEF SoftDelete, KeyLive, PastKey
    <3>2. ASSUME TenantRead(request[s]), request[s].route.tenant
          PROVE  TenantRole(request[s])' = TenantRole(request[s])
      <4>1. s \notin outdated /\ s \in Requests
        OBVIOUS
      <4>2. request'[s] = request[s]
        BY <1>6, <4>1 DEF SoftDelete, Change, Skew
      <4>3. request[s].org # o
        BY <3>2, <4>1 DEF PastTenant, TenantRead
      <4>4. QED
        BY <1>6, <4>2, <4>3 DEF SoftDelete, TenantRole
    <3>3. QED
      BY <3>1, <3>2
  <2>3. QED
    BY <2>1, <2>2, WorldAdmission
<1>7. ASSUME CreateKey \/ RevokeKey \/ ExpireKey
      PROVE  \A s \in Requests : AdmissionOK(request[s])'
  <2> DEFINE outdated == IF CreateKey THEN {} ELSE PastKey
  <2>1. WorldStep(outdated)
    BY <1>7, WorldSteps
  <2>2. ASSUME NEW s \in Requests \ outdated, request[s].step \in Steps
        PROVE  /\ request[s].step # "key" /\ request[s].caller = "key" /\ KeyLive => KeyLive'
               /\ TenantRead(request[s]) /\ request[s].route.tenant
                    => TenantRole(request[s])' = TenantRole(request[s])
    <3>1. ASSUME request[s].step # "key", request[s].caller = "key", KeyLive
          PROVE  KeyLive'
      BY <1>7, <2>2, <3>1 DEF CreateKey, RevokeKey, ExpireKey, KeyLive, PastKey
    <3>2. request'[s] = request[s]
      BY <1>7, <2>2 DEF CreateKey, RevokeKey, ExpireKey, Change, Skew
    <3>3. TenantRole(request[s])' = TenantRole(request[s])
      BY <1>7, <3>2 DEF CreateKey, RevokeKey, ExpireKey, TenantRole
    <3>4. QED
      BY <3>1, <3>3
  <2>3. QED
    BY <2>1, <2>2, WorldAdmission
<1>8. ASSUME UNCHANGED vars
      PROVE  \A s \in Requests : AdmissionOK(request[s])'
  BY <1>1, <1>8 DEF vars, world
<1>9. QED
  BY <1>2, <1>3, <1>4, <1>5, <1>6, <1>7, <1>8 DEF Next

\* The rows a scoped query finds, makes or changes are the tenant's.
LEMMA ScopedReaches ==
  ASSUME NEW bound \in Organizations, NEW q \in Queries
  PROVE  Reached(Scoped(q, bound)) \subseteq {bound}
<1>1. bound # Unclaimed
  BY UnclaimedIsNoOrganization
<1>2. CASE q.op = "where"
  <2>1. Scoped(q, bound) = [q EXCEPT !.where = bound]
    BY <1>2 DEF Scoped, InjectWhere
  <2>2. QED
    BY <1>1, <1>2, <2>1 DEF Reached, Found, Queries
<1>3. CASE q.op = "create"
  <2>1. Scoped(q, bound) = [q EXCEPT !.data = bound]
    BY <1>3 DEF Scoped, InjectCreateData
  <2>2. QED
    BY <1>3, <2>1 DEF Reached, Found, Queries
<1>4. CASE q.op = "upsert"
  <2>1. Scoped(q, bound) = [q EXCEPT !.where = bound, !.data = bound]
    BY <1>4 DEF Scoped, InjectWhere, InjectCreateData
  <2>2. QED
    BY <1>1, <1>4, <2>1 DEF Reached, Found, Queries
<1>5. QED
  BY <1>2, <1>3, <1>4 DEF Queries

\* Whatever a handler asks for, it reaches rows of the tenant it is bound to.
LEMMA ReachedStep == TypeOK /\ ReachedOK /\ [Next]_vars => ReachedOK'
<1> SUFFICES ASSUME TypeOK, ReachedOK, [Next]_vars
             PROVE  ReachedOK'
  OBVIOUS
<1> USE DEF At
<1>1. CASE UNCHANGED <<request, reached>>
  BY <1>1 DEF ReachedOK
<1>2. ASSUME NEW r \in Requests,
             \/ CheckKey(r) \/ Authenticate(r) \/ Limit(r) \/ LimitElsewhere(r)
             \/ ReadTenant(r) \/ CheckPermission(r)
             \/ \E route \in Routes, caller \in Callers, o \in Organizations :
                  Arrive(r, route, caller, o)
      PROVE  ReachedOK'
  <2>1. request[r].step # "handler"
    <3>1. CASE request[r] = Idle
      BY <3>1 DEF Idle
    <3>2. CASE request[r] # Idle
      BY <1>2, <3>2 DEF Arrive, CheckKey, Authenticate, Limit, LimitElsewhere, ReadTenant,
                        CheckPermission
    <3>3. QED
      BY <3>1, <3>2
  <2>2. UNCHANGED reached
    BY <1>2 DEF Arrive, CheckKey, Authenticate, Limit, LimitElsewhere, ReadTenant, CheckPermission
  <2>3. PICK q : Go(r, q)
    BY <1>2 DEF Arrive, CheckKey, Authenticate, Limit, LimitElsewhere, ReadTenant, CheckPermission
  <2>4. QED
    BY <2>1, <2>2, <2>3 DEF ReachedOK, Go, TypeOK
<1>3. ASSUME NEW r \in Requests, End(r)
      PROVE  ReachedOK'
  BY <1>3 DEF End, Go, ReachedOK, TypeOK
<1>4. ASSUME NEW r \in Requests, NEW q \in Queries, Query(r, q)
      PROVE  ReachedOK'
  <2>1. request[r].org \in Organizations
    BY <1>4, InsideIsAdmission DEF Query, Steps, Admission
  <2>2. reached'[r] \subseteq {request[r].org}
    BY <1>4, <2>1, ScopedReaches DEF Query, ReachedOK, TypeOK
  <2>3. QED
    BY <1>4, <2>2 DEF Query, ReachedOK, TypeOK
<1>5. CASE Tick \/ LoseCounter
  BY <1>1, <1>5 DEF Tick, LoseCounter
<1>6. ASSUME NEW outdated, WorldStep(outdated)
      PROVE  ReachedOK'
  <2>1. \A r \in Requests :
          /\ request'[r].step = request[r].step
          /\ request'[r].step \in Steps => request'[r].org = request[r].org
    BY <1>6, SkewFrame DEF WorldStep, Change
  <2>2. UNCHANGED reached
    BY <1>6 DEF WorldStep, Change
  <2>3. QED
    BY <2>1, <2>2 DEF ReachedOK, Steps
<1>7. QED
  BY <1>1, <1>2, <1>3, <1>4, <1>5, <1>6, WorldSteps DEF Next, Guard, vars

\* Every reachable state satisfies the invariant.
LEMMA Invariance == Spec => []IInv
<1>1. IInv /\ [Next]_vars => IInv'
  BY TypeStep, AdmissionStep, ReachedStep DEF IInv
<1>2. QED
  BY <1>1, InitInv, PTL DEF Spec

-----------------------------------------------------------------------------
(* The rate limiter: of the requests in a span, some are of the window that is open,  *)
(* which counts them.  The others, of windows that have expired or were lost, are     *)
(* fewer than the limit for one window and for each loss.                             *)

Elapsed == WindowTicks - window.ttl

\* The hits of the open window, own[a] of them in the last a ticks: it counts them, the
\* first came Elapsed ticks ago and no shorter span has others.
OfOpenWindow(own) ==
  \A a \in Ages :
    /\ own[a] <= window.count /\ own[a] <= MaxHits
    /\ a < Elapsed => own[a] < window.count /\ own[a] < MaxHits /\ recent[a] = own[a]

OfNoWindow(own) == window.count = 0 /\ \A a \in Ages : own[a] = 0

\* The hits that are not of the open window.
FormerBounded(own) ==
  \A a \in Ages : own[a] <= recent[a] /\ recent[a] - own[a] < (1 + losses[a]) * MaxHits

OwnHits(own) ==
  /\ own \in [Ages -> Nat]
  /\ IF window.ttl = 0 THEN OfNoWindow(own) ELSE window.count > 0 /\ OfOpenWindow(own)
  /\ FormerBounded(own)

LimiterInv == \E own \in [Ages -> Nat] : OwnHits(own)

\* What the limiter's variables do in a step: a hit, a refusal, a tick or a loss.
Hit ==
  window' = Increment /\ WithinBudget(window'.count) /\ recent' = Noted(recent) /\ UNCHANGED losses
Refusal == window' = Increment /\ ~WithinBudget(window'.count) /\ UNCHANGED <<recent, losses>>

\* No other step touches the window or the histories.
LEMMA LimiterSteps ==
  [Next]_vars => Hit \/ Refusal \/ Tick \/ LoseCounter \/ UNCHANGED limiter
BY DEF Next, Guard, vars, limiter, Hit, Refusal, Limit, LimitElsewhere, CheckKey, Authenticate,
       ReadTenant, CheckPermission, End, Arrive, Query, ChangeRole, SoftDelete, CreateKey,
       RevokeKey, ExpireKey, Change

\* The types of what the limiter computes with, before and after a step.
LimiterTypes ==
  /\ MaxHits \in Nat \ {0} /\ WindowTicks \in Nat \ {0}
  /\ Ages = 0..(WindowTicks - 1)
  /\ window \in [count : 0..(MaxHits + 1), ttl : 0..WindowTicks]
  /\ window.count \in 0..(MaxHits + 1) /\ window.ttl \in 0..WindowTicks
  /\ recent \in [Ages -> Nat] /\ losses \in [Ages -> Nat]
  /\ \A a \in Ages : a \in Nat /\ recent[a] \in Nat /\ losses[a] \in Nat

LEMMA TypesKnown == TypeOK => LimiterTypes
BY LimitsPositive DEF TypeOK, LimiterTypes, Ages

LEMMA LimiterInit == Init => LimiterInv
<1> SUFFICES ASSUME Init
             PROVE  LimiterInv
  OBVIOUS
<1> DEFINE own == [a \in Ages |-> 0]
<1>1. own \in [Ages -> Nat] /\ OfNoWindow(own) /\ window.ttl = 0
  BY DEF Init, Fresh, OfNoWindow
<1>2. FormerBounded(own)
  BY LimitsPositive DEF Init, FormerBounded
<1>3. QED
  BY <1>1, <1>2 DEF LimiterInv, OwnHits

\* A limit for one more allowance.
LEMMA OneMore ==
  \A n, m \in Nat : (1 + (n + 1)) * m = (1 + n) * m + m /\ (2 + n) * m = (1 + n) * m + m
OBVIOUS

\* A hit is one more of the open window, or the first of a new one.
LEMMA HitStep ==
  ASSUME TypeOK, LimiterInv, Hit
  PROVE  LimiterInv'
<1>1. LimiterTypes
  BY TypesKnown
<1>2. PICK own \in [Ages -> Nat] : OwnHits(own)
  BY DEF LimiterInv
<1>3. /\ window'.count = window.count + 1 /\ window'.count <= MaxHits
      /\ window'.ttl = IF window.ttl = 0 THEN WindowTicks ELSE window.ttl
  BY <1>1 DEF Hit, Increment, WithinBudget, LimiterTypes
<1>4. \A a \in Ages : recent'[a] = recent[a] + 1 /\ losses'[a] = losses[a] /\ own[a] \in Nat
  BY DEF Hit, Noted
<1> DEFINE now == [a \in Ages |-> own[a] + 1]
<1>5. now \in [Ages -> Nat] /\ \A a \in Ages : now[a] = own[a] + 1
  BY <1>2
<1>6. FormerBounded(now)'
  <2> SUFFICES ASSUME NEW a \in Ages
               PROVE  now[a] <= recent'[a] /\ recent'[a] - now[a] < (1 + losses'[a]) * MaxHits
    BY DEF FormerBounded, Ages
  <2>1. own[a] <= recent[a] /\ recent[a] - own[a] < (1 + losses[a]) * MaxHits
    BY <1>2 DEF OwnHits, FormerBounded
  <2>2. recent[a] \in Nat /\ own[a] \in Nat
    BY <1>1, <1>4 DEF LimiterTypes
  <2>3. now[a] <= recent'[a] /\ recent'[a] - now[a] = recent[a] - own[a]
    BY <1>4, <1>5, <2>1, <2>2
  <2>4. QED
    BY <1>4, <2>1, <2>3
<1>7. window.ttl \in Nat /\ window.count \in Nat /\ window'.ttl > 0 /\ window'.count > 0
  BY <1>1, <1>3 DEF LimiterTypes
<1>8. OfOpenWindow(now)'
  <2> SUFFICES ASSUME NEW a \in Ages
               PROVE  /\ now[a] <= window'.count /\ now[a] <= MaxHits
                      /\ a < WindowTicks - window'.ttl =>
                           now[a] < window'.count /\ now[a] < MaxHits /\ recent'[a] = now[a]
    BY DEF OfOpenWindow, Elapsed, Ages
  <2>1. /\ own[a] \in Nat /\ a \in Nat /\ MaxHits \in Nat /\ WindowTicks \in Nat
        /\ now[a] = own[a] + 1 /\ recent'[a] = recent[a] + 1
    BY <1>1, <1>4, <1>5 DEF LimiterTypes
  <2>2. CASE window.ttl = 0
    <3>1. own[a] = 0 /\ window.count = 0 /\ window'.ttl = WindowTicks
      BY <1>2, <1>3, <2>2 DEF OwnHits, OfNoWindow
    <3>2. QED
      BY <1>3, <2>1, <3>1
  <2>3. CASE window.ttl # 0
    <3>1. /\ own[a] <= window.count /\ window'.ttl = window.ttl
          /\ a < WindowTicks - window.ttl => own[a] < window.count /\ recent[a] = own[a]
      BY <1>2, <1>3, <2>3 DEF OwnHits, OfOpenWindow, Elapsed
    <3>2. QED
      BY <1>3, <1>7, <2>1, <3>1
  <2>4. QED
    BY <2>2, <2>3
<1>9. OwnHits(now)'
  <2>1. window'.ttl # 0
    BY <1>1, <1>3 DEF LimiterTypes
  <2>2. QED
    BY <1>5, <1>6, <1>7, <1>8, <2>1 DEF OwnHits, Ages
<1>10. QED
  BY <1>5, <1>9 DEF LimiterInv, Ages

\* A refusal only counts.
LEMMA RefusalStep ==
  ASSUME TypeOK, LimiterInv, Refusal
  PROVE  LimiterInv'
<1>1. LimiterTypes /\ UNCHANGED <<recent, losses>>
  BY TypesKnown DEF Refusal
<1>2. PICK own \in [Ages -> Nat] : OwnHits(own)
  BY DEF LimiterInv
<1>3. /\ window'.count = MaxHits + 1 /\ window.count >= MaxHits
      /\ window'.ttl = IF window.ttl = 0 THEN WindowTicks ELSE window.ttl
  BY <1>1 DEF Refusal, Increment, WithinBudget, LimiterTypes
<1>4. window.ttl > 0 /\ window'.ttl = window.ttl
  BY <1>1, <1>2, <1>3 DEF OwnHits, OfNoWindow, LimiterTypes
<1>5. OfOpenWindow(own)' /\ window'.count > 0
  BY <1>1, <1>2, <1>3, <1>4 DEF OwnHits, OfOpenWindow, Elapsed, LimiterTypes, Ages
<1>6. FormerBounded(own)'
  BY <1>1, <1>2 DEF OwnHits, FormerBounded, Ages
<1>7. OwnHits(own)'
  BY <1>1, <1>2, <1>4, <1>5, <1>6 DEF OwnHits, LimiterTypes, Ages
<1>8. QED
  BY <1>2, <1>7 DEF LimiterInv, Ages

\* A tick lengthens the spans; when the window expires then, no span of its hits has the
\* first of them any more.
LEMMA TickStep ==
  ASSUME TypeOK, LimiterInv, Tick
  PROVE  LimiterInv'
<1>1. LimiterTypes
  BY TypesKnown
<1>2. PICK own \in [Ages -> Nat] : OwnHits(own)
  BY DEF LimiterInv
<1>3. /\ \A a \in Ages : recent'[a] = IF a = 0 THEN 0 ELSE recent[a - 1]
      /\ \A a \in Ages : losses'[a] = IF a = 0 THEN 0 ELSE losses[a - 1]
  BY DEF Tick, Older
<1>4. \A a \in Ages : a # 0 => a - 1 \in Ages
  BY <1>1 DEF LimiterTypes
<1>5. CASE window.ttl = 1
  <2> DEFINE none == [a \in Ages |-> 0]
  <2>1. none \in [Ages -> Nat] /\ \A a \in Ages : none[a] = 0
    OBVIOUS
  <2>2. window' = Fresh /\ OfNoWindow(none)' /\ window'.ttl = 0
    BY <1>5 DEF Tick, Fresh, OfNoWindow, Ages
  <2>3. \A a \in Ages : a # 0 => recent[a - 1] < MaxHits /\ recent[a - 1] \in Nat
    BY <1>1, <1>2, <1>4, <1>5 DEF OwnHits, OfOpenWindow, Elapsed, LimiterTypes
  <2>4. \A a \in Ages : recent'[a] < MaxHits /\ recent'[a] \in Nat /\ losses'[a] \in Nat
    <3> SUFFICES ASSUME NEW a \in Ages
                 PROVE  recent'[a] < MaxHits /\ recent'[a] \in Nat /\ losses'[a] \in Nat
      OBVIOUS
    <3>1. CASE a = 0
      <4>1. recent'[a] = 0 /\ losses'[a] = 0
        BY <1>3, <3>1
      <4>2. QED
        BY <4>1, LimitsPositive
    <3>2. CASE a # 0
      <4>1. recent'[a] = recent[a - 1] /\ losses'[a] = losses[a - 1] /\ a - 1 \in Ages
        BY <1>3, <1>4, <3>2
      <4>2. losses[a - 1] \in Nat
        BY <1>1, <4>1 DEF LimiterTypes
      <4>3. QED
        BY <2>3, <3>2, <4>1, <4>2
    <3>3. QED
      BY <3>1, <3>2
  <2>5. \A n, m \in Nat : m <= (1 + n) * m
    BY SMT
  <2>6. FormerBounded(none)'
    <3> SUFFICES ASSUME NEW a \in Ages
                 PROVE  none[a] <= recent'[a] /\ recent'[a] - none[a] < (1 + losses'[a]) * MaxHits
      BY DEF FormerBounded, Ages
    <3> DEFINE r == recent'[a]
               l == losses'[a]
    <3>1. r < MaxHits /\ r \in Nat /\ l \in Nat /\ none[a] = 0 /\ MaxHits \in Nat
      BY <2>1, <2>4, LimitsPositive
    <3> HIDE DEF r, l, none
    <3>2. MaxHits <= (1 + l) * MaxHits /\ (1 + l) * MaxHits \in Int
      BY <2>5, <3>1
    <3>3. none[a] <= r /\ r - none[a] < (1 + l) * MaxHits
      BY <3>1, <3>2
    <3>4. QED
      BY <3>3 DEF r, l
  <2>7. OwnHits(none)'
    BY <2>1, <2>2, <2>6 DEF OwnHits, Ages
  <2>8. QED
    BY <2>1, <2>7 DEF LimiterInv, Ages
<1>6. CASE window.ttl # 1
  <2> DEFINE older == [a \in Ages |-> IF a = 0 THEN 0 ELSE own[a - 1]]
  <2>1. older \in [Ages -> Nat] /\ \A a \in Ages : older[a] = IF a = 0 THEN 0 ELSE own[a - 1]
    BY <1>2, <1>4
  <2>2. /\ window'.count = window.count
        /\ window'.ttl = IF window.ttl = 0 THEN 0 ELSE window.ttl - 1
    BY <1>1, <1>6 DEF Tick, LimiterTypes, TypeOK
  <2>3. FormerBounded(older)'
    <3> SUFFICES ASSUME NEW a \in Ages
                 PROVE  older[a] <= recent'[a] /\ recent'[a] - older[a] < (1 + losses'[a]) * MaxHits
      BY DEF FormerBounded, Ages
    <3>1. CASE a = 0
      BY <1>1, <1>3, <2>1, <3>1 DEF LimiterTypes
    <3>2. CASE a # 0
      BY <1>2, <1>3, <1>4, <2>1, <3>2 DEF OwnHits, FormerBounded
    <3>3. QED
      BY <3>1, <3>2
  <2>4. CASE window.ttl = 0
    <3>1. OfNoWindow(older)' /\ window'.ttl = 0
      BY <1>2, <1>4, <2>1, <2>2, <2>4 DEF OwnHits, OfNoWindow, Ages
    <3>2. OwnHits(older)'
      BY <2>1, <2>3, <3>1 DEF OwnHits, Ages
    <3>3. QED
      BY <2>1, <3>2 DEF LimiterInv, Ages
  <2>5. CASE window.ttl # 0
    <3>1. window'.ttl > 0 /\ window'.count > 0
      <4>1. window.count > 0 /\ window.ttl \in Nat
        BY <1>1, <1>2, <2>5 DEF OwnHits, LimiterTypes
      <4>2. QED
        BY <1>6, <2>2, <2>5, <4>1
    <3>2. OfOpenWindow(older)'
      <4> SUFFICES ASSUME NEW a \in Ages
                   PROVE  /\ older[a] <= window'.count /\ older[a] <= MaxHits
                          /\ a < Elapsed' =>
                               older[a] < window'.count /\ older[a] < MaxHits /\ recent'[a] = older[a]
        BY DEF OfOpenWindow, Ages
      <4>1. CASE a = 0
        <5>1. older[a] = 0 /\ recent'[a] = 0
          BY <1>3, <2>1, <4>1
        <5>2. window'.count \in Nat /\ MaxHits \in Nat \ {0}
          BY <1>1, <2>2 DEF LimiterTypes
        <5>3. QED
          BY <3>1, <5>1, <5>2
      <4>2. CASE a # 0
        <5>1. Elapsed' = Elapsed + 1 /\ Elapsed \in Int /\ a \in Int
          <6>1. window.ttl \in Nat /\ WindowTicks \in Nat /\ a \in Nat
            BY <1>1 DEF LimiterTypes
          <6>2. window'.ttl = window.ttl - 1
            BY <2>2, <2>5
          <6>3. QED
            BY <6>1, <6>2 DEF Elapsed
        <5>2. older[a] = own[a - 1] /\ recent'[a] = recent[a - 1] /\ a - 1 \in Ages
          BY <1>3, <1>4, <2>1, <4>2
        <5>3. OfOpenWindow(own)
          BY <1>2, <2>5 DEF OwnHits
        <5>4. a < Elapsed' => a - 1 < Elapsed
          BY <5>1
        <5>5. QED
          BY <2>2, <5>2, <5>3, <5>4 DEF OfOpenWindow
      <4>3. QED
        BY <4>1, <4>2
    <3>3. OwnHits(older)'
      BY <2>1, <2>3, <3>1, <3>2 DEF OwnHits, Ages
    <3>4. QED
      BY <2>1, <3>3 DEF LimiterInv, Ages
  <2>6. QED
    BY <2>4, <2>5
<1>7. QED
  BY <1>5, <1>6

\* With the counter its window is gone, and another allowance is noted for its hits.
LEMMA LossStep ==
  ASSUME TypeOK, LimiterInv, LoseCounter
  PROVE  LimiterInv'
<1>1. LimiterTypes /\ UNCHANGED recent
  BY TypesKnown DEF LoseCounter
<1>2. PICK own \in [Ages -> Nat] : OwnHits(own)
  BY DEF LimiterInv
<1> DEFINE none == [a \in Ages |-> 0]
<1>3. none \in [Ages -> Nat] /\ \A a \in Ages : none[a] = 0
  OBVIOUS
<1>4. OfNoWindow(none)' /\ window'.ttl = 0
  BY DEF LoseCounter, Fresh, OfNoWindow, Ages
<1>5. \A a \in Ages : losses'[a] = losses[a] + 1
  BY DEF LoseCounter, Noted
<1>6. \A a \in Ages : own[a] <= MaxHits
  BY <1>1, <1>2 DEF OwnHits, OfNoWindow, OfOpenWindow, LimiterTypes
<1>7. FormerBounded(none)'
  <2> SUFFICES ASSUME NEW a \in Ages
               PROVE  none[a] <= recent[a] /\ recent[a] - none[a] < (1 + losses'[a]) * MaxHits
    BY <1>1 DEF FormerBounded, Ages
  <2>1. losses[a] \in Nat /\ recent[a] \in Nat /\ own[a] \in Nat /\ MaxHits \in Nat
    BY <1>1, <1>2 DEF LimiterTypes
  <2>2. recent[a] - own[a] < (1 + losses[a]) * MaxHits
    BY <1>2 DEF OwnHits, FormerBounded
  <2>3. (1 + losses'[a]) * MaxHits = (1 + losses[a]) * MaxHits + MaxHits
    BY <1>5, <2>1, OneMore
  <2>4. (1 + losses[a]) * MaxHits \in Int
    BY <2>1
  <2>5. QED
    BY <1>3, <1>6, <2>1, <2>2, <2>3, <2>4
<1>8. OwnHits(none)'
  BY <1>3, <1>4, <1>7 DEF OwnHits, Ages
<1>9. QED
  BY <1>3, <1>8 DEF LimiterInv, Ages

\* Every action keeps what is known of the open window and the former ones.
LEMMA LimiterStep == TypeOK /\ LimiterInv /\ [Next]_vars => LimiterInv'
<1> SUFFICES ASSUME TypeOK, LimiterInv, [Next]_vars
             PROVE  LimiterInv'
  OBVIOUS
<1>1. CASE UNCHANGED limiter
  BY <1>1 DEF limiter, LimiterInv, OwnHits, OfOpenWindow, OfNoWindow, FormerBounded, Elapsed, Ages
<1>2. QED
  BY <1>1, LimiterSteps, HitStep, RefusalStep, TickStep, LossStep

\* The open window has one allowance, the others have the rest.
LEMMA LimiterBound ==
  ASSUME TypeOK, LimiterInv
  PROVE  AllowancesBound
<1>1. LimiterTypes
  BY TypesKnown
<1>2. PICK own \in [Ages -> Nat] : OwnHits(own)
  BY DEF LimiterInv
<1> SUFFICES ASSUME NEW a \in Ages
             PROVE  recent[a] < (2 + losses[a]) * MaxHits
  BY DEF AllowancesBound
<1>3. losses[a] \in Nat /\ recent[a] \in Nat /\ own[a] \in Nat /\ MaxHits \in Nat
  BY <1>1, <1>2 DEF LimiterTypes
<1>4. own[a] <= MaxHits
  BY <1>1, <1>2 DEF OwnHits, OfNoWindow, OfOpenWindow, LimiterTypes
<1>5. recent[a] - own[a] < (1 + losses[a]) * MaxHits
  BY <1>2 DEF OwnHits, FormerBounded
<1>6. (2 + losses[a]) * MaxHits = (1 + losses[a]) * MaxHits + MaxHits /\ (1 + losses[a]) * MaxHits \in Int
  BY <1>3, OneMore
<1>7. QED
  BY <1>3, <1>4, <1>5, <1>6

-----------------------------------------------------------------------------
(* The theorems.                                                            *)

\* A request past the tenant guard of a tenant route always has a role, and the
\* counters stay within what the limiter tells apart.
THEOREM TypeCorrect == Spec => []TypeOK
<1>1. IInv => TypeOK
  BY DEF IInv
<1>2. QED
  BY <1>1, Invariance, PTL

\* A handler that changes something has a user before it who passed the CSRF check, or
\* is one of those that sign up and in: over all routes, no API key gets to one.
THEOREM OnlyUsersWrite == Spec => []WritersAreUsers
<1>1. IInv => WritersAreUsers
  <2> SUFFICES ASSUME IInv, NEW r \in Requests, At(r, "handler"), ~request[r].route.safe,
                      request[r].route.entry # "exempt"
               PROVE  request[r].user /\ request[r].caller = "session"
    BY DEF WritersAreUsers
  <2> DEFINE q == request[r]
  <2>1. q \in Admission /\ q.step = "handler"
    BY InsideIsAdmission DEF IInv, At, Steps
  <2>2. AdmissionOK(q) /\ Permitted(q) /\ RouteAttributed(q.route)
    BY <2>1, RoutesAttributed DEF IInv, AdmissionOK, PermissionOK, Admission
  <2>3. CASE q.route.actor
    BY <2>1, <2>2, <2>3 DEF Permitted, AdmissionOK, UserOK, CsrfPasses, Steps
  <2>4. CASE ~q.route.actor
    <3>1. q.route.tenant /\ Can(q.role, q.route.permission) /\ ~Can("VIEWER", q.route.permission)
      BY <2>2, <2>4 DEF RouteAttributed, Permitted
    <3>2. q.caller # "key" /\ q.user
      BY <2>1, <2>2, <3>1 DEF AdmissionOK, TenantOK, TenantRead
    <3>3. QED
      BY <2>1, <2>2, <3>2 DEF AdmissionOK, UserOK, CsrfPasses, Steps
  <2>5. QED
    BY <2>3, <2>4
<1>2. QED
  BY <1>1, Invariance, PTL

\* What the guards found of the key, the organization and the role holds when the
\* handler runs, unless it has changed since.
THEOREM AuthorityHolds == Spec => []ActsWithAuthority
<1>1. IInv => ActsWithAuthority
  <2> SUFFICES ASSUME IInv, NEW r \in Requests, At(r, "handler"), ~request[r].skewed
               PROVE  Authorized(request[r])
    BY DEF ActsWithAuthority
  <2> DEFINE q == request[r]
  <2>1. q \in Admission /\ q.step = "handler"
    BY InsideIsAdmission DEF IInv, At, Steps
  <2>2. AdmissionOK(q) /\ Permitted(q)
    BY <2>1 DEF IInv, AdmissionOK, PermissionOK
  <2>3. q.caller = "key" => KeyLive
    BY <2>1, <2>2 DEF AdmissionOK, KeyOK, Steps
  <2>4. q.user => q.caller # "key"
    BY <2>1, <2>2 DEF AdmissionOK, UserOK, Steps
  <2>5. q.route.tenant => q.role = TenantRole(q) /\ q.role # Stranger
    BY <2>1, <2>2 DEF AdmissionOK, TenantOK, TenantRead, IInv, TypeOK, Roles, Stranger
  <2>6. QED
    BY <2>2, <2>3, <2>4, <2>5 DEF Authorized, TenantRole, Permitted
<1>2. QED
  BY <1>1, Invariance, PTL

\* forOrganization: whatever its arguments claim, a query reaches the rows of the
\* tenant in the request's URL.
THEOREM TenantsApart == Spec => []OneTenant
<1>1. IInv => OneTenant
  BY DEF IInv, ReachedOK, OneTenant
<1>2. QED
  BY <1>1, Invariance, PTL

\* redis.service.ts:79 and decision 0008: a fixed window lets through less than twice its
\* limit within any WindowTicks ticks, and one limit more for each loss of its counter in
\* them, for every limit, every length of the window and any losses.
THEOREM RateBounded == Spec => []AllowancesBound
<1>1. Spec => []LimiterInv
  <2>1. IInv /\ LimiterInv /\ [Next]_vars => LimiterInv'
    BY LimiterStep DEF IInv
  <2>2. QED
    BY <2>1, LimiterInit, Invariance, PTL DEF Spec
<1>2. IInv /\ LimiterInv => AllowancesBound
  BY LimiterBound DEF IInv
<1>3. QED
  BY <1>1, <1>2, Invariance, PTL
=============================================================================
