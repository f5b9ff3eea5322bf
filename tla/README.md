# ATLAS in TLA+

ATLAS is a multi-tenant platform: a NestJS API over PostgreSQL (through Prisma) and Redis,
and a Next.js client. Any number of API processes serve requests at once; they share nothing
but the database and the cache. So the questions a specification can answer better than a test are
about what happens *between* two queries of a request: which reads are still true when a
write relies on them, which writes share a transaction, and what is left behind when a process dies
in the middle. In the client it is about answers that arrive after something else has happened. These
modules model the parts of the system where that matters. TLC checks them on small instances, and
TLAPS proves the safety properties of the API and of the client for all instances.

Paths below are relative to `apps/api/src/` unless they start elsewhere.

## 1. Inventory

| Part | State | Operations | What is hard | What makes it correct |
|---|---|---|---|---|
| Roles and permissions (`packages/types/src/permissions.ts`) | none | `can`, `canChangeRole`, `canRemoveMember`, `assignableRoles` | - | the decisions keep an owner and respect ranks |
| Members (`modules/members`) | `organization_memberships` | `changeRole`, `remove`: SERIALIZABLE transactions that count owners, decide, write and audit | two last owners acting at once; serialization failures are not retried | an organization has an owner; the log replays to the table |
| Guards (`common/tenancy`, `common/authorization`, `modules/auth/auth.guard.ts`, `modules/api-keys/api-key.guard.ts`) | none; attach the user, the organization and the role to the request | `ApiKeyGuard`, `AuthGuard`, `RateLimitGuard`, `TenantGuard`, `PermissionsGuard` | each reads for itself, in a query of its own, what the handler relies on; a key passes some of them without a user | only members of an organization that is not deleted get in, with the role they have |
| Organizations (`modules/organizations`) | `organizations` | `create`, `update`, `softDelete`, slug allocation | check-then-insert of slugs; deletion beside requests under way | an organization is born with its owner, workspace and settings |
| Sessions (`modules/auth/session.service.ts`) | `sessions` rows; one Redis key per session | `create`, `resolve`, `revoke`, `revokeAllForUser`, `clearCacheForUser` | a read-through cache and its invalidation, without any lock; lost `DEL`s | a revoked session stops working and does not come back |
| Authentication (`modules/auth/auth.service.ts`, `password.service.ts`) | `users.passwordHash` | `register`, `login` (with rehash), `changePassword`, `updateProfile`, `logout` | no transactions: logins and changes interleave query by query | only a change changes the password; a change evicts |
| Invitations (`modules/invitations`) | `invitations`, and a membership row on acceptance | `invite`, `revoke`, `accept` | checks outside the transaction or without a lock, updates by id | one live invitation per address; a dead one lets nobody in |
| Work items (`modules/work-items`) | `work_items`, `projects.workItemCounter` | `create`, `update`, `remove` | numbering under concurrency; `completedAt` decided from an earlier read | numbers without gaps; `completedAt` agrees with the status |
| Workspaces, projects, teams (`modules/workspaces`, `projects`, `teams`) | their tables, joined by composite foreign keys; a team's people | create, update, remove; a cascade and a restriction; adding people to a team; allocation of slugs and keys | counting before deleting; deleting in two statements; candidates that are cut to a length | no work is lost by a deletion that was to be refused; a name gets an address when one is free |
| Audit trail (`common/audit`) | `audit_logs` | `record`, with or without the caller's transaction | what the log says after a failure | the log agrees with the tables |
| Settings (`modules/settings`) | `organization_settings` | `get`, `update` | write skew between the two domain settings | no configuration that locks everybody out |
| API keys (`modules/api-keys`) | `api_keys` | `create`, `revoke`, `verify`, last use | a key outliving its creator's rank, expiry, revocation under way | a key never does more than its creator could |
| Rate limiter (`common/redis`, `common/http`) | Redis counters, not persisted | `incrementWindow` | a window's boundary, Redis failing or restarting empty | the limit holds per window and per loss of the counter |
| Tenant scope (`packages/database/src/tenant-scope.ts`) | none | rewriting of queries | completeness over models and operations | no query crosses a tenant |
| Web application (`apps/web`) | per tab: a query cache, with the answers the server once gave | pages that fetch and show entries; dialogs whose mutations change the server, then invalidate entries | fetches that overtake mutations, overlapping optimistic changes, an entry no invalidation names, another principal's data | what an operation invalidates is current on screen in the end, and what is on screen is the user's own |
| Email, errors, configuration, health, validation, observability | none the API reads back | - | - | - |

How they interact: every request passes `ApiKeyGuard`, `AuthGuard` (sessions), then per route
`RateLimitGuard`, `TenantGuard` and `PermissionsGuard`, and ends in one service method. Services
share rows: `accept` and `MembersService` write the same memberships; projects hang off workspaces
and teams; items are assigned to members; nearly all of them write the audit log.
`AuthService.changePassword` calls `SessionService.revokeAllForUser`, `updateProfile` calls
`clearCacheForUser`. The client and the API share nothing but requests and answers.

The hazards, each at its line and with the properties that would catch it, are in `PROJECT.json`.

## 2. Modules

| Module | Models | State | Actions |
|---|---|---|---|
| `Rbac` | `permissions.ts` | - | operators: `Rank`, `RolePermissions`, `CanChangeRole`, `CanRemoveMember` |
| `AtomicMembership` | the promise of the membership table: each operation is one step, judged on the table as it is | `status`, `members` | `Create`, `ChangeRole`, `Remove`, `Join`, `SoftDelete` |
| `Membership` | `MembersService` as concurrent SERIALIZABLE transactions | the table, the log as it replays, and per request what it asks, its snapshot and which of its reads are stale | `Admit` (guards), `Judge` (reads and decision), `Commit`, `Refuse`, `Abort`, and `Create`, `Join`, `SoftDelete` |
| `AtomicNumbering` | the promise of a project's numbering: a create is one step and takes the next number | `last`, `number`, `there` | `Create`, `Remove` |
| `AtomicCatalog` | the promise of the catalog: each operation is one step on the rows as they are | `workspaces`, `teams`, `place` of each project | `CreateWorkspace`, `CreateTeam`, `CreateProject`, `Reassign`, `DeleteProject`, `DeleteWorkspace`, `DeleteTeam` |
| `SessionCache` | `SessionService` and the part of `AuthGuard` that uses it | `row`, `expired`, `profile`, `cache` with its TTL, `resolver` and `worker`: where each request is | `MissCache`, `ReadRow`, `WriteCache`; `Logout`, `RevokeOthers`, `ListOthers`, `RevokeListed`, `UpdateProfile`, `ListCached`, `Evict`; `Open`, `Expire`, `Tick`; `LoseResolver`, `LoseWorker` |
| `Credentials` | `AuthService` and `PasswordService` for one account | `hash`, `session`, `login`, `change` | `Register`, `Verify`, `Rehash`, `CreateSession`; `StartChange`, `StoreHash`, `ListOthers`, `RevokeListed`; `Logout`, `StrengthenPolicy`, failures |
| `Invitations` | `InvitationsService` | `invitation`, `lapsed`, `members`, `joins` and `removals` as the log tells them, `request` | `CheckMember`, `CheckPending`, `Issue`; `CheckRevocable`, `Revoke`; `FindLive`, `Reread`, `Consume`; `Lapse`, `RemoveMember`, `SoftDelete`, `Abandon` |
| `WorkItems` | `WorkItemsService` for one project | `counter` and its row lock, `number`, `item`, `members`, `request` | `StartCreate`, `TakeNumber`, `Insert`; `StartUpdate`, `CheckAssignee`, `Write`; `RemoveItem`, `Join`, `Leave`, `Abandon` |
| `Catalog` | `WorkspacesService`, `TeamsService`, `ProjectsService` of one organization | `workspace`, `team`, `project`, `audit`, `request` | `CreateWorkspace`, `CreateTeam`, `StartCreate`/`StartUpdate`, `CheckTeam`, `Insert`, `Retarget`, `DeleteProject`, `DeleteWorkspace`, `Unassign`, `DeleteTeam`, `Record`, `Abandon` |
| `Organizations` | what the services of one tenant check first and rely on later: addresses (`resolveSlug`, `resolveKey`), the email-domain policy between `SettingsService` and `invite`, the people of a team | `taken` addresses by kind, `settings`, `members`, `team`, `request`; `refused`, `crossed`, `invited` for the properties | `StartCreate`, `Lookup`, `Insert`, `DeleteRow`; `StartUpdate`, `Upsert`; `StartInvite`, `Issue`; `StartAdd`, `AddMember`, `RemoveMember`; `JoinOrganization`, `LeaveOrganization`, `Abandon` |
| `Access` | every route of the API through its five guards, the window of the rate limiter, `forOrganization` | `role` per organization, `deleted`, `key`, `request`, `window`; `recent`, `losses`, `reached` for the properties | `Arrive`, `CheckKey`, `Authenticate`, `Limit`, `ReadTenant`, `CheckPermission`, `Query`, `End`; `Tick`, `LoseCounter`; `ChangeRole`, `SoftDelete`, `CreateKey`, `RevokeKey`, `ExpireKey` |
| `Client` | one entry of the query cache, the fifteen pages that may show it, every dialog's operation | `page`, `who` is signed in, the server's `version` of the answer, `entry`, `fetch`, `mutation` | `Navigate`, `Focus`; `Respond`, `Receive`, `FetchFails`; `Submit`, `Commit`, `Succeed`, `Finish`, `Recover`; `SessionEnds`, `Leave` |
| `MC...` | symmetry sets for TLC | | |
| `...Proofs` | theorems | | |

How code becomes actions. Every `await` on the database or on Redis is a point where other
requests may run, so a method is as many actions as it has queries; a transaction is one
action when nothing others do can fall between its statements, and several when something can
(`accept`'s unlocked re-read, the counter's row lock, the two statements of a team's removal). A
query that fails and a process that dies look the same to the database: the request disappears and
its open transaction rolls back (`Abandon`, `Abort`, `Lose...`).

PostgreSQL is modelled by what the code relies on. `Membership` has what SERIALIZABLE forbids: a commit
whose reads (the target's row, the set of OWNER rows) were overwritten since its snapshot. At
READ COMMITTED, the level of every other transaction, a statement sees what is committed when it
starts; rows written by an open transaction block other writers (`holder` in `WorkItems`,
`Locked` in `Catalog`); foreign keys and unique indexes are guards.

History variables, which the code does not have, are marked "history" where they are declared:
`overtaken`, `overlapped`, `formerly`, `earlier`, `before`, `crossed`, `stale` and `skewed` record what a
property needs to say "unless two of them overlapped" or "that existed when it looked".

How the modules are related. `Membership` implements `AtomicMembership` under the refinement mapping
of `Atomic == INSTANCE AtomicMembership WITH ...`; both, and `Access`, judge with the operators of `Rbac`. In the same way
`WorkItems` implements `AtomicNumbering`, where the number given last is the counter without the increment of an open
transaction (`Committed`), and `Catalog` implements `AtomicCatalog`, where a project that has been deleted is nowhere and the
first statement of a team's removal is not seen until its second one commits both. The
others share no variables, but model the same rows from different sides: `Organizations` takes memberships as given
(`JoinOrganization`, `LeaveOrganization`) and asks who is on a team; `Access` takes changes of roles as given
and asks what the guards make of them; `Membership` starts where the guards end, with a role that may be stale.

Left out of the models' data: titles, descriptions, tokens and their hashes, timestamps
other than "has passed" and "is set". A password hash is the password it was made from and
whether it meets the present Argon2 policy. Names matter only in `Organizations`, where an address is a
sequence of characters, because what is cut off it decides whether two attempts are the same.

In `Organizations` a text is what a user chooses or what `slugify` or `deriveKey` makes of a name: any well-formed address, but
a derived key leaves room for its number (`Suits`), since `deriveKey` returns at most seven of ten characters.
`Numeral[n]` are the digits of a number, one or more, and `Slice` cuts as `slice` does. So the attempts `-10` to `-24`
after 62 characters are cut back to `-1` and `-2`, and all of them are the text itself after 64. A chosen address may be
one that a name leads to (`acme-2`). At first there are no rows, or those of users who have chosen one of the texts, alone or with each
number (`Namesakes`): a crowd, without the many steps it takes to gather. Rows of workspaces, teams and projects are deleted and
give back their addresses (`DeleteRow`); an organization keeps its row.

In `Access` the tables of routes are the controllers' decorators: one record per combination of permission, tenant,
entry, metering and use of the caller's id. A limiter that Redis fails lets the request go on uncounted, as does a
request to another bucket (`LimitElsewhere`). Redis keeps nothing over a restart, so the counter may be lost at any moment
(`LoseCounter`), after which the next request opens a window. The queries of `forOrganization` are given by what their `where` and their
`data` claim, and by the kind of operation.

In `Client` the entry is any one of the sixteen resources, chosen at the start. TanStack Query is external:
`invalidateQueries`, `cancelQueries`, `setQueryData` and `clear` do to the entry what its version 5 does to one that
is on screen or not. Its retries leave a fetch asked; that `staleTime` runs out is the same as a tab
regaining focus after it (`Focus`). What an operation *changes* follows from
what it writes: `Carriers` has, for each piece of data, the answers that carry it, as rows, as a name or as a count. What it
*invalidates* is what its page names in `invalidateQueries` or `useTenantMutation`, and that is less: nearly every operation
writes the audit log and none invalidates it. `names` is what the page means to invalidate, which differs for the creation of a project
only. Pages that treat the entry alike are one page, and one that another outdoes is left out (`Visited`). Left out is which
role is offered what.

## 3. Runs

All bounds are the sizes of the constant sets and the numeric constants in the `.cfg` files.

| Run | Instance | Distinct states | Shows |
|---|---|---|---|
| `membership` | 3 users, 2 requests | 230 000 | owner safety, the log replays to the table, and `Membership` implements `AtomicMembership` |
| `session_cache` | 2 sessions, 2 resolvers, 1 worker, TTL 2, 1 profile edit, faults | 180 000 | no resurrection; revocations take effect and profiles converge in the end |
| `session_cache_healthy` | same actions, no faults | counterexample | logout is not instant |
| `credentials` | 3 sessions, 2 logins, 2 changes, 2 passwords, faults | 533 000 | a change evicts what there was; only changes, and overtaken rehashes, replace the password |
| `credentials_rehash` | same | counterexample | a rehash brings the former password back |
| `invitations` | 2 people, 3 invitations, 2 requests, bounded removals | 594 000 | what one can rely on without the index and the lock |
| `work_items` | 1 person, 2 items, 2 requests | 716 000 | `WorkItems` implements `AtomicNumbering`; stamps, assignees |
| `catalog` | 2 workspaces, 1 team, 2 projects, 2 requests | 1 850 000 | `Catalog` implements `AtomicCatalog`; losses explained by the log, what a cascade may take |
| `organizations` | 2 requests, 3 requests and deletions in a behaviour; 3 kinds; 4 texts, addresses of 6 characters, 5 attempts, numbers to base 3; 1 person, 2 domains | 657 000 | when a name is refused or ends in a hyphen; what overlapping checks of the policy let through; who is on a team |
| `access` | 2 organizations, 1 request at a time, limit 2, windows of 2 ticks, 1 change of the world or loss of the counter | 513 000 | who acts with which authority, on whose rows, how often; a lockout ends |
| `client` | 2 users, 2 operations at once and in all | 859 000 | what operations invalidate is current on screen in the end, and what is on screen is the user's own |
| `client_projects` | same | counterexample | a created project is missing from the list |

Why the bounds are enough. Every race in this code is between two requests: one that has read
and one that writes, so two requests in flight reach each of them. A third actor comes in as an
environment action that needs no slot (`Join`, `Leave`, `Logout`, `Lapse`, `RemoveMember`,
`Expire`, `Tick`). Three users are needed so that two owners can act on each other and on a
third; three invitations so that one supersedes another while a third is accepted; a TTL
of 2 so that a copy can be written, age and be rewritten; two items, so that numbers can collide;
two projects, so that a cascade can take one and leave one. `MaxRemovals` and `MaxProfile` bound
counters that grow for ever otherwise, and so do `MaxServed`, `MaxChanges` and `MaxOperations`.

In `organizations`, the attempts are the text and the text with the numbers 2 to 4, which are written `2`, `10` and `11` to
base 3, so that one has a single digit and two have two, as 2 to 9 and 10 to 24 have. With six characters there is a text
with room for every number (`aaa`), texts with room for `-2` and not for `-10` (`aaa2`), and without room for more than the hyphen
(`aaa-2`, which is also what `aaa` leads to), and a reserved one. A text of full length, all of whose
attempts are the same, is left to the proofs. Workspaces and teams are named by the same code, so one of the two kinds is enough. In `access` one request at a time is enough, since requests meet each other only in the
limiter, which keeps what the earlier ones have counted; the world may change between any two guards, and one change is
what makes one of them stale. The second organization is the tenant whose rows a query of the first must not reach. In `client` two operations overlap each other and any fetch; the second user is who signs in after the first.

What the passing runs say, in the words of the code's own comments:

- *Owner safety* (`members.service.ts`, comment on `changeRole`). Two concurrent demotions of the last two
  owners do not both commit. This needs SERIALIZABLE: at REPEATABLE READ, which checks only the
  target's row, `OwnerExists` fails; the mutant `ConflictsRepeatableRead` shows it.
- *Sessions.* Neither lost `DEL`s nor crashes nor late fills bring a revoked session back once it is in no cache
  and in no request's hands, and the TTL gets it there.
- *Passwords.* `changePassword` revokes every session that existed when it stored the hash. It
  does not reach a login that is between its check and its session.
- *Invitations.* Without the partial unique index that `schema.prisma:488` announces, an address has
  two PENDING invitations only after two invites to it overlapped. Without the lock that
  `accept`'s comment asks for, a dead invitation still lets nobody in unless an accept is already past its
  re-read, and the unique index on memberships bounds redemptions by one plus the removals of
  the person.
- *Work items.* Numbers have no gaps and no duplicates, whatever fails. `completedAt` is never set on an open
  item, and is missing on a finished one only after two updates overlapped. Nobody is assigned
  work who has never been a member.
- *Catalog.* No project refers to anything deleted. A cascade takes no project that the emptiness check could have
  counted, but it may take one that was created after the count. A project loses
  its team only with the team or by its own update. Every loss has its entry in the log.
- *Names.* A create is refused for want of an address only after it has met as many different rows as there are attempts that are not cut: one for
  its text, unless that is reserved, and one for each number that fits. So after 61 characters or fewer
  it takes 24 rows, as the code intends; after 62 characters the nine of the text and `-2` to `-9`, and the one that `-10` is cut to; after 63
  the text's own and the one with the hyphen; after 64 the text's own. A slug ends in a hyphen, which `SLUG_PATTERN` forbids, only if
  its text is one character short of the longest.
- *Settings.* The domain restriction is on with an empty list only after two updates overlapped: each merges its fields
  into settings that it read earlier. An invitation goes to a domain outside the list only if an update overtook it.
  (`assertDomainAllowed` lets everybody in on an empty list, while the comment in `settings.service.ts` speaks of blocking
  everybody; so the state that `update` refuses would not do what it is refused for.)
- *Teams.* Nobody is on a team who is not in the organization. The check in `addMember` does not ensure it, since the
  person may leave before the insert; the foreign key to the membership does.
- *Access.* Over all routes, whoever changes anything is a user who passed the CSRF check, or is signing up or in:
  a key has a viewer's rights, and the only changing routes without a user ask for more. A handler runs with
  the role, organization and key that are, unless one of them changed after its guard read it. No query leaves its
  tenant. The requests let through in any stretch of a window's length are fewer than twice the limit, since windows
  are fixed, and the limit once more for every loss of the counter in that stretch, as
  `docs/decisions/0008-redis-as-disposable-state.md` accepts; and a bucket that is exhausted opens again.
- *Client.* Once nothing is under way and no error shows, the screen has no guess on it, and nothing from before the last operation that
  the user was told was done and that invalidates the entry; but for an operation begun while its entry was first loading, whose fetch the
  invalidation joins instead of starting another. What has been invalidated comes on screen if the user stays. Nobody sees the data
  of who was signed in before them, except while it is being fetched anew.
  Of what an operation changes without invalidating it, nothing is promised, and it does stay on screen until the next fetch, which
  after `staleTime` a visit or the focus brings: the list of projects after a creation; the work items of a deleted project
  (`apps/web/src/app/app/[orgSlug]/projects/[projectId]/page.tsx`); the name of an edited project on work items and teams; a new display
  name on members, teams, work items and the log; the teams and projects of a removed member; the counts of the organization;
  and the audit log after nearly everything. Only the first contradicts what the page itself invalidates, and is a finding.

The counterexamples are disagreements between a comment and the code; each is quoted under
`findings` in `PROJECT.json`. Two come from a decision made in one query and acted on in
another; the third is a key, `['projects', slug, undefined]`, that no list's key begins with.

**Fairness.** It is assumed for the liveness properties only.

- `SessionCache`: time passes (`WF(Tick)`, which ages cache entries), and a resolver that has read the row goes on to
  write the cache or dies, either of which Node's event loop and Redis's time-outs bring about. Nothing is assumed of
  workers: a `DEL` may never come.
- `Access`: time passes (`WF(Tick)`), which is what makes Redis drop the counter. Nothing is assumed of requests.
- `Client`: a fetch under way is answered or fails, and a mutation under way goes on to its end
  (`WF(Respond \/ FetchFails \/ Receive)`, `WF(\E m : Conclude(m))`). The browser ends every request in one of the two ways.
  `Converges` speaks of behaviours in which the user stays on a page in the end.

**Deadlock** is checked in `session_cache`, `credentials`, `work_items` and `catalog`. Elsewhere the system may
stop: an organization that is deleted and whose users are all members has nothing left to do, the people of
`invitations` have been removed as often as the bound allows, and requests, changes and operations
run out in `organizations`, `access` and `client`. The counterexample runs do not check it either.

**Mutants.** Each property of each passing run has an operator in the modules, marked "Mutant of", that
changes one mapped definition as a plausible bug would; under it the property fails in the
same run.

## 4. Proofs

TLAPS checks these for every value of the constants: any finite or infinite sets of users, sessions,
requests, items and so on, unless an assumption says otherwise.

| Module | Theorem | Establishes |
|---|---|---|
| `MembershipProofs` | `TypeCorrect`, `AtomicOwnerSafety`, `Refinement`, `OwnerSafety`, `AuditFaithful`, `RankSafety` | the atomic table keeps an owner; `Spec => Atomic!Spec`, and what follows; nobody acts on a member whose role outranks or equals theirs, owners excepted |
| `CacheProofs` | `TypeCorrect`, `NoResurrection`; `ScreenSettles`, `PrincipalsApart` | of the API's cache `GoneForGood`, of the browser's the invariants of the run |
| `CredentialsProofs` | `TypeCorrect`, `Eviction`, `PasswordSafety` | `ChangeEvictsEarlier`, `PasswordKept` |
| `InvitationsProofs` | `TypeCorrect`, `OneInvitation`, `AcceptedFaithful`, `RedemptionBound`, `NoLateJoin` | the four properties of the run |
| `WorkItemsProofs` | `TypeCorrect`, `Numbering`, `Stamping`, `Assigning`; `AtomicNumbers`, `Refinement` | the properties of the run: `Spec => Atomic!Spec`, where the numbers have no gaps, and the other invariants |
| `CatalogProofs` | `TypeCorrect`, `ReferencesHold`, `Explained`, `CheckedProjectsKept`, `TeamKept`; `AtomicReferences`, `Refinement` | all properties of the run: `Spec => Atomic!Spec`, where references hold, and the others |
| `OrganizationsProofs` | `TypeCorrect`, `CrowdHolds`, `HyphensHold`, `PolicySound`, `InvitesObey`, `TeamsHold` | all properties of the run |
| `AccessProofs` | `TypeCorrect`, `OnlyUsersWrite`, `AuthorityHolds`, `TenantsApart`, `RateBounded` | the safety properties of the run |

The arguments, by what has to be added to the invariant to make it inductive:

- `Membership`: the snapshot a judged request holds is current unless it is marked stale, so a
  commit that `Conflicts` lets through is judged on the present table and is a step of the atomic
  specification. The owner count is compared through cardinalities of finite sets, hence the
  assumption that `Users` is finite. `RankSafety` is about the role that a commit replaces, where the code compared the role it
  had read: the two are the same for the same reason. (Without the check of the target's row in `Conflicts`, an ADMIN's demotion
  of a MEMBER would reach one who has become an OWNER meanwhile.)
- `SessionCache`: none but the types. A revoked row is never unrevoked, a copy is made from an unrevoked row only, and only
  a copy is written to Redis, so what is gone from all three stays gone.
- `Credentials`: until some change overtakes a login, a login about to rehash holds the password
  that opens the account; and a change that has listed sessions has each of its promised ones in the list
  or finds it revoked.
- `Invitations`: an accept past its re-read has paid for its join (the joins of a token
  plus what is in flight are at most the removals of its person plus one); and an invite about to
  issue names the only PENDING row of an address whose invites never overlapped.
- `WorkItems`: the holder of the row lock is the one create past its increment; what an update read
  of the status is true unless the item is marked overtaken; whoever passed the check has been a
  member. Refinement: an increment and its roll-back leave `Committed` alone, so only the insert is seen, and there the
  counter that the lock has protected is one more than the last number.
- `Catalog`: the projects a removal's check saw are erased or elsewhere, and stay so, since projects never move
  between workspaces; a transaction that has unassigned projects keeps their rows to itself; entries written after
  the fact tell of no deletion. Refinement: what a transaction has unassigned is, at its second statement, all that the team
  still has, since its rows are locked and a project put on the team meanwhile would violate the foreign key; so its two
  statements are one step. The lookups of the other operations are not seen, because the foreign keys check them again.
- `Organizations`: a request that looks up its n-th candidate has met the rows of the earlier ones, whether they are still there or
  not. A number that fits is not cut, two of them make different candidates, and neither is the text itself; so
  the text and the numbers that fit are injected into the rows met, which are finitely many. For the hyphen, a candidate that is cut ends
  in the text, in the hyphen or in a digit, by how long the text is (`AttemptEnds`). What an update has merged, and what an invite was let through by, are of the present
  settings unless the request is marked stale.
- `Access`: each guard leaves a fact with the request (a key's caller is in the key's organization, the role is the one
  held there, the role has the permission), which changes of the world keep or mark. `OnlyUsersWrite` then goes through
  the routes: one that changes something and does not ask who did it wants a permission that a viewer lacks.
- The limiter (`RateBounded`): of what was let through in the last `a` ticks, some (`own[a]`, a witness of the invariant) is of the open window,
  which counts it, so that it is at most the limit; and all of it is, if the window is older than that. The rest is of the window that expired
  before, of which at least the hit that opened it is no longer recent, and of those that were lost meanwhile, of which each gave at
  most the limit. The invariant has this for every `a` below the window's length, so that a tick shifts the bound together with the history.
- `Client`: an entry, or a fetch, that no operation has marked for invalidation was answered after what the user has been told;
  a guess or a restored snapshot is always followed by an invalidation; the promise of a
  version is only made by an operation that invalidates or clears the entry, in the same step. And who is signed in changes only
  together with the clearing of the cache, so what an entry, a fetch or a snapshot holds is of the present user or to be fetched anew.

Assumptions on constants are named `ASSUME`s in the module that declares them: sentinels such as
`"none"` are no members of the sets they extend, bounds are numbers, `Default` is a workspace,
identifiers of different kinds differ (they are UUIDs), there is a user and `Nobody` is none, there are two attempts at least, texts are well formed, numbers have different digits and no
hyphen, and the reserved texts leave room for `-org` and a number.

`NoDanglingProject` and `NumbersGapless` are proved of `Catalog` and `WorkItems` directly, since the refinements rest on them, and
the runs check the refinements, which imply the same of the abstract rows.

Only model-checked: the liveness properties (`RevocationTakesEffect`, `ProfileConverges`, `LockoutEnds`, `Converges`), which
are out of the prover's reach, and every counterexample.

## 5. Plan

Done, in order: membership and its atomic specification; the session cache; credentials; invitations; work
items; the catalog; organizations with names, settings and teams; the guards with API keys, the rate limiter and
the tenant scope; the web client; the atomic numbering and the atomic catalog. The proofs followed each module.

Next:

1. An atomic specification of what an invitation promises, and `Invitations` as its implementation up to the two known
   overlaps.
2. `Catalog`, completed: the status of projects with `archivedAt`, and the entries of renamings.

## 6. Not modelled

- A session opened by a login that was verified before a password change, an actor demoted after the guard read
  their role, and an entry lost between a creation and its audit record are all behaviours of the models;
  no property speaks of them, because the one that would is false and says no more than this sentence.
- Read-only operations (lists, previews, the reading of the log) and updates of names, avatars and descriptions, which are
  one write without a check. `updateTeam` and `updateWorkspace` leave the slug alone.
- The status of projects: one created ARCHIVED has no `archivedAt` (`projects.service.ts:172`), which its `update` keeps
  in step with the status.
- The unique index turns down the second of two creates that found the same free address. The models end the request; the
  code answers with a server error, since nothing translates the database's.
- `schema.prisma:132` has the domain checked on acceptance; the code checks it on invitation only, and so does the model.
- `lastUsedAt` of a key, `lastSeenAt` of a session, and which values make up the key of a rate limiter's bucket.
- Of the tenant scope, nested writes and a `data.organizationId` in an update: passed on unchanged, and no service has one.
- In the client: what is typed into forms (saving one of the two forms of the settings resets the other,
  `apps/web/src/app/app/[orgSlug]/settings/page.tsx:187`), filters, other tabs, layout, and which operations a page offers to
  which role (the members page offers an ADMIN changes of other ADMINs that the API always refuses).
- Email, logging, configuration, health checks, request validation and the deployment files: no
  state that another component reads back.
- The cryptography: token hashes and Argon2 are taken to be injective.
