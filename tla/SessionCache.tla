----------------------------- MODULE SessionCache -----------------------------
(***************************************************************************)
(* SessionService: the sessions of one user in PostgreSQL and the copies    *)
(* of them in Redis that let a request authenticate without a query.       *)
(*                                                                         *)
(* A resolver is a request in the middle of SessionService.resolve: it has *)
(* missed the cache, then read the row, then writes what it read to the    *)
(* cache.  A worker is a request inside logout, changePassword or          *)
(* updateProfile: it has changed rows and still has cache keys to delete,  *)
(* in any order.  A cached copy carries the user's profile, here a version *)
(* number, and lives CacheTTL ticks.                                       *)
(*                                                                         *)
(* With Faults, any Redis call may fail, which the code swallows, and a    *)
(* crash or a database error may end a resolver or a worker anywhere.      *)
(***************************************************************************)
EXTENDS Integers

CONSTANTS
  Sessions,      \* session rows
  Resolvers,     \* how many requests may be resolving at once
  Workers,       \* how many may be revoking, or evicting from the cache
  CacheTTL,      \* SESSION_CACHE_TTL_SECONDS, in ticks
  MaxProfile,    \* bound: profile updates explored
  Faults         \* whether Redis calls fail and requests die half-way

ASSUME CacheTTLAssumption == CacheTTL \in Nat \ {0}
ASSUME MaxProfileAssumption == MaxProfile \in Nat
ASSUME FaultsAssumption == Faults \in BOOLEAN

VARIABLES
  row,        \* row[s]: "absent", "live" or "revoked"
  expired,    \* the sessions whose expiresAt has passed
  profile,    \* the version of the user row
  cache,      \* cache[s]: what Redis holds under session:<tokenHash>
  resolver,   \* resolver[r]: what r is about to do
  worker      \* worker[w]: likewise

vars == <<row, expired, profile, cache, resolver, worker>>

Miss == [ttl |-> 0]
Cached == [ttl : 1..CacheTTL, profile : 0..MaxProfile]

NoResolver == [pc |-> "idle"]
Resolver == [pc : {"missed"}, session : Sessions]
            \cup [pc : {"filling"}, session : Sessions, profile : 0..MaxProfile]

\* "list" and "revoke" are the queries of revokeAllForUser, "listCached" that of
\* clearCacheForUser; "evict" deletes keys.
NoWorker == [pc |-> "idle"]
Worker == [pc : {"list"}, own : Sessions]
          \cup [pc : {"listCached"}]
          \cup [pc : {"revoke", "evict"}, todo : SUBSET Sessions]

Init ==
  /\ row = [s \in Sessions |-> "absent"]
  /\ expired = {}
  /\ profile = 0
  /\ cache = [s \in Sessions |-> Miss]
  /\ resolver = [r \in Resolvers |-> NoResolver]
  /\ worker = [w \in Workers |-> NoWorker]

-----------------------------------------------------------------------------

\* What a session query for the user without revoked rows returns.
Unrevoked == {s \in Sessions : row[s] = "live"}

\* The row passes the check of resolve, the cached copy that of readCache.
LiveRow(s) == row[s] = "live" /\ s \notin expired
LiveCopy(s) == cache[s] # Miss /\ s \notin expired

\* AuthGuard.canActivate lets a request bearing s through.
Accepts(s) == LiveCopy(s) \/ LiveRow(s)

\* SessionService.create
Open(s) ==
  /\ row[s] = "absent"
  /\ row' = [row EXCEPT ![s] = "live"]
  /\ UNCHANGED <<expired, profile, cache, resolver, worker>>

\* The session's expiresAt passes.
Expire(s) ==
  /\ row[s] # "absent" /\ s \notin expired
  /\ expired' = expired \cup {s}
  /\ UNCHANGED <<row, profile, cache, resolver, worker>>

\* Mutant of Tick: keys were written without EX, and stay.
TickWithoutExpiry ==
  /\ \E s \in Sessions : cache[s] # Miss
  /\ cache' = [s \in Sessions |->
       IF cache[s].ttl > 1 THEN [cache[s] EXCEPT !.ttl = @ - 1] ELSE cache[s]]
  /\ UNCHANGED <<row, expired, profile, resolver, worker>>

\* Time passes, and Redis drops keys whose TTL has run out.
Tick ==
  /\ \E s \in Sessions : cache[s] # Miss
  /\ cache' = [s \in Sessions |->
       IF cache[s].ttl > 1 THEN [cache[s] EXCEPT !.ttl = @ - 1] ELSE Miss]
  /\ UNCHANGED <<row, expired, profile, resolver, worker>>

-----------------------------------------------------------------------------
\* resolve

\* readCache finds nothing it can use, or cannot reach Redis.
MissCache(r, s) ==
  /\ resolver[r] = NoResolver
  /\ row[s] # "absent"
  /\ ~LiveCopy(s) \/ Faults
  /\ resolver' = [resolver EXCEPT ![r] = [pc |-> "missed", session |-> s]]
  /\ UNCHANGED <<row, expired, profile, cache, worker>>

\* Mutant of ReadRow: the revokedAt check is missing.
ReadRowEvenRevoked(r) ==
  /\ resolver[r].pc = "missed"
  /\ resolver' = [resolver EXCEPT ![r] =
       IF resolver[r].session \notin expired
       THEN [pc |-> "filling", session |-> resolver[r].session, profile |-> profile]
       ELSE NoResolver]
  /\ UNCHANGED <<row, expired, profile, cache, worker>>

\* The query by tokenHash, joined with the user; null unless the row is live.
ReadRow(r) ==
  /\ resolver[r].pc = "missed"
  /\ resolver' = [resolver EXCEPT ![r] =
       IF LiveRow(resolver[r].session)
       THEN [pc |-> "filling", session |-> resolver[r].session, profile |-> profile]
       ELSE NoResolver]
  /\ UNCHANGED <<row, expired, profile, cache, worker>>

\* Mutant of WriteCache: the expiry is set beyond SESSION_CACHE_TTL_SECONDS.
WriteCacheTooLong(r) ==
  /\ resolver[r].pc = "filling"
  /\ cache' = [cache EXCEPT ![resolver[r].session] =
       [ttl |-> CacheTTL + 1, profile |-> resolver[r].profile]]
  /\ resolver' = [resolver EXCEPT ![r] = NoResolver]
  /\ UNCHANGED <<row, expired, profile, worker>>

\* writeCache: SET with EX, over whatever is there.
WriteCache(r) ==
  /\ resolver[r].pc = "filling"
  /\ cache' = [cache EXCEPT ![resolver[r].session] =
       [ttl |-> CacheTTL, profile |-> resolver[r].profile]]
  /\ resolver' = [resolver EXCEPT ![r] = NoResolver]
  /\ UNCHANGED <<row, expired, profile, worker>>

\* The SET fails, or the request dies on the way.
LoseResolver(r) ==
  /\ Faults
  /\ resolver[r] # NoResolver
  /\ resolver' = [resolver EXCEPT ![r] = NoResolver]
  /\ UNCHANGED <<row, expired, profile, cache, worker>>

-----------------------------------------------------------------------------
\* revoke, revokeAllForUser and clearCacheForUser

Start(w, task) ==
  /\ worker[w] = NoWorker
  /\ worker' = [worker EXCEPT ![w] = task]

Continue(w, task) == worker' = [worker EXCEPT ![w] = task]

\* SessionService.revoke, as logout calls it for the caller's own session.
Logout(w, s) ==
  /\ Accepts(s)
  /\ row' = [row EXCEPT ![s] = "revoked"]
  /\ Start(w, [pc |-> "evict", todo |-> {s}])
  /\ UNCHANGED <<expired, profile, cache, resolver>>

\* changePassword has stored the new hash and calls revokeAllForUser.
RevokeOthers(w, own) ==
  /\ Accepts(own)
  /\ Start(w, [pc |-> "list", own |-> own])
  /\ UNCHANGED <<row, expired, profile, cache, resolver>>

ListOthers(w) ==
  /\ worker[w].pc = "list"
  /\ Continue(w, [pc |-> "revoke", todo |-> Unrevoked \ {worker[w].own}])
  /\ UNCHANGED <<row, expired, profile, cache, resolver>>

\* updateMany by id, whatever has become of the rows meanwhile.
RevokeListed(w) ==
  /\ worker[w].pc = "revoke"
  /\ row' = [s \in Sessions |-> IF s \in worker[w].todo THEN "revoked" ELSE row[s]]
  /\ Continue(w, [pc |-> "evict", todo |-> worker[w].todo])
  /\ UNCHANGED <<expired, profile, cache, resolver>>

\* AuthService.updateProfile changes the user row and calls clearCacheForUser.
UpdateProfile(w) ==
  /\ \E s \in Sessions : Accepts(s)
  /\ profile < MaxProfile
  /\ profile' = profile + 1
  /\ Start(w, [pc |-> "listCached"])
  /\ UNCHANGED <<row, expired, cache, resolver>>

ListCached(w) ==
  /\ worker[w].pc = "listCached"
  /\ Continue(w, [pc |-> "evict", todo |-> Unrevoked])
  /\ UNCHANGED <<row, expired, profile, cache, resolver>>

\* One DEL of the Promise.all arrives, or is lost and forgotten.
Evict(w, s) ==
  /\ worker[w].pc = "evict"
  /\ s \in worker[w].todo
  /\ \/ cache' = [cache EXCEPT ![s] = Miss]
     \/ Faults /\ UNCHANGED cache
  /\ Continue(w, [worker[w] EXCEPT !.todo = @ \ {s}])
  /\ UNCHANGED <<row, expired, profile, resolver>>

\* Nothing is left to delete; the request is answered.
Answer(w) ==
  /\ worker[w].pc = "evict" /\ worker[w].todo = {}
  /\ Continue(w, NoWorker)
  /\ UNCHANGED <<row, expired, profile, cache, resolver>>

\* A query fails or the process dies: what was not yet done stays undone.
LoseWorker(w) ==
  /\ Faults
  /\ worker[w] # NoWorker
  /\ Continue(w, NoWorker)
  /\ UNCHANGED <<row, expired, profile, cache, resolver>>

Resolve(r) ==
  \/ \E s \in Sessions : MissCache(r, s)
  \/ ReadRow(r) \/ WriteCache(r) \/ LoseResolver(r)

Work(w) ==
  \/ \E s \in Sessions : Logout(w, s) \/ RevokeOthers(w, s) \/ Evict(w, s)
  \/ ListOthers(w) \/ RevokeListed(w) \/ UpdateProfile(w) \/ ListCached(w)
  \/ Answer(w) \/ LoseWorker(w)

Next ==
  \/ Tick
  \/ \E s \in Sessions : Open(s) \/ Expire(s)
  \/ \E r \in Resolvers : Resolve(r)
  \/ \E w \in Workers : Work(w)

\* Time passes, and a request that has read the row goes on to write it or dies.
Fairness ==
  /\ WF_vars(Tick)
  /\ \A r \in Resolvers : WF_vars(ReadRow(r) \/ WriteCache(r))

Spec == Init /\ [][Next]_vars
FairSpec == Spec /\ Fairness

-----------------------------------------------------------------------------

TypeOK ==
  /\ row \in [Sessions -> {"absent", "live", "revoked"}]
  /\ expired \in SUBSET Sessions
  /\ profile \in 0..MaxProfile
  /\ cache \in [Sessions -> Cached \cup {Miss}]
  /\ resolver \in [Resolvers -> Resolver \cup {NoResolver}]
  /\ worker \in [Workers -> Worker \cup {NoWorker}]

Filling(s) == \E r \in Resolvers : resolver[r].pc = "filling" /\ resolver[r].session = s

\* A revoked session of which no copy is left, in Redis or in a request's hands.
Gone(s) == row[s] = "revoked" /\ cache[s] = Miss /\ ~Filling(s)

\* Once revoked and out of every cache a session never comes back: whatever fills,
\* evictions, failures and crashes follow, no request finds it in Redis again.
GoneForGood == [][\A s \in Sessions : Gone(s) => Gone(s)']_vars

\* session.service.ts:34: "Revocation deletes the cache key directly, so in practice
\* logout is instant on a healthy Redis; this TTL only matters if that delete
\* fails."  So once no key of a revoked session is left to delete, a session that
\* is refused stays refused.
Evicting(s) ==
  \E w \in Workers : worker[w].pc \in {"revoke", "evict"} /\ s \in worker[w].todo

LogoutIsInstant ==
  [][\A s \in Sessions :
       row[s] = "revoked" /\ ~Evicting(s) /\ ~Accepts(s) => ~Accepts(s)']_vars

\* A revoked session ends up refused for ever, even when its DEL is lost or the
\* process dies before it: the TTL bounds what resolve will trust.
RevocationTakesEffect ==
  \A s \in Sessions : row[s] = "revoked" ~> [](~Accepts(s))

\* When profile updates stop, requests stop seeing former profiles, even if the
\* eviction was lost or overtaken by a fill.
ProfileConverges ==
  <>[](\A s \in Sessions : LiveCopy(s) => cache[s].profile = profile)
=============================================================================
