------------------------------ MODULE Credentials ------------------------------
(***************************************************************************)
(* AuthService for one account: concurrent logins and password changes.    *)
(*                                                                         *)
(* A login reads the user row, verifies the password against the hash it   *)
(* read, may store a rehash of that password, and creates a session; a     *)
(* password change verifies, stores the new hash, lists the other sessions *)
(* and revokes what it listed.  Each step is a query of its own: nothing   *)
(* here runs in a transaction.  A hash is the password it was made from    *)
(* and whether it meets the present Argon2 policy.                         *)
(***************************************************************************)
EXTENDS Integers

CONSTANTS
  Sessions,    \* session rows
  Logins,      \* how many logins or registrations may be in flight at once
  Changes,     \* how many password changes
  Passwords,
  Faults       \* whether queries fail and the process dies half-way

ASSUME FaultsAssumption == Faults \in BOOLEAN
ASSUME NoneIsNoPassword == "none" \notin Passwords

VARIABLES
  hash,        \* the user row's passwordHash, or NoAccount
  session,     \* session[s]: "absent", "live" or "revoked"
  login,       \* login[l]: what l is about to do
  change,      \* change[c]: likewise
  overtaken    \* history: some password change has stored its hash between the
               \* check of a login and its rehash

vars == <<hash, session, login, change, overtaken>>

NoAccount == [password |-> "none", current |-> TRUE]

\* Mutant of HashOf: the password is stored as it was given.
Plaintext(p) == [password |-> p]

HashOf(p) == [password |-> p, current |-> TRUE]

NoLogin == [step |-> "idle"]
Login == [step : {"rehash", "create"}, password : Passwords]

\* earlier: history, the sessions there were when the new hash was stored.
NoChange == [step |-> "idle"]
Change == [step : {"store", "list", "revoke"}, own : Sessions, new : Passwords,
           earlier : SUBSET Sessions, listed : SUBSET Sessions]

Live == {s \in Sessions : session[s] = "live"}

Init ==
  /\ hash = NoAccount
  /\ session = [s \in Sessions |-> "absent"]
  /\ login = [l \in Logins |-> NoLogin]
  /\ change = [c \in Changes |-> NoChange]
  /\ overtaken = FALSE

-----------------------------------------------------------------------------

\* ARGON2_OPTIONS is strengthened: stored hashes no longer meet the policy.
StrengthenPolicy ==
  /\ hash # NoAccount
  /\ hash' = [hash EXCEPT !.current = FALSE]
  /\ UNCHANGED <<session, login, change, overtaken>>

\* AuthService.register up to its session; the unique index on the address lets
\* one registration through.
Register(l, p) ==
  /\ login[l] = NoLogin
  /\ hash = NoAccount
  /\ hash' = HashOf(p)
  /\ login' = [login EXCEPT ![l] = [step |-> "create", password |-> p]]
  /\ UNCHANGED <<session, change, overtaken>>

\* Mutant of Verify: the result of passwords.verify is ignored.
VerifyNothing(l, p) ==
  /\ login[l] = NoLogin
  /\ hash # NoAccount
  /\ login' = [login EXCEPT ![l] =
       [step |-> IF hash.current THEN "create" ELSE "rehash", password |-> p]]
  /\ UNCHANGED <<hash, session, change, overtaken>>

\* login reads the row, and p is the password of the hash it read.
Verify(l, p) ==
  /\ login[l] = NoLogin
  /\ hash.password = p
  /\ login' = [login EXCEPT ![l] =
       [step |-> IF hash.current THEN "create" ELSE "rehash", password |-> p]]
  /\ UNCHANGED <<hash, session, change, overtaken>>

\* The transparent upgrade: an update by user id alone; a failed one is logged.
Rehash(l) ==
  /\ login[l].step = "rehash"
  /\ hash' \in {HashOf(login[l].password), hash}
  /\ login' = [login EXCEPT ![l].step = "create"]
  /\ UNCHANGED <<session, change, overtaken>>

\* sessions.create
CreateSession(l, s) ==
  /\ login[l].step = "create"
  /\ session[s] = "absent"
  /\ session' = [session EXCEPT ![s] = "live"]
  /\ login' = [login EXCEPT ![l] = NoLogin]
  /\ UNCHANGED <<hash, change, overtaken>>

\* changePassword, called with session own and the right current password.  A
\* revoked session may still be let through by its cached copy (SessionCache).
StartChange(c, own, new) ==
  /\ change[c] = NoChange
  /\ session[own] # "absent"
  /\ change' = [change EXCEPT ![c] =
       [step |-> "store", own |-> own, new |-> new, earlier |-> {}, listed |-> {}]]
  /\ UNCHANGED <<hash, session, login, overtaken>>

StoreHash(c) ==
  /\ change[c].step = "store"
  /\ hash' = HashOf(change[c].new)
  /\ change' = [change EXCEPT ![c].step = "list", ![c].earlier = Live]
  /\ overtaken' = (overtaken \/ \E l \in Logins : login[l].step = "rehash")
  /\ UNCHANGED <<session, login>>

\* Mutant of Others: findFirst in place of findMany.
AnyOther(own) ==
  IF Live \ {own} = {} THEN {} ELSE {CHOOSE s \in Live \ {own} : TRUE}

\* What revokeAllForUser selects.
Others(own) == Live \ {own}

ListOthers(c) ==
  /\ change[c].step = "list"
  /\ change' = [change EXCEPT ![c].step = "revoke", ![c].listed = Others(change[c].own)]
  /\ UNCHANGED <<hash, session, login, overtaken>>

RevokeListed(c) ==
  /\ change[c].step = "revoke"
  /\ session' = [s \in Sessions |->
       IF s \in change[c].listed THEN "revoked" ELSE session[s]]
  /\ change' = [change EXCEPT ![c] = NoChange]
  /\ UNCHANGED <<hash, login, overtaken>>

\* AuthService.logout, from a request bearing s.
Logout(s) ==
  /\ session[s] # "absent"
  /\ session' = [session EXCEPT ![s] = "revoked"]
  /\ UNCHANGED <<hash, login, change, overtaken>>

\* A query fails or the process dies.
LoseLogin(l) ==
  /\ Faults
  /\ login[l] # NoLogin
  /\ login' = [login EXCEPT ![l] = NoLogin]
  /\ UNCHANGED <<hash, session, change, overtaken>>

LoseChange(c) ==
  /\ Faults
  /\ change[c] # NoChange
  /\ change' = [change EXCEPT ![c] = NoChange]
  /\ UNCHANGED <<hash, session, login, overtaken>>

LoginStep(l) ==
  \/ \E p \in Passwords : Register(l, p) \/ Verify(l, p)
  \/ \E s \in Sessions : CreateSession(l, s)
  \/ Rehash(l) \/ LoseLogin(l)

ChangeStep(c) ==
  \/ \E own \in Sessions, new \in Passwords : StartChange(c, own, new)
  \/ StoreHash(c) \/ ListOthers(c) \/ RevokeListed(c) \/ LoseChange(c)

Next ==
  \/ StrengthenPolicy
  \/ \E s \in Sessions : Logout(s)
  \/ \E l \in Logins : LoginStep(l)
  \/ \E c \in Changes : ChangeStep(c)

Spec == Init /\ [][Next]_vars

-----------------------------------------------------------------------------

TypeOK ==
  /\ hash \in [password : Passwords \cup {"none"}, current : BOOLEAN]
  /\ session \in [Sessions -> {"absent", "live", "revoked"}]
  /\ login \in [Logins -> Login \cup {NoLogin}]
  /\ change \in [Changes -> Change \cup {NoChange}]
  /\ overtaken \in BOOLEAN

\* auth.service.ts:203: revoking the other sessions is the point of changing a
\* password.  Every session there was when the new hash was stored, other than
\* the caller's own, is revoked when the change completes.
ChangeEvictsEarlier ==
  [][\A c \in Changes : RevokeListed(c) =>
       \A s \in change[c].earlier \ {change[c].own} : session'[s] = "revoked"]_vars

\* Only a password change replaces the password that opens the account, as long as
\* no change has stored its hash between a login's check and its rehash; from then
\* on two logins may even undo each other's rehash.
PasswordKept ==
  [][hash'.password # hash.password =>
       \/ hash = NoAccount
       \/ \E c \in Changes : StoreHash(c)
       \/ \E l \in Logins : Rehash(l) /\ overtaken]_vars

\* auth.service.ts:136: the upgrade is "transparent": a login leaves the account
\* with the password it had.
LoginKeepsPassword ==
  [][\A l \in Logins : Rehash(l) => hash'.password = hash.password]_vars
=============================================================================
