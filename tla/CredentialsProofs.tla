--------------------------- MODULE CredentialsProofs ---------------------------
(***************************************************************************)
(* Proofs about logins and password changes, for any passwords, sessions   *)
(* and numbers of concurrent requests.                                     *)
(***************************************************************************)
EXTENDS Credentials, TLAPS

\* Until a change overtakes a login, a login about to rehash holds the password
\* that opens the account.
RehashOK ==
  ~overtaken => \A l \in Logins :
                  login[l].step = "rehash" => login[l].password = hash.password

\* What a change has promised about the sessions there were when it stored the
\* hash: they are rows, and once it has listed them, in its list or revoked.
PromiseOK(c) ==
  /\ change[c].step = "list" =>
       \A s \in change[c].earlier : session[s] # "absent"
  /\ change[c].step = "revoke" =>
       \A s \in change[c].earlier \ {change[c].own} :
         s \in change[c].listed \/ session[s] = "revoked"

IInv == TypeOK /\ RehashOK /\ \A c \in Changes : PromiseOK(c)

\* Every action keeps the variables in their types.
LEMMA TypeStep == TypeOK /\ [Next]_vars => TypeOK'
<1> SUFFICES ASSUME TypeOK, [Next]_vars
             PROVE  TypeOK'
  OBVIOUS
<1> USE DEF TypeOK
<1>1. CASE UNCHANGED vars
  BY <1>1 DEF vars
<1>2. CASE StrengthenPolicy
  BY <1>2 DEF StrengthenPolicy
<1>3. ASSUME NEW s \in Sessions, Logout(s)
      PROVE  TypeOK'
  BY <1>3 DEF Logout
<1>4. ASSUME NEW l \in Logins, NEW p \in Passwords, Register(l, p) \/ Verify(l, p)
      PROVE  TypeOK'
  <2>1. \A step \in {"rehash", "create"} : [step |-> step, password |-> p] \in Login
    BY DEF Login
  <2>2. hash' \in [password : Passwords \cup {"none"}, current : BOOLEAN]
    <3>1. HashOf(p) \in [password : Passwords \cup {"none"}, current : BOOLEAN]
      BY DEF HashOf
    <3>2. QED
      BY <1>4, <3>1 DEF Register, Verify
  <2>3. login' \in [Logins -> Login \cup {NoLogin}]
    BY <1>4, <2>1 DEF Register, Verify
  <2>4. QED
    BY <1>4, <2>2, <2>3 DEF Register, Verify
<1>5. ASSUME NEW l \in Logins, NEW s \in Sessions, CreateSession(l, s)
      PROVE  TypeOK'
  BY <1>5 DEF CreateSession
<1>6. ASSUME NEW l \in Logins, Rehash(l)
      PROVE  TypeOK'
  <2>1. login[l] \in Login
    BY <1>6 DEF Rehash, NoLogin
  <2>2. HashOf(login[l].password) \in [password : Passwords \cup {"none"}, current : BOOLEAN]
    BY <2>1 DEF HashOf, Login
  <2>3. [login[l] EXCEPT !.step = "create"] \in Login
    BY <2>1 DEF Login
  <2>4. QED
    BY <1>6, <2>2, <2>3 DEF Rehash
<1>7. ASSUME NEW l \in Logins, LoseLogin(l)
      PROVE  TypeOK'
  BY <1>7 DEF LoseLogin
<1>8. ASSUME NEW c \in Changes, NEW own \in Sessions, NEW new \in Passwords,
             StartChange(c, own, new)
      PROVE  TypeOK'
  BY <1>8 DEF StartChange, Change
<1>9. ASSUME NEW c \in Changes, StoreHash(c)
      PROVE  TypeOK'
  <2>1. change[c] \in Change
    BY <1>9 DEF StoreHash, NoChange
  <2>2. [change[c] EXCEPT !.step = "list", !.earlier = Live] \in Change
    BY <2>1 DEF Change, Live
  <2>3. change' = [change EXCEPT ![c] = [change[c] EXCEPT !.step = "list", !.earlier = Live]]
    BY <1>9 DEF StoreHash
  <2>4. hash' \in [password : Passwords \cup {"none"}, current : BOOLEAN]
    BY <1>9, <2>1 DEF StoreHash, HashOf, Change
  <2>5. overtaken' \in BOOLEAN /\ UNCHANGED <<session, login>>
    BY <1>9 DEF StoreHash
  <2>6. QED
    BY <2>2, <2>3, <2>4, <2>5
<1>10. ASSUME NEW c \in Changes, ListOthers(c)
       PROVE  TypeOK'
  <2>1. change[c] \in Change
    BY <1>10 DEF ListOthers, NoChange
  <2>2. [change[c] EXCEPT !.step = "revoke", !.listed = Others(change[c].own)] \in Change
    BY <2>1 DEF Change, Others, Live
  <2>3. QED
    BY <1>10, <2>2 DEF ListOthers
<1>11. ASSUME NEW c \in Changes, RevokeListed(c) \/ LoseChange(c)
       PROVE  TypeOK'
  BY <1>11 DEF RevokeListed, LoseChange
<1>12. QED
  BY <1>1, <1>2, <1>3, <1>4, <1>5, <1>6, <1>7, <1>8, <1>9, <1>10, <1>11
  DEF Next, LoginStep, ChangeStep

\* Only a change can take the account's password away under a login's feet, and
\* then it is recorded in overtaken.
LEMMA RehashStep == TypeOK /\ RehashOK /\ [Next]_vars => RehashOK'
<1> SUFFICES ASSUME TypeOK, RehashOK, [Next]_vars, ~overtaken', NEW l \in Logins,
                    login'[l].step = "rehash"
             PROVE  login'[l].password = hash'.password
  BY DEF RehashOK
<1> USE DEF TypeOK, RehashOK
<1>1. CASE StrengthenPolicy \/ UNCHANGED <<hash, login, overtaken>>
  BY <1>1 DEF StrengthenPolicy
<1>2. ASSUME NEW k \in Logins, NEW p \in Passwords, Register(k, p)
      PROVE  login'[l].password = hash'.password
  BY <1>2, NoneIsNoPassword DEF Register, NoAccount, HashOf, Login, NoLogin
<1>3. ASSUME NEW k \in Logins, NEW p \in Passwords, Verify(k, p)
      PROVE  login'[l].password = hash'.password
  BY <1>3 DEF Verify
<1>4. ASSUME NEW k \in Logins, Rehash(k)
      PROVE  login'[l].password = hash'.password
  BY <1>4 DEF Rehash, HashOf
<1>5. ASSUME NEW k \in Logins, (\E s \in Sessions : CreateSession(k, s)) \/ LoseLogin(k)
      PROVE  login'[l].password = hash'.password
  BY <1>5 DEF CreateSession, LoseLogin, NoLogin
<1>6. ASSUME NEW c \in Changes, StoreHash(c)
      PROVE  login'[l].password = hash'.password
  BY <1>6 DEF StoreHash
<1>7. QED
  BY <1>1, <1>2, <1>3, <1>4, <1>5, <1>6
  DEF Next, LoginStep, ChangeStep, vars, Logout, StartChange, ListOthers, RevokeListed, LoseChange

\* Sessions only ever go from absent to live to revoked.
LEMMA SessionStep ==
  ASSUME TypeOK, [Next]_vars, NEW s \in Sessions
  PROVE  /\ session[s] # "absent" => session'[s] # "absent"
         /\ session[s] = "revoked" => session'[s] = "revoked"
BY DEF TypeOK, Next, LoginStep, ChangeStep, vars, StrengthenPolicy, Logout, Register, Verify,
       CreateSession, Rehash, LoseLogin, StartChange, StoreHash, ListOthers, RevokeListed, LoseChange

\* What a change has promised, every step keeps.
LEMMA PromiseStep ==
  ASSUME TypeOK, [Next]_vars, NEW c \in Changes, PromiseOK(c)
  PROVE  PromiseOK(c)'
<1> USE DEF TypeOK, PromiseOK
<1>1. CASE change'[c] = change[c]
  <2>1. change[c] \in Change => change[c].earlier \subseteq Sessions
    BY DEF Change
  <2>2. change[c] = NoChange => change[c].step = "idle"
    BY DEF NoChange
  <2>3. QED
    BY <1>1, <2>1, <2>2, SessionStep
<1>2. ASSUME NEW own \in Sessions, NEW new \in Passwords, StartChange(c, own, new)
      PROVE  PromiseOK(c)'
  BY <1>2 DEF StartChange
<1>3. CASE StoreHash(c)
  BY <1>3 DEF StoreHash, Live, Change, NoChange
<1>4. CASE ListOthers(c)
  BY <1>4 DEF ListOthers, Others, Live, Change, NoChange
<1>5. CASE RevokeListed(c) \/ LoseChange(c)
  BY <1>5 DEF RevokeListed, LoseChange, NoChange
<1>6. ASSUME NEW d \in Changes, d # c, ChangeStep(d)
      PROVE  change'[c] = change[c]
  BY <1>6 DEF ChangeStep, StartChange, StoreHash, ListOthers, RevokeListed, LoseChange
<1>7. CASE UNCHANGED change
  BY <1>1, <1>7
<1>8. ChangeStep(c) => PromiseOK(c)'
  BY <1>2, <1>3, <1>4, <1>5 DEF ChangeStep
<1>9. (\E d \in Changes : ChangeStep(d)) \/ UNCHANGED change
  BY DEF Next, LoginStep, vars, StrengthenPolicy, Logout, Register, Verify, CreateSession,
         Rehash, LoseLogin
<1>10. QED
  BY <1>1, <1>6, <1>7, <1>8, <1>9

\* The strengthened invariant holds of every behaviour.
LEMMA Invariance == Spec => []IInv
<1>1. Init => IInv
  <2> SUFFICES ASSUME Init
               PROVE  IInv
    OBVIOUS
  <2>1. TypeOK
    BY DEF Init, TypeOK, NoAccount
  <2>2. RehashOK
    BY DEF Init, RehashOK, NoLogin
  <2>3. ASSUME NEW c \in Changes
        PROVE  PromiseOK(c)
    BY DEF Init, PromiseOK, NoChange
  <2>4. QED
    BY <2>1, <2>2, <2>3 DEF IInv
<1>2. IInv /\ [Next]_vars => IInv'
  BY TypeStep, RehashStep, PromiseStep DEF IInv
<1>3. QED
  BY <1>1, <1>2, PTL DEF Spec

\* The user row, the sessions and the requests in flight keep their types.
THEOREM TypeCorrect == Spec => []TypeOK
BY Invariance, PTL DEF IInv

\* A password change that completes has revoked every session that existed when
\* it stored the new hash, except the one it came from, whatever logins, logouts
\* and other changes ran meanwhile.
THEOREM Eviction == Spec => ChangeEvictsEarlier
<1>1. IInv /\ [Next]_vars =>
        [\A c \in Changes : RevokeListed(c) =>
           \A s \in change[c].earlier \ {change[c].own} : session'[s] = "revoked"]_vars
  <2> SUFFICES ASSUME IInv, NEW c \in Changes, RevokeListed(c),
                      NEW s \in change[c].earlier \ {change[c].own}
               PROVE  session'[s] = "revoked"
    OBVIOUS
  <2>1. s \in Sessions /\ (s \in change[c].listed \/ session[s] = "revoked")
    BY DEF IInv, TypeOK, PromiseOK, RevokeListed, Change, NoChange
  <2>2. QED
    BY <2>1 DEF RevokeListed
<1>2. QED
  BY <1>1, Invariance, PTL DEF Spec, ChangeEvictsEarlier

\* Logins do not change the password that opens the account until a password
\* change has overtaken one of them between its check and its rehash.
THEOREM PasswordSafety == Spec => PasswordKept
<1>1. IInv /\ [Next]_vars =>
        [hash'.password # hash.password =>
           \/ hash = NoAccount
           \/ \E c \in Changes : StoreHash(c)
           \/ \E l \in Logins : Rehash(l) /\ overtaken]_vars
  <2> SUFFICES ASSUME IInv, [Next]_vars, hash'.password # hash.password, hash # NoAccount,
                      ~(\E c \in Changes : StoreHash(c))
               PROVE  \E l \in Logins : Rehash(l) /\ overtaken
    OBVIOUS
  <2>1. PICK l \in Logins : Rehash(l)
    BY DEF IInv, TypeOK, Next, LoginStep, ChangeStep, vars, StrengthenPolicy, Logout, Register,
       Verify, CreateSession, LoseLogin, StartChange, ListOthers, RevokeListed, LoseChange
  <2>2. overtaken
    BY <2>1 DEF IInv, RehashOK, Rehash, HashOf
  <2>3. QED
    BY <2>1, <2>2
<1>2. QED
  BY <1>1, Invariance, PTL DEF Spec, PasswordKept
=============================================================================
