--------------------------- MODULE InvitationsProofs ---------------------------
(***************************************************************************)
(* Proofs about invitations, for any addresses, rows and concurrent        *)
(* requests, and any bounds.                                               *)
(***************************************************************************)
EXTENDS Invitations, TLAPS

\* A request that names a row names one that has been issued.
NamesRow(r) ==
  /\ request[r].op \in {"accept", "consume", "revoke"} =>
       invitation[request[r].invitation] # NoInvitation
  /\ request[r].op = "issue" /\ request[r].pending # None =>
       invitation[request[r].pending] # NoInvitation

\* Joins are paid for: by the membership row there is, or by one removed since.
PaidFor(i) ==
  /\ invitation[i] = NoInvitation => joins[i] = 0
  /\ invitation[i] # NoInvitation =>
       LET p == invitation[i].email IN
       joins[i] <= removals[p] + (IF p \in members THEN 1 ELSE 0)

IInv ==
  /\ TypeOK
  /\ \A r \in Requests : NamesRow(r)
  /\ \A i \in Invitations : PaidFor(i)
  /\ AcceptedMeansJoined

\* A row is nothing or an invitation, never both.
LEMMA RowKinds ==
  /\ \A v \in Invitation : v # NoInvitation /\ v.email \in People
  /\ \A v \in Request : v # NoRequest
  /\ NoInvitation.status = "absent" /\ NoRequest.op = "none"
BY DEF Invitation, NoInvitation, Request, NoRequest

\* What each kind of request carries.
LEMMA RequestKinds ==
  ASSUME TypeOK, NEW r \in Requests
  PROVE  /\ request[r].op = "checkPending" => request[r].email \in People
         /\ request[r].op = "issue" =>
              request[r].email \in People /\ request[r].pending \in Invitations \cup {None}
         /\ request[r].op \in {"accept", "consume", "revoke"} =>
              request[r].invitation \in Invitations
BY DEF TypeOK, Request, NoRequest

\* A step that writes no row, no member and no count, and only sets one request
\* slot to a request that names an issued row, keeps everything in order.
LEMMA QuietStep ==
  ASSUME IInv, NEW r \in Requests, NEW q \in Request \cup {NoRequest},
         UNCHANGED <<invitation, members, joins, removals>>,
         lapsed' \in SUBSET Invitations, deleted' \in BOOLEAN, overlapped' \in SUBSET People,
         request' = [request EXCEPT ![r] = q],
         q.op \in {"accept", "consume", "revoke"} => invitation[q.invitation] # NoInvitation,
         q.op = "issue" /\ q.pending # None => invitation[q.pending] # NoInvitation
  PROVE  IInv'
BY DEF IInv, TypeOK, NamesRow, PaidFor, AcceptedMeansJoined, Pending

\* The same, of a step that touches no request.
LEMMA SilentStep ==
  ASSUME IInv, UNCHANGED <<invitation, members, joins, removals, request>>,
         lapsed' \in SUBSET Invitations, deleted' \in BOOLEAN, overlapped' \in SUBSET People
  PROVE  IInv'
BY DEF IInv, TypeOK, NamesRow, PaidFor, AcceptedMeansJoined, Pending

\* The checks of the four handlers only remember what they found.
LEMMA ChecksInv ==
  ASSUME IInv, NEW r \in Requests
  PROVE  /\ \A p \in People : CheckMember(r, p) => IInv'
         /\ \A i \in Invitations : CheckRevocable(r, i) \/ FindLive(r, i) => IInv'
         /\ CheckPending(r) \/ Reread(r) \/ Abandon(r) => IInv'
<1> USE DEF Begin, Continue
<1>0. TypeOK
  BY DEF IInv
<1>1. ASSUME NEW p \in People, CheckMember(r, p)
      PROVE  IInv'
  <2>1. [op |-> "checkPending", email |-> p] \in Request
    BY DEF Request
  <2>2. QED
    BY <1>0, <1>1, <2>1, QuietStep DEF CheckMember, TypeOK
<1>2. ASSUME NEW i \in Invitations, CheckRevocable(r, i)
      PROVE  IInv'
  <2>1. [op |-> "revoke", invitation |-> i] \in Request
    BY DEF Request
  <2>2. QED
    BY <1>0, <1>2, <2>1, QuietStep, RowKinds DEF CheckRevocable, TypeOK
<1>3. ASSUME NEW i \in Invitations, FindLive(r, i)
      PROVE  IInv'
  <2>1. [op |-> "accept", invitation |-> i] \in Request
    BY DEF Request
  <2>2. QED
    BY <1>0, <1>3, <2>1, QuietStep, RowKinds DEF FindLive, TypeOK, Usable, Pending
<1>4. ASSUME CheckPending(r)
      PROVE  IInv'
  <2> DEFINE p == request[r].email
  <2>1. p \in People
    BY <1>0, <1>4, RequestKinds DEF CheckPending
  <2>2. UNCHANGED <<invitation, members, joins, removals, lapsed, deleted, overlapped>>
    BY <1>4 DEF CheckPending
  <2>3. lapsed' \in SUBSET Invitations /\ deleted' \in BOOLEAN /\ overlapped' \in SUBSET People
    BY <1>0, <2>2 DEF TypeOK
  <2>4. \A j \in Invitations \cup {None} :
          [op |-> "issue", email |-> p, pending |-> j] \in Request
    BY <2>1 DEF Request
  <2>5. CASE Continue(r, [op |-> "issue", email |-> p, pending |-> None])
    BY <2>2, <2>3, <2>4, <2>5, QuietStep
  <2>6. CASE Continue(r, NoRequest)
    BY <2>2, <2>3, <2>6, QuietStep, RowKinds
  <2>7. ASSUME NEW i \in PendingFor(p),
               Continue(r, [op |-> "issue", email |-> p, pending |-> i])
        PROVE  IInv'
    <3>1. i \in Invitations /\ invitation[i] # NoInvitation
      BY RowKinds DEF PendingFor, Pending
    <3>2. QED
      BY <2>2, <2>3, <2>4, <2>7, <3>1, QuietStep
  <2>8. QED
    BY <1>4, <2>5, <2>6, <2>7 DEF CheckPending
<1>5. ASSUME Reread(r)
      PROVE  IInv'
  <2>1. request[r].invitation \in Invitations
        /\ invitation[request[r].invitation] # NoInvitation
    BY <1>0, <1>5, RequestKinds DEF Reread, IInv, NamesRow
  <2>2. [op |-> "consume", invitation |-> request[r].invitation] \in Request
    BY <2>1 DEF Request
  <2>3. QED
    BY <1>0, <1>5, <2>1, <2>2, QuietStep, RowKinds DEF Reread, TypeOK
<1>6. ASSUME Abandon(r)
      PROVE  IInv'
  BY <1>0, <1>6, QuietStep, RowKinds DEF Abandon, TypeOK
<1>7. QED
  BY <1>1, <1>2, <1>3, <1>4, <1>5, <1>6

\* Issuing touches a new row and the row it supersedes, which was not new.
LEMMA IssueInv ==
  ASSUME IInv, NEW r \in Requests, NEW i \in Invitations, Issue(r, i)
  PROVE  IInv'
<1> USE DEF Issue, Continue
<1>1. /\ TypeOK /\ request[r].email \in People
      /\ request[r].pending \in Invitations => invitation[request[r].pending] \in Invitation
  <2>1. TypeOK /\ NamesRow(r) /\ request[r].op = "issue" /\ None \notin Invitations
    BY NoneAssumption DEF IInv
  <2>2. request[r].email \in People
    BY <2>1, RequestKinds
  <2>3. ASSUME request[r].pending \in Invitations
        PROVE  invitation[request[r].pending] \in Invitation
    <3>1. invitation[request[r].pending] # NoInvitation
      BY <2>1, <2>3 DEF NamesRow
    <3>2. QED
      BY <2>1, <2>3, <3>1 DEF TypeOK
  <2>4. QED
    BY <2>1, <2>2, <2>3
<1>2. /\ invitation'[i] = [status |-> "PENDING", email |-> request[r].email]
      /\ \A j \in Invitations : j # i =>
           \/ invitation'[j] = invitation[j]
           \/ /\ invitation[j] \in Invitation
              /\ invitation'[j] = [invitation[j] EXCEPT !.status = "EXPIRED"]
  <2>1. invitation'[i] = [status |-> "PENDING", email |-> request[r].email]
    OBVIOUS
  <2>2. ASSUME NEW j \in Invitations, j # i, j = request[r].pending
        PROVE  /\ invitation[j] \in Invitation
               /\ invitation'[j] = [invitation[j] EXCEPT !.status = "EXPIRED"]
    BY <1>1, <2>2
  <2>3. ASSUME NEW j \in Invitations, j # i, j # request[r].pending
        PROVE  invitation'[j] = invitation[j]
    BY <2>3
  <2>4. QED
    BY <2>1, <2>2, <2>3
<1>3. \A j \in Invitations :
        /\ invitation'[j] \in Invitation \cup {NoInvitation}
        /\ invitation[j] # NoInvitation => invitation'[j] # NoInvitation
        /\ j # i => /\ invitation'[j] = NoInvitation => invitation[j] = NoInvitation
                    /\ invitation'[j] # NoInvitation =>
                         /\ invitation'[j].email = invitation[j].email
                         /\ invitation'[j].status \in {invitation[j].status, "EXPIRED"}
  BY <1>1, <1>2, RowKinds DEF Invitation, TypeOK
<1>4. invitation'[i] # NoInvitation /\ invitation'[i].email \in People /\ joins[i] = 0
      /\ invitation'[i].status = "PENDING"
  BY <1>1, <1>2, RowKinds DEF IInv, PaidFor, Invitation
<1>5. TypeOK'
  BY <1>1, <1>3 DEF TypeOK
<1>6. \A s \in Requests : NamesRow(s)'
  BY <1>1, <1>3, RequestKinds, RowKinds DEF IInv, NamesRow, TypeOK
<1>7. ASSUME NEW j \in Invitations
      PROVE  PaidFor(j)'
  <2>1. CASE j = i
    <3>1. removals[invitation'[i].email] \in Nat
      BY <1>1, <1>4, BoundsAssumption DEF TypeOK
    <3>2. QED
      BY <1>4, <2>1, <3>1 DEF PaidFor
  <2>2. CASE j # i
    <3>1. PaidFor(j)
      BY DEF IInv
    <3>2. CASE invitation[j] = NoInvitation
      <4>1. invitation'[j] = NoInvitation
        BY <1>2, <2>2, <3>2, RowKinds
      <4>2. QED
        BY <3>1, <3>2, <4>1 DEF PaidFor
    <3>3. CASE invitation[j] # NoInvitation
      <4>1. invitation'[j] # NoInvitation /\ invitation'[j].email = invitation[j].email
        BY <1>3, <2>2, <3>3
      <4>2. QED
        BY <3>1, <3>3, <4>1 DEF PaidFor
    <3>4. QED
      BY <3>2, <3>3
  <2>3. QED
    BY <2>1, <2>2
<1>8. AcceptedMeansJoined'
  BY <1>1, <1>3, <1>4, RowKinds DEF IInv, AcceptedMeansJoined, Pending, TypeOK
<1>9. QED
  BY <1>5, <1>6, <1>7, <1>8 DEF IInv

\* Revoking writes the status of an issued row.
LEMMA RevokeInv ==
  ASSUME IInv, NEW r \in Requests, Revoke(r)
  PROVE  IInv'
<1> DEFINE i == request[r].invitation
<1> USE DEF Revoke, Continue
<1>1. TypeOK /\ i \in Invitations /\ invitation[i] \in Invitation
  BY RequestKinds, RowKinds DEF IInv, TypeOK, NamesRow
<1>2. /\ invitation' = [invitation EXCEPT ![i] = [invitation[i] EXCEPT !.status = "REVOKED"]]
      /\ [invitation[i] EXCEPT !.status = "REVOKED"] \in Invitation
      /\ invitation'[i].email = invitation[i].email /\ invitation'[i].status = "REVOKED"
  BY <1>1 DEF Invitation, TypeOK
<1>3. TypeOK'
  BY <1>1, <1>2 DEF TypeOK
<1>4. \A s \in Requests : NamesRow(s)'
  BY <1>1, <1>2, RequestKinds, RowKinds DEF IInv, NamesRow, TypeOK
<1>5. \A j \in Invitations : PaidFor(j)'
  BY <1>1, <1>2, RowKinds DEF IInv, PaidFor, TypeOK
<1>6. AcceptedMeansJoined'
  BY <1>1, <1>2 DEF IInv, AcceptedMeansJoined, Pending, TypeOK
<1>7. QED
  BY <1>3, <1>4, <1>5, <1>6 DEF IInv

\* Consuming pays for its join with a new membership row.
LEMMA ConsumeInv ==
  ASSUME IInv, NEW r \in Requests, Consume(r)
  PROVE  IInv'
<1> USE DEF Consume, Continue
<1>1. PICK i \in Invitations :
        i = request[r].invitation /\ TypeOK /\ invitation[i] \in Invitation
  BY RequestKinds, RowKinds DEF IInv, TypeOK, NamesRow
<1>2. /\ invitation' = [invitation EXCEPT ![i] = [invitation[i] EXCEPT !.status = "ACCEPTED"]]
      /\ [invitation[i] EXCEPT !.status = "ACCEPTED"] \in Invitation
      /\ invitation'[i].email = invitation[i].email /\ invitation'[i].status = "ACCEPTED"
  BY <1>1 DEF Invitation, TypeOK
<1>3. /\ invitation[i].email \in People /\ invitation[i].email \notin members
      /\ joins[i] \in Nat /\ joins' = [joins EXCEPT ![i] = joins[i] + 1]
      /\ removals[invitation[i].email] \in Nat
  BY <1>1, RowKinds, BoundsAssumption DEF TypeOK
<1>4. TypeOK'
  BY <1>1, <1>2, <1>3 DEF TypeOK
<1>5. \A s \in Requests : NamesRow(s)'
  BY <1>1, <1>2, RequestKinds, RowKinds DEF IInv, NamesRow, TypeOK
<1>6. PaidFor(i)'
  <2>1. invitation[i] # NoInvitation /\ invitation'[i] # NoInvitation
    BY <1>1, <1>2, RowKinds
  <2>2. joins[i] <= removals[invitation[i].email]
    <3>1. PaidFor(i)
      BY DEF IInv
    <3>2. joins[i] <= removals[invitation[i].email] + 0
      BY <1>3, <2>1, <3>1 DEF PaidFor
    <3>3. QED
      BY <1>3, <3>2
  <2>3. joins'[i] = joins[i] + 1 /\ invitation'[i].email \in members' /\ removals' = removals
    BY <1>1, <1>2, <1>3 DEF TypeOK
  <2>4. joins'[i] <= removals'[invitation'[i].email] + 1
    BY <1>2, <1>3, <2>2, <2>3
  <2>5. QED
    BY <2>1, <2>3, <2>4 DEF PaidFor
<1>7. ASSUME NEW j \in Invitations, j # i
      PROVE  PaidFor(j)'
  <2>1. invitation'[j] = invitation[j] /\ joins'[j] = joins[j] /\ joins[j] \in Nat
    BY <1>1, <1>2, <1>3, <1>7 DEF TypeOK
  <2>2. PaidFor(j)
    BY DEF IInv
  <2>3. CASE invitation[j] = NoInvitation
    BY <2>1, <2>2, <2>3 DEF PaidFor
  <2>4. CASE invitation[j] # NoInvitation
    <3>1. removals[invitation[j].email] \in Nat
      BY <1>1, <2>4, RowKinds, BoundsAssumption DEF TypeOK
    <3>2. QED
      BY <2>1, <2>2, <2>4, <3>1 DEF PaidFor
  <2>5. QED
    BY <2>3, <2>4
<1>8. AcceptedMeansJoined'
  BY <1>1, <1>2, <1>3 DEF IInv, AcceptedMeansJoined, Pending, TypeOK
<1>9. QED
  BY <1>4, <1>5, <1>6, <1>7, <1>8 DEF IInv

\* Removing a member turns the row that paid for a join into a removal that does.
LEMMA RemoveInv ==
  ASSUME IInv, NEW p \in People, RemoveMember(p)
  PROVE  IInv'
<1> USE DEF RemoveMember
<1>1. TypeOK /\ removals[p] \in Nat /\ removals' = [removals EXCEPT ![p] = removals[p] + 1]
  BY BoundsAssumption DEF IInv, TypeOK
<1>2. TypeOK'
  BY <1>1, BoundsAssumption DEF TypeOK
<1>3. ASSUME NEW j \in Invitations
      PROVE  PaidFor(j)'
  <2>1. CASE invitation[j] = NoInvitation
    BY <2>1 DEF IInv, PaidFor
  <2>2. CASE invitation[j] # NoInvitation
    <3>1. invitation[j].email \in People /\ joins[j] \in Nat
          /\ removals[invitation[j].email] \in Nat
      BY <1>1, <2>2, RowKinds, BoundsAssumption DEF TypeOK
    <3>2. QED
      BY <1>1, <2>2, <3>1 DEF IInv, PaidFor, TypeOK
  <2>3. QED
    BY <2>1, <2>2
<1>4. (\A r \in Requests : NamesRow(r)') /\ AcceptedMeansJoined'
  BY DEF IInv, NamesRow, AcceptedMeansJoined, Pending
<1>5. QED
  BY <1>2, <1>3, <1>4 DEF IInv

\* The strengthened invariant holds of every behaviour.
LEMMA Invariance == Spec => []IInv
<1>1. Init => IInv
  <2> SUFFICES ASSUME Init
               PROVE  IInv
    OBVIOUS
  <2>1. TypeOK
    <3>1. 0 \in 0..MaxRemovals /\ 0 \in Nat /\ FALSE \in BOOLEAN
      BY BoundsAssumption
    <3>2. QED
      BY <3>1 DEF Init, TypeOK
  <2>2. QED
    BY <2>1, RowKinds DEF Init, IInv, NamesRow, PaidFor, AcceptedMeansJoined, Pending
<1>2. IInv /\ [Next]_vars => IInv'
  <2> SUFFICES ASSUME IInv, [Next]_vars
               PROVE  IInv'
    OBVIOUS
  <2>1. SoftDelete \/ UNCHANGED vars => IInv'
    BY SilentStep DEF SoftDelete, vars, IInv, TypeOK
  <2>2. ASSUME NEW i \in Invitations, Lapse(i)
        PROVE  IInv'
    BY <2>2, SilentStep DEF Lapse, IInv, TypeOK
  <2>3. QED
    BY <2>1, <2>2, ChecksInv, IssueInv, RevokeInv, ConsumeInv, RemoveInv DEF Next
<1>3. QED
  BY <1>1, <1>2, PTL DEF Spec

\* Rows, members, counts and requests keep their types.
THEOREM TypeCorrect == Spec => []TypeOK
BY Invariance, PTL DEF IInv

\* An ACCEPTED invitation has let somebody in, and one that has let somebody in
\* is not PENDING, whatever raced it.
THEOREM AcceptedFaithful == Spec => []AcceptedMeansJoined
BY Invariance, PTL DEF IInv

\* A token is redeemed at most once more than its person has been removed.
THEOREM RedemptionBound == Spec => []RedeemedOncePerRemoval
<1>1. IInv => RedeemedOncePerRemoval
  <2> SUFFICES ASSUME IInv, NEW i \in Invitations, invitation[i] # NoInvitation
               PROVE  joins[i] <= 1 + removals[invitation[i].email]
    BY DEF RedeemedOncePerRemoval
  <2>1. joins[i] \in Nat /\ removals[invitation[i].email] \in Nat
    BY RowKinds, BoundsAssumption DEF IInv, TypeOK
  <2>2. QED
    BY <2>1 DEF IInv, PaidFor
<1>2. QED
  BY <1>1, Invariance, PTL

\* Accepted, revoked, superseded and lapsed invitations let nobody in, once no
\* accept is between its second check and its commit; nor does any invitation of
\* a deleted organization, once no accept is in flight.
THEOREM NoLateJoin == Spec => DeadForGood
<1>1. IInv /\ [Next]_vars =>
        [\A i \in Invitations : Dead(i) => Dead(i)' /\ joins'[i] = joins[i]]_vars
  <2> SUFFICES ASSUME IInv, Next, NEW i \in Invitations, Dead(i)
               PROVE  Dead(i)' /\ joins'[i] = joins[i]
    OBVIOUS
  <2> USE DEF Begin, Continue
  <2>1. TypeOK /\ invitation[i] \in Invitation /\ invitation[i] # NoInvitation
    BY DEF IInv, TypeOK, Dead
  <2>2. /\ invitation'[i] # NoInvitation /\ (~Usable(i) => ~Usable(i)')
        /\ deleted => deleted'
    <3>1. ASSUME NEW r \in Requests, NEW j \in Invitations, Issue(r, j)
          PROVE  /\ invitation'[i] # NoInvitation /\ (~Usable(i) => ~Usable(i)')
                 /\ deleted => deleted'
      <4>1. i # j
        BY <2>1, <3>1 DEF Issue
      <4>2. invitation'[i] \in {invitation[i], [invitation[i] EXCEPT !.status = "EXPIRED"]}
        BY <2>1, <3>1, <4>1 DEF Issue, TypeOK
      <4>3. [invitation[i] EXCEPT !.status = "EXPIRED"] \in Invitation
            /\ [invitation[i] EXCEPT !.status = "EXPIRED"].status = "EXPIRED"
        BY <2>1 DEF Invitation
      <4>4. QED
        BY <2>1, <3>1, <4>2, <4>3, RowKinds DEF Issue, Usable, Pending
    <3>2. ASSUME NEW r \in Requests, Revoke(r) \/ Consume(r)
          PROVE  /\ invitation'[i] # NoInvitation /\ (~Usable(i) => ~Usable(i)')
                 /\ deleted => deleted'
      <4>1. PICK st \in {"REVOKED", "ACCEPTED"} :
              invitation'[i] \in {invitation[i], [invitation[i] EXCEPT !.status = st]}
        BY <2>1, <3>2 DEF Revoke, Consume, TypeOK
      <4>2. [invitation[i] EXCEPT !.status = st] \in Invitation
            /\ [invitation[i] EXCEPT !.status = st].status = st
        BY <2>1 DEF Invitation
      <4>3. invitation'[i] # NoInvitation
        BY <2>1, <4>1, <4>2, RowKinds
      <4>4. Pending(i)' => Pending(i)
        BY <4>1, <4>2 DEF Pending
      <4>5. lapsed' = lapsed /\ deleted' = deleted
        BY <3>2 DEF Revoke, Consume
      <4>6. QED
        BY <4>3, <4>4, <4>5 DEF Usable
    <3>3. CASE UNCHANGED invitation /\ lapsed \subseteq lapsed' /\ (deleted => deleted')
      BY <2>1, <3>3 DEF Usable, Pending
    <3>4. QED
      BY <3>1, <3>2, <3>3 DEF Next, SoftDelete, RemoveMember, Lapse, CheckMember,
         CheckRevocable, FindLive, CheckPending, Reread, Abandon
  <2>3. ASSUME NEW ops \in {{"consume"}, {"accept", "consume"}},
               ~AcceptingWith(ops, i),
               ops = {"consume"} => ~Usable(i),
               ops = {"accept", "consume"} => deleted
        PROVE  ~AcceptingWith(ops, i)'
    <3> SUFFICES ASSUME NEW r \in Requests, request'[r].op \in ops,
                        request'[r].invitation = i, request'[r] # request[r]
                 PROVE  FALSE
      BY <2>3 DEF AcceptingWith
    <3>1. CASE FindLive(r, i)
      BY <2>1, <2>3, <3>1 DEF FindLive, TypeOK
    <3>2. CASE Reread(r) /\ request'[r].op = "consume"
      <4>1. request[r].invitation = i /\ Usable(i) /\ request[r].op = "accept"
        BY <2>1, <3>2, RowKinds DEF Reread, TypeOK
      <4>2. QED
        BY <2>3, <4>1 DEF AcceptingWith
    <3>3. ASSUME NEW j \in Invitations, FindLive(r, j), j # i
          PROVE  FALSE
      BY <2>1, <3>3 DEF FindLive, TypeOK
    <3>4. CASE UNCHANGED request
      BY <3>4
    <3>5. ASSUME NEW s \in Requests, NEW q, q.op \notin ops, Continue(s, q)
          PROVE  FALSE
      <4>1. CASE s = r
        BY <2>1, <3>5, <4>1 DEF TypeOK
      <4>2. CASE s # r
        BY <2>1, <3>5, <4>2 DEF TypeOK
      <4>3. QED
        BY <4>1, <4>2
    <3>6. ASSUME NEW s \in Requests
          PROVE  /\ ~(\E p \in People : CheckMember(s, p))
                 /\ ~(\E j \in Invitations : CheckRevocable(s, j))
                 /\ ~(\E j \in Invitations : Issue(s, j))
                 /\ ~CheckPending(s) /\ ~Revoke(s) /\ ~Consume(s) /\ ~Abandon(s)
      BY <3>5, RowKinds DEF CheckMember, CheckRevocable, Issue, CheckPending, Revoke, Consume,
         Abandon
    <3>7. ASSUME NEW s \in Requests, s # r, Reread(s) \/ \E j \in Invitations : FindLive(s, j)
          PROVE  FALSE
      BY <2>1, <3>7 DEF Reread, FindLive, TypeOK
    <3>8. CASE Reread(r) /\ request'[r].op # "consume"
      BY <2>1, <3>8, RowKinds DEF Reread, TypeOK
    <3>9. QED
      BY <3>1, <3>2, <3>3, <3>4, <3>6, <3>7, <3>8
      DEF Next, SoftDelete, RemoveMember, Lapse
  <2>4. Dead(i)'
    BY <2>1, <2>2, <2>3 DEF Dead
  <2>5. joins'[i] = joins[i]
    <3>1. ASSUME NEW r \in Requests, Consume(r)
          PROVE  joins'[i] = joins[i]
      BY <2>1, <3>1 DEF Consume, Dead, AcceptingWith, TypeOK
    <3>2. QED
      BY <3>1 DEF Next, SoftDelete, RemoveMember, Lapse, CheckMember,
         CheckRevocable, FindLive, CheckPending, Issue, Revoke, Reread, Abandon
  <2>6. QED
    BY <2>4, <2>5
<1>2. QED
  BY <1>1, Invariance, PTL DEF Spec, DeadForGood

-----------------------------------------------------------------------------

\* While the invites to an address have not overlapped, one at most is under way,
\* one row at most is PENDING, and an invite about to issue knows of that row.
OneAtATime(p) ==
  p \notin overlapped =>
    /\ \A r, s \in Requests : Inviting(r, p) /\ Inviting(s, p) => r = s
    /\ \A i, j \in PendingFor(p) : i = j
    /\ \A r \in Requests : request[r].op = "issue" /\ request[r].email = p =>
         PendingFor(p) \subseteq {request[r].pending}

\* Only issuing makes a row PENDING.
LEMMA PendingShrinks ==
  ASSUME IInv, [Next]_vars, NEW p \in People,
         ~(\E r \in Requests, i \in Invitations : Issue(r, i))
  PROVE  PendingFor(p)' \subseteq PendingFor(p)
<1>1. ASSUME NEW r \in Requests, Revoke(r) \/ Consume(r)
      PROVE  PendingFor(p)' \subseteq PendingFor(p)
  <2>1. PICK i \in Invitations :
          i = request[r].invitation /\ TypeOK /\ invitation[i] \in Invitation
    BY <1>1, RequestKinds, RowKinds DEF IInv, TypeOK, NamesRow, Revoke, Consume
  <2>2. PICK st \in {"REVOKED", "ACCEPTED"} :
          invitation' = [invitation EXCEPT ![i] = [invitation[i] EXCEPT !.status = st]]
    BY <1>1, <2>1 DEF Revoke, Consume
  <2>3. [invitation[i] EXCEPT !.status = st].status = st
    BY <2>1 DEF Invitation
  <2>4. QED
    BY <2>1, <2>2, <2>3 DEF PendingFor, Pending, TypeOK
<1>2. CASE UNCHANGED invitation
  BY <1>2 DEF PendingFor, Pending
<1>3. QED
  BY <1>1, <1>2 DEF Next, vars, SoftDelete, RemoveMember, Lapse, CheckMember, CheckRevocable,
     FindLive, CheckPending, Reread, Abandon

\* Every step keeps an address that has not been overlapped in order.
LEMMA OneAtATimeStep ==
  ASSUME IInv, [Next]_vars, NEW p \in People, OneAtATime(p)
  PROVE  OneAtATime(p)'
<1> USE DEF Begin, Continue
<1>0. TypeOK
  BY DEF IInv
<1>1. SUFFICES ASSUME p \notin overlapped'
               PROVE  OneAtATime(p)'
  BY DEF OneAtATime
<1>2. /\ \A r, s \in Requests : Inviting(r, p) /\ Inviting(s, p) => r = s
      /\ \A i, j \in PendingFor(p) : i = j
      /\ \A r \in Requests : request[r].op = "issue" /\ request[r].email = p =>
           PendingFor(p) \subseteq {request[r].pending}
  <2>1. overlapped \subseteq overlapped'
    BY DEF Next, vars, SoftDelete, RemoveMember, Lapse, CheckMember, CheckRevocable,
       FindLive, CheckPending, Issue, Revoke, Reread, Consume, Abandon
  <2>2. QED
    BY <1>1, <2>1 DEF OneAtATime
<1>3. ASSUME NEW r \in Requests, NEW i \in Invitations, Issue(r, i)
      PROVE  OneAtATime(p)'
  <2>1. /\ request' = [request EXCEPT ![r] = NoRequest]
        /\ \A s \in Requests : Inviting(s, p)' => s # r /\ Inviting(s, p)
    BY <1>0, <1>3, RowKinds DEF Issue, Inviting, TypeOK
  <2>2. request[r].op = "issue" /\ request[r].email \in People /\ Inviting(r, request[r].email)
    BY <1>0, <1>3, RequestKinds DEF Issue, Inviting
  <2>3. /\ invitation'[i] = [status |-> "PENDING", email |-> request[r].email]
        /\ \A j \in Invitations : j # i /\ j # request[r].pending => invitation'[j] = invitation[j]
        /\ \A j \in Invitations : j # i /\ j = request[r].pending =>
             invitation'[j] = [invitation[j] EXCEPT !.status = "EXPIRED"]
    BY <1>0, <1>3 DEF Issue, TypeOK
  <2>4. ASSUME NEW j \in Invitations, j # i, j = request[r].pending
        PROVE  ~Pending(j)'
    <3>1. invitation[j] \in Invitation
      <4>1. NamesRow(r) /\ j # None
        BY NoneAssumption DEF IInv
      <4>2. invitation[j] # NoInvitation
        BY <2>2, <2>4, <4>1 DEF NamesRow
      <4>3. QED
        BY <1>0, <4>2 DEF TypeOK
    <3>2. [invitation[j] EXCEPT !.status = "EXPIRED"].status = "EXPIRED"
      BY <3>1 DEF Invitation
    <3>3. QED
      BY <2>3, <2>4, <3>2 DEF Pending
  <2>5. \A j \in Invitations : j # i /\ Pending(j)' =>
          j # request[r].pending /\ invitation'[j] = invitation[j] /\ Pending(j)
    BY <2>3, <2>4 DEF Pending
  <2>6. CASE request[r].email = p
    <3>1. \A s \in Requests : ~Inviting(s, p)'
      BY <1>2, <2>1, <2>2, <2>6
    <3>2. PendingFor(p)' \subseteq {i}
      BY <1>2, <2>2, <2>5, <2>6 DEF PendingFor
    <3>3. QED
      BY <3>1, <3>2 DEF OneAtATime, Inviting
  <2>7. CASE request[r].email # p
    <3>1. PendingFor(p)' \subseteq PendingFor(p)
      BY <2>3, <2>5, <2>7 DEF PendingFor
    <3>2. \A s \in Requests : Inviting(s, p)' => request'[s] = request[s]
      BY <1>0, <2>1 DEF TypeOK
    <3>3. QED
      BY <1>2, <2>1, <3>1, <3>2 DEF OneAtATime, Inviting
  <2>8. QED
    BY <2>6, <2>7
<1>4. ASSUME NEW r \in Requests, CheckPending(r), request[r].email = p,
             PendingFor(p)' \subseteq PendingFor(p)
      PROVE  OneAtATime(p)'
  <2>1. Inviting(r, p)
    BY <1>4 DEF CheckPending, Inviting
  <2>2. \A s \in Requests : s # r => request'[s] = request[s]
    BY <1>0, <1>4 DEF CheckPending, TypeOK
  <2>3. \A s \in Requests : Inviting(s, p)' => s = r
    BY <1>2, <2>1, <2>2 DEF Inviting
  <2>4. ASSUME request'[r].op = "issue"
        PROVE  PendingFor(p)' \subseteq {request'[r].pending}
    <3>1. CASE PendingFor(p) = {}
      BY <1>4, <3>1
    <3>2. ASSUME NEW i \in PendingFor(p),
                 request'[r] = [op |-> "issue", email |-> p, pending |-> i]
          PROVE  PendingFor(p)' \subseteq {request'[r].pending}
      BY <1>2, <1>4, <3>2
    <3>3. QED
      BY <1>0, <1>4, <2>4, <3>1, <3>2, RowKinds DEF CheckPending, TypeOK
  <2>5. QED
    BY <1>2, <1>4, <2>3, <2>4 DEF OneAtATime, Inviting
<1>5. ASSUME NEW r \in Requests, CheckMember(r, p), PendingFor(p)' \subseteq PendingFor(p)
      PROVE  OneAtATime(p)'
  <2>1. \A s \in Requests : ~Inviting(s, p)
    BY <1>1, <1>5 DEF CheckMember
  <2>2. \A s \in Requests : s # r => request'[s] = request[s]
    BY <1>0, <1>5 DEF CheckMember, TypeOK
  <2>3. request'[r].op = "checkPending"
    BY <1>0, <1>5 DEF CheckMember, TypeOK
  <2>4. QED
    BY <1>2, <1>5, <2>1, <2>2, <2>3 DEF OneAtATime, Inviting
<1>6. ASSUME \A s \in Requests : Inviting(s, p)' => request'[s] = request[s],
             PendingFor(p)' \subseteq PendingFor(p)
      PROVE  OneAtATime(p)'
  BY <1>2, <1>6 DEF OneAtATime, Inviting
<1>7. ASSUME NEW r \in Requests,
             \/ CheckPending(r) /\ request[r].email # p
             \/ \E o \in People : o # p /\ CheckMember(r, o)
             \/ \E i \in Invitations : CheckRevocable(r, i) \/ FindLive(r, i)
             \/ Revoke(r) \/ Reread(r) \/ Consume(r) \/ Abandon(r)
      PROVE  \A s \in Requests : Inviting(s, p)' => request'[s] = request[s]
  <2>1. \A s \in Requests : s # r => request'[s] = request[s]
    BY <1>0, <1>7 DEF CheckPending, CheckMember, CheckRevocable, FindLive, Revoke, Reread,
       Consume, Abandon, TypeOK
  <2>2. PICK q : request'[r] = q /\
          (q.op \in {"none", "accept", "consume", "revoke"} \/ q.email # p)
    BY <1>0, <1>7, RowKinds DEF CheckPending, CheckMember, CheckRevocable, FindLive, Revoke,
       Reread, Consume, Abandon, TypeOK
  <2>3. QED
    BY <2>1, <2>2 DEF Inviting
<1>8. CASE UNCHANGED request
  <2>1. ~(\E r \in Requests, i \in Invitations : Issue(r, i))
    BY <1>0, <1>8, RowKinds DEF Issue, TypeOK
  <2>2. QED
    BY <1>6, <1>8, <2>1, PendingShrinks
<1>9. CASE \E r \in Requests, i \in Invitations : Issue(r, i)
  BY <1>3, <1>9
<1>10. CASE ~(\E r \in Requests, i \in Invitations : Issue(r, i))
  <2>1. PendingFor(p)' \subseteq PendingFor(p)
    BY <1>10, PendingShrinks
  <2>2. QED
    BY <1>4, <1>5, <1>6, <1>7, <1>8, <1>10, <2>1
    DEF Next, vars, SoftDelete, RemoveMember, Lapse
<1>11. QED
  BY <1>9, <1>10

\* Two PENDING invitations for one address mean that two invites to it overlapped.
THEOREM OneInvitation == Spec => []SecondInvitationNeedsOverlap
<1>1. Init => \A p \in People : OneAtATime(p)
  BY RowKinds DEF Init, OneAtATime, Inviting, PendingFor, Pending
<1>2. IInv /\ (\A p \in People : OneAtATime(p)) /\ [Next]_vars
        => (\A p \in People : OneAtATime(p))'
  BY OneAtATimeStep
<1>3. (\A p \in People : OneAtATime(p)) => SecondInvitationNeedsOverlap
  BY DEF OneAtATime, SecondInvitationNeedsOverlap
<1>4. QED
  BY <1>1, <1>2, <1>3, Invariance, PTL DEF Spec
=============================================================================
