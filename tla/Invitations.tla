------------------------------ MODULE Invitations ------------------------------
(***************************************************************************)
(* InvitationsService: the invitations of one organization under           *)
(* concurrent requests to issue, revoke and accept them.                   *)
(*                                                                         *)
(* Each handler checks first and writes later, in a READ COMMITTED         *)
(* transaction: what it checked may have changed.  accept checks twice, in *)
(* findLive and again inside its transaction.  The last statements of a    *)
(* transaction and its commit are one step, which is what row locks make   *)
(* of them; the unique index on (organization, user) fails a second        *)
(* membership row.                                                         *)
(*                                                                         *)
(* An address and the account that signs in with it are one and the same.  *)
(* Roles and the email-domain restriction are left out: a request that     *)
(* they refuse changes nothing.                                            *)
(***************************************************************************)
EXTENDS Integers

CONSTANTS
  People,          \* addresses
  Invitations,     \* invitation rows
  Requests,        \* how many requests may be in flight at once
  MaxRemovals      \* bound: how often a member is removed

ASSUME BoundsAssumption == MaxRemovals \in Nat

None == "none"

ASSUME NoneAssumption == None \notin Invitations

VARIABLES
  invitation,   \* invitation[i]: the row, or NoInvitation
  lapsed,       \* the invitations whose expiresAt has passed
  members,      \* the people with a membership row
  deleted,      \* whether the organization's deletedAt is set
  joins,        \* joins[i]: MEMBER_JOINED audit entries that name i
  removals,     \* removals[p]: MEMBER_REMOVED entries for p
  overlapped,   \* history: the addresses two invites have been under way for at once
  request       \* request[r]: what r has checked and is about to do

vars == <<invitation, lapsed, members, deleted, joins, removals, overlapped, request>>

NoInvitation == [status |-> "absent"]
Invitation == [status : {"PENDING", "ACCEPTED", "REVOKED", "EXPIRED"}, email : People]

NoRequest == [op |-> "none"]
Request ==
  [op : {"checkPending"}, email : People]
  \cup [op : {"issue"}, email : People, pending : Invitations \cup {None}]
  \cup [op : {"accept", "consume", "revoke"}, invitation : Invitations]

Init ==
  /\ invitation = [i \in Invitations |-> NoInvitation]
  /\ lapsed = {}
  /\ members = {}
  /\ deleted = FALSE
  /\ joins = [i \in Invitations |-> 0]
  /\ removals = [p \in People |-> 0]
  /\ overlapped = {}
  /\ request = [r \in Requests |-> NoRequest]

-----------------------------------------------------------------------------

Pending(i) == invitation[i].status = "PENDING"
PendingFor(p) == {i \in Invitations : Pending(i) /\ invitation[i].email = p}
Usable(i) == Pending(i) /\ i \notin lapsed

Inviting(r, p) == request[r].op \in {"checkPending", "issue"} /\ request[r].email = p

Begin(r, q) ==
  /\ request[r] = NoRequest
  /\ request' = [request EXCEPT ![r] = q]

Continue(r, q) == request' = [request EXCEPT ![r] = q]

\* invite: the address does not belong to a member.
CheckMember(r, p) ==
  /\ ~deleted
  /\ p \notin members
  /\ Begin(r, [op |-> "checkPending", email |-> p])
  /\ overlapped' = IF \E s \in Requests : Inviting(s, p) THEN overlapped \cup {p}
                                                         ELSE overlapped
  /\ UNCHANGED <<invitation, lapsed, members, deleted, joins, removals>>

\* invite: findFirst picks any PENDING row of the address, and only the one it
\* picked is looked at; INVITATION_ALREADY_SENT while that one has not lapsed.
CheckPending(r) ==
  LET p == request[r].email IN
  /\ request[r].op = "checkPending"
  /\ \/ /\ PendingFor(p) = {}
        /\ Continue(r, [op |-> "issue", email |-> p, pending |-> None])
     \/ \E i \in PendingFor(p) :
          Continue(r, IF i \in lapsed THEN [op |-> "issue", email |-> p, pending |-> i]
                                      ELSE NoRequest)
  /\ UNCHANGED <<invitation, lapsed, members, deleted, joins, removals, overlapped>>

\* Mutant of Issue: the superseded invitation is left as it is.
IssueAnother(r, i) ==
  /\ request[r].op = "issue"
  /\ invitation[i] = NoInvitation
  /\ invitation' = [invitation EXCEPT ![i] = [status |-> "PENDING", email |-> request[r].email]]
  /\ Continue(r, NoRequest)
  /\ UNCHANGED <<lapsed, members, deleted, joins, removals, overlapped>>

\* invite's transaction: the pending row it found is EXPIRED, by id, and a new
\* one created.
Issue(r, i) ==
  LET superseded == [j \in Invitations |->
        IF j = request[r].pending THEN [invitation[j] EXCEPT !.status = "EXPIRED"]
                                  ELSE invitation[j]]
  IN
  /\ request[r].op = "issue"
  /\ invitation[i] = NoInvitation
  /\ invitation' =
       [superseded EXCEPT ![i] = [status |-> "PENDING", email |-> request[r].email]]
  /\ Continue(r, NoRequest)
  /\ UNCHANGED <<lapsed, members, deleted, joins, removals, overlapped>>

\* An invitation's expiresAt passes; nothing is written.
Lapse(i) ==
  /\ invitation[i] # NoInvitation /\ i \notin lapsed
  /\ lapsed' = lapsed \cup {i}
  /\ UNCHANGED <<invitation, members, deleted, joins, removals, overlapped, request>>

\* revoke: any row but an ACCEPTED one passes.
CheckRevocable(r, i) ==
  /\ ~deleted
  /\ invitation[i].status \notin {"absent", "ACCEPTED"}
  /\ Begin(r, [op |-> "revoke", invitation |-> i])
  /\ UNCHANGED <<invitation, lapsed, members, deleted, joins, removals, overlapped>>

\* Mutant of Revoke: a status that the enum InvitationStatus does not have.
RevokeUnlisted(r) ==
  /\ request[r].op = "revoke"
  /\ invitation' = [invitation EXCEPT ![request[r].invitation].status = "CANCELLED"]
  /\ Continue(r, NoRequest)
  /\ UNCHANGED <<lapsed, members, deleted, joins, removals, overlapped>>

\* revoke's transaction: an update by id alone.
Revoke(r) ==
  /\ request[r].op = "revoke"
  /\ invitation' = [invitation EXCEPT ![request[r].invitation].status = "REVOKED"]
  /\ Continue(r, NoRequest)
  /\ UNCHANGED <<lapsed, members, deleted, joins, removals, overlapped>>

\* accept, findLive, for the person the invitation names.
FindLive(r, i) ==
  /\ Usable(i) /\ ~deleted
  /\ Begin(r, [op |-> "accept", invitation |-> i])
  /\ UNCHANGED <<invitation, lapsed, members, deleted, joins, removals, overlapped>>

\* Mutant of Reread: accept trusts findLive.
TrustFindLive(r) ==
  LET i == request[r].invitation IN
  /\ request[r].op = "accept"
  /\ Continue(r, IF invitation[i].email \notin members
                 THEN [op |-> "consume", invitation |-> i]
                 ELSE NoRequest)
  /\ UNCHANGED <<invitation, lapsed, members, deleted, joins, removals, overlapped>>

\* Mutant of Reread: the branch for a member answers instead of throwing, and its
\* update is committed.
RereadCommitting(r) ==
  LET i == request[r].invitation
      already == invitation[i].email \in members
  IN
  /\ request[r].op = "accept"
  /\ Continue(r, IF Usable(i) /\ ~already THEN [op |-> "consume", invitation |-> i]
                                          ELSE NoRequest)
  /\ invitation' = IF Usable(i) /\ already
                   THEN [invitation EXCEPT ![i].status = "ACCEPTED"]
                   ELSE invitation
  /\ UNCHANGED <<lapsed, members, deleted, joins, removals, overlapped>>

\* accept's transaction reads the invitation again, without a lock, and looks for
\* a membership row.  Where there is one it marks the invitation ACCEPTED and
\* throws, which rolls the mark back.
Reread(r) ==
  LET i == request[r].invitation IN
  /\ request[r].op = "accept"
  /\ Continue(r, IF Usable(i) /\ invitation[i].email \notin members
                 THEN [op |-> "consume", invitation |-> i]
                 ELSE NoRequest)
  /\ UNCHANGED <<invitation, lapsed, members, deleted, joins, removals, overlapped>>

\* Mutant of Consume: without the unique index.
ConsumeUnindexed(r) ==
  LET i == request[r].invitation IN
  /\ request[r].op = "consume"
  /\ members' = members \cup {invitation[i].email}
  /\ invitation' = [invitation EXCEPT ![i].status = "ACCEPTED"]
  /\ joins' = [joins EXCEPT ![i] = @ + 1]
  /\ Continue(r, NoRequest)
  /\ UNCHANGED <<lapsed, deleted, removals, overlapped>>

\* The rest of accept's transaction: the membership row, the invitation by id
\* alone, the audit entry, the commit.
Consume(r) ==
  LET i == request[r].invitation IN
  /\ request[r].op = "consume"
  /\ invitation[i].email \notin members
  /\ members' = members \cup {invitation[i].email}
  /\ invitation' = [invitation EXCEPT ![i].status = "ACCEPTED"]
  /\ joins' = [joins EXCEPT ![i] = @ + 1]
  /\ Continue(r, NoRequest)
  /\ UNCHANGED <<lapsed, deleted, removals, overlapped>>

\* A unique violation, a database error or a crash: the transaction rolls back.
Abandon(r) ==
  /\ request[r] # NoRequest
  /\ Continue(r, NoRequest)
  /\ UNCHANGED <<invitation, lapsed, members, deleted, joins, removals, overlapped>>

\* MembersService.remove.
RemoveMember(p) ==
  /\ ~deleted
  /\ p \in members
  /\ removals[p] < MaxRemovals
  /\ members' = members \ {p}
  /\ removals' = [removals EXCEPT ![p] = @ + 1]
  /\ UNCHANGED <<invitation, lapsed, deleted, joins, overlapped, request>>

\* OrganizationsService.softDelete.
SoftDelete ==
  /\ deleted' = TRUE
  /\ UNCHANGED <<invitation, lapsed, members, joins, removals, overlapped, request>>

Next ==
  \/ SoftDelete
  \/ \E p \in People : RemoveMember(p)
  \/ \E i \in Invitations : Lapse(i)
  \/ \E r \in Requests :
       \/ \E p \in People : CheckMember(r, p)
       \/ \E i \in Invitations : Issue(r, i) \/ CheckRevocable(r, i) \/ FindLive(r, i)
       \/ CheckPending(r) \/ Revoke(r) \/ Reread(r) \/ Consume(r) \/ Abandon(r)

Spec == Init /\ [][Next]_vars

-----------------------------------------------------------------------------

TypeOK ==
  /\ invitation \in [Invitations -> Invitation \cup {NoInvitation}]
  /\ lapsed \in SUBSET Invitations
  /\ members \in SUBSET People
  /\ deleted \in BOOLEAN
  /\ joins \in [Invitations -> Nat]
  /\ removals \in [People -> 0..MaxRemovals]
  /\ overlapped \in SUBSET People
  /\ request \in [Requests -> Request \cup {NoRequest}]

\* schema.prisma:488, "At most one live invitation per email per organization", by a
\* partial unique index that no migration creates.  What is true without it: two
\* invitations of an address are PENDING at once only if two invites to it have
\* overlapped; accepts, revocations, removals and crashes beside a single invite leave
\* no second one behind.
SecondInvitationNeedsOverlap ==
  \A p \in People \ overlapped : \A i, j \in PendingFor(p) : i = j

\* invitations.service.ts:305: "the status check must happen under the same lock
\* as the update that consumes it, or a token could be redeemed twice."  What is true
\* without that lock: the unique index lets a token be redeemed once more for each time
\* its person has been removed, and no more.
RedeemedOncePerRemoval ==
  \A i \in Invitations :
    invitation[i] # NoInvitation => joins[i] <= 1 + removals[invitation[i].email]

\* The status column and the audit log agree: an ACCEPTED invitation has let
\* somebody in, and one that has let somebody in is not offered again.
AcceptedMeansJoined ==
  \A i \in Invitations :
    /\ invitation[i].status = "ACCEPTED" => joins[i] > 0
    /\ joins[i] > 0 => ~Pending(i)

\* Accepted, revoked, superseded or lapsed, and no accept holds an earlier answer;
\* or of a deleted organization, and no accept has begun.
AcceptingWith(ops, i) ==
  \E r \in Requests : request[r].op \in ops /\ request[r].invitation = i

Dead(i) ==
  /\ invitation[i] # NoInvitation
  /\ \/ ~Usable(i) /\ ~AcceptingWith({"consume"}, i)
     \/ deleted /\ ~AcceptingWith({"accept", "consume"}, i)

\* A dead invitation stays dead and lets nobody in: checking again inside the
\* transaction leaves only an accept that is past that check to be overtaken.
DeadForGood ==
  [][\A i \in Invitations : Dead(i) => Dead(i)' /\ joins'[i] = joins[i]]_vars
=============================================================================
