---------------------------- MODULE Organizations ----------------------------
(***************************************************************************)
(* What the services of one tenant check in one query and rely on in a     *)
(* later one: the addresses of new organizations, workspaces, teams and    *)
(* projects (the resolveSlug and resolveKey loops), the email-domain       *)
(* policy (SettingsService) that InvitationsService.invite obeys, and the  *)
(* people of a team (TeamsService.addMember).                              *)
(*                                                                         *)
(* An address is a sequence of characters, since a name is refused or not  *)
(* by how many of them are cut off.  Any query may fail, which ends the    *)
(* request.                                                                *)
(***************************************************************************)
EXTENDS Naturals, Sequences, FiniteSets

CONSTANTS
  Kinds,         \* of rows with an address
  Characters,
  Hyphen,
  Org,           \* what follows the hyphen of -org
  Numeral,       \* Numeral[n]: the characters of the number n
  Texts,         \* the addresses that users choose and that names are turned into
  Reserved,      \* those that collide with a route of the application
  Domains,
  People,
  Requests,
  MaxLength,     \* 64 characters for a slug, 10 for a project key
  MaxAttempts,   \* MAX_SLUG_ATTEMPTS, 25; 100 for project keys
  MaxServed      \* bound: requests per behaviour

ASSUME KindsNamed == Kinds \subseteq {"organization", "workspace", "team", "project"}

Address == {a \in Seq(Characters) : Len(a) <= MaxLength}
Numbers == 2..(MaxAttempts - 1)

\* No address that is chosen or slugified ends in a hyphen, and no number has one.
WellFormed(a) == a \in Address /\ a # <<>> /\ a[Len(a)] # Hyphen

ASSUME NumeralsDiffer ==
  /\ \A n \in Numbers :
       /\ WellFormed(Numeral[n]) /\ Len(Numeral[n]) < MaxLength
       /\ \A i \in 1..Len(Numeral[n]) : Numeral[n][i] # Hyphen
  /\ \A m, n \in Numbers : Numeral[m] = Numeral[n] => m = n
ASSUME TextsWellFormed == Hyphen \in Characters /\ \A t \in Texts : WellFormed(t)
\* They leave room for -org and a number.
ASSUME ReservedAreShort ==
  /\ Reserved \subseteq Texts /\ WellFormed(Org)
  /\ \A t \in Reserved :
       /\ \A n \in Numbers : Len(t) + Len(Org) + Len(Numeral[n]) <= MaxLength - 2
       /\ t \o <<Hyphen>> \o Org \notin Reserved
ASSUME Bounds == MaxLength \in Nat /\ MaxAttempts \in Nat \ {0, 1, 2} /\ MaxServed \in Nat

VARIABLES
  taken,      \* taken[k]: the addresses of the rows of kind k
  refused,    \* history: the creates that found no free address, and the rows they met
  settings,   \* restrictEmailDomains and allowedEmailDomains, or their defaults
  crossed,    \* history: an update of the settings has overlapped another
  invited,    \* the domains invitations have been sent to
  members,    \* the people with a membership row
  team,       \* the people with a row in the team
  request,    \* request[r]: what r is about to do
  served      \* how many requests there have been

vars == <<taken, refused, settings, crossed, invited, members, team, request, served>>
names == <<taken, refused>>
policy == <<settings, crossed, invited>>
people == <<members, team>>

Settings == [restrict : BOOLEAN, domains : SUBSET Domains]

Idle == [step |-> "idle"]
Naming == [step : {"lookup"}, kind : Kinds, stem : Address, chosen : BOOLEAN,
           n : 1..(MaxAttempts - 1), met : SUBSET Address]
Creating == [step : {"insert"}, kind : Kinds, address : Address]
Updating == [step : {"upsert"}, given : SUBSET {"restrict", "domains"}, merged : Settings,
             stale : BOOLEAN]
Inviting == [step : {"issue"}, domain : Domains, stale : BOOLEAN]
Adding == [step : {"add"}, person : People]

Begin(r, next) ==
  /\ request[r] = Idle
  /\ served < MaxServed
  /\ served' = served + 1
  /\ request' = [request EXCEPT ![r] = next]

Proceed(r, next) == request' = [request EXCEPT ![r] = next] /\ UNCHANGED served

-----------------------------------------------------------------------------

\* Mutant of Slice: one character too early.
SliceShort(a, n) == IF Len(a) < n THEN a ELSE SubSeq(a, 1, n - 1)

Slice(a, n) == IF Len(a) <= n THEN a ELSE SubSeq(a, 1, n)

Numbered(kind, stem, n) ==
  stem \o (IF kind = "project" THEN <<>> ELSE <<Hyphen>>) \o Numeral[n]

\* Mutant of Attempt: room is left for one character more.
AttemptShort(kind, stem, n) ==
  IF n = 1 THEN stem
  ELSE IF kind = "project" THEN Slice(stem, MaxLength - Len(Numeral[n]) - 1) \o Numeral[n]
  ELSE Slice(Numbered(kind, stem, n), MaxLength - 1)

\* The text, then the text with a number: the slug is cut at its end, the key before
\* its number.
Attempt(kind, stem, n) ==
  IF n = 1 THEN stem
  ELSE IF kind = "project" THEN Slice(stem, MaxLength - Len(Numeral[n])) \o Numeral[n]
  ELSE Slice(Numbered(kind, stem, n), MaxLength)

IsReserved(kind, address) == kind \in {"organization", "project"} /\ address \in Reserved

\* The text that attempts are made from: a reserved slug that nobody chose gets -org.
Stem(kind, t) ==
  IF kind = "organization" /\ IsReserved(kind, t) THEN t \o <<Hyphen>> \o Org ELSE t

\* Keys have no hyphen, and those that deriveKey makes leave room for a number.
Suits(kind, t, chosen) ==
  kind = "project" =>
    /\ \A i \in 1..Len(t) : t[i] # Hyphen
    /\ chosen \/ \A n \in Numbers : Len(t) + Len(Numeral[n]) <= MaxLength

Fitting(kind, stem) == {n \in Numbers : Len(Numbered(kind, stem, n)) <= MaxLength}

\* The rows of users who have each chosen a text, or the text with a number.
Namesakes(kind, t) ==
  {a \in {t} \cup {Numbered(kind, t, n) : n \in Fitting(kind, t)} :
     Suits(kind, a, TRUE) /\ ~IsReserved(kind, a)}

Init ==
  /\ taken \in {[k \in Kinds |-> {}]} \cup {[k \in Kinds |-> Namesakes(k, t)] : t \in Texts}
  /\ refused = {}
  /\ settings = [restrict |-> FALSE, domains |-> {}]
  /\ crossed = FALSE
  /\ invited = {}
  /\ members = People
  /\ team = {}
  /\ request = [r \in Requests |-> Idle]
  /\ served = 0

\* create, up to its first query.  A reserved address is refused when the user chose
\* it, and else replaced: by the one with -org, or by the first numbered key.
StartCreate(r, kind, t, chosen) ==
  /\ Suits(kind, t, chosen)
  /\ IsReserved(kind, t) => ~chosen
  /\ Begin(r, [step |-> "lookup", kind |-> kind, chosen |-> chosen, n |-> 1,
               stem |-> Stem(kind, t), met |-> {}])
  /\ UNCHANGED <<names, policy, people>>

\* Mutant of LastAttempt: the loop has no bound.
LastAttemptNever(q) == q.chosen

LastAttempt(q) == q.chosen \/ q.n + 1 >= MaxAttempts

\* One findUnique of resolveSlug or resolveKey: the address is free, or the next one
\* is tried, or the create is refused.
Lookup(r) ==
  LET q == request[r]
      address == Attempt(q.kind, q.stem, q.n)
      met == q.met \cup ({address} \cap taken[q.kind])
      free == address \notin taken[q.kind] /\ (q.n = 1 => ~IsReserved(q.kind, address)) IN
  /\ q.step = "lookup"
  /\ \/ /\ free
        /\ Proceed(r, [step |-> "insert", kind |-> q.kind, address |-> address])
        /\ UNCHANGED refused
     \/ /\ ~free /\ ~LastAttempt(q)
        /\ Proceed(r, [q EXCEPT !.n = @ + 1, !.met = met])
        /\ UNCHANGED refused
     \/ /\ ~free /\ LastAttempt(q)
        /\ Proceed(r, Idle)
        /\ refused' = IF q.chosen THEN refused
                      ELSE refused \cup {[kind |-> q.kind, stem |-> q.stem, met |-> met]}
  /\ UNCHANGED <<taken, policy, people>>

\* The insert.  When the address has been taken since, the unique index refuses it and
\* the request ends in an error that nothing translates: no row is added, as here.
Insert(r) ==
  LET q == request[r] IN
  /\ q.step = "insert"
  /\ taken' = [taken EXCEPT ![q.kind] = @ \cup {q.address}]
  /\ Proceed(r, Idle)
  /\ UNCHANGED <<refused, policy, people>>

\* A workspace, team or project is deleted; an organization keeps its row.
DeleteRow(kind, address) ==
  /\ kind # "organization"
  /\ served < MaxServed
  /\ served' = served + 1
  /\ taken' = [taken EXCEPT ![kind] = @ \ {address}]
  /\ UNCHANGED <<refused, policy, people, request>>

-----------------------------------------------------------------------------

\* The settings there are, with the fields given in their place.
Merged(given, input) ==
  [restrict |-> IF "restrict" \in given THEN input.restrict ELSE settings.restrict,
   domains  |-> IF "domains" \in given THEN input.domains ELSE settings.domains]

\* Mutant of Acceptable: the fields given are looked at, and not what they leave.
AcceptableAlone(given, input) ==
  given = {"restrict", "domains"} /\ input.restrict => input.domains # {}

Acceptable(given, input) ==
  Merged(given, input).restrict => Merged(given, input).domains # {}

\* SettingsService.update: the fields given are merged with the settings read now,
\* and refused if they turn the restriction on without a domain.
StartUpdate(r, given, input) ==
  /\ Acceptable(given, input)
  /\ Begin(r, [step |-> "upsert", given |-> given, merged |-> Merged(given, input),
               stale |-> FALSE])
  /\ UNCHANGED <<names, policy, people>>

\* The upsert: only the fields that were given are written.
Upsert(r) ==
  LET q == request[r] IN
  /\ q.step = "upsert"
  /\ settings' = Merged(q.given, q.merged)
  /\ crossed' = (crossed \/ q.stale)
  /\ request' = [s \in Requests |->
        IF s = r THEN Idle
        ELSE IF request[s].step \in {"upsert", "issue"} THEN [request[s] EXCEPT !.stale = TRUE]
        ELSE request[s]]
  /\ UNCHANGED <<served, invited, names, people>>

\* Mutant of DomainAllowed: the switch is forgotten, as if it were never on.
AnyDomainAllowed(d) == TRUE

\* assertDomainAllowed: a restriction without domains lets every address in.
DomainAllowed(d) == ~settings.restrict \/ settings.domains = {} \/ d \in settings.domains

\* invite, up to the check of the domain; the invitation is created queries later.
StartInvite(r, d) ==
  /\ DomainAllowed(d)
  /\ Begin(r, [step |-> "issue", domain |-> d, stale |-> FALSE])
  /\ UNCHANGED <<names, policy, people>>

Issue(r) ==
  /\ request[r].step = "issue"
  /\ invited' = invited \cup {request[r].domain}
  /\ Proceed(r, Idle)
  /\ UNCHANGED <<settings, crossed, names, people>>

-----------------------------------------------------------------------------

\* addMember: the person is a member of the organization and not on the team yet.
StartAdd(r, p) ==
  /\ p \in members
  /\ p \notin team
  /\ Begin(r, [step |-> "add", person |-> p])
  /\ UNCHANGED <<names, policy, people>>

\* Mutant of AddMember: without the composite foreign key onto the membership.
AddMemberAnyway(r) ==
  /\ request[r].step = "add"
  /\ team' = team \cup {request[r].person}
  /\ Proceed(r, Idle)
  /\ UNCHANGED <<members, names, policy>>

\* The insert, refused by the composite foreign key if the membership is gone, and by
\* the unique index if another request has added the person.
AddMember(r) ==
  LET p == request[r].person IN
  /\ request[r].step = "add"
  /\ team' = IF p \in members THEN team \cup {p} ELSE team
  /\ Proceed(r, Idle)
  /\ UNCHANGED <<members, names, policy>>

\* TeamsService.removeMember, one deleteMany.
RemoveMember(p) ==
  /\ p \in team
  /\ team' = team \ {p}
  /\ UNCHANGED <<members, names, policy, request, served>>

\* MembersService.remove: the membership's rows in teams go with it.
LeaveOrganization(p) ==
  /\ p \in members
  /\ members' = members \ {p}
  /\ team' = team \ {p}
  /\ UNCHANGED <<names, policy, request, served>>

JoinOrganization(p) ==
  /\ p \notin members
  /\ members' = members \cup {p}
  /\ UNCHANGED <<team, names, policy, request, served>>

\* A query fails, or the process dies.
Abandon(r) ==
  /\ request[r] # Idle
  /\ Proceed(r, Idle)
  /\ UNCHANGED <<names, policy, people>>

Serve(r) ==
  \/ \E kind \in Kinds, t \in Texts, chosen \in BOOLEAN : StartCreate(r, kind, t, chosen)
  \/ Lookup(r) \/ Insert(r)
  \/ \E given \in SUBSET {"restrict", "domains"}, input \in Settings : StartUpdate(r, given, input)
  \/ Upsert(r)
  \/ \E d \in Domains : StartInvite(r, d)
  \/ Issue(r)
  \/ \E p \in People : StartAdd(r, p)
  \/ AddMember(r)
  \/ Abandon(r)

Next ==
  \/ \E r \in Requests : Serve(r)
  \/ \E kind \in Kinds : \E a \in taken[kind] : DeleteRow(kind, a)
  \/ \E p \in People : RemoveMember(p) \/ LeaveOrganization(p) \/ JoinOrganization(p)

Spec == Init /\ [][Next]_vars

-----------------------------------------------------------------------------

TypeOK ==
  /\ taken \in [Kinds -> SUBSET Address]
  /\ refused \subseteq [kind : Kinds, stem : Address, met : SUBSET Address]
  /\ settings \in Settings
  /\ crossed \in BOOLEAN
  /\ invited \subseteq Domains
  /\ members \subseteq People
  /\ team \subseteq People
  /\ request \in [Requests -> {Idle} \cup Naming \cup Creating \cup Updating \cup Inviting
                                     \cup Adding]
  /\ served \in Nat

\* A create is only refused for want of an address (organizations.service.ts:337) after
\* it has met that many different rows: one that has its text, unless that is reserved,
\* and one for each number that fits after it uncut.
RefusedOnlyWhenCrowded ==
  \A f \in refused :
    Cardinality(f.met) >=
      Cardinality(Fitting(f.kind, f.stem)) + (IF IsReserved(f.kind, f.stem) THEN 0 ELSE 1)

\* A slug ends in a hyphen, which the pattern of slugs forbids, only when its text left
\* room for exactly that: every other derived slug is one that a user could choose.
HyphenAtTheEdge(a) ==
  a[Len(a)] = Hyphen => Len(a) = MaxLength /\ SubSeq(a, 1, MaxLength - 1) \in Texts
TrailingHyphenOnlyAtTheEdge == \A k \in Kinds : \A a \in taken[k] : HyphenAtTheEdge(a)

\* settings.service.ts:53, "Enabling the domain restriction with an empty allow-list is
\* refused": the two fields only ever get there by updates that overlapped, each valid
\* with the settings that it had read.
RestrictionHasDomains ==
  settings.restrict /\ settings.domains = {} => crossed

\* While a restriction names domains, an invitation goes elsewhere only from an invite
\* that was checked before the last update, or after updates that had crossed.
OutsidersOnlyBySkew ==
  [][\A r \in Requests :
       /\ request[r].step = "issue"
       /\ invited' # invited
       /\ request'[r] = Idle
       /\ settings.restrict
       /\ request[r].domain \notin settings.domains
       => crossed \/ request[r].stale]_vars

\* Whoever is on the team is a member of the organization, whatever leaves between the
\* check of addMember and its insert (teams.service.ts:202).
TeamOfMembers == team \subseteq members
=============================================================================
