------------------------------- MODULE WorkItems -------------------------------
(***************************************************************************)
(* WorkItemsService for one project: concurrent creates, updates and       *)
(* removals of its items, while people join and leave the organization.    *)
(*                                                                         *)
(* A create numbers its item from Project.workItemCounter in one           *)
(* transaction; an update is a read, a check of the assignee and a write,  *)
(* each a query of its own.  Of an item the model keeps its number, its    *)
(* assignee, whether its status is terminal and whether completedAt is     *)
(* set.                                                                    *)
(***************************************************************************)
EXTENDS Integers

CONSTANTS
  People,
  Items,       \* item rows
  Requests     \* requests that may be in flight at once

ASSUME NobodyIsNoPerson == {"nobody", "keep"} \cap People = {}
ASSUME NoneIsNoRequest == "none" \notin Requests

VARIABLES
  counter,     \* Project.workItemCounter, as the holder of the row lock sees it
  holder,      \* the create whose transaction holds the project's row, or "none"
  number,      \* number[i]: the number item i was given, 0 before; kept after removal
  item,        \* item[i]: its row, or NoItem
  members,     \* the organization's members
  formerly,    \* history: everyone who has ever been one
  overtaken,   \* history: items whose status was written between the read and the
               \* write of another update
  request      \* request[r]: what r is about to do

vars == <<counter, holder, number, item, members, formerly, overtaken, request>>

Assignees == People \cup {"nobody"}

NoItem == [assignee |-> "none"]
Item == [done : BOOLEAN, stamped : BOOLEAN, assignee : Assignees]

\* An update that leaves the status or the assignee out keeps it.
Statuses == {"open", "done", "keep"}

Idle == [step |-> "idle"]
Creating == [step : {"take", "insert"}, done : BOOLEAN, assignee : Assignees]
Updating == [step : {"check", "write"}, item : Items, wasDone : BOOLEAN,
             status : Statuses, assignee : Assignees \cup {"keep"}]

Init ==
  /\ counter = 0
  /\ holder = "none"
  /\ number = [i \in Items |-> 0]
  /\ item = [i \in Items |-> NoItem]
  /\ members = {}
  /\ formerly = {}
  /\ overtaken = {}
  /\ request = [r \in Requests |-> Idle]

-----------------------------------------------------------------------------

\* Mutant of IsMember: no check, as the foreign key would have it.
IsUser(a) == TRUE

\* requireOrgMember, when there is somebody to check.
IsMember(a) == a \in members \cup {"nobody", "keep"}

\* create, up to its transaction.
StartCreate(r, done, a) ==
  /\ request[r] = Idle
  /\ IsMember(a)
  /\ request' = [request EXCEPT ![r] = [step |-> "take", done |-> done, assignee |-> a]]
  /\ UNCHANGED <<counter, holder, number, item, members, formerly, overtaken>>

\* The increment waits for the row lock and keeps it until the transaction ends.
TakeNumber(r) ==
  /\ request[r].step = "take"
  /\ holder = "none"
  /\ holder' = r
  /\ counter' = counter + 1
  /\ request' = [request EXCEPT ![r].step = "insert"]
  /\ UNCHANGED <<number, item, members, formerly, overtaken>>

\* workItem.create, and the commit.
Insert(r, i) ==
  /\ request[r].step = "insert"
  /\ number[i] = 0
  /\ number' = [number EXCEPT ![i] = counter]
  /\ item' = [item EXCEPT ![i] = [done |-> request[r].done,
                                  stamped |-> request[r].done,
                                  assignee |-> request[r].assignee]]
  /\ holder' = "none"
  /\ request' = [request EXCEPT ![r] = Idle]
  /\ UNCHANGED <<counter, members, formerly, overtaken>>

\* Mutant of LeaveCounter: a sequence in place of the counter column; what a
\* rolled-back transaction took from it stays taken.
LeaveSequence(r) == counter

\* Mutant of LeaveCounter: the increment is given back even by a create that has not
\* taken it.
GiveBackAlways(r) == counter - 1

\* A transaction that does not commit takes its increment back with it.
LeaveCounter(r) == IF holder = r THEN counter - 1 ELSE counter

\* A query of r fails, or the process dies.
Abandon(r) ==
  /\ request[r] # Idle
  /\ counter' = LeaveCounter(r)
  /\ holder' = IF holder = r THEN "none" ELSE holder
  /\ request' = [request EXCEPT ![r] = Idle]
  /\ UNCHANGED <<number, item, members, formerly, overtaken>>

\* update reads the item it is about.
StartUpdate(r, i, status, a) ==
  /\ request[r] = Idle
  /\ item[i] # NoItem
  /\ request' = [request EXCEPT ![r] =
       [step |-> "check", item |-> i, wasDone |-> item[i].done,
        status |-> status, assignee |-> a]]
  /\ UNCHANGED <<counter, holder, number, item, members, formerly, overtaken>>

CheckAssignee(r) ==
  /\ request[r].step = "check"
  /\ request' = [request EXCEPT ![r] =
       IF IsMember(request[r].assignee) THEN [request[r] EXCEPT !.step = "write"] ELSE Idle]
  /\ UNCHANGED <<counter, holder, number, item, members, formerly, overtaken>>

\* Mutant of Stamp: leaving a terminal status does not clear completedAt.
StampOnce(status, wasDone, stamped) == stamped \/ status = "done"

\* Whether completedAt is set after a write, by what the status was when update
\* read it.
Stamp(status, wasDone, stamped) ==
  \/ (status = "done" /\ ~wasDone)
  \/ stamped /\ (status = "keep" \/ (status = "done" /\ wasDone))

\* The updates under way for i, other than r.
OthersOn(r, i) ==
  {q \in Requests \ {r} : request[q].step \in {"check", "write"} /\ request[q].item = i}

\* The write is by id alone; an item that is gone answers 404.
Write(r) ==
  LET i == request[r].item
      status == request[r].status
      a == request[r].assignee
  IN
  /\ request[r].step = "write"
  /\ IF item[i] = NoItem
       THEN UNCHANGED <<item, overtaken>>
       ELSE /\ item' = [item EXCEPT ![i] =
                 [done |-> IF status = "keep" THEN item[i].done ELSE status = "done",
                  stamped |-> Stamp(status, request[r].wasDone, item[i].stamped),
                  assignee |-> IF a = "keep" THEN item[i].assignee ELSE a]]
            /\ overtaken' =
                 IF status # "keep" /\ OthersOn(r, i) # {} THEN overtaken \cup {i} ELSE overtaken
  /\ request' = [request EXCEPT ![r] = Idle]
  /\ UNCHANGED <<counter, holder, number, members, formerly>>

\* WorkItemsService.remove
RemoveItem(i) ==
  /\ item[i] # NoItem
  /\ item' = [item EXCEPT ![i] = NoItem]
  /\ UNCHANGED <<counter, holder, number, members, formerly, overtaken, request>>

\* InvitationsService.accept
Join(p) ==
  /\ p \notin members
  /\ members' = members \cup {p}
  /\ formerly' = formerly \cup {p}
  /\ UNCHANGED <<counter, holder, number, item, overtaken, request>>

\* MembersService.remove leaves the items assigned to p alone.
Leave(p) ==
  /\ p \in members
  /\ members' = members \ {p}
  /\ UNCHANGED <<counter, holder, number, item, formerly, overtaken, request>>

RequestStep(r) ==
  \/ \E done \in BOOLEAN, a \in Assignees : StartCreate(r, done, a)
  \/ TakeNumber(r)
  \/ \E i \in Items : Insert(r, i)
  \/ \E i \in Items, status \in Statuses, a \in Assignees \cup {"keep"} :
       StartUpdate(r, i, status, a)
  \/ CheckAssignee(r) \/ Write(r) \/ Abandon(r)

Next ==
  \/ \E r \in Requests : RequestStep(r)
  \/ \E i \in Items : RemoveItem(i)
  \/ \E p \in People : Join(p) \/ Leave(p)

Spec == Init /\ [][Next]_vars

-----------------------------------------------------------------------------

TypeOK ==
  /\ counter \in Nat
  /\ holder \in Requests \cup {"none"}
  /\ number \in [Items -> Nat]
  /\ item \in [Items -> Item \cup {NoItem}]
  /\ members \subseteq People
  /\ formerly \subseteq People
  /\ overtaken \subseteq Items
  /\ request \in [Requests -> Creating \cup Updating \cup {Idle}]

\* What the counter reads once the transaction that holds it has rolled back.
Committed == IF holder = "none" THEN counter ELSE counter - 1

\* work-items.service.ts:25: "no gaps, no duplicates".  The items there have ever
\* been are numbered 1 to the counter, each differently, whatever creates fail.
NumbersGapless ==
  /\ \A i \in Items : number[i] \in 0..Committed
  /\ \A n \in 1..Committed : \E i \in Items : number[i] = n
  /\ \A i, j \in Items : (number[i] = number[j] /\ number[i] # 0) => i = j

ItemsThere == {i \in Items : item[i] # NoItem}

\* work-items.service.ts:44: the increment and the insert are one: an item gets the
\* number after the last one given, at once or not at all, and nothing else that happens
\* gives a number, takes one back or changes one.
Atomic == INSTANCE AtomicNumbering WITH last <- Committed, there <- ItemsThere
RefinesAtomic == Atomic!Spec

\* work-items.service.ts:192, as far as it goes: an item that is not finished never
\* carries a completion date, and a finished one lacks it only if two updates of it
\* overlapped.
StampFollowsStatus ==
  \A i \in Items : item[i] # NoItem =>
    /\ item[i].stamped => item[i].done
    /\ item[i].done => item[i].stamped \/ i \in overtaken

\* work-items.service.ts:253: a user of another organization is never assigned work
\* here: every assignee is or has been a member, though the check and the write are
\* separate queries and the assignment outlives the membership.
AssigneesWereMembers ==
  \A i \in Items : item[i] # NoItem => item[i].assignee \in formerly \cup {"nobody"}
=============================================================================
