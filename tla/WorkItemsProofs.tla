---------------------------- MODULE WorkItemsProofs ----------------------------
(***************************************************************************)
(* Theorems about WorkItems for any people, any items and any number of    *)
(* concurrent requests.                                                    *)
(***************************************************************************)
EXTENDS WorkItems, TLAPS

\* A transaction past its increment is the one that holds the row.
LockHeld ==
  /\ \A r \in Requests : holder = r <=> request[r].step = "insert"
  /\ holder # "none" => counter > 0

\* An update is about an item that was numbered, and what it read of the status
\* is still true unless the item was overtaken.
ReadsHold ==
  /\ \A i \in Items : item[i] # NoItem => number[i] # 0
  /\ \A r \in Requests : request[r].step \in {"check", "write"} =>
       /\ number[request[r].item] # 0
       /\ (item[request[r].item] # NoItem /\ request[r].item \notin overtaken)
            => item[request[r].item].done = request[r].wasDone

\* Who a request past its check is about to assign.
AssigneesVouched ==
  /\ members \subseteq formerly
  /\ \A r \in Requests : request[r].step \in {"take", "insert", "write"} =>
       request[r].assignee \in formerly \cup {"nobody", "keep"}

IInv ==
  /\ TypeOK
  /\ LockHeld
  /\ ReadsHold
  /\ AssigneesVouched
  /\ NumbersGapless
  /\ StampFollowsStatus
  /\ AssigneesWereMembers

-----------------------------------------------------------------------------

\* The step of a request tells its kind.
LEMMA RequestKinds ==
  ASSUME TypeOK, NEW r \in Requests
  PROVE  /\ request[r] = Idle => request[r].step = "idle"
         /\ request[r].step \in {"take", "insert"} => request[r] \in Creating
         /\ request[r].step \in {"check", "write"} => request[r] \in Updating
         /\ request[r].step \in {"idle", "take", "insert", "check", "write"}
<1>1. request[r] \in Creating \cup Updating \cup {Idle} BY DEF TypeOK
<1> QED BY <1>1 DEF Creating, Updating, Idle

\* NoItem is no item.
LEMMA ItemKinds ==
  /\ NoItem \notin Item
  /\ NoItem.assignee = "none"
<1> QED BY DEF NoItem, Item

\* The initial state has the types.
LEMMA TypeInit == Init => TypeOK
BY NobodyIsNoPerson DEF Init, TypeOK, Idle

\* Every step keeps the types.
LEMMA TypeStep == ASSUME IInv, [Next]_vars PROVE TypeOK'
<1> USE DEF IInv
<1>1. CASE \E r \in Requests, done \in BOOLEAN, a \in Assignees : StartCreate(r, done, a)
  <2> PICK r \in Requests, done \in BOOLEAN, a \in Assignees : StartCreate(r, done, a) BY <1>1
  <2>1. [step |-> "take", done |-> done, assignee |-> a] \in Creating BY DEF Creating
  <2> QED BY <2>1 DEF StartCreate, TypeOK
<1>2. CASE \E r \in Requests : TakeNumber(r)
  <2> PICK r \in Requests : TakeNumber(r) BY <1>2
  <2>1. request[r] \in Creating BY RequestKinds DEF TakeNumber
  <2>2. [request[r] EXCEPT !.step = "insert"] \in Creating BY <2>1 DEF Creating
  <2> QED BY <2>2 DEF TakeNumber, TypeOK
<1>3. CASE \E r \in Requests, i \in Items : Insert(r, i)
  <2> PICK r \in Requests, i \in Items : Insert(r, i) BY <1>3
  <2>1. request[r] \in Creating BY RequestKinds DEF Insert
  <2>2. [done |-> request[r].done, stamped |-> request[r].done,
         assignee |-> request[r].assignee] \in Item BY <2>1 DEF Creating, Item
  <2> QED BY <2>2 DEF Insert, TypeOK
<1>4. CASE \E r \in Requests : Abandon(r)
  <2> PICK r \in Requests : Abandon(r) BY <1>4
  <2>1. LeaveCounter(r) \in Nat
    BY NoneIsNoRequest DEF LeaveCounter, LockHeld, TypeOK
  <2> QED BY <2>1 DEF Abandon, TypeOK
<1>5. CASE \E r \in Requests, i \in Items, status \in Statuses,
              a \in Assignees \cup {"keep"} : StartUpdate(r, i, status, a)
  <2> PICK r \in Requests, i \in Items, status \in Statuses,
           a \in Assignees \cup {"keep"} : StartUpdate(r, i, status, a) BY <1>5
  <2>1. item[i] \in Item BY DEF StartUpdate, TypeOK
  <2>2. [step |-> "check", item |-> i, wasDone |-> item[i].done,
         status |-> status, assignee |-> a] \in Updating BY <2>1 DEF Updating, Item
  <2> QED BY <2>2 DEF StartUpdate, TypeOK
<1>6. CASE \E r \in Requests : CheckAssignee(r)
  <2> PICK r \in Requests : CheckAssignee(r) BY <1>6
  <2>1. request[r] \in Updating BY RequestKinds DEF CheckAssignee
  <2>2. [request[r] EXCEPT !.step = "write"] \in Updating BY <2>1 DEF Updating
  <2> QED BY <2>2 DEF CheckAssignee, TypeOK
<1>7. CASE \E r \in Requests : Write(r)
  <2> PICK r \in Requests : Write(r) BY <1>7
  <2>1. request[r] \in Updating BY RequestKinds DEF Write
  <2>2. request[r].item \in Items BY <2>1 DEF Updating
  <2>3. CASE item[request[r].item] = NoItem BY <2>3 DEF Write, TypeOK
  <2>4. CASE item[request[r].item] # NoItem
    <3> DEFINE new == [done |-> IF request[r].status = "keep"
                                  THEN item[request[r].item].done
                                  ELSE request[r].status = "done",
                       stamped |-> Stamp(request[r].status, request[r].wasDone,
                                         item[request[r].item].stamped),
                       assignee |-> IF request[r].assignee = "keep"
                                      THEN item[request[r].item].assignee
                                      ELSE request[r].assignee]
    <3>1. item[request[r].item] \in Item BY <2>2, <2>4 DEF TypeOK
    <3>2. new.done \in BOOLEAN BY <3>1 DEF Item
    <3>3. new.stamped \in BOOLEAN BY Zenon DEF Stamp
    <3>4. new.assignee \in Assignees BY <2>1, <3>1 DEF Updating, Item
    <3>5. new \in Item BY <3>2, <3>3, <3>4 DEF Item
    <3>6. item' = [item EXCEPT ![request[r].item] = new] BY <2>4 DEF Write
    <3>7. item' \in [Items -> Item \cup {NoItem}]
      <4> HIDE DEF new
      <4> QED BY <2>2, <3>5, <3>6 DEF TypeOK
    <3>8. overtaken' \subseteq Items BY <2>2, <2>4 DEF Write, TypeOK
    <3> QED BY <3>7, <3>8 DEF Write, TypeOK
  <2> QED BY <2>3, <2>4
<1>8. CASE \E i \in Items : RemoveItem(i) BY <1>8 DEF RemoveItem, TypeOK
<1>9. CASE \E p \in People : Join(p) \/ Leave(p) BY <1>9 DEF Join, Leave, TypeOK
<1>10. CASE UNCHANGED vars BY <1>10 DEF vars, TypeOK
<1> QED BY <1>1, <1>2, <1>3, <1>4, <1>5, <1>6, <1>7, <1>8, <1>9, <1>10
      DEF Next, RequestStep

\* Every step keeps the lock with the transaction past its increment.
LEMMA LockStep == ASSUME IInv, [Next]_vars PROVE LockHeld'
<1> USE NoneIsNoRequest DEF IInv, LockHeld, TypeOK
<1>1. ASSUME NEW r \in Requests, RequestStep(r) PROVE LockHeld'
  <2>1. CASE \E done \in BOOLEAN, a \in Assignees : StartCreate(r, done, a)
    BY <2>1 DEF StartCreate, Idle
  <2>2. CASE TakeNumber(r)
    <3>1. request[r] \in Creating BY <2>2, RequestKinds DEF TakeNumber
    <3>2. request'[r].step = "insert" BY <2>2, <3>1 DEF TakeNumber, Creating
    <3> QED BY <2>2, <3>2 DEF TakeNumber
  <2>3. CASE \E i \in Items : Insert(r, i) BY <2>3 DEF Insert, Idle
  <2>4. CASE Abandon(r) BY <2>4 DEF Abandon, LeaveCounter, Idle
  <2>5. CASE \E i \in Items, status \in Statuses, a \in Assignees \cup {"keep"} :
               StartUpdate(r, i, status, a)
    BY <2>5 DEF StartUpdate, Idle
  <2>6. CASE CheckAssignee(r)
    <3>1. request[r] \in Updating BY <2>6, RequestKinds DEF CheckAssignee
    <3>2. request'[r].step \in {"write", "idle"}
      BY <2>6, <3>1 DEF CheckAssignee, Updating, Idle
    <3> QED BY <2>6, <3>2 DEF CheckAssignee
  <2>7. CASE Write(r) BY <2>7 DEF Write, Idle
  <2> QED BY <1>1, <2>1, <2>2, <2>3, <2>4, <2>5, <2>6, <2>7 DEF RequestStep
<1>2. CASE \E i \in Items : RemoveItem(i) BY <1>2 DEF RemoveItem
<1>3. CASE \E p \in People : Join(p) \/ Leave(p) BY <1>3 DEF Join, Leave
<1>4. CASE UNCHANGED vars BY <1>4 DEF vars
<1> QED BY <1>1, <1>2, <1>3, <1>4 DEF Next

\* Every step keeps the numbering.
LEMMA NumberStep == ASSUME IInv, [Next]_vars PROVE NumbersGapless'
<1> USE NoneIsNoRequest DEF IInv, NumbersGapless, TypeOK, Committed
<1>1. ASSUME NEW r \in Requests, RequestStep(r) PROVE NumbersGapless'
  <2>1. CASE \E done \in BOOLEAN, a \in Assignees : StartCreate(r, done, a)
    BY <2>1 DEF StartCreate
  <2>2. CASE TakeNumber(r) BY <2>2 DEF TakeNumber
  <2>3. ASSUME NEW i \in Items, Insert(r, i) PROVE NumbersGapless'
    <3>1. holder = r /\ holder' = "none" /\ counter' = counter /\ counter > 0
      BY <2>3 DEF Insert, LockHeld
    <3>2. Committed = counter - 1 /\ Committed' = counter BY <3>1
    <3>3. number' = [number EXCEPT ![i] = counter] /\ number[i] = 0
      BY <2>3 DEF Insert
    <3>4. \A j \in Items : number'[j] = IF j = i THEN counter ELSE number[j]
      BY <3>3
    <3>5. \A j \in Items : number'[j] \in 0..Committed' BY <3>1, <3>2, <3>4
    <3>6. \A n \in 1..Committed' : \E j \in Items : number'[j] = n
      <4> TAKE n \in 1..Committed'
      <4>1. CASE n = counter BY <3>4, <4>1
      <4>2. CASE n # counter
        <5>1. n \in 1..Committed BY <3>1, <3>2, <4>2
        <5>2. PICK j \in Items : number[j] = n BY <5>1
        <5>3. j # i BY <3>3, <5>1, <5>2
        <5> QED BY <3>4, <5>2, <5>3
      <4> QED BY <4>1, <4>2
    <3>7. \A j, k \in Items : (number'[j] = number'[k] /\ number'[j] # 0) => j = k
      BY <3>1, <3>2, <3>4
    <3> QED BY <3>5, <3>6, <3>7
  <2>4. CASE Abandon(r)
    <3>1. CASE holder = r
      <4>1. Committed' = Committed BY <2>4, <3>1 DEF Abandon, LeaveCounter
      <4> QED BY <2>4, <4>1 DEF Abandon
    <3>2. CASE holder # r BY <2>4, <3>2 DEF Abandon, LeaveCounter
    <3> QED BY <3>1, <3>2
  <2>5. CASE \E i \in Items, status \in Statuses, a \in Assignees \cup {"keep"} :
               StartUpdate(r, i, status, a)
    BY <2>5 DEF StartUpdate
  <2>6. CASE CheckAssignee(r) BY <2>6 DEF CheckAssignee
  <2>7. CASE Write(r) BY <2>7 DEF Write
  <2> QED BY <1>1, <2>1, <2>2, <2>3, <2>4, <2>5, <2>6, <2>7 DEF RequestStep
<1>2. CASE \E i \in Items : RemoveItem(i) BY <1>2 DEF RemoveItem
<1>3. CASE \E p \in People : Join(p) \/ Leave(p) BY <1>3 DEF Join, Leave
<1>4. CASE UNCHANGED vars BY <1>4 DEF vars
<1> QED BY <1>1, <1>2, <1>3, <1>4 DEF Next

\* Every step keeps what updates have read, or marks the item overtaken.
LEMMA ReadsStep == ASSUME IInv, [Next]_vars PROVE ReadsHold'
<1> USE DEF IInv, ReadsHold, TypeOK
<1>0. \A q \in Requests : request[q].step \in {"check", "write"} => request[q].item \in Items
  BY RequestKinds DEF Updating
<1>1. ASSUME NEW r \in Requests, RequestStep(r) PROVE ReadsHold'
  <2>1. CASE \E done \in BOOLEAN, a \in Assignees : StartCreate(r, done, a)
    BY <2>1, <1>0 DEF StartCreate
  <2>2. CASE TakeNumber(r)
    <3>1. request[r] \in Creating BY <2>2, RequestKinds DEF TakeNumber
    <3>2. request'[r].step = "insert" BY <2>2, <3>1 DEF TakeNumber, Creating
    <3> QED BY <2>2, <3>2, <1>0 DEF TakeNumber
  <2>3. ASSUME NEW i \in Items, Insert(r, i) PROVE ReadsHold'
    <3>1. counter # 0 BY <2>3, NoneIsNoRequest DEF Insert, LockHeld
    <3>2. \A j \in Items : j # i => number'[j] = number[j] /\ item'[j] = item[j]
      BY <2>3 DEF Insert
    <3>3. number[i] = 0 /\ number'[i] = counter BY <2>3 DEF Insert
    <3>4. \A q \in Requests : request'[q].step \in {"check", "write"} =>
             q # r /\ request'[q] = request[q]
      BY <2>3 DEF Insert, Idle
    <3>5. overtaken' = overtaken BY <2>3 DEF Insert
    <3> QED BY <1>0, <3>1, <3>2, <3>3, <3>4, <3>5
  <2>4. CASE Abandon(r) BY <2>4, <1>0 DEF Abandon, Idle
  <2>5. ASSUME NEW i \in Items, NEW status \in Statuses,
               NEW a \in Assignees \cup {"keep"}, StartUpdate(r, i, status, a)
        PROVE  ReadsHold'
    BY <2>5, <1>0 DEF StartUpdate
  <2>6. CASE CheckAssignee(r)
    <3>1. request[r] \in Updating BY <2>6, RequestKinds DEF CheckAssignee
    <3>2. \/ request'[r] = Idle
          \/ request'[r].item = request[r].item /\ request'[r].wasDone = request[r].wasDone
      BY <2>6, <3>1 DEF CheckAssignee, Updating
    <3> QED BY <2>6, <3>2, <1>0 DEF CheckAssignee, Idle
  <2>7. CASE Write(r)
    <3>1. request[r].item \in Items BY <2>7, <1>0 DEF Write
    <3>2. \A q \in Requests : request'[q].step \in {"check", "write"} =>
             q # r /\ request'[q] = request[q]
      BY <2>7 DEF Write, Idle
    <3>3. number' = number BY <2>7 DEF Write
    <3>4. CASE item[request[r].item] = NoItem BY <2>7, <3>2, <3>4 DEF Write
    <3>5. CASE item[request[r].item] # NoItem
      <4>1. \A i \in Items : i # request[r].item => item'[i] = item[i]
        BY <2>7, <3>5 DEF Write
      <4>2. overtaken \subseteq overtaken' BY <2>7, <3>5 DEF Write
      <4>3. CASE request[r].status = "keep"
        <5>1. item'[request[r].item].done = item[request[r].item].done
          BY <2>7, <3>1, <3>5, <4>3 DEF Write
        <5> QED BY <1>0, <3>1, <3>2, <3>3, <3>5, <4>1, <4>2, <5>1
      <4>4. CASE request[r].status # "keep"
        <5>1. ASSUME NEW q \in Requests, q # r, request[q].step \in {"check", "write"},
                     request[q].item = request[r].item
              PROVE  request[r].item \in overtaken'
          <6>1. OthersOn(r, request[r].item) # {} BY <5>1 DEF OthersOn
          <6> QED BY <2>7, <3>5, <4>4, <6>1 DEF Write
        <5> QED BY <1>0, <3>1, <3>2, <3>3, <3>5, <4>1, <4>2, <5>1
      <4> QED BY <4>3, <4>4
    <3> QED BY <3>4, <3>5
  <2> QED BY <1>1, <2>1, <2>2, <2>3, <2>4, <2>5, <2>6, <2>7 DEF RequestStep
<1>2. CASE \E i \in Items : RemoveItem(i) BY <1>0, <1>2 DEF RemoveItem
<1>3. CASE \E p \in People : Join(p) \/ Leave(p) BY <1>3 DEF Join, Leave
<1>4. CASE UNCHANGED vars BY <1>4 DEF vars
<1> QED BY <1>1, <1>2, <1>3, <1>4 DEF Next

\* Every step keeps the assignees about to be written among the members there have
\* been.
LEMMA VouchedStep == ASSUME IInv, [Next]_vars PROVE AssigneesVouched'
<1> USE DEF IInv, AssigneesVouched, TypeOK
<1>1. ASSUME NEW r \in Requests, RequestStep(r) PROVE AssigneesVouched'
  <2>1. CASE \E done \in BOOLEAN, a \in Assignees : StartCreate(r, done, a)
    BY <2>1 DEF StartCreate, IsMember
  <2>2. CASE TakeNumber(r)
    <3>1. request[r] \in Creating BY <2>2, RequestKinds DEF TakeNumber
    <3>2. request'[r].assignee = request[r].assignee BY <2>2, <3>1 DEF TakeNumber, Creating
    <3> QED BY <2>2, <3>2 DEF TakeNumber
  <2>3. CASE \E i \in Items : Insert(r, i) BY <2>3 DEF Insert, Idle
  <2>4. CASE Abandon(r) BY <2>4 DEF Abandon, Idle
  <2>5. CASE \E i \in Items, status \in Statuses, a \in Assignees \cup {"keep"} :
               StartUpdate(r, i, status, a)
    BY <2>5 DEF StartUpdate
  <2>6. CASE CheckAssignee(r)
    <3>1. request[r] \in Updating BY <2>6, RequestKinds DEF CheckAssignee
    <3>2. \/ request'[r] = Idle
          \/ IsMember(request[r].assignee) /\ request'[r].assignee = request[r].assignee
      BY <2>6, <3>1 DEF CheckAssignee, Updating
    <3> QED BY <2>6, <3>2 DEF CheckAssignee, Idle, IsMember
  <2>7. CASE Write(r) BY <2>7 DEF Write, Idle
  <2> QED BY <1>1, <2>1, <2>2, <2>3, <2>4, <2>5, <2>6, <2>7 DEF RequestStep
<1>2. CASE \E i \in Items : RemoveItem(i) BY <1>2 DEF RemoveItem
<1>3. CASE \E p \in People : Join(p) \/ Leave(p) BY <1>3 DEF Join, Leave
<1>4. CASE UNCHANGED vars BY <1>4 DEF vars
<1> QED BY <1>1, <1>2, <1>3, <1>4 DEF Next

\* Every step keeps the completion dates and the assignees right.
LEMMA ItemStep == ASSUME IInv, [Next]_vars PROVE (StampFollowsStatus /\ AssigneesWereMembers)'
<1> USE DEF IInv, StampFollowsStatus, AssigneesWereMembers, TypeOK
<1>0. NoItem \notin Item BY ItemKinds
<1>1. ASSUME NEW r \in Requests, NEW i \in Items, Insert(r, i)
      PROVE  (StampFollowsStatus /\ AssigneesWereMembers)'
  <2>1. request[r] \in Creating BY <1>1, RequestKinds DEF Insert
  <2>2. request[r].assignee \in formerly \cup {"nobody"}
    BY <1>1, <2>1, NobodyIsNoPerson DEF Insert, AssigneesVouched, Creating, Assignees
  <2>3. /\ item'[i].done = request[r].done
        /\ item'[i].stamped = request[r].done
        /\ item'[i].assignee = request[r].assignee
    BY <1>1 DEF Insert
  <2>4. \A j \in Items : j # i => item'[j] = item[j] BY <1>1 DEF Insert
  <2>5. overtaken' = overtaken /\ formerly' = formerly BY <1>1 DEF Insert
  <2>6. (StampFollowsStatus)' BY <2>1, <2>3, <2>4, <2>5 DEF Creating
  <2>7. (AssigneesWereMembers)' BY <2>2, <2>3, <2>4, <2>5
  <2> QED BY <2>6, <2>7
<1>2. ASSUME NEW r \in Requests, Write(r)
      PROVE  (StampFollowsStatus /\ AssigneesWereMembers)'
  <2>1. request[r] \in Updating BY <1>2, RequestKinds DEF Write
  <2>2. request[r].item \in Items BY <2>1 DEF Updating
  <2>3. CASE item[request[r].item] = NoItem BY <1>2, <2>3 DEF Write
  <2>4. CASE item[request[r].item] # NoItem
    <3>1. PICK i \in Items : i = request[r].item BY <2>2
    <3>2. item[i] \in Item BY <2>4, <3>1
    <3>3. /\ item'[i].done = IF request[r].status = "keep" THEN item[i].done
                                                           ELSE request[r].status = "done"
          /\ item'[i].stamped = Stamp(request[r].status, request[r].wasDone, item[i].stamped)
          /\ item'[i].assignee = IF request[r].assignee = "keep" THEN item[i].assignee
                                                                 ELSE request[r].assignee
      BY <1>2, <2>4, <3>1 DEF Write
    <3>4. \A j \in Items : j # i => item'[j] = item[j] BY <1>2, <2>4, <3>1 DEF Write
    <3>5. overtaken \subseteq overtaken' /\ formerly' = formerly BY <1>2, <2>4 DEF Write
    <3>6. request[r].status \in Statuses BY <2>1 DEF Updating
    <3>7. i \notin overtaken => item[i].done = request[r].wasDone
      BY <1>2, <2>4, <3>1 DEF ReadsHold, Write
    <3>8. item[i].stamped => item[i].done BY <2>4, <3>1
    <3>9. item[i].done => item[i].stamped \/ i \in overtaken BY <2>4, <3>1
    <3>10. item'[i].stamped => item'[i].done
      <4>1. CASE request[r].status = "keep" BY <3>3, <3>8, <4>1 DEF Stamp
      <4>2. CASE request[r].status = "done" BY <3>3, <4>2
      <4>3. CASE request[r].status = "open" BY <3>3, <4>3 DEF Stamp
      <4> QED BY <3>6, <4>1, <4>2, <4>3 DEF Statuses
    <3>11. item'[i].done => item'[i].stamped \/ i \in overtaken'
      <4>1. CASE request[r].status = "keep" BY <3>3, <3>5, <3>9, <4>1 DEF Stamp
      <4>2. CASE request[r].status = "done"
        BY <3>3, <3>5, <3>7, <3>9, <4>2, Zenon DEF Stamp
      <4>3. CASE request[r].status = "open" BY <3>3, <4>3
      <4> QED BY <3>6, <4>1, <4>2, <4>3 DEF Statuses
    <3>12. item'[i].assignee \in formerly \cup {"nobody"}
      BY <1>2, <2>4, <3>1, <3>3 DEF AssigneesVouched, Write
    <3>13. (StampFollowsStatus)' BY <3>4, <3>5, <3>10, <3>11
    <3>14. (AssigneesWereMembers)' BY <3>4, <3>5, <3>12
    <3> QED BY <3>13, <3>14
  <2> QED BY <2>3, <2>4
<1>3. ASSUME NEW i \in Items, RemoveItem(i)
      PROVE  (StampFollowsStatus /\ AssigneesWereMembers)'
  BY <1>3 DEF RemoveItem
<1>4. CASE \E p \in People : Join(p) \/ Leave(p) BY <1>4 DEF Join, Leave
<1>5. CASE UNCHANGED <<item, formerly, overtaken>> BY <1>5
<1> QED BY <1>1, <1>2, <1>3, <1>4, <1>5
      DEF Next, RequestStep, vars, StartCreate, TakeNumber, Abandon, StartUpdate, CheckAssignee

\* IInv holds in every reachable state.
LEMMA Invariance == Spec => []IInv
<1>1. Init => IInv
  BY TypeInit, NoneIsNoRequest DEF Init, IInv, LockHeld, ReadsHold, AssigneesVouched,
     NumbersGapless, Committed, StampFollowsStatus, AssigneesWereMembers, Idle
<1>2. IInv /\ [Next]_vars => IInv'
  BY TypeStep, LockStep, ReadsStep, VouchedStep, NumberStep, ItemStep DEF IInv
<1> QED BY <1>1, <1>2, PTL DEF Spec

\* The counter, the items and the requests in flight keep their types.
THEOREM TypeCorrect == Spec => []TypeOK
BY Invariance, PTL DEF IInv

\* The items there have ever been in a project are numbered without gaps or
\* duplicates, whatever creates run and fail at once.
THEOREM Numbering == Spec => []NumbersGapless
BY Invariance, PTL DEF IInv

\* An unfinished item has no completion date, and a finished one has one unless two
\* updates of it overlapped.
THEOREM Stamping == Spec => []StampFollowsStatus
BY Invariance, PTL DEF IInv

\* Work is only ever assigned to people who are or have been members.
THEOREM Assigning == Spec => []AssigneesWereMembers
BY Invariance, PTL DEF IInv

-----------------------------------------------------------------------------
(* The atomic numbering.                                                    *)

\* Each create numbers the next item.
LEMMA AtomicStep ==
  ASSUME Atomic!TypeOK, Atomic!Gapless, [Atomic!Next]_Atomic!vars
  PROVE  Atomic!TypeOK' /\ Atomic!Gapless'
<1> USE DEF Atomic!TypeOK, Atomic!Gapless
<1>1. CASE UNCHANGED Atomic!vars
  BY <1>1 DEF Atomic!vars
<1>2. ASSUME NEW i \in Items, Atomic!Create(i)
      PROVE  Atomic!TypeOK' /\ Atomic!Gapless'
  <2>1. /\ Committed' = Committed + 1
        /\ number' = [number EXCEPT ![i] = Committed + 1]
        /\ ItemsThere' = ItemsThere \cup {i}
        /\ number[i] = 0
    BY <1>2 DEF Atomic!Create
  <2>2. \A j \in Items : number'[j] = IF j = i THEN Committed + 1 ELSE number[j]
    BY <2>1
  <2>3. Atomic!TypeOK'
    BY <2>1
  <2>4. \A n \in 1..Committed' : \E j \in Items : number'[j] = n
    <3> SUFFICES ASSUME NEW n \in 1..Committed'
                 PROVE  \E j \in Items : number'[j] = n
      OBVIOUS
    <3>1. CASE n = Committed + 1
      BY <2>2, <3>1
    <3>2. CASE n # Committed + 1
      <4>1. PICK j \in Items : number[j] = n
        BY <2>1, <3>2
      <4>2. j # i
        BY <2>1, <4>1
      <4>3. QED
        BY <2>2, <4>1, <4>2
    <3>3. QED
      BY <3>1, <3>2
  <2>5. QED
    BY <2>1, <2>2, <2>3, <2>4
<1>3. ASSUME NEW i \in Items, Atomic!Remove(i)
      PROVE  Atomic!TypeOK' /\ Atomic!Gapless'
  BY <1>3 DEF Atomic!Remove
<1>4. QED
  BY <1>1, <1>2, <1>3 DEF Atomic!Next

\* One at a time, items are numbered without gaps or duplicates.
THEOREM AtomicNumbers == Atomic!Spec => []Atomic!Gapless
<1>1. Atomic!Init => Atomic!TypeOK /\ Atomic!Gapless
  BY DEF Atomic!Init, Atomic!TypeOK, Atomic!Gapless
<1>2. Atomic!TypeOK /\ Atomic!Gapless /\ [Atomic!Next]_Atomic!vars => Atomic!TypeOK' /\ Atomic!Gapless'
  BY AtomicStep
<1>3. QED
  BY <1>1, <1>2, PTL DEF Atomic!Spec

\* An insert is the atomic create and a removal the atomic removal; the increment, its
\* roll-back and every other step are not seen.
LEMMA StepRefines ==
  ASSUME IInv, [Next]_vars
  PROVE  [Atomic!Next]_Atomic!vars
<1> USE DEF Atomic!vars, IInv, TypeOK
<1>1. ASSUME UNCHANGED <<counter, holder, number, item>>
      PROVE  UNCHANGED Atomic!vars
  BY <1>1 DEF Committed, ItemsThere
<1>2. CASE UNCHANGED vars
  BY <1>1, <1>2 DEF vars
<1>3. ASSUME NEW r \in Requests, TakeNumber(r)
      PROVE  UNCHANGED Atomic!vars
  BY <1>3, NoneIsNoRequest DEF TakeNumber, Committed, ItemsThere
<1>4. ASSUME NEW r \in Requests, NEW i \in Items, Insert(r, i)
      PROVE  Atomic!Create(i)
  <2>1. holder = r /\ holder # "none" /\ holder' = "none" /\ counter' = counter
    BY <1>4, NoneIsNoRequest DEF Insert, LockHeld
  <2>2. Committed' = Committed + 1 /\ number' = [number EXCEPT ![i] = Committed + 1]
    BY <1>4, <2>1 DEF Insert, Committed
  <2>3. ItemsThere' = ItemsThere \cup {i}
    BY <1>4 DEF Insert, ItemsThere, NoItem
  <2>4. QED
    BY <1>4, <2>2, <2>3 DEF Insert, Atomic!Create
<1>5. ASSUME NEW r \in Requests, Abandon(r)
      PROVE  UNCHANGED Atomic!vars
  BY <1>5, NoneIsNoRequest DEF Abandon, LeaveCounter, Committed, ItemsThere
<1>6. ASSUME NEW r \in Requests, Write(r)
      PROVE  UNCHANGED Atomic!vars
  <2>1. \A i \in Items : item'[i] # NoItem <=> item[i] # NoItem
    BY <1>6 DEF Write, NoItem
  <2>2. QED
    BY <1>6, <2>1 DEF Write, Committed, ItemsThere
<1>7. ASSUME NEW i \in Items, RemoveItem(i)
      PROVE  Atomic!Remove(i)
  <2>1. ItemsThere' = ItemsThere \ {i} /\ i \in ItemsThere
    BY <1>7 DEF RemoveItem, ItemsThere
  <2>2. QED
    BY <1>7, <2>1 DEF RemoveItem, Atomic!Remove, Committed
<1>8. ASSUME NEW r \in Requests,
             \/ \E done \in BOOLEAN, a \in Assignees : StartCreate(r, done, a)
             \/ \E i \in Items, status \in Statuses, a \in Assignees \cup {"keep"} :
                  StartUpdate(r, i, status, a)
             \/ CheckAssignee(r)
      PROVE  UNCHANGED Atomic!vars
  BY <1>1, <1>8 DEF StartCreate, StartUpdate, CheckAssignee
<1>9. ASSUME NEW p \in People, Join(p) \/ Leave(p)
      PROVE  UNCHANGED Atomic!vars
  BY <1>1, <1>9 DEF Join, Leave
<1>10. QED
  BY <1>2, <1>3, <1>4, <1>5, <1>6, <1>7, <1>8, <1>9 DEF Next, RequestStep, Atomic!Next

\* Creates that wait for each other, fail or die implement the atomic numbering: a number
\* is given in one step, and neither given back nor changed.
THEOREM Refinement == Spec => RefinesAtomic
<1>1. Init => Atomic!Init
  BY DEF Init, Atomic!Init, Committed, ItemsThere
<1>2. IInv /\ [Next]_vars => [Atomic!Next]_Atomic!vars
  BY StepRefines
<1>3. QED
  BY <1>1, <1>2, Invariance, PTL DEF Spec, RefinesAtomic, Atomic!Spec
=============================================================================
