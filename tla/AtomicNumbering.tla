--------------------------- MODULE AtomicNumbering ---------------------------
(***************************************************************************)
(* What the numbering of one project's work items promises: a create is    *)
(* one indivisible step that gives its item the number after the last one, *)
(* and what has a number keeps it, whether the item is still there or not. *)
(* Nothing here mentions requests, the counter's lock or rollbacks; the    *)
(* module WorkItems shows that its transactions implement it.              *)
(***************************************************************************)
EXTENDS Naturals

CONSTANT Items

VARIABLES
  last,     \* the number given last, or 0
  number,   \* number[i]: the number of item i, 0 if it never had one
  there     \* the items that have not been removed

vars == <<last, number, there>>

Init ==
  /\ last = 0
  /\ number = [i \in Items |-> 0]
  /\ there = {}

Create(i) ==
  /\ number[i] = 0
  /\ last' = last + 1
  /\ number' = [number EXCEPT ![i] = last + 1]
  /\ there' = there \cup {i}

Remove(i) ==
  /\ i \in there
  /\ there' = there \ {i}
  /\ UNCHANGED <<last, number>>

Next == \E i \in Items : Create(i) \/ Remove(i)

Spec == Init /\ [][Next]_vars

-----------------------------------------------------------------------------

TypeOK ==
  /\ last \in Nat
  /\ number \in [Items -> Nat]
  /\ there \subseteq Items

\* The numbers given are 1 to last, each to one item, and an item there has one.
Gapless ==
  /\ \A i \in Items : number[i] \in 0..last
  /\ \A n \in 1..last : \E i \in Items : number[i] = n
  /\ \A i, j \in Items : (number[i] = number[j] /\ number[i] # 0) => i = j
  /\ \A i \in there : number[i] # 0
=============================================================================
