-------------------------- MODULE DoublyLinkedList --------------------------
(***************************************************************************)
(* The list of algorithms/linked_list/doubly.cpp: nodes between a head and *)
(* a tail, handed out to the caller, who inserts next to them and erases   *)
(* them.  A caller only uses nodes that are in the list.                   *)
(***************************************************************************)
EXTENDS Naturals, Sequences, FiniteSets, SequencesExt

CONSTANTS
  Values,  \* what is stored
  Nodes,   \* addresses, enough for every list of the model
  Null     \* nullptr

VARIABLES val, prev, next, head, tail, sz

vars == <<val, prev, next, head, tail, sz>>

Init ==
  /\ val = [n \in Nodes |-> Null]
  /\ prev = val /\ next = val
  /\ head = Null /\ tail = Null /\ sz = 0

Allocated == {n \in Nodes : val[n] # Null}

empty == sz = 0

(* new Node(v) and delete, the latter for the whole node. *)
New(v) == CHOOSE n \in Nodes \ Allocated : TRUE

CanGrow == Allocated # Nodes

push_front(v) ==
  LET node == New(v)
  IN  /\ val' = [val EXCEPT ![node] = v]
      /\ head' = node /\ sz' = sz + 1
      /\ IF empty
           THEN tail' = node /\ UNCHANGED <<prev, next>>
           ELSE /\ next' = [next EXCEPT ![node] = head]
                /\ prev' = [prev EXCEPT ![head] = node]
                /\ UNCHANGED tail

push_back(v) ==
  LET node == New(v)
  IN  /\ val' = [val EXCEPT ![node] = v]
      /\ tail' = node /\ sz' = sz + 1
      /\ IF empty
           THEN head' = node /\ UNCHANGED <<prev, next>>
           ELSE /\ next' = [next EXCEPT ![tail] = node]
                /\ prev' = [prev EXCEPT ![node] = tail]
                /\ UNCHANGED head

Deleted(n) == val' = [val EXCEPT ![n] = Null] /\ sz' = sz - 1

pop_front ==
  /\ ~ empty
  /\ Deleted(head)
  /\ next' = [next EXCEPT ![head] = Null]
  /\ IF head = tail
       THEN head' = Null /\ tail' = Null /\ UNCHANGED prev
       ELSE head' = next[head] /\ prev' = [prev EXCEPT ![next[head]] = Null] /\ UNCHANGED tail

pop_back ==
  /\ ~ empty
  /\ Deleted(tail)
  /\ prev' = [prev EXCEPT ![tail] = Null]
  /\ IF head = tail
       THEN head' = Null /\ tail' = Null /\ UNCHANGED next
       ELSE tail' = prev[tail] /\ next' = [next EXCEPT ![prev[tail]] = Null] /\ UNCHANGED head

(* Mutant: the new node does not point at the one after it. *)
Between_Cuts(before, after, v) ==
  LET node == New(v)
  IN  /\ val' = [val EXCEPT ![node] = v]
      /\ prev' = [prev EXCEPT ![node] = before, ![after] = node]
      /\ next' = [next EXCEPT ![before] = node]
      /\ sz' = sz + 1
      /\ UNCHANGED <<head, tail>>

(* A node between two that are neighbours. *)
Between(before, after, v) ==
  LET node == New(v)
  IN  /\ val' = [val EXCEPT ![node] = v]
      /\ prev' = [prev EXCEPT ![node] = before, ![after] = node]
      /\ next' = [next EXCEPT ![node] = after, ![before] = node]
      /\ sz' = sz + 1
      /\ UNCHANGED <<head, tail>>

insert_after(pos, v) ==
  \/ pos = Null /\ push_front(v)
  \/ pos # Null /\ pos = tail /\ push_back(v)
  \/ pos # Null /\ pos # tail /\ Between(pos, next[pos], v)

insert_before(pos, v) ==
  \/ pos = Null /\ push_back(v)
  \/ pos # Null /\ pos = head /\ push_front(v)
  \/ pos # Null /\ pos # head /\ Between(prev[pos], pos, v)

erase(node) ==
  \/ node = head /\ pop_front
  \/ node # head /\ node = tail /\ pop_back
  \/ /\ node \notin {head, tail}
     /\ Deleted(node)
     /\ next' = [next EXCEPT ![prev[node]] = next[node], ![node] = Null]
     /\ prev' = [prev EXCEPT ![next[node]] = prev[node], ![node] = Null]
     /\ UNCHANGED <<head, tail>>

(* The nodes from n on, along one of the links. *)
Along(link, n) ==
  LET at[i \in 1..Cardinality(Nodes)] ==
        IF i = 1 THEN n ELSE IF at[i - 1] = Null THEN Null ELSE link[at[i - 1]]
  IN  [i \in {j \in 1..Cardinality(Nodes) : at[j] # Null} |-> at[i]]

Forward == Along(next, head)

Backward == Along(prev, tail)

(* Every node from the head on is deleted. *)
clear ==
  LET gone(f) == [n \in Nodes |-> IF n \in ToSet(Forward) THEN Null ELSE f[n]]
  IN  /\ val' = gone(val) /\ prev' = gone(prev) /\ next' = gone(next)
      /\ head' = Null /\ tail' = Null /\ sz' = 0

Next ==
  \/ CanGrow /\ \E v \in Values : push_front(v) \/ push_back(v)
  \/ CanGrow /\ \E v \in Values, pos \in Allocated \union {Null} : insert_after(pos, v) \/ insert_before(pos, v)
  \/ pop_front \/ pop_back \/ clear
  \/ \E node \in Allocated : erase(node)

Spec == Init /\ [][Next]_vars

-----------------------------------------------------------------------------
(* The list reads the same both ways and holds every node that is allocated. *)
NodesLinked ==
  /\ Backward = Reverse(Forward)
  /\ Len(Forward) = sz /\ ToSet(Forward) = Allocated

Objects == INSTANCE SequenceObjects
  WITH Objects <- {"list"}, Items <- Values, Literals <- {}, Moved <- Null, Gone <- Null,
       content <- [o \in {"list"} |-> [i \in DOMAIN Forward |-> val[Forward[i]]]]

(* Insertions and removals anywhere are those of a sequence. *)
ImplementsSequence == Objects!Spec
=============================================================================
