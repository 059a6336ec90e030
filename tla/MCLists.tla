------------------------------- MODULE MCLists -------------------------------
(* The two linked lists that are sequences to their callers, one of them per
   behaviour. *)
EXTENDS Naturals, FiniteSets, Sequences

CONSTANTS
  Items,                                             \* what the lists store
  Lists, Temp, RingNodes, Allocators, Taken, None,   \* RingList
  ListNodes                                          \* DoublyLinkedList

VARIABLES
  list,                            \* which one the behaviour is about
  cell, alive, propagates,         \* RingList
  val, prev, next, head, tail, sz  \* DoublyLinkedList

a == CHOOSE i \in Items : TRUE
b == CHOOSE i \in Items \ {a} : TRUE

ring == INSTANCE RingList
  WITH Nodes <- RingNodes, Values <- Items, Literals <- {<<>>, <<a, b>>}, Moved <- Taken, heap <- cell
doubly == INSTANCE DoublyLinkedList
  WITH Nodes <- ListNodes, Values <- Items, Null <- None

(* None is nothing that a list could hold, and no two objects have the same
   address. *)
ASSUME MCListsAssumption ==
  /\ a # b /\ {a, b} \subseteq Items
  /\ None \notin Items \union {Taken} \union Allocators \union ListNodes
  /\ None \notin Seq(Items \union {Taken})
  /\ Temp \notin Lists /\ (Lists \union {Temp}) \cap RingNodes = {}
  /\ IsFiniteSet(RingNodes) /\ IsFiniteSet(ListNodes)

ringVars == <<cell, alive, propagates>>
doublyVars == <<val, prev, next, head, tail, sz>>

ListsInit ==
  /\ list \in {"ring", "doubly"}
  /\ ring!Init /\ doubly!Init
  /\ list = "doubly" => ~ propagates

ListsNext ==
  /\ \/ list = "ring" /\ ring!Next /\ UNCHANGED doublyVars
     \/ list = "doubly" /\ doubly!Next /\ UNCHANGED ringVars
  /\ UNCHANGED list

ListsSpec == ListsInit /\ [][ListsNext]_<<list, ringVars, doublyVars>>

(* The nodes of every ds::List form one ring of its own through its sentinel,
   will be freed by the allocator they came from, and none is lost; the doubly
   linked list reads the same both ways and loses no node. *)
NodesIntact == ring!RingsIntact /\ doubly!NodesLinked

(* ds::List behaves as a set of sequences, and the doubly linked list as one. *)
ImplementsLists == ring!ImplementsSequences /\ doubly!ImplementsSequence
=============================================================================
