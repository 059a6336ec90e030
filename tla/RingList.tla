------------------------------ MODULE RingList ------------------------------
(***************************************************************************)
(* ds::List of algorithms/linked_list/link.hpp: a ring of nodes that       *)
(* begins and ends at a sentinel inside the list object.  The heap is one  *)
(* record of fields, and an operation of the class is one action.          *)
(***************************************************************************)
EXTENDS Naturals, Sequences, FiniteSets, Functions

CONSTANTS
  Lists,       \* the list objects; a list's name is its sentinel's address
  Temp,        \* the temporary of the copy assignment
  Nodes,       \* the addresses of nodes; allocation throws when none is left
  Values,      \* what is stored
  Literals,    \* the sequences a list is constructed with
  Moved,       \* a value that was moved from
  Allocators,  \* allocators that are not equal to each other
  None         \* no value, no allocator, no list

VARIABLES
  heap,       \* next, prev, value and owner of nodes, size_ and alloc_ of lists
  alive,      \* the lists that exist
  propagates  \* NodeTraits::propagate_on_container_*

vars == <<heap, alive, propagates>>

Sentinels == Lists \union {Temp}

(* From begin() to end(): the nodes after the sentinel of l until it is back. *)
Ring(h, l) ==
  LET at[i \in 0..Cardinality(Nodes)] == IF i = 0 THEN l ELSE h.next[at[i - 1]]
  IN  [i \in {j \in 1..Cardinality(Nodes) : l \notin {at[m] : m \in 1..j}} |-> at[i]]

Contents(h, l) == LET ring == Ring(h, l) IN [i \in DOMAIN ring |-> h.value[ring[i]]]

Init ==
  /\ propagates \in BOOLEAN
  /\ alive = {}
  /\ heap = [next   |-> [x \in Sentinels \union Nodes |-> x],
              prev   |-> [x \in Sentinels \union Nodes |-> x],
              value  |-> [n \in Nodes |-> None],
              owner  |-> [n \in Nodes |-> None],
              size_  |-> [l \in Sentinels |-> 0],
              alloc_ |-> [l \in Sentinels |-> None]]

Free(h) == {n \in Nodes : h.owner[n] = None}

reset_empty(h, l) == [h EXCEPT !.next[l] = l, !.prev[l] = l]

repair_sentinel_links(h, l) ==
  IF h.size_[l] = 0 THEN reset_empty(h, l)
  ELSE [h EXCEPT !.prev[h.next[l]] = l, !.next[h.prev[l]] = l]

create_node(h, l, n, v) == [h EXCEPT !.value[n] = v, !.owner[n] = h.alloc_[l]]

destroy_node(h, n) == [h EXCEPT !.value[n] = None, !.owner[n] = None, !.next[n] = n, !.prev[n] = n]

link_before(h, l, pos, n) ==
  LET before == h.prev[pos]
  IN  [h EXCEPT !.next[n] = pos, !.prev[n] = before, !.next[before] = n, !.prev[pos] = n, !.size_[l] = @ + 1]

unlink(h, n) == [h EXCEPT !.next[h.prev[n]] = h.next[n], !.prev[h.next[n]] = h.prev[n]]

(* emplace takes the least free address. *)
emplace(h, l, pos, v) ==
  LET n == CHOOSE f \in Free(h) : TRUE
  IN  link_before(create_node(h, l, n, v), l, pos, n)

erase(h, l, n) == [destroy_node(unlink(h, n), n) EXCEPT !.size_[l] = @ - 1]

(* The nodes s, one after the other. *)
EraseAll(h, l, s) ==
  LET after[i \in 0..Len(s)] == IF i = 0 THEN h ELSE erase(after[i - 1], l, s[i])
  IN  after[Len(s)]

clear(h, l) ==
  LET ring == Ring(h, l)
      after[i \in 0..Len(ring)] == IF i = 0 THEN h ELSE destroy_node(after[i - 1], ring[i])
  IN  [reset_empty(after[Len(ring)], l) EXCEPT !.size_[l] = 0]

(* push_back in a loop; a list that cannot get a node keeps what it has. *)
PushOne(h, l, v) == IF Free(h) = {} THEN h ELSE emplace(h, l, l, v)

PushAll(h, l, s) ==
  LET after[i \in 0..Len(s)] == IF i = 0 THEN h ELSE PushOne(after[i - 1], l, s[i])
  IN  after[Len(s)]

Fits(h, s) == Len(s) <= Cardinality(Free(h))

(* Mutant: the stolen ends still point at the other sentinel. *)
steal_nodes_from_Unrepaired(h, l, o) ==
  IF h.size_[o] = 0 THEN [reset_empty(h, l) EXCEPT !.size_[l] = 0]
  ELSE LET g == [h EXCEPT !.next[l] = h.next[o], !.prev[l] = h.prev[o], !.size_[l] = h.size_[o]]
       IN  [reset_empty(g, o) EXCEPT !.size_[o] = 0]

steal_nodes_from(h, l, o) ==
  IF h.size_[o] = 0 THEN [reset_empty(h, l) EXCEPT !.size_[l] = 0]
  ELSE LET g == [h EXCEPT !.next[l] = h.next[o], !.prev[l] = h.prev[o], !.size_[l] = h.size_[o]]
       IN  [reset_empty(repair_sentinel_links(g, l), o) EXCEPT !.size_[o] = 0]

swapped(h, l, o) ==
  LET g == [h EXCEPT !.next[l] = h.next[o], !.next[o] = h.next[l],
                     !.prev[l] = h.prev[o], !.prev[o] = h.prev[l],
                     !.size_[l] = h.size_[o], !.size_[o] = h.size_[l],
                     !.alloc_[l] = IF propagates THEN h.alloc_[o] ELSE @,
                     !.alloc_[o] = IF propagates THEN h.alloc_[l] ELSE @]
  IN  repair_sentinel_links(repair_sentinel_links(g, l), o)

-----------------------------------------------------------------------------
(* An object at l with a new sentinel and allocator a. *)
Fresh(h, l, a) == [reset_empty(h, l) EXCEPT !.size_[l] = 0, !.alloc_[l] = a]

(* The destructor of the list or the temporary. *)
Destroyed(h, l) == [clear(h, l) EXCEPT !.alloc_[l] = None]

(* A constructor that pushes s: what was pushed is cleared when one throws. *)
Construct(l, a, s) ==
  /\ l \notin alive
  /\ IF Fits(heap, s)
       THEN heap' = PushAll(Fresh(heap, l, a), l, s) /\ alive' = alive \union {l}
       ELSE heap' = Destroyed(PushAll(Fresh(heap, l, a), l, s), l) /\ UNCHANGED alive
  /\ UNCHANGED propagates

List(l) == \E a \in Allocators, s \in Literals : Construct(l, a, s)

CopyConstruct(l, o) == o \in alive /\ Construct(l, heap.alloc_[o], Contents(heap, o))

MoveConstruct(l, o) ==
  /\ l \notin alive /\ o \in alive
  /\ heap' = steal_nodes_from(Fresh(heap, l, heap.alloc_[o]), l, o)
  /\ alive' = alive \union {l}
  /\ UNCHANGED propagates

Destroy(l) ==
  /\ l \in alive
  /\ heap' = Destroyed(heap, l)
  /\ alive' = alive \ {l}
  /\ UNCHANGED propagates

(* insert, push_front and push_back; without a node the list is unchanged. *)
Emplace(l) ==
  /\ l \in alive /\ Free(heap) # {}
  /\ \E pos \in Range(Ring(heap, l)) \union {l}, v \in Values : heap' = emplace(heap, l, pos, v)
  /\ UNCHANGED <<alive, propagates>>

(* The nodes first to last - 1 are erased, one by one; a single one, and the
   ends by pop_front and pop_back, are such a range. end() is refused. *)
Erase(l) ==
  /\ l \in alive
  /\ \E i, j \in DOMAIN Ring(heap, l) :
       i <= j /\ heap' = EraseAll(heap, l, SubSeq(Ring(heap, l), i, j))
  /\ UNCHANGED <<alive, propagates>>

Clear(l) ==
  /\ l \in alive
  /\ heap' = clear(heap, l)
  /\ UNCHANGED <<alive, propagates>>

(* swap asserts that the allocators are equal unless they are swapped too. *)
Swap(l, o) ==
  /\ {l, o} \subseteq alive /\ l # o
  /\ propagates \/ heap.alloc_[l] = heap.alloc_[o]
  /\ heap' = swapped(heap, l, o)
  /\ UNCHANGED <<alive, propagates>>

(* The copy is made in a temporary and stolen, so a throw changes nothing. *)
CopyAssign(l, o) ==
  LET target == IF propagates THEN heap.alloc_[o] ELSE heap.alloc_[l]
      copied == PushAll(Fresh(heap, Temp, target), Temp, Contents(heap, o))
      cleared == [clear(copied, l) EXCEPT !.alloc_[l] = target]
  IN  /\ {l, o} \subseteq alive /\ l # o
      /\ heap' = Destroyed(IF Fits(heap, Contents(heap, o)) THEN steal_nodes_from(cleared, l, Temp)
                                                           ELSE copied, Temp)
      /\ UNCHANGED <<alive, propagates>>

(* Nodes are stolen when l may free them, and their values moved otherwise. *)
MoveAssign(l, o) ==
  LET cleared == clear(heap, l)
      s == Contents(heap, o)
      pushed == PushAll(cleared, l, s)
      left == [pushed EXCEPT !.value = [n \in Nodes |->
                 IF \E i \in 1..Cardinality(Free(cleared)) : i <= Len(s) /\ n = Ring(heap, o)[i]
                   THEN Moved ELSE @[n]]]
  IN  /\ {l, o} \subseteq alive /\ l # o
      /\ heap' = CASE propagates -> steal_nodes_from([cleared EXCEPT !.alloc_[l] = heap.alloc_[o]], l, o)
                   [] ~ propagates /\ heap.alloc_[l] = heap.alloc_[o] -> steal_nodes_from(cleared, l, o)
                   [] ~ propagates /\ heap.alloc_[l] # heap.alloc_[o] /\ Fits(cleared, s) -> clear(pushed, o)
                   [] OTHER -> left
      /\ UNCHANGED <<alive, propagates>>

Next ==
  \E l \in Lists :
    \/ List(l) \/ Destroy(l) \/ Emplace(l) \/ Erase(l) \/ Clear(l)
    \/ \E o \in Lists : CopyConstruct(l, o) \/ MoveConstruct(l, o) \/ CopyAssign(l, o) \/ MoveAssign(l, o) \/ Swap(l, o)

Spec == Init /\ [][Next]_vars

-----------------------------------------------------------------------------
(* Every list's nodes form a ring through its sentinel in both directions, no
   node is in two of them, each will be freed by the allocator it came from,
   and every allocated node is in one of them. *)
RingsIntact ==
  LET ring(l) == Ring(heap, l)
      nodes(l) == Range(ring(l))
  IN  /\ \A l \in alive :
           LET s == <<l>> \o ring(l) \o <<l>>
           IN  /\ nodes(l) \subseteq Nodes /\ IsInjective(ring(l)) /\ Len(ring(l)) = heap.size_[l]
               /\ \A i \in 1..(Len(s) - 1) : heap.next[s[i]] = s[i + 1] /\ heap.prev[s[i + 1]] = s[i]
               /\ \A n \in nodes(l) : heap.owner[n] = heap.alloc_[l]
      /\ \A l, o \in alive : l # o => nodes(l) \cap nodes(o) = {}
      /\ Nodes \ Free(heap) = UNION {nodes(l) : l \in alive}

Objects == INSTANCE SequenceObjects
  WITH Objects <- Lists, Items <- Values, Gone <- None,
       content <- [l \in Lists |-> IF l \in alive THEN Contents(heap, l) ELSE None]

(* The lists behave as sequences: every operation takes effect as a whole, and
   one that throws leaves the sequences alone, except for the move assignment
   between unequal allocators. *)
ImplementsSequences == Objects!Spec
=============================================================================
