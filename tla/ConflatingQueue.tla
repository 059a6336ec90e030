--------------------------- MODULE ConflatingQueue ---------------------------
(***************************************************************************)
(* impl/conflating_queue.cpp: a std::list of (key, value) entries, which   *)
(* gives the order, and a hash map from a key to the list node that holds  *)
(* it, which finds an entry without a search.  A call is one action, with  *)
(* an outcome for each place where it may throw: both the list and the map *)
(* allocate a node for a new entry.                                        *)
(***************************************************************************)
EXTENDS Naturals, Sequences, SequencesExt

CONSTANTS
  Keys, Values,
  Capacity,  \* capacity_
  Nodes,     \* the addresses the list can get for a node
  NoEntry,   \* std::nullopt, the end iterator, a node that is not allocated
  BadAlloc   \* the exception, where a call returns with it

Entry == [key : Keys, value : Values]

(* The constructor refuses a capacity of 0. *)
ConflatingQueueAssumption ==
  /\ Capacity \in Nat \ {0}
  /\ NoEntry \notin Nodes \union Entry
  /\ BadAlloc \notin Entry \union {NoEntry}

VARIABLES
  queue_,    \* the nodes, the oldest first
  node,      \* what an allocated node holds
  pending_,  \* the node of each pending key
  ret        \* what the last call returned or threw

vars == <<queue_, node, pending_, ret>>

TypeOK ==
  /\ queue_ \in Seq(Nodes) /\ Len(queue_) <= Capacity
  /\ node \in [Nodes -> Entry \cup {NoEntry}]
  /\ pending_ \in [Keys -> Nodes \cup {NoEntry}]
  /\ ret \in Entry \cup {NoEntry, BadAlloc}

Init ==
  /\ queue_ = <<>>
  /\ node = [n \in Nodes |-> NoEntry]
  /\ pending_ = [k \in Keys |-> NoEntry]
  /\ ret = NoEntry

full  == Len(queue_) = Capacity
empty == queue_ = <<>>

(* Mutant: the list forgets the oldest entry, the map does not. *)
Unmap_Forgets(n) == pending_

(* erase(oldest): the key leaves the map, the node is freed. *)
Unmap(n)  == [pending_ EXCEPT ![node[n].key] = NoEntry]
Freed(n)  == [node EXCEPT ![n] = NoEntry]

(* Mutant: the updated entry goes to the back of the queue. *)
Conflate_Requeues(k, v) ==
  /\ pending_[k] # NoEntry
  /\ node' = [node EXCEPT ![pending_[k]].value = v]
  /\ queue_' = Append(Remove(queue_, pending_[k]), pending_[k])
  /\ UNCHANGED pending_ /\ ret' = NoEntry

(* The key is pending: its value is replaced where it stands. *)
Conflate(k, v) ==
  /\ pending_[k] # NoEntry
  /\ node' = [node EXCEPT ![pending_[k]].value = v]
  /\ UNCHANGED <<queue_, pending_>> /\ ret' = NoEntry

(* emplace_back: a new entry at the back of the list q, whose nodes are m. *)
EmplaceBack(q, m, n, k, v) ==
  /\ m[n] = NoEntry
  /\ queue_' = Append(q, n)
  /\ node' = [m EXCEPT ![n] = [key |-> k, value |-> v]]

(* The rest of push_overwrite, from the list q, the map p and the nodes m on.  The
   list's node is not allocated, or it is and the map's is not, which leaves the
   entry in the list, or both are. *)
Emplace(q, p, m, k, v) ==
  \/ /\ queue_' = q /\ node' = m
     /\ pending_' = p /\ ret' = BadAlloc
  \/ \E n \in Nodes :
       /\ EmplaceBack(q, m, n, k, v)
       /\ \/ pending_' = p /\ ret' = BadAlloc
          \/ pending_' = [p EXCEPT ![k] = n] /\ ret' = NoEntry

(* The key is not in the map: a full queue drops its oldest entry first. *)
Insert(k, v) ==
  /\ pending_[k] = NoEntry
  /\ IF full
       THEN Emplace(Tail(queue_), Unmap(Head(queue_)), Freed(Head(queue_)), k, v)
       ELSE Emplace(queue_, pending_, node, k, v)

PushOverwrite(k, v) == Conflate(k, v) \/ Insert(k, v)

Pop ==
  IF empty
    THEN ret' = NoEntry /\ UNCHANGED <<queue_, node, pending_>>
    ELSE /\ ret' = node[Head(queue_)]
         /\ pending_' = Unmap(Head(queue_))
         /\ node' = Freed(Head(queue_))
         /\ queue_' = Tail(queue_)

Next == Pop \/ \E k \in Keys, v \in Values : PushOverwrite(k, v)

Spec == Init /\ [][Next]_vars

-----------------------------------------------------------------------------
(* Properties. *)

(* Whatever was evicted and whichever allocation threw before, no iterator in the
   map outlives its node: it points to an entry of its key, and to the newest one
   where a key is in the list more than once. *)
IteratorsValid ==
  /\ IsInjective(queue_)
  /\ ToSet(queue_) = {n \in Nodes : node[n] # NoEntry}
  /\ \A k \in Keys, n \in Nodes : pending_[k] = n => node[n] # NoEntry /\ node[n].key = k
  /\ \A i, j \in DOMAIN queue_ : i < j => pending_[node[queue_[j]].key] # queue_[i]

(* "Every key appears at most once in the list", has "exactly one
   corresponding entry in the map", and "every iterator stored in the map
   points to the list entry with the same key" (L84-86): not so once the map could
   not allocate the node for an entry that was in the list by then (L231-233). *)
MapMatchesList ==
  \A k \in Keys, n \in Nodes : pending_[k] = n <=> node[n] # NoEntry /\ node[n].key = k

(* The keys with an entry in the list that the map does not lead to. *)
Unmapped == {k \in Keys : \E n \in Nodes : node[n] # NoEntry /\ node[n].key = k /\ pending_[k] # n}

(* The list and the map together are a conflating queue, in which "only the
   most recent pending value for each key matters": an update keeps the place
   of its key, a new key goes to the back, a full queue drops its oldest
   entry and a pop takes the oldest (L91-103, L133).  A push that throws may have
   dropped an entry and may leave its own behind; that key, and no other, can then
   be pending twice, until all its entries have left. *)
Conflated == INSTANCE ConflatedFifo
  WITH entries <- [i \in 1..Len(queue_) |-> node[queue_[i]]], unmapped <- Unmapped

ImplementsConflation == Conflated!Spec
=============================================================================
