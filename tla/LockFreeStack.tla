---------------------------- MODULE LockFreeStack ----------------------------
(***************************************************************************)
(* The lock-free stack of concurrency/lock_free_stack.cpp.  Its nodes are  *)
(* reclaimed by split reference counts: the pointer that links a node      *)
(* carries an external count of the references handed out, the node an     *)
(* internal count of the references given back.                            *)
(*                                                                         *)
(* One action is one access to shared memory.  The memory is sequentially  *)
(* consistent here; the orders the atomics ask for are not modelled.       *)
(* Freed nodes may be allocated again, so a stale pointer can meet its     *)
(* address in a new life.                                                  *)
(***************************************************************************)
EXTENDS Integers, Sequences, FiniteSets

CONSTANTS
  Threads,
  Nodes,      \* the addresses the allocator hands out
  NULL,       \* the null pointer, and an emptied data member
  Empty,      \* what pop returns when it found no node
  Nothing,    \* the result of a thread that has not returned yet
  MaxPushes,  \* bound: how many values are pushed
  MaxCount    \* bound: the external count at which reserving stops

ASSUME LockFreeStackAssumption ==
  /\ IsFiniteSet(Threads) /\ IsFiniteSet(Nodes)
  /\ NULL \notin Nodes
  /\ MaxPushes \in Nat /\ MaxCount \in Nat
  /\ Empty \notin 1..MaxPushes /\ Nothing \notin 1..MaxPushes

VARIABLES
  head,    \* head_, a counted_node_ptr
  node,    \* per address, the members of the node
  live,    \* the addresses of the nodes that are allocated
  pushed,  \* how many values were pushed; the n-th value pushed is n
  pc,      \* per thread, the access it makes next
  mine,    \* per thread, new_head.ptr in emplace and ptr in pop
  old,     \* per thread, old_head
  nxt,     \* per thread, the ptr->next it read for the exchange
  result   \* per thread, what its pop returns

vars == <<head, node, live, pushed, pc, mine, old, nxt, result>>

Values   == 1..MaxPushes
Pointers == Nodes \cup {NULL}
Counted  == [count : Int, ptr : Pointers]
Node     == [data : Values \cup {NULL}, internal : Int, next : Counted]

Null == [count |-> 0, ptr |-> NULL]

TypeOK ==
  /\ head \in Counted
  /\ node \in [Nodes -> Node]
  /\ live \in SUBSET Nodes
  /\ pushed \in 0..MaxPushes
  /\ pc \in [Threads -> {"idle", "link", "reserve", "next", "unlink",
                          "take", "settle", "release"}]
  /\ mine \in [Threads -> Pointers]
  /\ old \in [Threads -> Counted]
  /\ nxt \in [Threads -> Counted]
  /\ result \in [Threads -> Values \cup {Empty, Nothing}]

Init ==
  /\ head = Null
  /\ node = [n \in Nodes |-> [data |-> NULL, internal |-> 0, next |-> Null]]
  /\ live = {}
  /\ pushed = 0
  /\ pc = [t \in Threads |-> "idle"]
  /\ mine = [t \in Threads |-> NULL]
  /\ old = [t \in Threads |-> Null]
  /\ nxt = [t \in Threads |-> Null]
  /\ result = [t \in Threads |-> Nothing]

Goto(t, l) == pc' = [pc EXCEPT ![t] = l]

-----------------------------------------------------------------------------
(* emplace: make a node nobody else can see, with the head it read as next. *)
New(t, n) ==
  /\ pc[t] = "idle" /\ result[t] = Nothing
  /\ n \notin live /\ pushed < MaxPushes
  /\ live' = live \cup {n}
  /\ pushed' = pushed + 1
  /\ node' = [node EXCEPT ![n] = [data |-> pushed + 1, internal |-> 0, next |-> head]]
  /\ mine' = [mine EXCEPT ![t] = n]
  /\ Goto(t, "link")
  /\ UNCHANGED <<head, old, nxt, result>>

(* Mutant: a store for the exchange. *)
Link_Stores(t) ==
  /\ pc[t] = "link"
  /\ head' = [count |-> 1, ptr |-> mine[t]]
  /\ mine' = [mine EXCEPT ![t] = NULL]
  /\ Goto(t, "idle")
  /\ UNCHANGED <<node, live, pushed, old, nxt, result>>

(* emplace: the exchange publishes the node, or fails, maybe spuriously, and
   renews its next. *)
Link(t) ==
  /\ pc[t] = "link"
  /\ \/ /\ head = node[mine[t]].next
        /\ head' = [count |-> 1, ptr |-> mine[t]]
        /\ mine' = [mine EXCEPT ![t] = NULL]
        /\ Goto(t, "idle")
        /\ UNCHANGED node
     \/ /\ node' = [node EXCEPT ![mine[t]].next = head]
        /\ UNCHANGED <<head, mine, pc>>
  /\ UNCHANGED <<live, pushed, old, nxt, result>>

-----------------------------------------------------------------------------
(* pop has seen the head h, by its load or by an exchange that failed: an empty
   stack is reported, any other node must be reserved first. *)
Saw(t, h) ==
  /\ old' = [old EXCEPT ![t] = h]
  /\ IF h.ptr = NULL
       THEN Goto(t, "idle") /\ result' = [result EXCEPT ![t] = Empty]
       ELSE Goto(t, "reserve") /\ UNCHANGED result

Load(t) ==
  /\ pc[t] = "idle" /\ result[t] = Nothing
  /\ Saw(t, head)
  /\ UNCHANGED <<head, node, live, pushed, mine, nxt>>

(* The bound on the external count: beyond it a thread reserves only a node
   that no other thread refers to, so that somebody can always go on. *)
MayReserve(t) ==
  head.count < MaxCount \/ \A u \in Threads \ {t} : mine[u] # head.ptr

(* increase_head_count. *)
Reserve(t) ==
  /\ pc[t] = "reserve"
  /\ IF head = old[t]
       THEN /\ MayReserve(t)
            /\ head' = [head EXCEPT !.count = @ + 1]
            /\ old' = [old EXCEPT ![t] = head']
            /\ mine' = [mine EXCEPT ![t] = head.ptr]
            /\ Goto(t, "next")
            /\ UNCHANGED result
       ELSE Saw(t, head) /\ UNCHANGED <<head, mine>>
  /\ UNCHANGED <<node, live, pushed, nxt>>

(* Evaluate ptr->next, the new value of the exchange. *)
ReadNext(t) ==
  /\ pc[t] = "next"
  /\ nxt' = [nxt EXCEPT ![t] = node[mine[t]].next]
  /\ Goto(t, "unlink")
  /\ UNCHANGED <<head, node, live, pushed, mine, old, result>>

(* The exchange unlinks the node, or fails and updates old_head. *)
Unlink(t) ==
  /\ pc[t] = "unlink"
  /\ IF head = old[t]
       THEN head' = nxt[t] /\ Goto(t, "take") /\ UNCHANGED old
       ELSE old' = [old EXCEPT ![t] = head] /\ Goto(t, "release") /\ UNCHANGED head
  /\ nxt' = [nxt EXCEPT ![t] = Null]
  /\ UNCHANGED <<node, live, pushed, mine, result>>

(* result.swap(ptr->data). *)
Take(t) ==
  /\ pc[t] = "take"
  /\ result' = [result EXCEPT ![t] = node[mine[t]].data]
  /\ node' = [node EXCEPT ![mine[t]].data = NULL]
  /\ Goto(t, "settle")
  /\ UNCHANGED <<head, live, pushed, mine, old, nxt>>

(* Mutants: delete without counting; forget the reference of this pop. *)
Settle_Deletes(t) ==
  /\ pc[t] = "settle"
  /\ live' = live \ {mine[t]}
  /\ mine' = [mine EXCEPT ![t] = NULL]
  /\ old' = [old EXCEPT ![t] = Null]
  /\ Goto(t, "idle")
  /\ UNCHANGED <<head, node, pushed, nxt, result>>

Settle_OffByOne(t) ==
  LET n == mine[t]
      increase == old[t].count - 1
  IN /\ pc[t] = "settle"
     /\ node' = [node EXCEPT ![n].internal = @ + increase]
     /\ live' = IF node[n].internal = -increase THEN live \ {n} ELSE live
     /\ mine' = [mine EXCEPT ![t] = NULL]
     /\ old' = [old EXCEPT ![t] = Null]
     /\ Goto(t, "idle")
     /\ UNCHANGED <<head, pushed, nxt, result>>

(* Transfer the external count: whoever brings the internal count to zero
   deletes the node. *)
Settle(t) ==
  LET n == mine[t]
      increase == old[t].count - 2
  IN /\ pc[t] = "settle"
     /\ node' = [node EXCEPT ![n].internal = @ + increase]
     /\ live' = IF node[n].internal = -increase THEN live \ {n} ELSE live
     /\ mine' = [mine EXCEPT ![t] = NULL]
     /\ old' = [old EXCEPT ![t] = Null]
     /\ Goto(t, "idle")
     /\ UNCHANGED <<head, pushed, nxt, result>>

(* Mutant: retry without giving the reference back. *)
Release_Forgets(t) ==
  /\ pc[t] = "release"
  /\ mine' = [mine EXCEPT ![t] = NULL]
  /\ Saw(t, old[t])
  /\ UNCHANGED <<head, node, live, pushed, nxt>>

(* The exchange failed: give the reference back, and try again with the head
   the failed exchange has read. *)
Release(t) ==
  LET n == mine[t]
  IN /\ pc[t] = "release"
     /\ node' = [node EXCEPT ![n].internal = @ - 1]
     /\ live' = IF node[n].internal = 1 THEN live \ {n} ELSE live
     /\ mine' = [mine EXCEPT ![t] = NULL]
     /\ Saw(t, old[t])
     /\ UNCHANGED <<head, pushed, nxt>>

(* The caller has the result and may call again. *)
Return(t) ==
  /\ pc[t] = "idle" /\ result[t] # Nothing
  /\ result' = [result EXCEPT ![t] = Nothing]
  /\ old' = [old EXCEPT ![t] = Null]
  /\ UNCHANGED <<head, node, live, pushed, pc, mine, nxt>>

Next ==
  \E t \in Threads :
    \/ \E n \in Nodes : New(t, n)
    \/ Link(t) \/ Load(t) \/ Reserve(t) \/ ReadNext(t) \/ Unlink(t)
    \/ Take(t) \/ Settle(t) \/ Release(t) \/ Return(t)

Spec == Init /\ [][Next]_vars

-----------------------------------------------------------------------------
(* Properties. *)

(* The stack is the list of nodes from head_ to NULL: a path is the sequence of
   their addresses, and head_ or the next of the node before points to each. *)
PointerTo(a, i) == IF i = 1 THEN head ELSE node[a[i - 1]].next

IsPath(a) ==
  /\ \A i, j \in DOMAIN a : a[i] = a[j] => i = j
  /\ \A i \in DOMAIN a : PointerTo(a, i).ptr = a[i]
  /\ PointerTo(a, Len(a) + 1).ptr = NULL

Paths == UNION {[1..k -> Nodes] : k \in 0..Cardinality(Nodes)}

Path == CHOOSE a \in Paths : IsPath(a)

InStack(n) == \E i \in DOMAIN Path : Path[i] = n

(* The threads that hold a counted reference to n. *)
Holders(n) ==
  {t \in Threads : mine[t] = n /\ pc[t] \in {"next", "unlink", "take", "settle", "release"}}

(* A node a thread points to while it may still read or write it has not been
   freed: the split count never reaches zero too early, even when the address
   is allocated again.  (pop L134-195.) *)
NoUseAfterFree == \A t \in Threads : mine[t] # NULL => mine[t] \in live

(* The references to a node are what the external count says has been handed
   out, less what the internal count says was given back.  (increase_head_count
   L51-60, pop L156-195.) *)
ReferencesCounted ==
  /\ TypeOK
  /\ \A n \in live :
       LET refs == Cardinality(Holders(n))
       IN IF InStack(n)
            THEN \E i \in DOMAIN Path :
                   Path[i] = n /\ refs = PointerTo(Path, i).count - 1 + node[n].internal
          ELSE IF \E t \in Holders(n) : pc[t] \in {"take", "settle"}
            THEN \E t \in Holders(n) :
                   /\ pc[t] \in {"take", "settle"}
                   /\ refs = old[t].count - 1 + node[n].internal
          ELSE IF \E t \in Threads : mine[t] = n /\ pc[t] = "link"
            THEN refs = 0 /\ node[n].internal = 0
            ELSE refs = node[n].internal /\ refs > 0

(* No node leaks: what is allocated is in the stack or some thread is at work
   on it, so a drained stack that nobody uses has freed every node. *)
NoLeak ==
  \A n \in live : InStack(n) \/ \E t \in Threads : mine[t] = n

(* The stack is linearizable: a push takes effect at its successful exchange, a
   pop at the exchange that unlinks the node or at the access that saw the head
   empty.  Values come out once, the most recent first. *)
Stacked == [i \in DOMAIN Path |-> node[Path[i]].data]

Got(t) == IF pc[t] = "take" THEN node[mine[t]].data
          ELSE IF pc[t] = "release" /\ old[t].ptr = NULL THEN Empty
          ELSE result[t]

Lifo == INSTANCE LifoStack WITH stack <- Stacked, got <- [t \in Threads |-> Got(t)]

Linearizable == Lifo!Spec
=============================================================================
