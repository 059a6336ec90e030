------------------------ MODULE LockFreeStack_proofs -------------------------
(***************************************************************************)
(* Proofs about LockFreeStack: whatever the threads, the nodes and their   *)
(* interleaving, no freed node is used, the split count is exact, no node  *)
(* leaks and the stack is linearizable.                                    *)
(***************************************************************************)
EXTENDS LockFreeStack, FunctionTheorems, FiniteSetTheorems,
        SequenceTheorems, WellFoundedInduction, TLAPS

-----------------------------------------------------------------------------
(* The inductive invariant. *)

Refs(n) == Cardinality(Holders(n))

Taking(t) == pc[t] \in {"take", "settle"}

(* What a thread knows at each point of emplace and pop. *)
Knows(t) ==
  /\ mine[t] = NULL <=> pc[t] \in {"idle", "reserve"}
  /\ pc[t] \in {"next", "unlink", "take", "settle"} => old[t].ptr = mine[t]
  /\ pc[t] = "reserve" => old[t].ptr # NULL
  /\ pc[t] = "unlink" => nxt[t] = node[mine[t]].next
  /\ pc[t] \notin {"idle", "settle"} => result[t] = Nothing

(* The stack is a list of distinct, allocated nodes that ends. *)
PathOK ==
  /\ Path \in Paths
  /\ IsPath(Path)
  /\ \A i \in DOMAIN Path : Path[i] \in live

(* A node in the stack has its value, and the references to it are what its
   pointer has handed out less what was given back, which never is too much. *)
Linked ==
  \A i \in DOMAIN Path :
    /\ node[Path[i]].data \in Values
    /\ node[Path[i]].internal <= 0
    /\ Refs(Path[i]) = PointerTo(Path, i).count - 1 + node[Path[i]].internal

(* A node that is not published yet is known to nobody else. *)
Unpublished ==
  \A t \in Threads : pc[t] = "link" =>
    /\ ~InStack(mine[t])
    /\ node[mine[t]].data \in Values
    /\ node[mine[t]].internal = 0
    /\ \A u \in Threads : mine[u] = mine[t] => u = t

(* One thread unlinks a node; until it has settled the count, it alone knows
   how many references were handed out. *)
Unlinked ==
  \A t \in Threads : Taking(t) =>
    /\ ~InStack(mine[t])
    /\ pc[t] = "take" => node[mine[t]].data \in Values
    /\ node[mine[t]].internal <= 0
    /\ Refs(mine[t]) = old[t].count - 1 + node[mine[t]].internal
    /\ \A u \in Threads : Taking(u) /\ mine[u] = mine[t] => u = t

(* Any other allocated node waits for the threads that still refer to it. *)
Settled ==
  \A n \in live :
    \/ InStack(n)
    \/ \E t \in Threads : mine[t] = n /\ (Taking(t) \/ pc[t] = "link")
    \/ node[n].internal > 0 /\ Refs(n) = node[n].internal

IInv ==
  /\ TypeOK
  /\ NoUseAfterFree
  /\ \A t \in Threads : Knows(t)
  /\ PathOK
  /\ Linked
  /\ Unpublished
  /\ Unlinked
  /\ Settled

-----------------------------------------------------------------------------
(* Induction over the naturals, for a set instead of a predicate. *)
LEMMA SetInduction ==
  ASSUME NEW T \in SUBSET Nat, 0 \in T, \A n \in T : n + 1 \in T
  PROVE  T = Nat
<1> DEFINE M == Nat \ T
           R == {ss \in Nat \X Nat : ss[1] < ss[2]}
<1>1. SUFFICES ASSUME M # {} PROVE FALSE
  OBVIOUS
<1>2. IsWellFoundedOn(R, Nat)
  BY NatLessThanWellFounded DEF OpToRel
<1>3. M \subseteq Nat
  OBVIOUS
<1>4. \A x, y \in Nat : x < y => <<x, y>> \in R
  OBVIOUS
<1> HIDE DEF M, R
<1>5. PICK x \in M : \A y \in M : ~ (<<y, x>> \in R)
  BY <1>1, <1>2, <1>3, WFMin
<1>6. x # 0 /\ x \in Nat
  BY <1>3, <1>5 DEF M
<1>7. x - 1 \in Nat /\ x - 1 < x
  BY <1>6
<1>8. x - 1 \in T
  BY <1>4, <1>5, <1>6, <1>7 DEF M
<1> QED
  BY <1>5, <1>6, <1>8, x - 1 + 1 = x DEF M

(* What a path is, as sequences and lengths. *)
LEMMA PathsAreLists ==
  ASSUME NEW a \in Paths
  PROVE  /\ a \in Seq(Nodes)
         /\ Len(a) \in Nat
         /\ DOMAIN a = 1..Len(a)
         /\ \A i \in 1..Len(a) : a[i] \in Nodes
<1>0. Cardinality(Nodes) \in Nat
  BY LockFreeStackAssumption, FS_CardinalityType DEF LockFreeStackAssumption
<1>1. PICK k \in 0..Cardinality(Nodes) : a \in [1..k -> Nodes]
  BY DEF Paths
<1>2. k \in Nat
  BY <1>0
<1>3. a \in Seq(Nodes)
  BY <1>1, <1>2
<1> QED
  BY <1>3

(* A list without repetitions is no longer than there are nodes. *)
LEMMA ListsArePaths ==
  ASSUME NEW a \in Seq(Nodes), \A i, j \in DOMAIN a : a[i] = a[j] => i = j
  PROVE  a \in Paths
<1>0. IsFiniteSet(Nodes) /\ Cardinality(Nodes) \in Nat
  BY LockFreeStackAssumption, FS_CardinalityType DEF LockFreeStackAssumption
<1>1. Len(a) \in Nat /\ a \in [1..Len(a) -> Nodes] /\ DOMAIN a = 1..Len(a)
  OBVIOUS
<1>2. a \in Injection(1..Len(a), Nodes)
  BY <1>1 DEF Injection, IsInjective
<1>3. Cardinality(1..Len(a)) <= Cardinality(Nodes)
  BY <1>0, <1>2, FS_Injection
<1>4. Cardinality(1..Len(a)) = Len(a)
  <2>1. Cardinality(1..Len(a)) = IF 1 > Len(a) THEN 0 ELSE Len(a) - 1 + 1
    BY <1>1, 1 \in Int, Len(a) \in Int, FS_Interval
  <2> QED
    BY <1>1, <2>1
<1>5. Len(a) \in 0..Cardinality(Nodes)
  BY <1>0, <1>1, <1>3, <1>4
<1> QED
  BY <1>1, <1>5 DEF Paths

(* From one head h, and with one next for every node, there is one list. *)
ListFrom(h, next, a) ==
  /\ a \in Seq(Nodes)
  /\ \A i \in 1..Len(a) : a[i] = IF i = 1 THEN h ELSE next[a[i - 1]]
  /\ NULL = IF Len(a) = 0 THEN h ELSE next[a[Len(a)]]

LEMMA OneList ==
  ASSUME NEW h, NEW f, NEW a, NEW b, ListFrom(h, f, a), ListFrom(h, f, b)
  PROVE  a = b
<1> USE DEF ListFrom
<1> DEFINE Agree(k) == k <= Len(a) => /\ k <= Len(b)
                                      /\ k > 0 => a[k] = b[k]
           Same == {k \in Nat : Agree(k)}
<1>0. /\ NULL \notin Nodes
      /\ Len(a) \in Nat /\ Len(b) \in Nat
      /\ \A i \in 1..Len(a) : a[i] \in Nodes
      /\ \A i \in 1..Len(b) : b[i] \in Nodes
  BY LockFreeStackAssumption DEF LockFreeStackAssumption
<1>1. Agree(0)
  BY <1>0
<1>2. ASSUME NEW k \in Nat, Agree(k) PROVE Agree(k + 1)
  <2>1. SUFFICES ASSUME k + 1 <= Len(a)
                 PROVE  k + 1 <= Len(b) /\ a[k + 1] = b[k + 1]
    OBVIOUS
  <2>2. k \in Nat /\ k <= Len(b) /\ (k > 0 => a[k] = b[k])
    BY <1>0, <1>2, <2>1
  <2>3. k + 1 \in 1..Len(a) /\ a[k + 1] \in Nodes
    BY <1>0, <2>1, <2>2
  <2>4. a[k + 1] = IF k = 0 THEN h ELSE f[a[k]]
    BY <2>2, <2>3, k + 1 - 1 = k
  <2>5. a[k + 1] = IF k = 0 THEN h ELSE f[b[k]]
    BY <2>2, <2>4
  <2>6. k # Len(b)
    BY <1>0, <2>3, <2>5
  <2>7. k + 1 \in 1..Len(b)
    BY <1>0, <2>2, <2>6
  <2>8. b[k + 1] = IF k = 0 THEN h ELSE f[b[k]]
    BY <2>2, <2>7, k + 1 - 1 = k
  <2> QED
    BY <2>5, <2>7, <2>8
<1>3. \A k \in Nat : Agree(k)
  <2> HIDE DEF Agree
  <2>1. Same \in SUBSET Nat /\ 0 \in Same /\ \A k \in Same : k + 1 \in Same
    BY <1>1, <1>2
  <2> HIDE DEF Same
  <2>2. Same = Nat
    BY <2>1, SetInduction
  <2> QED
    BY <2>2 DEF Same
<1>4. ASSUME NEW k \in 1..Len(a) PROVE k \in 1..Len(b) /\ a[k] = b[k]
  <2>1. k \in Nat /\ k > 0 /\ k <= Len(a)
    BY <1>0
  <2>2. Agree(k)
    BY <1>3, <2>1
  <2>3. k <= Len(b) /\ a[k] = b[k]
    BY <2>1, <2>2
  <2> QED
    BY <1>0, <2>1, <2>3
<1>5. Len(a) <= Len(b)
  BY <1>0, <1>4
<1>6. Len(a) = Len(b)
  <2>1. SUFFICES ASSUME Len(a) + 1 <= Len(b) PROVE FALSE
    BY <1>0, <1>5
  <2>2. Len(a) + 1 \in 1..Len(b)
    BY <1>0, <2>1
  <2>3. b[Len(a) + 1] = IF Len(a) = 0 THEN h ELSE f[b[Len(a)]]
    BY <1>0, <2>2, Len(a) + 1 - 1 = Len(a)
  <2>4. Len(a) > 0 => b[Len(a)] = a[Len(a)]
    BY <1>0, <1>4
  <2>5. b[Len(a) + 1] = NULL
    BY <1>0, <2>3, <2>4
  <2> QED
    BY <1>0, <2>2, <2>5
<1> QED
  BY <1>0, <1>4, <1>6

(* So the stack has one path. *)
LEMMA PathIsUnique ==
  \A a \in Paths : IsPath(a) => Path = a
<1> SUFFICES ASSUME NEW a \in Paths, IsPath(a) PROVE Path = a
  OBVIOUS
<1>1. Path \in Paths /\ IsPath(Path)
  BY DEF Path
<1> DEFINE h == head.ptr
           f == [n \in Nodes |-> node[n].next.ptr]
<1>2. ASSUME NEW b \in Paths, IsPath(b)
      PROVE  ListFrom(h, f, b)
  <2>1. /\ b \in Seq(Nodes)
        /\ Len(b) \in Nat
        /\ DOMAIN b = 1..Len(b)
        /\ \A i \in 1..Len(b) : b[i] \in Nodes
    BY PathsAreLists
  <2>2. ASSUME NEW i \in 1..Len(b)
        PROVE  b[i] = IF i = 1 THEN h ELSE f[b[i - 1]]
    <3>1. b[i] = PointerTo(b, i).ptr
      BY <1>2, <2>1 DEF IsPath
    <3>2. i # 1 => i - 1 \in 1..Len(b)
      BY <2>1
    <3> QED
      BY <2>1, <3>1, <3>2 DEF PointerTo
  <2>3. NULL = IF Len(b) = 0 THEN h ELSE f[b[Len(b)]]
    <3>1. PointerTo(b, Len(b) + 1).ptr = NULL
      BY <1>2 DEF IsPath
    <3>2. CASE Len(b) = 0
      BY <3>1, <3>2 DEF PointerTo
    <3>3. CASE Len(b) # 0
      <4>1. Len(b) + 1 # 1 /\ Len(b) + 1 - 1 = Len(b) /\ b[Len(b)] \in Nodes
        BY <2>1, <3>3
      <4> QED
        BY <3>1, <3>3, <4>1 DEF PointerTo
    <3> QED
      BY <3>2, <3>3
  <2> QED
    BY <2>1, <2>2, <2>3 DEF ListFrom
<1>3. ListFrom(h, f, Path) /\ ListFrom(h, f, a)
  BY <1>1, <1>2
<1> HIDE DEF h, f
<1> QED
  BY <1>3, OneList

LEMMA PathIsUniqueNext ==
  (\A a \in Paths : IsPath(a) => Path = a)'
BY PathIsUnique, PTL

-----------------------------------------------------------------------------
(* Counting the references to a node. *)
LEMMA RefsFacts ==
  \A n \in Nodes : /\ IsFiniteSet(Holders(n))
                   /\ Refs(n) \in Nat
                   /\ Refs(n) = 0 <=> Holders(n) = {}
<1> SUFFICES ASSUME NEW n \in Nodes
             PROVE  /\ IsFiniteSet(Holders(n))
                    /\ Refs(n) \in Nat
                    /\ Refs(n) = 0 <=> Holders(n) = {}
  OBVIOUS
<1>1. IsFiniteSet(Threads) /\ Holders(n) \in SUBSET Threads
  BY LockFreeStackAssumption DEF LockFreeStackAssumption, Holders
<1>2. IsFiniteSet(Holders(n))
  BY <1>1, FS_Subset
<1> QED
  BY <1>2, FS_CardinalityType, FS_EmptySet DEF Refs

LEMMA RefsFactsNext ==
  (\A n \in Nodes : /\ IsFiniteSet(Holders(n))
                    /\ Refs(n) \in Nat
                    /\ Refs(n) = 0 <=> Holders(n) = {})'
BY RefsFacts, PTL

LEMMA RefsAdd ==
  ASSUME NEW n \in Nodes, NEW t, t \notin Holders(n), Holders(n)' = Holders(n) \cup {t}
  PROVE  Refs(n)' = Refs(n) + 1
BY RefsFacts, FS_AddElement DEF Refs

LEMMA RefsRemove ==
  ASSUME NEW n \in Nodes, NEW t, t \in Holders(n), Holders(n)' = Holders(n) \ {t}
  PROVE  Refs(n)' = Refs(n) - 1
BY RefsFacts, FS_RemoveElement DEF Refs

(* The path stays as long as the pointers along it do. *)
LEMMA PathStays ==
  ASSUME PathOK, head'.ptr = head.ptr,
         \A i \in DOMAIN Path : node'[Path[i]].next = node[Path[i]].next
  PROVE  /\ Path' = Path
         /\ IsPath(Path)'
<1> DEFINE a == Path
<1>1. /\ a \in Paths
      /\ Len(a) \in Nat
      /\ DOMAIN a = 1..Len(a)
      /\ IsPath(a)
  BY PathsAreLists DEF PathOK
<1>2. \A i \in 1..Len(a) + 1 : i # 1 => i - 1 \in DOMAIN a
  BY <1>1
<1>3. head'.ptr = head.ptr /\ \A i \in DOMAIN a : node'[a[i]].next = node[a[i]].next
  OBVIOUS
<1>4. PICK b : b = a
  OBVIOUS
<1> HIDE DEF a
<1>5. IsPath(b)'
  BY <1>1, <1>2, <1>3, <1>4 DEF IsPath, PointerTo
<1>6. Path' = b
  BY <1>1, <1>4, <1>5, PathIsUniqueNext
<1> QED
  BY <1>4, <1>5, <1>6 DEF a

-----------------------------------------------------------------------------
(* A thread that has a node has one of Nodes. *)
LEMMA MineIsNode ==
  ASSUME TypeOK, NEW t \in Threads, Knows(t), pc[t] \notin {"idle", "reserve"}
  PROVE  mine[t] \in Nodes
BY DEF TypeOK, Knows, Pointers

(* The types. *)
LEMMA TypeStep ==
  ASSUME IInv, [Next]_vars
  PROVE  TypeOK'
<1> USE LockFreeStackAssumption DEF LockFreeStackAssumption
<1>0. TypeOK /\ \A t \in Threads : Knows(t)
  BY DEF IInv
<1> USE <1>0 DEF TypeOK, Counted, Node, Pointers, Values, Null
<1>1. ASSUME NEW t \in Threads, NEW n \in Nodes, New(t, n) PROVE TypeOK'
  <2>1. pushed + 1 \in Values
    BY <1>1 DEF New
  <2> QED
    BY <1>1, <2>1 DEF New, Goto
<1>2. ASSUME NEW t \in Threads, Link(t) PROVE TypeOK'
  <2> DEFINE n == mine[t]
  <2>1. n \in Nodes
    BY <1>2, MineIsNode DEF Link
  <2>2. [node[n] EXCEPT !.next = head] \in Node
    BY <2>1
  <2>3. node' \in [Nodes -> Node]
    BY <1>2, <2>1, <2>2 DEF Link
  <2>4. head' \in Counted
    BY <1>2, <2>1 DEF Link
  <2> QED
    BY <1>2, <2>3, <2>4 DEF Link, Goto
<1>3. ASSUME NEW t \in Threads, Load(t) PROVE TypeOK'
  BY <1>3 DEF Load, Saw, Goto
<1>4. ASSUME NEW t \in Threads, Reserve(t) PROVE TypeOK'
  <2>1. head' \in Counted /\ head.ptr \in Pointers
    BY <1>4 DEF Reserve
  <2>2. CASE head = old[t]
    <3>1. /\ old' = [old EXCEPT ![t] = head']
          /\ mine' = [mine EXCEPT ![t] = head.ptr]
          /\ pc' = [pc EXCEPT ![t] = "next"]
          /\ UNCHANGED <<node, live, pushed, nxt, result>>
      BY <1>4, <2>2 DEF Reserve, Goto
    <3> HIDE DEF Counted
    <3> QED
      BY <2>1, <3>1
  <2> HIDE DEF Counted
  <2>3. CASE head # old[t]
    BY <1>4, <2>3 DEF Reserve, Saw, Goto
  <2> QED
    BY <2>2, <2>3
<1>5. ASSUME NEW t \in Threads, ReadNext(t) PROVE TypeOK'
  <2>1. mine[t] \in Nodes
    BY <1>5, MineIsNode DEF ReadNext
  <2> QED
    BY <1>5, <2>1 DEF ReadNext, Goto
<1>6. ASSUME NEW t \in Threads, Unlink(t) PROVE TypeOK'
  <2>1. Null \in Counted
    OBVIOUS
  <2> HIDE DEF Counted, Null
  <2>2. CASE head = old[t]
    BY <1>6, <2>1, <2>2 DEF Unlink, Goto
  <2>3. CASE head # old[t]
    BY <1>6, <2>1, <2>3 DEF Unlink, Goto
  <2> QED
    BY <2>2, <2>3
<1>7. ASSUME NEW t \in Threads, Take(t) PROVE TypeOK'
  <2> DEFINE n == mine[t]
  <2>1. n \in Nodes
    BY <1>7, MineIsNode DEF Take
  <2>2. node[n].data \in Values
    BY <1>7 DEF Take, IInv, Unlinked, Taking
  <2>3. [node[n] EXCEPT !.data = NULL] \in Node
    BY <2>1
  <2>4. node' \in [Nodes -> Node]
    BY <1>7, <2>1, <2>3 DEF Take
  <2> QED
    BY <1>7, <2>2, <2>4 DEF Take, Goto
<1>8. ASSUME NEW t \in Threads, Settle(t) PROVE TypeOK'
  <2> DEFINE n == mine[t]
  <2>1. n \in Nodes
    BY <1>8, MineIsNode DEF Settle
  <2>2. [node[n] EXCEPT !.internal = @ + (old[t].count - 2)] \in Node
    BY <2>1
  <2>3. node' \in [Nodes -> Node]
    BY <1>8, <2>1, <2>2 DEF Settle
  <2> QED
    BY <1>8, <2>3 DEF Settle, Goto
<1>9. ASSUME NEW t \in Threads, Release(t) PROVE TypeOK'
  <2> DEFINE n == mine[t]
  <2>1. n \in Nodes
    BY <1>9, MineIsNode DEF Release
  <2>2. [node[n] EXCEPT !.internal = @ - 1] \in Node
    BY <2>1
  <2>3. node' \in [Nodes -> Node]
    BY <1>9, <2>1, <2>2 DEF Release
  <2>4. live' \in SUBSET Nodes
    BY <1>9 DEF Release
  <2> QED
    BY <1>9, <2>3, <2>4 DEF Release, Saw, Goto
<1>10. ASSUME NEW t \in Threads, Return(t) PROVE TypeOK'
  BY <1>10 DEF Return
<1>11. CASE UNCHANGED vars
  BY <1>11 DEF vars
<1> QED
  BY <1>1, <1>2, <1>3, <1>4, <1>5, <1>6, <1>7, <1>8, <1>9, <1>10, <1>11 DEF Next

-----------------------------------------------------------------------------
(* The invariant, step by step.  First the steps of a thread that touch
   neither a node nor a pointer another thread can see. *)
LEMMA LocalStep ==
  ASSUME IInv, TypeOK', NEW t \in Threads,
         UNCHANGED <<head, node, live, mine>>,
         \A u \in Threads \ {t} : /\ pc'[u] = pc[u] /\ old'[u] = old[u]
                                  /\ nxt'[u] = nxt[u] /\ result'[u] = result[u],
         pc[t] \notin {"link", "take", "settle"},
         pc'[t] \notin {"link", "take", "settle"},
         pc[t] \in {"idle", "reserve"} <=> pc'[t] \in {"idle", "reserve"},
         Knows(t)'
  PROVE  IInv'
<1>1. TypeOK /\ NoUseAfterFree /\ PathOK
  BY DEF IInv
<1>2. /\ Path' = Path
      /\ IsPath(Path)'
      /\ \A n : InStack(n)' <=> InStack(n)
      /\ \A i : PointerTo(Path, i)' = PointerTo(Path, i)
  BY <1>1, PathStays DEF InStack, PointerTo
<1>3. \A n \in Nodes : Holders(n)' = Holders(n)
  BY <1>1 DEF Holders, Knows, TypeOK, IInv
<1>4. \A n \in Nodes : Refs(n)' = Refs(n)
  BY <1>3 DEF Refs
<1>5. \A u \in Threads : Taking(u)' <=> Taking(u)
  BY DEF Taking
<1>6. \A u \in Threads : pc'[u] = "link" <=> pc[u] = "link"
  OBVIOUS
<1>7. \A u \in Threads : Knows(u)'
  BY DEF IInv, Knows
<1>8. NoUseAfterFree'
  BY DEF IInv, NoUseAfterFree
<1>9. PathOK'
  BY <1>1, <1>2 DEF PathOK
<1>10. Linked'
  BY <1>1, <1>2, <1>4, PathsAreLists DEF Linked, IInv, PathOK
<1>11. Unpublished'
  BY <1>2, <1>6 DEF Unpublished, IInv
<1>12. Unlinked'
  BY <1>1, <1>2, <1>4, <1>5, MineIsNode DEF Unlinked, IInv, Taking
<1>13. Settled'
  BY <1>1, <1>2, <1>4, <1>5, <1>6 DEF Settled, IInv, TypeOK
<1> QED
  BY <1>7, <1>8, <1>9, <1>10, <1>11, <1>12, <1>13 DEF IInv

(* A new node is at an address nobody points to. *)
LEMMA NewStep ==
  ASSUME IInv, TypeOK', NEW t \in Threads, NEW n \in Nodes, New(t, n)
  PROVE  IInv'
<1>0. /\ TypeOK /\ NoUseAfterFree /\ PathOK
      /\ \A u \in Threads : Knows(u)
      /\ NULL \notin Nodes
  BY LockFreeStackAssumption DEF IInv, LockFreeStackAssumption
<1>1. /\ pc[t] = "idle" /\ mine[t] = NULL /\ result[t] = Nothing /\ n \notin live
      /\ pc' = [pc EXCEPT ![t] = "link"]
      /\ mine' = [mine EXCEPT ![t] = n]
      /\ node' = [node EXCEPT ![n] = [data |-> pushed + 1, internal |-> 0, next |-> head]]
      /\ live' = live \cup {n}
      /\ UNCHANGED <<head, old, nxt, result>>
  BY <1>0 DEF New, Goto, Knows
<1>2. \A u \in Threads \ {t} : pc'[u] = pc[u] /\ mine'[u] = mine[u] /\ mine[u] # n
  BY <1>0, <1>1 DEF TypeOK, NoUseAfterFree
<1>3. pc'[t] = "link" /\ mine'[t] = n
  BY <1>0, <1>1 DEF TypeOK
<1>4. \A m \in Nodes \ {n} : node'[m] = node[m]
  BY <1>0, <1>1 DEF TypeOK
<1>5. node'[n].data \in Values /\ node'[n].internal = 0
  BY <1>0, <1>1, LockFreeStackAssumption DEF TypeOK, New, LockFreeStackAssumption, Values
<1>6. \A i \in DOMAIN Path : Path[i] \in Nodes /\ Path[i] # n
  BY <1>0, <1>1, PathsAreLists DEF PathOK
<1>7. Path' = Path /\ IsPath(Path)'
  BY <1>0, <1>1, <1>4, <1>6, PathStays
<1>8. \A m : InStack(m)' <=> InStack(m)
  BY <1>7 DEF InStack
<1>9. ~InStack(n)
  BY <1>6 DEF InStack
<1>10. \A m \in Nodes : Refs(m)' = Refs(m)
  <2>1. \A m \in Nodes : Holders(m)' = Holders(m)
    BY <1>1, <1>2, <1>3 DEF Holders
  <2> QED
    BY <2>1 DEF Refs
<1>11. \A u \in Threads : Taking(u)' <=> Taking(u)
  BY <1>1, <1>2, <1>3 DEF Taking
<1>12. \A u \in Threads : Knows(u)'
  <2>1. Knows(t)'
    BY <1>0, <1>1, <1>3 DEF Knows
  <2>2. ASSUME NEW u \in Threads \ {t} PROVE Knows(u)'
    BY <1>0, <1>1, <1>2, <1>4, MineIsNode DEF Knows
  <2> QED
    BY <2>1, <2>2
<1>13. NoUseAfterFree'
  BY <1>0, <1>1, <1>2, <1>3 DEF NoUseAfterFree
<1>14. PathOK'
  BY <1>0, <1>1, <1>7 DEF PathOK
<1>15. Linked'
  <2>1. \A i \in DOMAIN Path : PointerTo(Path, i)' = PointerTo(Path, i)
    BY <1>0, <1>1, <1>4, <1>6, <1>7, PathsAreLists DEF PointerTo, PathOK
  <2> QED
    BY <1>4, <1>6, <1>7, <1>10, <2>1 DEF Linked, IInv
<1>16. Unpublished'
  <2>1. \A u \in Threads \ {t} : pc[u] = "link" => mine[u] \in Nodes
    BY <1>0, MineIsNode
  <2> QED
    BY <1>2, <1>3, <1>4, <1>5, <1>8, <1>9, <2>1 DEF Unpublished, IInv
<1>17. Unlinked'
  <2>1. ASSUME NEW u \in Threads, Taking(u)
        PROVE u # t /\ mine[u] \in Nodes /\ pc'[u] = pc[u] /\ mine'[u] = mine[u] /\ node'[mine[u]] = node[mine[u]]
    BY <1>0, <1>1, <1>2, <1>4, <2>1, MineIsNode DEF Taking
  <2> QED
    BY <1>1, <1>8, <1>10, <1>11, <2>1 DEF Unlinked, IInv
<1>18. Settled'
  <2>1. \E u \in Threads : mine'[u] = n /\ pc'[u] = "link"
    BY <1>3
  <2>2. ASSUME NEW m \in live
        PROVE  \/ InStack(m)
               \/ \E u \in Threads : mine'[u] = m /\ (Taking(u)' \/ pc'[u] = "link")
               \/ node'[m].internal > 0 /\ Refs(m)' = node'[m].internal
    <3>1. m \in Nodes \ {n}
      BY <1>0, <1>1 DEF TypeOK
    <3> QED
      BY <1>1, <1>2, <1>3, <1>4, <1>10, <1>11, <3>1 DEF Settled, IInv, Taking
  <2> QED
    BY <1>1, <1>8, <2>1, <2>2 DEF Settled
<1> QED
  BY <1>12, <1>13, <1>14, <1>15, <1>16, <1>17, <1>18 DEF IInv

(* The exchange of emplace fails: only the private node changes. *)
LEMMA LinkFails ==
  ASSUME IInv, TypeOK', NEW t \in Threads, pc[t] = "link",
         node' = [node EXCEPT ![mine[t]].next = head],
         UNCHANGED <<head, live, pc, mine, old, nxt, result>>
  PROVE  IInv'
<1> DEFINE n == mine[t]
<1>0. /\ TypeOK /\ NoUseAfterFree /\ PathOK
      /\ \A u \in Threads : Knows(u)
  BY DEF IInv
<1>1. n \in Nodes /\ ~InStack(n) /\ \A u \in Threads : mine[u] = n => u = t
  BY <1>0, MineIsNode DEF IInv, Unpublished
<1>2. /\ \A m \in Nodes \ {n} : node'[m] = node[m]
      /\ \A m \in Nodes : node'[m].data = node[m].data /\ node'[m].internal = node[m].internal
  BY <1>0, <1>1 DEF TypeOK, Node
<1>3. \A i \in DOMAIN Path : Path[i] \in Nodes /\ Path[i] # n
  BY <1>0, <1>1, PathsAreLists DEF PathOK, InStack
<1>4. Path' = Path /\ IsPath(Path)'
  BY <1>0, <1>2, <1>3, PathStays
<1>5. \A m : InStack(m)' <=> InStack(m)
  BY <1>4 DEF InStack
<1>6. \A m \in Nodes : Refs(m)' = Refs(m)
  BY DEF Refs, Holders
<1>7. \A u \in Threads : Taking(u)' <=> Taking(u)
  BY DEF Taking
<1>8. \A u \in Threads : Knows(u)'
  <2> SUFFICES ASSUME NEW u \in Threads PROVE Knows(u)'
    OBVIOUS
  <2>1. pc[u] = "unlink" => mine[u] \in Nodes \ {n}
    BY <1>0, <1>1, MineIsNode
  <2> QED
    BY <1>0, <1>2, <2>1 DEF Knows
<1>9. NoUseAfterFree'
  BY <1>0 DEF NoUseAfterFree
<1>10. PathOK'
  BY <1>0, <1>4 DEF PathOK
<1>11. Linked'
  <2>1. \A i \in DOMAIN Path : PointerTo(Path, i)' = PointerTo(Path, i)
    BY <1>0, <1>2, <1>3, <1>4, PathsAreLists DEF PointerTo, PathOK
  <2> QED
    BY <1>2, <1>3, <1>4, <1>6, <2>1 DEF Linked, IInv
<1>12. Unpublished'
  <2>1. \A u \in Threads : pc[u] = "link" => mine[u] \in Nodes
    BY <1>0, MineIsNode
  <2> QED
    BY <1>2, <1>5, <2>1 DEF Unpublished, IInv
<1>13. Unlinked'
  <2>1. \A u \in Threads : Taking(u) => mine[u] \in Nodes
    BY <1>0, MineIsNode DEF Taking
  <2> QED
    BY <1>2, <1>5, <1>6, <1>7, <2>1 DEF Unlinked, IInv
<1>14. Settled'
  BY <1>0, <1>2, <1>5, <1>6, <1>7 DEF Settled, IInv, TypeOK
<1> QED
  BY <1>8, <1>9, <1>10, <1>11, <1>12, <1>13, <1>14 DEF IInv

(* The exchange of emplace succeeds: the node is the first of the path. *)
LEMMA LinkSucceeds ==
  ASSUME IInv, TypeOK', NEW t \in Threads, pc[t] = "link",
         head = node[mine[t]].next,
         head' = [count |-> 1, ptr |-> mine[t]],
         mine' = [mine EXCEPT ![t] = NULL],
         pc' = [pc EXCEPT ![t] = "idle"],
         UNCHANGED <<node, live, old, nxt, result>>
  PROVE  /\ IInv'
         /\ Path' = <<mine[t]>> \o Path
<1>0. /\ TypeOK /\ NoUseAfterFree /\ PathOK
      /\ \A u \in Threads : Knows(u)
      /\ NULL \notin Nodes
  BY LockFreeStackAssumption DEF IInv, LockFreeStackAssumption
<1>1. PICK n \in Nodes : n = mine[t]
  BY <1>0, MineIsNode
<1>2. PICK a \in Paths : a = Path
  BY <1>0 DEF PathOK
<1>3. /\ a \in Seq(Nodes)
      /\ Len(a) \in Nat
      /\ DOMAIN a = 1..Len(a)
      /\ \A i \in 1..Len(a) : a[i] \in Nodes
  BY PathsAreLists
<1>4. PICK b \in Seq(Nodes) : b = <<n>> \o a
  <2>1. <<n>> \in Seq(Nodes)
    OBVIOUS
  <2>2. <<n>> \o a \in Seq(Nodes)
    BY <1>3, <2>1, ConcatProperties
  <2> QED
    BY <2>2
<1>5. /\ Len(b) = Len(a) + 1
      /\ DOMAIN b = 1..Len(a) + 1
      /\ b[1] = n
      /\ \A i \in 1..Len(a) : b[i + 1] = a[i]
  BY <1>3, <1>4
<1>6. /\ ~InStack(n) /\ node[n].data \in Values /\ node[n].internal = 0
      /\ n \in live
      /\ \A u \in Threads : mine[u] = n => u = t
  BY <1>0, <1>1 DEF IInv, Unpublished, NoUseAfterFree
<1>7. \A i \in 1..Len(a) : a[i] # n
  BY <1>2, <1>3, <1>6 DEF InStack
<1>8. /\ pc'[t] = "idle" /\ mine'[t] = NULL
      /\ \A u \in Threads \ {t} : pc'[u] = pc[u] /\ mine'[u] = mine[u]
  BY <1>0 DEF TypeOK
<1>9. /\ PointerTo(b, 1)' = [count |-> 1, ptr |-> n]
      /\ \A i \in 1..Len(a) + 1 : PointerTo(b, i + 1)' = PointerTo(a, i)
  <2>1. PointerTo(b, 1)' = [count |-> 1, ptr |-> n]
    BY <1>1 DEF PointerTo
  <2>2. PointerTo(b, 2)' = PointerTo(a, 1)
    BY <1>1, <1>5 DEF PointerTo
  <2>3. ASSUME NEW i \in 2..Len(a) + 1 PROVE PointerTo(b, i + 1)' = PointerTo(a, i)
    <3>1. i - 1 \in 1..Len(a) /\ i # 1 /\ i + 1 # 1 /\ i + 1 - 1 = i
      BY <1>3
    <3>2. b[i] = a[i - 1]
      BY <1>5, <3>1, i - 1 + 1 = i
    <3> QED
      BY <3>1, <3>2 DEF PointerTo
  <2> QED
    BY <1>3, <2>1, <2>2, <2>3
<1>10. \A j \in 2..Len(a) + 1 : j - 1 \in 1..Len(a) /\ b[j] = a[j - 1]
  BY <1>3, <1>5
<1>11. IsPath(a)
  BY <1>0, <1>2 DEF PathOK
<1>12. \A i, j \in DOMAIN b : b[i] = b[j] => i = j
  <2> SUFFICES ASSUME NEW i \in 1..Len(a) + 1, NEW j \in 1..Len(a) + 1, b[i] = b[j]
               PROVE  i = j
    BY <1>5
  <2>1. CASE i = 1 \/ j = 1
    BY <1>3, <1>5, <1>7, <1>10, <2>1
  <2>2. CASE i # 1 /\ j # 1
    <3>1. i - 1 \in DOMAIN a /\ j - 1 \in DOMAIN a /\ a[i - 1] = a[j - 1]
      BY <1>3, <1>10, <2>2
    <3>2. i - 1 = j - 1
      BY <1>11, <3>1 DEF IsPath
    <3> QED
      BY <1>3, <3>2
  <2> QED
    BY <2>1, <2>2
<1>13. IsPath(b)'
  <2>1. ASSUME NEW i \in DOMAIN b PROVE PointerTo(b, i)'.ptr = b[i]
    <3>1. CASE i = 1
      BY <1>5, <1>9, <3>1
    <3>2. CASE i # 1
      <4>1. i \in 2..Len(a) + 1 /\ i - 1 \in 1..Len(a) + 1 /\ i - 1 + 1 = i
        BY <1>3, <1>5, <3>2
      <4>2. PointerTo(b, i)' = PointerTo(a, i - 1)
        BY <1>9, <4>1
      <4> QED
        BY <1>3, <1>10, <1>11, <4>1, <4>2 DEF IsPath
    <3> QED
      BY <3>1, <3>2
  <2>2. PointerTo(b, Len(b) + 1)' = PointerTo(a, Len(a) + 1)
    BY <1>3, <1>5, <1>9
  <2> QED
    BY <1>11, <1>12, <2>1, <2>2 DEF IsPath
<1>14. Path' = b
  BY <1>4, <1>12, <1>13, ListsArePaths, PathIsUniqueNext
<1>15. \A m : InStack(m)' <=> m = n \/ InStack(m)
  <2>1. \A m : InStack(m) => \E i \in 1..Len(a) + 1 : b[i] = m
    <3>1. \A i \in 1..Len(a) : i + 1 \in 1..Len(a) + 1
      BY <1>3
    <3> QED
      BY <1>2, <1>3, <1>5, <3>1 DEF InStack
  <2>2. \A i \in 1..Len(a) + 1 : b[i] = n \/ InStack(b[i])
    <3>1. \A i \in 1..Len(a) + 1 : i = 1 \/ i \in 2..Len(a) + 1
      BY <1>3
    <3> QED
      BY <1>2, <1>3, <1>5, <1>10, <3>1 DEF InStack
  <2>3. 1 \in 1..Len(a) + 1
    BY <1>3
  <2>4. \A m : InStack(m)' <=> \E i \in 1..Len(a) + 1 : b[i] = m
    BY <1>5, <1>14 DEF InStack
  <2> QED
    BY <1>5, <2>1, <2>2, <2>3, <2>4
<1>16. \A m \in Nodes : Refs(m)' = Refs(m)
  <2>1. \A m \in Nodes : Holders(m)' = Holders(m)
    BY <1>0, <1>8 DEF Holders
  <2> QED
    BY <2>1 DEF Refs
<1>17. Refs(n) = 0
  <2>1. Holders(n) = {}
    BY <1>6 DEF Holders
  <2> QED
    BY <2>1, RefsFacts
<1>18. \A u \in Threads : Taking(u)' <=> Taking(u)
  BY <1>8 DEF Taking
<1>19. \A u \in Threads : Knows(u)'
  BY <1>0, <1>8 DEF Knows
<1>20. NoUseAfterFree'
  BY <1>0, <1>8 DEF NoUseAfterFree
<1>21. PathOK'
  <2>1. b \in Paths
    BY <1>4, <1>12, ListsArePaths
  <2>2. \A i \in DOMAIN b : b[i] \in live
    <3>1. \A i \in 1..Len(a) : a[i] \in live
      BY <1>0, <1>2, <1>3 DEF PathOK
    <3>2. \A i \in 1..Len(a) + 1 : i = 1 \/ i \in 2..Len(a) + 1
      BY <1>3
    <3> QED
      BY <1>5, <1>6, <1>10, <3>1, <3>2
  <2> QED
    BY <1>13, <1>14, <2>1, <2>2 DEF PathOK
<1>22. Linked'
  <2>1. ASSUME NEW i \in 1..Len(a) + 1
        PROVE  /\ node[b[i]].data \in Values
               /\ node[b[i]].internal <= 0
               /\ Refs(b[i])' = PointerTo(b, i)'.count - 1 + node[b[i]].internal
    <3>1. CASE i = 1
      BY <1>5, <1>6, <1>9, <1>16, <1>17, <3>1
    <3>2. CASE i # 1
      <4>1. i \in 2..Len(a) + 1 /\ i - 1 \in DOMAIN a /\ i - 1 + 1 = i
        BY <1>3, <3>2
      <4>2. b[i] = a[i - 1] /\ PointerTo(b, i)' = PointerTo(a, i - 1)
        BY <1>3, <1>9, <1>10, <4>1
      <4> QED
        BY <1>2, <1>3, <1>16, <4>1, <4>2 DEF Linked, IInv
    <3> QED
      BY <3>1, <3>2
  <2> QED
    BY <1>5, <1>14, <2>1 DEF Linked
<1>23. Unpublished'
  <2>1. ASSUME NEW u \in Threads, pc'[u] = "link"
        PROVE  /\ u # t /\ mine[u] \in Nodes \ {n}
               /\ pc[u] = "link" /\ mine'[u] = mine[u]
    BY <1>0, <1>6, <1>8, <2>1, MineIsNode
  <2>2. \A u \in Threads : mine'[u] = mine[u] \/ mine'[u] \notin Nodes
    BY <1>0, <1>8
  <2> QED
    BY <1>15, <2>1, <2>2 DEF Unpublished, IInv
<1>24. Unlinked'
  <2>1. ASSUME NEW u \in Threads, Taking(u)
        PROVE  /\ u # t /\ mine[u] \in Nodes \ {n}
               /\ pc'[u] = pc[u] /\ mine'[u] = mine[u]
    BY <1>0, <1>6, <1>8, <2>1, MineIsNode DEF Taking
  <2> QED
    BY <1>15, <1>16, <1>18, <2>1 DEF Unlinked, IInv
<1>25. Settled'
  BY <1>0, <1>1, <1>8, <1>15, <1>16, <1>18 DEF Settled, IInv, TypeOK
<1> QED
  BY <1>1, <1>2, <1>4, <1>14, <1>19, <1>20, <1>21, <1>22, <1>23, <1>24, <1>25 DEF IInv

(* The first node of the path is the one head_ points to. *)
LEMMA HeadOfPath ==
  ASSUME PathOK
  PROVE  /\ head.ptr = NULL => Path = <<>>
         /\ head.ptr # NULL => /\ 1 \in DOMAIN Path
                              /\ Path[1] = head.ptr
                              /\ PointerTo(Path, 1) = head
<1>1. /\ Path \in Paths
      /\ Path \in Seq(Nodes)
      /\ Len(Path) \in Nat
      /\ DOMAIN Path = 1..Len(Path)
      /\ \A i \in 1..Len(Path) : Path[i] \in Nodes
      /\ IsPath(Path)
  BY PathsAreLists DEF PathOK
<1>2. PointerTo(Path, 1) = head
  BY DEF PointerTo
<1>3. CASE Len(Path) = 0
  <2>1. Path = <<>>
    BY <1>1, <1>3
  <2>2. head.ptr = NULL
    BY <1>1, <1>2, <1>3 DEF IsPath
  <2> QED
    BY <2>1, <2>2
<1>4. CASE Len(Path) # 0
  <2>1. 1 \in DOMAIN Path
    BY <1>1, <1>4
  <2>2. Path[1] = head.ptr /\ Path[1] \in Nodes
    BY <1>1, <1>2, <2>1 DEF IsPath
  <2> QED
    BY <1>2, <2>1, <2>2, LockFreeStackAssumption DEF LockFreeStackAssumption
<1> QED
  BY <1>3, <1>4

(* increase_head_count succeeds: one reference more handed out and held. *)
LEMMA ReserveSucceeds ==
  ASSUME IInv, TypeOK', NEW t \in Threads, pc[t] = "reserve",
         head = old[t],
         head' = [head EXCEPT !.count = @ + 1],
         old' = [old EXCEPT ![t] = head'],
         mine' = [mine EXCEPT ![t] = head.ptr],
         pc' = [pc EXCEPT ![t] = "next"],
         UNCHANGED <<node, live, nxt, result>>
  PROVE  IInv'
<1>0. /\ TypeOK /\ NoUseAfterFree /\ PathOK
      /\ \A u \in Threads : Knows(u)
      /\ NULL \notin Nodes
  BY LockFreeStackAssumption DEF IInv, LockFreeStackAssumption
<1>1. PICK n : n = head.ptr
  OBVIOUS
<1>2. n \in Nodes /\ mine[t] = NULL /\ result[t] = Nothing
  BY <1>0, <1>1 DEF Knows, TypeOK, Counted, Pointers
<1>3. 1 \in DOMAIN Path /\ Path[1] = n /\ PointerTo(Path, 1) = head
  BY <1>0, <1>1, <1>2, HeadOfPath
<1>4. n \in live /\ InStack(n)
  BY <1>0, <1>3 DEF PathOK, InStack
<1>5. /\ pc'[t] = "next" /\ mine'[t] = n /\ old'[t] = head'
      /\ \A u \in Threads \ {t} : /\ pc'[u] = pc[u] /\ mine'[u] = mine[u]
                                   /\ old'[u] = old[u]
  BY <1>0, <1>1 DEF TypeOK
<1>6. head'.ptr = n /\ head'.count = head.count + 1 /\ head.count \in Int
  BY <1>0, <1>1 DEF TypeOK, Counted
<1>7. Path' = Path /\ IsPath(Path)'
  BY <1>0, <1>1, <1>6, PathStays
<1>8. \A m : InStack(m)' <=> InStack(m)
  BY <1>7 DEF InStack
<1>9. /\ Refs(n)' = Refs(n) + 1
      /\ \A m \in Nodes \ {n} : Refs(m)' = Refs(m)
  <2>1. t \notin Holders(n) /\ Holders(n)' = Holders(n) \cup {t}
    BY <1>2, <1>5 DEF Holders
  <2>2. \A m \in Nodes \ {n} : Holders(m)' = Holders(m)
    BY <1>0, <1>2, <1>5 DEF Holders
  <2> QED
    BY <1>2, <2>1, <2>2, RefsAdd DEF Refs
<1>10. \A u \in Threads : Taking(u)' <=> Taking(u)
  BY <1>5 DEF Taking
<1>11. \A u \in Threads : Knows(u)'
  <2>1. Knows(t)'
    BY <1>0, <1>2, <1>5, <1>6 DEF Knows
  <2>2. ASSUME NEW u \in Threads \ {t} PROVE Knows(u)'
    BY <1>0, <1>5 DEF Knows
  <2> QED
    BY <2>1, <2>2
<1>12. NoUseAfterFree'
  BY <1>0, <1>4, <1>5 DEF NoUseAfterFree
<1>13. PathOK'
  BY <1>0, <1>7 DEF PathOK
<1>14. Linked'
  <2>1. ASSUME NEW i \in DOMAIN Path
        PROVE Refs(Path[i])' = PointerTo(Path, i)'.count - 1 + node[Path[i]].internal
    <3>1. Path[i] \in Nodes /\ Refs(Path[i]) \in Nat /\ node[Path[i]].internal \in Int
      BY <1>0, PathsAreLists, RefsFacts DEF PathOK, TypeOK, Node
    <3>2. Refs(Path[i]) = PointerTo(Path, i).count - 1 + node[Path[i]].internal
      BY DEF IInv, Linked
    <3>3. CASE i = 1
      <4>1. PointerTo(Path, i)' = head'
        BY <1>7, <3>3 DEF PointerTo
      <4>2. Refs(Path[i])' = Refs(Path[i]) + 1
        BY <1>3, <1>7, <1>9, <3>3
      <4>3. Refs(Path[i]) = head.count - 1 + node[Path[i]].internal
        BY <1>3, <3>2, <3>3
      <4>4. Refs(Path[i])' = head.count + 1 - 1 + node[Path[i]].internal
        BY <1>6, <3>1, <4>2, <4>3
      <4> QED
        BY <1>6, <4>1, <4>4
    <3>4. CASE i # 1
      <4>1. Path[i] # n
        BY <1>0, <1>3, <3>4 DEF PathOK, IsPath
      <4>2. PointerTo(Path, i)' = PointerTo(Path, i)
        BY <1>7, <3>4 DEF PointerTo
      <4>3. Refs(Path[i])' = Refs(Path[i])
        BY <1>7, <1>9, <3>1, <4>1
      <4> QED
        BY <3>2, <4>2, <4>3
    <3> QED
      BY <3>3, <3>4
  <2> QED
    BY <1>7, <2>1 DEF Linked, IInv
<1>15. Unpublished'
  BY <1>4, <1>5, <1>8 DEF Unpublished, IInv
<1>16. Unlinked'
  <2>1. ASSUME NEW u \in Threads, Taking(u)
        PROVE  /\ u # t /\ mine[u] \in Nodes \ {n}
               /\ pc'[u] = pc[u] /\ mine'[u] = mine[u] /\ old'[u] = old[u]
    <3>1. u # t /\ mine[u] # n
      BY <1>4, <2>1 DEF Taking, IInv, Unlinked
    <3> QED
      BY <1>0, <1>5, <2>1, <3>1, MineIsNode DEF Taking
  <2> QED
    BY <1>8, <1>9, <1>10, <2>1 DEF Unlinked, IInv
<1>17. Settled'
  <2> SUFFICES ASSUME NEW m \in live, ~InStack(m)
               PROVE  \/ \E u \in Threads : mine'[u] = m /\ (Taking(u)' \/ pc'[u] = "link")
                      \/ node'[m].internal > 0 /\ Refs(m)' = node'[m].internal
    BY <1>8 DEF Settled
  <2>1. m \in Nodes \ {n}
    BY <1>0, <1>4 DEF TypeOK
  <2>2. CASE \E u \in Threads : mine[u] = m /\ (Taking(u) \/ pc[u] = "link")
    <3>1. PICK u \in Threads : mine[u] = m /\ (Taking(u) \/ pc[u] = "link")
      BY <2>2
    <3>2. u # t
      BY <3>1 DEF Taking
    <3> QED
      BY <1>5, <1>10, <3>1, <3>2
  <2>3. CASE node[m].internal > 0 /\ Refs(m) = node[m].internal
    BY <1>9, <2>1, <2>3
  <2> QED
    BY <2>2, <2>3 DEF Settled, IInv
<1> QED
  BY <1>11, <1>12, <1>13, <1>14, <1>15, <1>16, <1>17 DEF IInv

(* The exchange of pop succeeds: the first node leaves the path, and the
   thread alone knows how many references to it were handed out. *)
LEMMA UnlinkSucceeds ==
  ASSUME IInv, TypeOK', NEW t \in Threads, pc[t] = "unlink",
         head = old[t],
         head' = nxt[t],
         pc' = [pc EXCEPT ![t] = "take"],
         nxt' = [nxt EXCEPT ![t] = Null],
         UNCHANGED <<node, live, mine, old, result>>
  PROVE  /\ IInv'
         /\ 1 \in DOMAIN Path
         /\ Path[1] = mine[t]
         /\ Path' = Tail(Path)
<1>0. /\ TypeOK /\ NoUseAfterFree /\ PathOK
      /\ \A u \in Threads : Knows(u)
      /\ NULL \notin Nodes
  BY LockFreeStackAssumption DEF IInv, LockFreeStackAssumption
<1>1. PICK n \in Nodes : n = mine[t]
  BY <1>0, MineIsNode
<1>2. PICK a \in Paths : a = Path
  BY <1>0 DEF PathOK
<1>3. /\ a \in Seq(Nodes)
      /\ Len(a) \in Nat
      /\ DOMAIN a = 1..Len(a)
      /\ \A i \in 1..Len(a) : a[i] \in Nodes
      /\ IsPath(a)
  BY <1>0, <1>2, PathsAreLists DEF PathOK
<1>4. head.ptr = n /\ head' = node[n].next
  BY <1>0, <1>1 DEF Knows
<1>5. /\ 1 \in DOMAIN a /\ a # <<>> /\ a[1] = n
      /\ PointerTo(a, 1) = head
  BY <1>0, <1>1, <1>2, <1>3, <1>4, HeadOfPath
<1>6. PICK b \in Seq(Nodes) : b = Tail(a)
  BY <1>3, <1>5, HeadTailProperties
<1>7. /\ Len(b) = Len(a) - 1 /\ Len(b) \in Nat
      /\ DOMAIN b = 1..Len(b)
      /\ \A i \in 1..Len(b) : i + 1 \in 2..Len(a) /\ b[i] = a[i + 1]
  <2>1. Len(b) = Len(a) - 1 /\ \A i \in 1..Len(b) : b[i] = a[i + 1]
    BY <1>3, <1>5, <1>6, HeadTailProperties
  <2> QED
    BY <1>3, <2>1
<1>8. \A i \in 2..Len(a) : i \in DOMAIN a /\ a[i] # n
  BY <1>3, <1>5 DEF IsPath
<1>9. n \in live /\ InStack(n)
  BY <1>0, <1>2, <1>5 DEF PathOK, InStack
<1>10. /\ pc'[t] = "take"
       /\ \A u \in Threads \ {t} : pc'[u] = pc[u] /\ nxt'[u] = nxt[u]
  BY <1>0 DEF TypeOK
<1>11. \A i \in 1..Len(b) + 1 : PointerTo(b, i)' = PointerTo(a, i + 1)
  <2>1. PointerTo(b, 1)' = PointerTo(a, 1 + 1)
    BY <1>4, <1>5 DEF PointerTo
  <2>2. ASSUME NEW i \in 2..Len(b) + 1 PROVE PointerTo(b, i)' = PointerTo(a, i + 1)
    <3>1. i - 1 \in 1..Len(b) /\ i # 1 /\ i + 1 # 1 /\ i + 1 - 1 = i
      BY <1>7
    <3>2. b[i - 1] = a[i]
      BY <1>7, <3>1, i - 1 + 1 = i
    <3> QED
      BY <3>1, <3>2 DEF PointerTo
  <2>3. \A i \in 1..Len(b) + 1 : i = 1 \/ i \in 2..Len(b) + 1
    BY <1>7
  <2> QED
    BY <2>1, <2>2, <2>3
<1>12. \A i, j \in DOMAIN b : b[i] = b[j] => i = j
  <2> SUFFICES ASSUME NEW i \in 1..Len(b), NEW j \in 1..Len(b), b[i] = b[j]
               PROVE  i = j
    BY <1>7
  <2>1. i + 1 \in DOMAIN a /\ j + 1 \in DOMAIN a /\ a[i + 1] = a[j + 1]
    BY <1>7, <1>8
  <2>2. i + 1 = j + 1
    BY <1>3, <2>1 DEF IsPath
  <2> QED
    BY <1>7, <2>2
<1>13. IsPath(b)'
  <2>1. ASSUME NEW i \in DOMAIN b PROVE PointerTo(b, i)'.ptr = b[i]
    <3>1. i \in 1..Len(b) + 1 /\ i + 1 \in DOMAIN a /\ b[i] = a[i + 1]
      BY <1>7, <1>8
    <3> QED
      BY <1>3, <1>11, <3>1 DEF IsPath
  <2>2. Len(b) + 1 \in 1..Len(b) + 1 /\ Len(b) + 1 + 1 = Len(a) + 1
    BY <1>3, <1>7
  <2>3. PointerTo(b, Len(b) + 1)' = PointerTo(a, Len(a) + 1)
    BY <1>11, <2>2
  <2> QED
    BY <1>3, <1>12, <2>1, <2>3 DEF IsPath
<1>14. Path' = b /\ b \in Paths
  BY <1>12, <1>13, ListsArePaths, PathIsUniqueNext
<1>15. \A m : InStack(m)' <=> InStack(m) /\ m # n
  <2>1. \A m : InStack(m)' <=> \E i \in 1..Len(b) : b[i] = m
    BY <1>7, <1>14 DEF InStack
  <2>2. \A m : InStack(m) <=> \E i \in 1..Len(a) : a[i] = m
    BY <1>2, <1>3 DEF InStack
  <2>3. ASSUME NEW i \in 1..Len(b) PROVE b[i] # n /\ \E j \in 1..Len(a) : a[j] = b[i]
    BY <1>3, <1>7, <1>8
  <2>4. ASSUME NEW j \in 1..Len(a), a[j] # n PROVE \E i \in 1..Len(b) : b[i] = a[j]
    <3>1. j - 1 \in 1..Len(b)
      BY <1>3, <1>5, <1>7, <2>4
    <3> QED
      BY <1>7, <3>1, j - 1 + 1 = j
  <2> QED
    BY <2>1, <2>2, <2>3, <2>4
<1>16. \A m \in Nodes : Refs(m)' = Refs(m)
  <2>1. \A m \in Nodes : Holders(m)' = Holders(m)
    BY <1>10 DEF Holders
  <2> QED
    BY <2>1 DEF Refs
<1>17. \A u \in Threads : Taking(u)' <=> u = t \/ Taking(u)
  BY <1>10 DEF Taking
<1>18. \A u \in Threads : Knows(u)'
  <2>1. Knows(t)'
    BY <1>0, <1>10 DEF Knows
  <2>2. ASSUME NEW u \in Threads \ {t} PROVE Knows(u)'
    BY <1>0, <1>10 DEF Knows
  <2> QED
    BY <2>1, <2>2
<1>19. NoUseAfterFree'
  BY <1>0 DEF NoUseAfterFree
<1>20. PathOK'
  <2>1. \A i \in DOMAIN b : b[i] \in live
    BY <1>0, <1>2, <1>7, <1>8 DEF PathOK
  <2> QED
    BY <1>13, <1>14, <2>1 DEF PathOK
<1>21. Linked'
  <2>1. ASSUME NEW i \in 1..Len(b)
        PROVE  /\ node[b[i]].data \in Values
               /\ node[b[i]].internal <= 0
               /\ Refs(b[i])' = PointerTo(b, i)'.count - 1 + node[b[i]].internal
    <3>1. i + 1 \in DOMAIN a /\ b[i] = a[i + 1] /\ a[i + 1] \in Nodes
      BY <1>3, <1>7, <1>8
    <3>2. i \in 1..Len(b) + 1
      BY <1>7
    <3>3. PointerTo(b, i)' = PointerTo(a, i + 1)
      BY <1>11, <3>2
    <3> QED
      BY <1>2, <1>16, <3>1, <3>3 DEF Linked, IInv
  <2> QED
    BY <1>7, <1>14, <2>1 DEF Linked
<1>22. Unpublished'
  BY <1>10, <1>15 DEF Unpublished, IInv
<1>23. Unlinked'
  <2>1. ASSUME NEW u \in Threads, Taking(u)
        PROVE u # t /\ mine[u] \in Nodes \ {n} /\ pc'[u] = pc[u]
    BY <1>0, <1>9, <1>10, <2>1, MineIsNode DEF Taking, IInv, Unlinked
  <2>2. /\ node[n].data \in Values /\ node[n].internal <= 0
        /\ Refs(n)' = old[t].count - 1 + node[n].internal
    BY <1>2, <1>5, <1>16 DEF Linked, IInv
  <2>3. ~InStack(n)'
    BY <1>15
  <2>4. ASSUME NEW u \in Threads, Taking(u)'
        PROVE  /\ ~InStack(mine[u])'
               /\ pc'[u] = "take" => node[mine[u]].data \in Values
               /\ node[mine[u]].internal <= 0
               /\ Refs(mine[u])' = old[u].count - 1 + node[mine[u]].internal
               /\ \A v \in Threads : Taking(v)' /\ mine[v] = mine[u] => v = u
    <3>1. CASE u = t
      BY <1>1, <1>17, <2>1, <2>2, <2>3, <3>1
    <3>2. CASE u # t
      <4>1. Taking(u)
        BY <1>17, <2>4, <3>2
      <4> QED
        BY <1>1, <1>15, <1>16, <1>17, <2>1, <4>1 DEF Unlinked, IInv
    <3> QED
      BY <3>1, <3>2
  <2> QED
    BY <2>4 DEF Unlinked
<1>24. Settled'
  BY <1>0, <1>1, <1>10, <1>15, <1>16, <1>17 DEF Settled, IInv, TypeOK
<1> QED
  BY <1>1, <1>2, <1>5, <1>6, <1>14, <1>18, <1>19, <1>20, <1>21, <1>22, <1>23, <1>24 DEF IInv

(* pop moves the value out of the node it has unlinked. *)
LEMMA TakeStep ==
  ASSUME IInv, TypeOK', NEW t \in Threads, Take(t)
  PROVE  IInv'
<1>0. /\ TypeOK /\ NoUseAfterFree /\ PathOK
      /\ \A u \in Threads : Knows(u)
      /\ pc[t] = "take" /\ Taking(t)
  BY DEF IInv, Take, Taking
<1>1. PICK n \in Nodes : n = mine[t]
  BY <1>0, MineIsNode
<1>2. /\ pc'[t] = "settle"
      /\ \A u \in Threads \ {t} : pc'[u] = pc[u] /\ result'[u] = result[u]
      /\ UNCHANGED <<head, live, mine, old, nxt>>
      /\ node' = [node EXCEPT ![n].data = NULL]
  BY <1>0, <1>1 DEF Take, Goto, TypeOK
<1>3. /\ ~InStack(n) /\ \A u \in Threads : mine[u] = n => u = t \/ ~Taking(u)
      /\ \A u \in Threads : pc[u] = "link" => mine[u] # n
  <2>1. ~InStack(n) /\ \A u \in Threads : mine[u] = n => u = t \/ ~Taking(u)
    BY <1>0, <1>1 DEF IInv, Unlinked
  <2>2. ASSUME NEW u \in Threads, pc[u] = "link", mine[u] = n PROVE FALSE
    BY <1>0, <1>1, <2>2 DEF IInv, Unpublished
  <2> QED
    BY <2>1, <2>2
<1>4. /\ \A m \in Nodes \ {n} : node'[m] = node[m]
      /\ \A m \in Nodes : node'[m].next = node[m].next /\ node'[m].internal = node[m].internal
  BY <1>0, <1>2 DEF TypeOK, Node
<1>5. \A i \in DOMAIN Path : Path[i] \in Nodes /\ Path[i] # n
  BY <1>0, <1>3, PathsAreLists DEF PathOK, InStack
<1>6. Path' = Path /\ IsPath(Path)'
  BY <1>0, <1>2, <1>4, <1>5, PathStays
<1>7. \A m : InStack(m)' <=> InStack(m)
  BY <1>6 DEF InStack
<1>8. \A m \in Nodes : Refs(m)' = Refs(m)
  <2>1. \A m \in Nodes : Holders(m)' = Holders(m)
    BY <1>0, <1>2 DEF Holders
  <2> QED
    BY <2>1 DEF Refs
<1>9. \A u \in Threads : Taking(u)' <=> Taking(u)
  BY <1>0, <1>2 DEF Taking
<1>10. \A u \in Threads : Knows(u)'
  <2>1. Knows(t)'
    BY <1>0, <1>2 DEF Knows
  <2>2. ASSUME NEW u \in Threads \ {t} PROVE Knows(u)'
    <3>1. pc[u] = "unlink" => mine[u] \in Nodes
      BY <1>0, MineIsNode
    <3> QED
      BY <1>0, <1>2, <1>4, <3>1 DEF Knows
  <2> QED
    BY <2>1, <2>2
<1>11. NoUseAfterFree'
  BY <1>0, <1>2 DEF NoUseAfterFree
<1>12. PathOK'
  BY <1>0, <1>2, <1>6 DEF PathOK
<1>13. Linked'
  <2>1. \A i \in DOMAIN Path : PointerTo(Path, i)' = PointerTo(Path, i)
    BY <1>0, <1>2, <1>4, <1>5, <1>6, PathsAreLists DEF PointerTo, PathOK
  <2> QED
    BY <1>4, <1>5, <1>6, <1>8, <2>1 DEF Linked, IInv
<1>14. Unpublished'
  <2>1. ASSUME NEW u \in Threads, pc'[u] = "link"
        PROVE  pc[u] = "link" /\ mine[u] \in Nodes \ {n}
    BY <1>0, <1>2, <1>3, <2>1, MineIsNode
  <2> QED
    BY <1>2, <1>4, <1>7, <2>1 DEF Unpublished, IInv
<1>15. Unlinked'
  <2>1. ASSUME NEW u \in Threads, Taking(u)
        PROVE  mine[u] \in Nodes /\ (u # t => pc'[u] = pc[u] /\ mine[u] # n)
    BY <1>0, <1>2, <1>3, <2>1, MineIsNode DEF Taking
  <2> QED
    BY <1>2, <1>4, <1>7, <1>8, <1>9, <2>1 DEF Unlinked, IInv
<1>16. Settled'
  <2>1. \A u \in Threads : pc[u] = "link" => pc'[u] = "link"
    BY <1>0, <1>2
  <2> QED
    BY <1>0, <1>2, <1>4, <1>7, <1>8, <1>9, <2>1 DEF Settled, IInv, TypeOK
<1> QED
  BY <1>10, <1>11, <1>12, <1>13, <1>14, <1>15, <1>16 DEF IInv

(* A thread gives back the references it answers for: its own, or, when it has
   unlinked the node, its own with all that were handed out. *)
LEMMA GiveBack ==
  ASSUME IInv, TypeOK', NEW t \in Threads, NEW d \in Int,
         \/ pc[t] = "release" /\ d = -1
         \/ pc[t] = "settle" /\ d = old[t].count - 2,
         node' = [node EXCEPT ![mine[t]].internal = @ + d],
         live' = IF node[mine[t]].internal + d = 0 THEN live \ {mine[t]} ELSE live,
         mine' = [mine EXCEPT ![t] = NULL],
         head' = head, nxt' = nxt,
         pc'[t] \in {"idle", "reserve"},
         \A u \in Threads \ {t} : /\ pc'[u] = pc[u] /\ old'[u] = old[u]
                                  /\ result'[u] = result[u],
         Knows(t)'
  PROVE  IInv'
<1>0. /\ TypeOK /\ NoUseAfterFree /\ PathOK
      /\ \A u \in Threads : Knows(u)
      /\ NULL \notin Nodes
  BY LockFreeStackAssumption DEF IInv, LockFreeStackAssumption
<1>1. PICK n \in Nodes : n = mine[t]
  BY <1>0, MineIsNode
<1>2. /\ n \in live /\ node[n].internal \in Int /\ mine'[t] = NULL
      /\ \A u \in Threads \ {t} : mine'[u] = mine[u]
  BY <1>0, <1>1 DEF NoUseAfterFree, TypeOK, Node
<1>3. /\ \A m \in Nodes \ {n} : node'[m] = node[m]
      /\ \A m \in Nodes : node'[m].next = node[m].next /\ node'[m].data = node[m].data
      /\ node'[n].internal = node[n].internal + d
  BY <1>0, <1>1 DEF TypeOK, Node
<1>4. \A u \in Threads : pc[u] = "link" => u # t /\ mine[u] \in Nodes \ {n} /\ pc'[u] = "link"
  <2>1. ASSUME NEW u \in Threads, pc[u] = "link" PROVE mine[u] # n
    BY <1>1, <2>1 DEF IInv, Unpublished
  <2> QED
    BY <1>0, <2>1, MineIsNode
<1>5. /\ t \in Holders(n) /\ Refs(n) \in Nat
      /\ Refs(n)' = Refs(n) - 1
      /\ \A m \in Nodes \ {n} : Refs(m)' = Refs(m)
  <2>1. t \in Holders(n) /\ Holders(n)' = Holders(n) \ {t}
    BY <1>0, <1>1, <1>2 DEF Holders
  <2>2. \A m \in Nodes \ {n} : Holders(m)' = Holders(m)
    BY <1>0, <1>1, <1>2 DEF Holders
  <2> QED
    BY <2>1, <2>2, RefsRemove, RefsFacts DEF Refs
(* Either somebody still answers for the node, or its count now is exact. *)
<1>6. \/ /\ InStack(n) \/ \E u \in Threads \ {t} : Taking(u) /\ mine[u] = n
         /\ d = -1 /\ node[n].internal <= 0
      \/ /\ ~InStack(n)
         /\ \A u \in Threads \ {t} : ~(Taking(u) /\ mine[u] = n)
         /\ node[n].internal + d = Refs(n) - 1
  <2>1. CASE InStack(n)
    <3>1. d = -1
      BY <1>1, <2>1 DEF IInv, Unlinked, Taking
    <3>2. node[n].internal <= 0
      BY <2>1 DEF IInv, Linked, InStack
    <3> QED
      BY <2>1, <3>1, <3>2
  <2>2. CASE \E u \in Threads \ {t} : Taking(u) /\ mine[u] = n
    <3>1. d = -1 /\ node[n].internal <= 0
      BY <1>1, <2>2 DEF IInv, Unlinked, Taking
    <3> QED
      BY <2>2, <3>1
  <2>3. CASE ~InStack(n) /\ \A u \in Threads \ {t} : ~(Taking(u) /\ mine[u] = n)
    <3>1. CASE Taking(t)
      <4>1. pc[t] = "settle" /\ d = old[t].count - 2 /\ old[t].count \in Int
        BY <1>0, <3>1 DEF Taking, TypeOK, Counted
      <4>2. Refs(n) = old[t].count - 1 + node[n].internal
        BY <1>1, <3>1 DEF IInv, Unlinked
      <4> QED
        BY <1>2, <1>5, <2>3, <4>1, <4>2
    <3>2. CASE ~Taking(t)
      <4>1. d = -1
        BY <3>2 DEF Taking
      <4>2. ~ \E u \in Threads : mine[u] = n /\ (Taking(u) \/ pc[u] = "link")
        BY <1>4, <2>3, <3>2
      <4>3. Refs(n) = node[n].internal
        BY <1>2, <2>3, <4>2 DEF IInv, Settled
      <4> QED
        BY <1>2, <2>3, <4>1, <4>3
    <3> QED
      BY <3>1, <3>2
  <2> QED
    BY <2>1, <2>2, <2>3
(* The node is freed exactly when nobody refers to it any more. *)
<1>7. n \in live' \/ (Refs(n)' = 0 /\ ~InStack(n) /\ live' = live \ {n})
  <2>1. live' = IF node[n].internal + d = 0 THEN live \ {n} ELSE live
    BY <1>1
  <2>2. CASE node[n].internal + d # 0
    BY <1>2, <2>1, <2>2
  <2>3. CASE node[n].internal + d = 0
    <3>1. node[n].internal + d = 0
      BY <2>3
    <3>2. ~InStack(n) /\ node[n].internal + d = Refs(n) - 1
      BY <1>2, <1>6, <3>1
    <3> QED
      BY <1>5, <2>1, <2>3, <3>1, <3>2
  <2> QED
    BY <2>2, <2>3
<1>8. \A m \in live : m \in live' \/ m = n
  BY <1>1
<1>9. ~InStack(n) \/ n \in live'
  BY <1>7
<1>10. Path' = Path /\ IsPath(Path)'
  <2>1. \A i \in DOMAIN Path : Path[i] \in Nodes
    BY <1>0, PathsAreLists DEF PathOK
  <2> QED
    BY <1>0, <1>3, <2>1, PathStays
<1>11. \A m : InStack(m)' <=> InStack(m)
  BY <1>10 DEF InStack
<1>12. \A u \in Threads \ {t} : Taking(u)' <=> Taking(u)
  BY DEF Taking
<1>13. ~Taking(t)'
  BY DEF Taking
<1>14. \A u \in Threads : Knows(u)'
  <2>1. ASSUME NEW u \in Threads \ {t} PROVE Knows(u)'
    <3>1. pc[u] = "unlink" => mine[u] \in Nodes
      BY <1>0, MineIsNode
    <3> QED
      BY <1>0, <1>2, <1>3, <3>1 DEF Knows
  <2> QED
    BY <2>1
<1>15. NoUseAfterFree'
  <2>1. ASSUME NEW u \in Threads \ {t}, mine[u] = n PROVE Refs(n)' # 0
    <3>1. u \in Holders(n)'
      <4>1. pc[u] \notin {"idle", "reserve", "link"}
        BY <1>0, <1>4, <2>1 DEF Knows
      <4> QED
        BY <1>0, <1>2, <2>1, <4>1 DEF Holders, TypeOK
    <3> QED
      BY <3>1, RefsFactsNext
  <2> QED
    BY <1>0, <1>2, <1>7, <1>8, <2>1 DEF NoUseAfterFree
<1>16. PathOK'
  <2>1. \A i \in DOMAIN Path : Path[i] \in live'
    BY <1>0, <1>8, <1>9 DEF PathOK, InStack
  <2> QED
    BY <1>0, <1>10, <2>1 DEF PathOK
<1>17. Linked'
  <2>1. \A i \in DOMAIN Path : PointerTo(Path, i)' = PointerTo(Path, i)
    BY <1>0, <1>3, <1>10, PathsAreLists DEF PointerTo, PathOK
  <2>0. \A i \in DOMAIN Path : Path[i] \in Nodes
    BY <1>0, PathsAreLists DEF PathOK
  <2>2. SUFFICES ASSUME NEW i \in DOMAIN Path, NEW m \in Nodes, m = Path[i]
                 PROVE  /\ node'[m].data \in Values
                        /\ node'[m].internal <= 0
                        /\ Refs(m)' = PointerTo(Path, i).count - 1 + node'[m].internal
    BY <1>10, <2>0, <2>1 DEF Linked
  <2>3. /\ node[m].data \in Values /\ node[m].internal <= 0
        /\ Refs(m) = PointerTo(Path, i).count - 1 + node[m].internal
    BY <2>2 DEF IInv, Linked
  <2>4. CASE m # n
    BY <1>3, <1>5, <2>3, <2>4
  <2>5. CASE m = n
    <3>1. InStack(n)
      BY <2>2, <2>5 DEF InStack
    <3>2. d = -1
      BY <1>6, <3>1
    <3>3. PointerTo(Path, i).count \in Int
      <4>1. i # 1 => i - 1 \in DOMAIN Path
        BY <1>0, PathsAreLists DEF PathOK
      <4>2. i # 1 => node[Path[i - 1]].next \in Counted
        BY <1>0, <2>0, <4>1 DEF TypeOK, Node
      <4> QED
        BY <1>0, <4>2 DEF PointerTo, TypeOK, Counted
    <3>4. Refs(m)' = PointerTo(Path, i).count - 1 + node'[m].internal
      BY <1>2, <1>3, <1>5, <2>3, <2>5, <3>2, <3>3
    <3> QED
      BY <1>2, <1>3, <2>3, <2>5, <3>2, <3>4
  <2> QED
    BY <2>4, <2>5
<1>18. Unpublished'
  <2>1. ASSUME NEW u \in Threads, pc'[u] = "link"
        PROVE  /\ u # t /\ mine[u] \in Nodes \ {n}
               /\ pc[u] = "link" /\ mine'[u] = mine[u]
    BY <1>2, <1>4, <2>1
  <2>2. \A u \in Threads : mine'[u] = mine[u] \/ mine'[u] \notin Nodes
    BY <1>0, <1>2
  <2> QED
    BY <1>3, <1>11, <2>1, <2>2 DEF Unpublished, IInv
<1>19. Unlinked'
  <2>0. \A u \in Threads : Taking(u) => mine[u] \in Nodes
    BY <1>0, MineIsNode DEF Taking
  <2>1. SUFFICES ASSUME NEW u \in Threads \ {t}, Taking(u), NEW m \in Nodes, m = mine[u]
                 PROVE  /\ ~InStack(m)
                        /\ pc[u] = "take" => node'[m].data \in Values
                        /\ node'[m].internal <= 0
                        /\ Refs(m)' = old[u].count - 1 + node'[m].internal
                        /\ \A v \in Threads : Taking(v)' /\ mine'[v] = m => v = u
    BY <1>2, <1>11, <1>12, <1>13, <2>0 DEF Unlinked
  <2>2. /\ ~InStack(m) /\ (pc[u] = "take" => node[m].data \in Values)
        /\ node[m].internal <= 0
        /\ Refs(m) = old[u].count - 1 + node[m].internal
        /\ \A v \in Threads : Taking(v) /\ mine[v] = m => v = u
    BY <2>1 DEF IInv, Unlinked
  <2>3. \A v \in Threads : Taking(v)' /\ mine'[v] = m => v = u
    BY <1>2, <1>12, <1>13, <2>2
  <2>4. CASE m # n
    BY <1>3, <1>5, <2>2, <2>3, <2>4
  <2>5. CASE m = n
    <3>1. d = -1
      BY <1>6, <2>1, <2>5
    <3>2. old[u].count \in Int
      BY <1>0 DEF TypeOK, Counted
    <3>3. Refs(m)' = old[u].count - 1 + node'[m].internal
      BY <1>2, <1>3, <1>5, <2>2, <2>5, <3>1, <3>2
    <3> QED
      BY <1>2, <1>3, <2>2, <2>3, <2>5, <3>1, <3>3
  <2> QED
    BY <2>4, <2>5
<1>20. Settled'
  <2> SUFFICES ASSUME NEW m \in live', ~InStack(m),
                      ~ \E u \in Threads : mine'[u] = m /\ (Taking(u)' \/ pc'[u] = "link")
               PROVE  node'[m].internal > 0 /\ Refs(m)' = node'[m].internal
    BY <1>11 DEF Settled
  <2>1. m \in live /\ m \in Nodes
    BY <1>0 DEF TypeOK
  <2>2. ~ \E u \in Threads \ {t} : mine[u] = m /\ (Taking(u) \/ pc[u] = "link")
    BY <1>2, <1>12
  <2>3. CASE m # n
    <3>1. ~ \E u \in Threads : mine[u] = m /\ (Taking(u) \/ pc[u] = "link")
      BY <1>1, <2>2, <2>3
    <3>2. node[m].internal > 0 /\ Refs(m) = node[m].internal
      BY <2>1, <3>1 DEF IInv, Settled
    <3> QED
      BY <1>3, <1>5, <2>1, <2>3, <3>2
  <2>4. CASE m = n
    <3>1. node[n].internal + d = Refs(n) - 1
      BY <1>6, <2>2, <2>4
    <3>2. node[n].internal + d # 0
      BY <1>1, <2>4
    <3>3. node'[n].internal # 0
      BY <1>2, <1>3, <3>2
    <3>4. Refs(n)' = node'[n].internal /\ Refs(n)' \in Nat
      BY <1>3, <1>5, <3>1, RefsFactsNext
    <3> QED
      BY <2>4, <3>3, <3>4
  <2> QED
    BY <2>3, <2>4
<1> QED
  BY <1>14, <1>15, <1>16, <1>17, <1>18, <1>19, <1>20 DEF IInv

(* What a thread knows after it has looked at a head. *)
LEMMA SawKnows ==
  ASSUME TypeOK, NEW t \in Threads, NEW h, Saw(t, h), mine'[t] = NULL,
         result[t] = Nothing
  PROVE  /\ pc'[t] \in {"idle", "reserve"}
         /\ Knows(t)'
         /\ \A u \in Threads \ {t} : /\ pc'[u] = pc[u] /\ old'[u] = old[u]
                                     /\ result'[u] = result[u]
BY DEF Saw, Goto, TypeOK, Knows

(* Every step keeps the invariant. *)
LEMMA InvariantStep ==
  ASSUME IInv, [Next]_vars
  PROVE  IInv'
<1>0. /\ TypeOK /\ TypeOK'
      /\ \A u \in Threads : Knows(u)
  BY TypeStep DEF IInv
<1>1. ASSUME NEW t \in Threads, NEW n \in Nodes, New(t, n) PROVE IInv'
  BY <1>0, <1>1, NewStep
<1>2. ASSUME NEW t \in Threads, Link(t) PROVE IInv'
  <2>1. CASE head' = [count |-> 1, ptr |-> mine[t]] /\ head = node[mine[t]].next
                /\ mine' = [mine EXCEPT ![t] = NULL] /\ Goto(t, "idle") /\ UNCHANGED node
    BY <1>0, <1>2, <2>1, LinkSucceeds DEF Link, Goto
  <2>2. CASE node' = [node EXCEPT ![mine[t]].next = head] /\ UNCHANGED <<head, mine, pc>>
    BY <1>0, <1>2, <2>2, LinkFails DEF Link
  <2> QED
    BY <1>2, <2>1, <2>2 DEF Link
<1>3. ASSUME NEW t \in Threads, Load(t) PROVE IInv'
  <2>1. pc[t] = "idle" /\ result[t] = Nothing /\ mine[t] = NULL /\ Saw(t, head)
        /\ UNCHANGED <<head, node, live, mine, nxt>>
    BY <1>0, <1>3 DEF Load, Knows
  <2>2. /\ pc'[t] \in {"idle", "reserve"}
        /\ Knows(t)'
        /\ \A u \in Threads \ {t} : /\ pc'[u] = pc[u] /\ old'[u] = old[u]
                                    /\ result'[u] = result[u]
    BY <1>0, <2>1, SawKnows
  <2> QED
    BY <1>0, <2>1, <2>2, LocalStep
<1>4. ASSUME NEW t \in Threads, Reserve(t) PROVE IInv'
  <2>1. CASE head = old[t]
    BY <1>0, <1>4, <2>1, ReserveSucceeds DEF Reserve, Goto
  <2>2. CASE head # old[t]
    <3>1. pc[t] = "reserve" /\ result[t] = Nothing /\ mine[t] = NULL /\ Saw(t, head)
          /\ UNCHANGED <<head, node, live, mine, nxt>>
      BY <1>0, <1>4, <2>2 DEF Reserve, Knows
    <3>2. /\ pc'[t] \in {"idle", "reserve"}
          /\ Knows(t)'
          /\ \A u \in Threads \ {t} : /\ pc'[u] = pc[u] /\ old'[u] = old[u]
                                      /\ result'[u] = result[u]
      BY <1>0, <3>1, SawKnows
    <3> QED
      BY <1>0, <3>1, <3>2, LocalStep
  <2> QED
    BY <2>1, <2>2
<1>5. ASSUME NEW t \in Threads, ReadNext(t) PROVE IInv'
  <2>1. /\ pc[t] = "next" /\ pc'[t] = "unlink" /\ nxt'[t] = node[mine[t]].next
        /\ UNCHANGED <<head, node, live, mine, old, result>>
        /\ \A u \in Threads \ {t} : pc'[u] = pc[u] /\ nxt'[u] = nxt[u]
    BY <1>0, <1>5 DEF ReadNext, Goto, TypeOK
  <2>2. Knows(t)'
    BY <1>0, <2>1 DEF Knows
  <2> QED
    BY <1>0, <2>1, <2>2, LocalStep
<1>6. ASSUME NEW t \in Threads, Unlink(t) PROVE IInv'
  <2>1. CASE head = old[t]
    BY <1>0, <1>6, <2>1, UnlinkSucceeds DEF Unlink, Goto
  <2>2. CASE head # old[t]
    <3>1. /\ pc[t] = "unlink" /\ pc'[t] = "release"
          /\ UNCHANGED <<head, node, live, mine, result>>
          /\ \A u \in Threads \ {t} : pc'[u] = pc[u] /\ nxt'[u] = nxt[u] /\ old'[u] = old[u]
      BY <1>0, <1>6, <2>2 DEF Unlink, Goto, TypeOK
    <3>2. Knows(t)'
      BY <1>0, <3>1 DEF Knows
    <3> QED
      BY <1>0, <3>1, <3>2, LocalStep
  <2> QED
    BY <2>1, <2>2
<1>7. ASSUME NEW t \in Threads, Take(t) PROVE IInv'
  BY <1>0, <1>7, TakeStep
<1>8. ASSUME NEW t \in Threads, Settle(t) PROVE IInv'
  <2>1. PICK d \in Int : d = old[t].count - 2
    BY <1>0 DEF TypeOK, Counted
  <2>2. /\ pc[t] = "settle"
        /\ node' = [node EXCEPT ![mine[t]].internal = @ + d]
        /\ live' = IF node[mine[t]].internal + d = 0 THEN live \ {mine[t]} ELSE live
        /\ mine' = [mine EXCEPT ![t] = NULL]
        /\ UNCHANGED <<head, nxt, result>>
    <3>1. mine[t] \in Nodes
      BY <1>0, <1>8, MineIsNode DEF Settle
    <3>2. PICK x \in Int : x = node[mine[t]].internal
      BY <1>0, <3>1 DEF TypeOK, Node
    <3>3. x = -d <=> x + d = 0
      OBVIOUS
    <3> QED
      BY <1>8, <2>1, <3>2, <3>3 DEF Settle
  <2>3. /\ pc'[t] = "idle" /\ mine'[t] = NULL
        /\ \A u \in Threads \ {t} : pc'[u] = pc[u] /\ old'[u] = old[u]
    BY <1>0, <1>8 DEF Settle, Goto, TypeOK
  <2>4. Knows(t)'
    BY <2>3 DEF Knows
  <2> QED
    BY <1>0, <2>1, <2>2, <2>3, <2>4, GiveBack
<1>9. ASSUME NEW t \in Threads, Release(t) PROVE IInv'
  <2>1. PICK d \in Int : d = -1
    OBVIOUS
  <2>2. /\ pc[t] = "release" /\ result[t] = Nothing /\ Saw(t, old[t])
        /\ node' = [node EXCEPT ![mine[t]].internal = @ + d]
        /\ live' = IF node[mine[t]].internal + d = 0 THEN live \ {mine[t]} ELSE live
        /\ mine' = [mine EXCEPT ![t] = NULL]
        /\ UNCHANGED <<head, nxt>>
    <3>1. mine[t] \in Nodes
      BY <1>0, <1>9, MineIsNode DEF Release
    <3>2. node[mine[t]].internal \in Int
      BY <1>0, <3>1 DEF TypeOK, Node
    <3>3. /\ node[mine[t]].internal - 1 = node[mine[t]].internal + d
          /\ node[mine[t]].internal = 1 <=> node[mine[t]].internal + d = 0
      <4>1. PICK x \in Int : x = node[mine[t]].internal
        BY <3>2
      <4>2. x - 1 = x + d /\ (x = 1 <=> x + d = 0)
        BY <2>1
      <4> QED
        BY <4>1, <4>2
    <3>4. /\ pc[t] = "release" /\ Saw(t, old[t])
          /\ node' = [node EXCEPT ![mine[t]].internal = @ - 1]
          /\ live' = IF node[mine[t]].internal = 1 THEN live \ {mine[t]} ELSE live
          /\ mine' = [mine EXCEPT ![t] = NULL]
          /\ UNCHANGED <<head, nxt>>
      BY <1>9 DEF Release
    <3>5. result[t] = Nothing
      BY <1>0, <3>4 DEF Knows
    <3>6. node' = [node EXCEPT ![mine[t]].internal = node[mine[t]].internal + d]
      BY <3>3, <3>4
    <3>7. live' = IF node[mine[t]].internal + d = 0 THEN live \ {mine[t]} ELSE live
      BY <3>3, <3>4
    <3> QED
      BY <3>4, <3>5, <3>6, <3>7
  <2>3. mine'[t] = NULL
    BY <1>0, <2>2 DEF TypeOK
  <2>4. /\ pc'[t] \in {"idle", "reserve"}
        /\ Knows(t)'
        /\ \A u \in Threads \ {t} : /\ pc'[u] = pc[u] /\ old'[u] = old[u]
                                    /\ result'[u] = result[u]
    BY <1>0, <2>2, <2>3, SawKnows
  <2> QED
    BY <1>0, <2>1, <2>2, <2>4, GiveBack
<1>10. ASSUME NEW t \in Threads, Return(t) PROVE IInv'
  <2>1. /\ pc[t] = "idle" /\ UNCHANGED <<head, node, live, pc, mine, nxt>>
        /\ \A u \in Threads \ {t} : old'[u] = old[u] /\ result'[u] = result[u]
    BY <1>0, <1>10 DEF Return, TypeOK
  <2>2. Knows(t)'
    BY <1>0, <2>1 DEF Knows
  <2> QED
    BY <1>0, <2>1, <2>2, LocalStep
<1>11. CASE UNCHANGED vars
  <2>1. UNCHANGED <<head, node, live, pc, mine, old, nxt, result>>
    BY <1>11 DEF vars
  <2>2. Path' = Path /\ IsPath(Path)'
    BY <2>1, PathStays DEF IInv
  <2>3. /\ \A n : InStack(n)' <=> InStack(n)
        /\ \A n : Refs(n)' = Refs(n)
        /\ \A i : PointerTo(Path, i)' = PointerTo(Path, i)
        /\ \A t : Taking(t)' <=> Taking(t)
    BY <2>1, <2>2 DEF InStack, Refs, Holders, PointerTo, Taking
  <2>4. NoUseAfterFree' /\ PathOK' /\ \A t \in Threads : Knows(t)'
    BY <2>1, <2>2 DEF IInv, NoUseAfterFree, PathOK, Knows
  <2>5. Linked'
    BY <2>1, <2>2, <2>3 DEF IInv, Linked
  <2>6. Unpublished'
    BY <2>1, <2>3 DEF IInv, Unpublished
  <2>7. Unlinked'
    BY <2>1, <2>3 DEF IInv, Unlinked
  <2>8. Settled'
    BY <2>1, <2>3 DEF IInv, Settled
  <2> QED
    BY <1>0, <2>4, <2>5, <2>6, <2>7, <2>8 DEF IInv
<1> QED
  BY <1>1, <1>2, <1>3, <1>4, <1>5, <1>6, <1>7, <1>8, <1>9, <1>10, <1>11 DEF Next

(* It holds of the empty stack. *)
LEMMA InvariantInit ==
  ASSUME Init
  PROVE  IInv /\ Path = <<>>
<1> USE LockFreeStackAssumption DEF LockFreeStackAssumption
<1>1. TypeOK
  BY DEF Init, TypeOK, Counted, Node, Pointers, Null
<1>2. <<>> \in Paths /\ IsPath(<<>>)
  <2>1. <<>> \in Paths
    <3>1. PICK a : a = <<>>
      OBVIOUS
    <3>2. a \in Seq(Nodes) /\ DOMAIN a = {}
      BY <3>1
    <3>3. a \in Paths
      BY <3>2, ListsArePaths
    <3> QED
      BY <3>1, <3>3
  <2>2. IsPath(<<>>)
    BY DEF IsPath, PointerTo, Init, Null
  <2> QED
    BY <2>1, <2>2
<1>3. Path = <<>>
  BY <1>2, PathIsUnique
<1>4. PathOK /\ Linked
  BY <1>2, <1>3 DEF PathOK, Linked
<1>5. \A t \in Threads : pc[t] = "idle" /\ mine[t] = NULL
  BY DEF Init
<1>6. NoUseAfterFree /\ Unpublished /\ Unlinked /\ \A t \in Threads : Knows(t)
  BY <1>5 DEF NoUseAfterFree, Unpublished, Unlinked, Taking, Knows
<1>7. Settled
  BY DEF Settled, Init
<1> QED
  BY <1>1, <1>3, <1>4, <1>6, <1>7 DEF IInv

THEOREM Invariance == Spec => []IInv
<1>1. Init => IInv
  BY InvariantInit
<1>2. IInv /\ [Next]_vars => IInv'
  BY InvariantStep
<1> QED
  BY <1>1, <1>2, PTL DEF Spec

(* No thread reads or writes a node that was freed, whether or not its address
   has been allocated again: pop's split counts protect every access. *)
THEOREM MemorySafe == Spec => []NoUseAfterFree
<1>1. IInv => NoUseAfterFree
  BY DEF IInv
<1> QED
  BY <1>1, Invariance, PTL

(* The external and the internal count of a node always tell exactly how many
   threads hold a reference to it. *)
THEOREM CountsExact == Spec => []ReferencesCounted
<1>1. IInv => ReferencesCounted
  <2> SUFFICES ASSUME IInv, NEW n \in live
               PROVE  IF InStack(n)
                        THEN \E i \in DOMAIN Path :
                               Path[i] = n /\ Refs(n) = PointerTo(Path, i).count - 1 + node[n].internal
                      ELSE IF \E t \in Holders(n) : pc[t] \in {"take", "settle"}
                        THEN \E t \in Holders(n) :
                               /\ pc[t] \in {"take", "settle"}
                               /\ Refs(n) = old[t].count - 1 + node[n].internal
                      ELSE IF \E t \in Threads : mine[t] = n /\ pc[t] = "link"
                        THEN Refs(n) = 0 /\ node[n].internal = 0
                        ELSE Refs(n) = node[n].internal /\ Refs(n) > 0
    BY DEF ReferencesCounted, Refs, IInv
  <2>0. n \in Nodes
    BY DEF IInv, TypeOK
  <2>1. CASE InStack(n)
    BY <2>1 DEF IInv, Linked, InStack
  <2>2. CASE ~InStack(n) /\ \E t \in Holders(n) : pc[t] \in {"take", "settle"}
    BY <2>2 DEF IInv, Unlinked, Taking, Holders
  <2>3. CASE /\ ~InStack(n) /\ ~ \E t \in Holders(n) : pc[t] \in {"take", "settle"}
             /\ \E t \in Threads : mine[t] = n /\ pc[t] = "link"
    <3>1. node[n].internal = 0
      BY <2>3 DEF IInv, Unpublished
    <3>2. Holders(n) = {}
      BY <2>3 DEF IInv, Unpublished, Holders
    <3> QED
      BY <2>0, <2>3, <3>1, <3>2, RefsFacts
  <2>4. CASE /\ ~InStack(n) /\ ~ \E t \in Holders(n) : pc[t] \in {"take", "settle"}
             /\ ~ \E t \in Threads : mine[t] = n /\ pc[t] = "link"
    <3>1. node[n].internal > 0 /\ Refs(n) = node[n].internal
      BY <2>4 DEF IInv, Settled, Taking, Holders
    <3> QED
      BY <2>4, <3>1
  <2> QED
    BY <2>1, <2>2, <2>3, <2>4
<1> QED
  BY <1>1, Invariance, PTL

(* No node is lost: what is allocated is in the stack or in the hands of a
   thread that will free it. *)
THEOREM NothingLeaks == Spec => []NoLeak
<1>1. IInv => NoLeak
  <2> SUFFICES ASSUME IInv, NEW n \in live, ~InStack(n)
               PROVE  \E t \in Threads : mine[t] = n
    BY DEF NoLeak
  <2>1. n \in Nodes
    BY DEF IInv, TypeOK
  <2>2. CASE node[n].internal > 0 /\ Refs(n) = node[n].internal
    <3>1. Holders(n) # {}
      BY <2>1, <2>2, RefsFacts
    <3> QED
      BY <3>1 DEF Holders
  <2> QED
    BY <2>2 DEF IInv, Settled
<1> QED
  BY <1>1, Invariance, PTL

-----------------------------------------------------------------------------
(* The refinement: each access is one call on the abstract stack or none. *)
LEMMA StackedFacts ==
  IInv => /\ Stacked \in Seq(Values)
          /\ Len(Stacked) = Len(Path) /\ Len(Path) \in Nat
          /\ DOMAIN Path = 1..Len(Path)
          /\ \A i \in 1..Len(Path) : /\ Path[i] \in Nodes
                                     /\ Stacked[i] = node[Path[i]].data
<1> SUFFICES ASSUME IInv
             PROVE  /\ Stacked \in Seq(Values)
                    /\ Len(Stacked) = Len(Path) /\ Len(Path) \in Nat
                    /\ DOMAIN Path = 1..Len(Path)
                    /\ \A i \in 1..Len(Path) : /\ Path[i] \in Nodes
                                               /\ Stacked[i] = node[Path[i]].data
  OBVIOUS
<1>1. /\ Len(Path) \in Nat /\ DOMAIN Path = 1..Len(Path)
      /\ \A i \in 1..Len(Path) : Path[i] \in Nodes
  BY PathsAreLists DEF IInv, PathOK
<1>2. \A i \in 1..Len(Path) : node[Path[i]].data \in Values
  BY <1>1 DEF IInv, Linked
<1>3. Stacked \in [1..Len(Path) -> Values]
  BY <1>1, <1>2 DEF Stacked
<1>4. Stacked \in Seq(Values) /\ Len(Stacked) = Len(Path)
  BY <1>1, <1>3
<1> QED
  BY <1>1, <1>4 DEF Stacked

LEMMA StackedFactsNext ==
  (IInv => /\ Stacked \in Seq(Values)
           /\ Len(Stacked) = Len(Path) /\ Len(Path) \in Nat
           /\ DOMAIN Path = 1..Len(Path)
           /\ \A i \in 1..Len(Path) : /\ Path[i] \in Nodes
                                      /\ Stacked[i] = node[Path[i]].data)'
BY StackedFacts, PTL

(* The abstract stack stays as long as the path and its values do. *)
LEMMA StackedStays ==
  ASSUME IInv, head'.ptr = head.ptr,
         \A i \in DOMAIN Path : /\ node'[Path[i]].next = node[Path[i]].next
                                /\ node'[Path[i]].data = node[Path[i]].data
  PROVE  Stacked' = Stacked
BY PathStays DEF Stacked, IInv

(* What another thread's pop has taken stays. *)
LEMMA GotStays ==
  ASSUME NEW u, pc'[u] = pc[u], mine'[u] = mine[u], old'[u] = old[u],
         result'[u] = result[u],
         pc[u] = "take" => node'[mine[u]].data = node[mine[u]].data
  PROVE  Got(u)' = Got(u)
BY DEF Got

(* A call on the abstract stack. *)
LEMMA OneGotChanges ==
  ASSUME NEW t \in Threads, \A u \in Threads \ {t} : Got(u)' = Got(u)
  PROVE  [u \in Threads |-> Got(u)]' = [[u \in Threads |-> Got(u)] EXCEPT ![t] = Got(t)']
OBVIOUS

LEMMA AbstractPop ==
  ASSUME IInv, IInv', NEW t \in Threads, Got(t) = Nothing,
         \A u \in Threads \ {t} : Got(u)' = Got(u),
         \/ Stacked = <<>> /\ Stacked' = <<>> /\ Got(t)' = Empty
         \/ Stacked # <<>> /\ Stacked' = Tail(Stacked) /\ Got(t)' = Head(Stacked)
  PROVE  Lifo!Next
<1>1. [u \in Threads |-> Got(u)]' = [[u \in Threads |-> Got(u)] EXCEPT ![t] = Got(t)']
  BY OneGotChanges
<1>2. Lifo!Pop(t)
  BY <1>1 DEF Lifo!Pop
<1> QED
  BY <1>2 DEF Lifo!Next

LEMMA AbstractStutter ==
  ASSUME Stacked' = Stacked, \A u \in Threads : Got(u)' = Got(u)
  PROVE  UNCHANGED Lifo!vars
BY DEF Lifo!vars

LEMMA AbstractReturn ==
  ASSUME NEW t \in Threads, Stacked' = Stacked,
         \A u \in Threads \ {t} : Got(u)' = Got(u),
         Got(t) # Nothing, Got(t)' = Nothing
  PROVE  Lifo!Next
<1>1. [u \in Threads |-> Got(u)]' = [[u \in Threads |-> Got(u)] EXCEPT ![t] = Got(t)']
  BY OneGotChanges
<1>2. Lifo!Return(t)
  BY <1>1 DEF Lifo!Return
<1> QED
  BY <1>2 DEF Lifo!Next

LEMMA RefinementInit ==
  ASSUME Init
  PROVE  Lifo!Init
<1>1. Stacked = <<>>
  BY InvariantInit DEF Stacked
<1>2. \A t \in Threads : Got(t) = Nothing
  BY DEF Init, Got
<1> QED
  BY <1>1, <1>2 DEF Lifo!Init

(* The exchange that publishes the node is the push of its value. *)
LEMMA LinkIsPush ==
  ASSUME IInv, IInv', NEW t \in Threads, pc[t] = "link",
         Path' = <<mine[t]>> \o Path,
         mine' = [mine EXCEPT ![t] = NULL],
         pc' = [pc EXCEPT ![t] = "idle"],
         UNCHANGED <<node, old, result>>
  PROVE  Lifo!Next
<1>0. TypeOK /\ Knows(t)
  BY DEF IInv
<1>1. PICK v \in Values : v = node[mine[t]].data
  BY DEF IInv, Unpublished
<1>2. PICK a : a = Path
  OBVIOUS
<1>3. /\ Stacked \in Seq(Values) /\ Len(Stacked) = Len(a) /\ Len(a) \in Nat
      /\ DOMAIN a = 1..Len(a)
      /\ \A i \in 1..Len(a) : a[i] \in Nodes /\ Stacked[i] = node[a[i]].data
  BY <1>2, StackedFacts
<1>4. a \in Seq(Nodes) /\ mine[t] \in Nodes
  BY <1>0, <1>2, PathsAreLists, MineIsNode DEF IInv, PathOK
<1>5. PICK b \in Seq(Nodes) : b = <<mine[t]>> \o a
  <2>1. <<mine[t]>> \in Seq(Nodes)
    BY <1>4
  <2>2. <<mine[t]>> \o a \in Seq(Nodes)
    BY <1>4, <2>1, ConcatProperties
  <2> QED
    BY <2>2
<1>6. /\ Len(b) = Len(a) + 1 /\ b[1] = mine[t]
      /\ \A i \in 1..Len(a) : b[i + 1] = a[i]
  BY <1>3, <1>4, <1>5
<1>7. /\ Stacked' \in Seq(Values) /\ Len(Stacked') = Len(a) + 1
      /\ \A i \in 1..Len(a) + 1 : Stacked'[i] = node[b[i]].data
  BY <1>2, <1>5, <1>6, StackedFactsNext
<1>8. PICK c : c = <<v>> \o Stacked
  OBVIOUS
<1>9. /\ c \in Seq(Values) /\ Len(c) = Len(a) + 1 /\ c[1] = v
      /\ \A i \in 1..Len(a) : c[i + 1] = Stacked[i]
  BY <1>3, <1>8
<1>10. \A i \in 1..Len(a) + 1 : Stacked'[i] = c[i]
  <2> SUFFICES ASSUME NEW i \in 1..Len(a) + 1 PROVE Stacked'[i] = c[i]
    OBVIOUS
  <2>1. CASE i = 1
    BY <1>1, <1>6, <1>7, <1>9, <2>1
  <2>2. CASE i # 1
    <3>1. i - 1 \in 1..Len(a) /\ i - 1 + 1 = i
      BY <1>3, <2>2
    <3>2. b[i] = a[i - 1] /\ c[i] = Stacked[i - 1]
      BY <1>6, <1>9, <3>1
    <3> QED
      BY <1>3, <1>7, <3>1, <3>2
  <2> QED
    BY <2>1, <2>2
<1>11. Stacked' = <<v>> \o Stacked
  <2>1. PICK d : d = Stacked'
    OBVIOUS
  <2>2. d = c
    BY <1>7, <1>9, <1>10, <2>1, SeqEqual
  <2> QED
    BY <1>8, <2>1, <2>2
<1>12. \A u \in Threads : Got(u)' = Got(u)
  BY <1>0 DEF Got, IInv, TypeOK
<1>13. Lifo!Push(v)
  BY <1>11, <1>12 DEF Lifo!Push
<1> QED
  BY <1>13 DEF Lifo!Next

LEMMA RefinementStep ==
  ASSUME IInv, IInv', [Next]_vars
  PROVE  [Lifo!Next]_(Lifo!vars)
<1>0. /\ TypeOK /\ PathOK
      /\ \A u \in Threads : Knows(u)
  BY DEF IInv
<1>0a. \A i \in DOMAIN Path : Path[i] \in Nodes /\ Path[i] \in live /\ InStack(Path[i])
  BY <1>0, PathsAreLists DEF PathOK, InStack
<1>1. ASSUME NEW t \in Threads, NEW n \in Nodes, New(t, n) PROVE UNCHANGED Lifo!vars
  <2>1. /\ head' = head /\ n \notin live
        /\ pc[t] = "idle" /\ pc'[t] = "link" /\ UNCHANGED <<old, result>>
        /\ \A m \in Nodes \ {n} : node'[m] = node[m]
        /\ \A u \in Threads \ {t} : pc'[u] = pc[u] /\ mine'[u] = mine[u]
    BY <1>0, <1>1 DEF New, Goto, TypeOK
  <2>2. Stacked' = Stacked
    BY <1>0a, <2>1, StackedStays
  <2>3. \A u \in Threads : pc[u] = "take" => mine[u] \in Nodes \ {n}
    BY <1>0, <2>1, MineIsNode DEF IInv, NoUseAfterFree, Knows
  <2>4. \A u \in Threads : Got(u)' = Got(u)
    BY <2>1, <2>3, GotStays DEF Got
  <2> QED
    BY <2>2, <2>4, AbstractStutter
<1>2. ASSUME NEW t \in Threads, Link(t) PROVE Lifo!Next \/ UNCHANGED Lifo!vars
  <2>1. CASE /\ head = node[mine[t]].next
             /\ head' = [count |-> 1, ptr |-> mine[t]]
             /\ mine' = [mine EXCEPT ![t] = NULL]
             /\ Goto(t, "idle")
             /\ UNCHANGED node
    <3>1. /\ pc[t] = "link" /\ pc' = [pc EXCEPT ![t] = "idle"]
          /\ UNCHANGED <<live, old, nxt, result>>
      BY <1>2, <2>1 DEF Link, Goto
    <3>2. Path' = <<mine[t]>> \o Path
      BY <2>1, <3>1, LinkSucceeds DEF IInv
    <3> QED
      BY <2>1, <3>1, <3>2, LinkIsPush
  <2>2. CASE node' = [node EXCEPT ![mine[t]].next = head] /\ UNCHANGED <<head, mine, pc>>
    <3>1. /\ mine[t] \in Nodes /\ ~InStack(mine[t]) /\ UNCHANGED <<old, result>>
      BY <1>0, <1>2, MineIsNode DEF Link, IInv, Unpublished
    <3>2. /\ \A m \in Nodes \ {mine[t]} : node'[m] = node[m]
          /\ \A m \in Nodes : node'[m].data = node[m].data
      BY <1>0, <2>2, <3>1 DEF TypeOK, Node
    <3>3. Stacked' = Stacked
      BY <1>0a, <2>2, <3>1, <3>2, StackedStays
    <3>4. \A u \in Threads : pc[u] = "take" => mine[u] \in Nodes
      BY <1>0, MineIsNode
    <3>5. \A u \in Threads : Got(u)' = Got(u)
      BY <2>2, <3>1, <3>2, <3>4, GotStays
    <3> QED
      BY <3>3, <3>5, AbstractStutter
  <2> QED
    BY <1>2, <2>1, <2>2 DEF Link
(* A look at the head: a pop that finds nothing, or nothing yet. *)
<1>3. ASSUME NEW t \in Threads, pc[t] \in {"idle", "reserve"}, result[t] = Nothing,
             Saw(t, head), UNCHANGED <<head, node, mine>>
      PROVE  Lifo!Next \/ UNCHANGED Lifo!vars
  <2>1. \A u \in Threads \ {t} : pc'[u] = pc[u] /\ old'[u] = old[u] /\ result'[u] = result[u]
    BY <1>0, <1>3 DEF Saw, Goto, TypeOK
  <2>2. \A u \in Threads \ {t} : Got(u)' = Got(u)
    BY <1>3, <2>1, GotStays
  <2>3. Stacked' = Stacked
    BY <1>3, StackedStays
  <2>4. Got(t) = Nothing
    BY <1>3 DEF Got
  <2>5. CASE head.ptr = NULL
    <3>1. Stacked = <<>>
      BY <1>0, <2>5, HeadOfPath DEF Stacked
    <3>2. Got(t)' = Empty
      BY <1>0, <1>3, <2>5 DEF Saw, Goto, Got, TypeOK
    <3> QED
      BY <2>2, <2>3, <2>4, <3>1, <3>2, AbstractPop
  <2>6. CASE head.ptr # NULL
    <3>1. Got(t)' = Nothing
      BY <1>0, <1>3, <2>6 DEF Saw, Goto, Got, TypeOK
    <3> QED
      BY <2>2, <2>3, <2>4, <3>1, AbstractStutter
  <2> QED
    BY <2>5, <2>6
<1>4. ASSUME NEW t \in Threads, Load(t) PROVE Lifo!Next \/ UNCHANGED Lifo!vars
  BY <1>3, <1>4 DEF Load
<1>5. ASSUME NEW t \in Threads, Reserve(t) PROVE Lifo!Next \/ UNCHANGED Lifo!vars
  <2>1. pc[t] = "reserve" /\ result[t] = Nothing /\ UNCHANGED node
    BY <1>0, <1>5 DEF Reserve, Knows
  <2>2. CASE head # old[t]
    BY <1>3, <1>5, <2>1, <2>2 DEF Reserve
  <2>3. CASE head = old[t]
    <3>1. /\ head'.ptr = head.ptr /\ pc'[t] = "next" /\ result' = result
          /\ \A u \in Threads \ {t} : pc'[u] = pc[u] /\ old'[u] = old[u] /\ mine'[u] = mine[u]
      BY <1>0, <1>5, <2>3 DEF Reserve, Goto, TypeOK, Counted
    <3>2. Stacked' = Stacked
      BY <2>1, <3>1, StackedStays
    <3>3. \A u \in Threads \ {t} : Got(u)' = Got(u)
      BY <2>1, <3>1, GotStays
    <3>4. Got(t)' = Got(t)
      BY <2>1, <3>1 DEF Got
    <3> QED
      BY <3>2, <3>3, <3>4, AbstractStutter
  <2> QED
    BY <2>2, <2>3
<1>6. ASSUME NEW t \in Threads, ReadNext(t) PROVE UNCHANGED Lifo!vars
  <2>1. /\ pc[t] = "next" /\ pc'[t] = "unlink" /\ UNCHANGED <<head, node, mine, old, result>>
        /\ \A u \in Threads \ {t} : pc'[u] = pc[u]
    BY <1>0, <1>6 DEF ReadNext, Goto, TypeOK
  <2>2. Stacked' = Stacked
    BY <2>1, StackedStays
  <2>3. \A u \in Threads : Got(u)' = Got(u)
    BY <2>1, GotStays DEF Got
  <2> QED
    BY <2>2, <2>3, AbstractStutter
<1>7. ASSUME NEW t \in Threads, Unlink(t) PROVE Lifo!Next \/ UNCHANGED Lifo!vars
  <2>1. /\ pc[t] = "unlink" /\ result[t] = Nothing /\ Got(t) = Nothing
        /\ UNCHANGED <<node, live, mine, result>>
    BY <1>0, <1>7 DEF Unlink, Knows, Got
  <2>2. CASE head = old[t]
    <3>1. /\ head' = nxt[t] /\ old' = old
          /\ pc' = [pc EXCEPT ![t] = "take"] /\ nxt' = [nxt EXCEPT ![t] = Null]
      BY <1>7, <2>2 DEF Unlink, Goto
    <3>2. 1 \in DOMAIN Path /\ Path[1] = mine[t] /\ Path' = Tail(Path)
      BY <2>1, <2>2, <3>1, UnlinkSucceeds DEF IInv
    <3>3. /\ pc'[t] = "take" /\ \A u \in Threads \ {t} : pc'[u] = pc[u]
      BY <1>0, <3>1 DEF TypeOK
    <3>4. \A u \in Threads \ {t} : Got(u)' = Got(u)
      BY <2>1, <3>1, <3>3, GotStays
    <3>5. PICK a \in Seq(Nodes) : a = Path
      BY <1>0, PathsAreLists DEF PathOK
    <3>6. /\ Stacked \in Seq(Values) /\ Len(Stacked) = Len(a) /\ Len(a) \in Nat
          /\ \A i \in 1..Len(a) : Stacked[i] = node[a[i]].data
      BY <3>5, StackedFacts
    <3>7. 1 \in 1..Len(a) /\ Stacked # <<>> /\ a # <<>>
      BY <3>2, <3>5, <3>6
    <3>8. Got(t)' = Head(Stacked)
      BY <2>1, <3>2, <3>3, <3>5, <3>6, <3>7 DEF Got
    <3>9. /\ Tail(a) \in Seq(Nodes) /\ Len(Tail(a)) = Len(a) - 1
          /\ \A i \in 1..Len(a) - 1 : Tail(a)[i] = a[i + 1]
      BY <3>7, HeadTailProperties
    <3>10. /\ Tail(Stacked) \in Seq(Values) /\ Len(Tail(Stacked)) = Len(a) - 1
           /\ \A i \in 1..Len(a) - 1 : Tail(Stacked)[i] = Stacked[i + 1]
      BY <3>6, <3>7, HeadTailProperties
    <3>11. /\ Stacked' \in Seq(Values) /\ Len(Stacked') = Len(a) - 1
           /\ \A i \in 1..Len(a) - 1 : Stacked'[i] = node[Tail(a)[i]].data
      BY <2>1, <3>2, <3>5, <3>9, StackedFactsNext
    <3>12. \A i \in 1..Len(a) - 1 : Stacked'[i] = Tail(Stacked)[i]
      <4> SUFFICES ASSUME NEW i \in 1..Len(a) - 1 PROVE Stacked'[i] = Tail(Stacked)[i]
        OBVIOUS
      <4>1. i + 1 \in 1..Len(a)
        BY <3>6
      <4> QED
        BY <3>6, <3>9, <3>10, <3>11, <4>1
    <3>13. Stacked' = Tail(Stacked)
      <4>1. PICK c, d : c = Stacked' /\ d = Tail(Stacked)
        OBVIOUS
      <4>2. c = d
        BY <3>10, <3>11, <3>12, <4>1, SeqEqual
      <4> QED
        BY <4>1, <4>2
    <3> QED
      BY <2>1, <3>4, <3>7, <3>8, <3>13, AbstractPop
  <2>3. CASE head # old[t]
    <3>1. /\ head' = head /\ pc'[t] = "release" /\ old'[t] = head
          /\ \A u \in Threads \ {t} : pc'[u] = pc[u] /\ old'[u] = old[u]
      BY <1>0, <1>7, <2>3 DEF Unlink, Goto, TypeOK
    <3>2. \A u \in Threads \ {t} : Got(u)' = Got(u)
      BY <2>1, <3>1, GotStays
    <3>3. Stacked' = Stacked
      BY <2>1, <3>1, StackedStays
    <3>4. CASE head.ptr = NULL
      <4>1. Stacked = <<>>
        BY <1>0, <3>4, HeadOfPath DEF Stacked
      <4>2. Got(t)' = Empty
        BY <3>1, <3>4 DEF Got
      <4> QED
        BY <2>1, <3>2, <3>3, <4>1, <4>2, AbstractPop
    <3>5. CASE head.ptr # NULL
      <4>1. Got(t)' = Nothing
        BY <2>1, <3>1, <3>5 DEF Got
      <4> QED
        BY <2>1, <3>2, <3>3, <4>1, AbstractStutter
    <3> QED
      BY <3>4, <3>5
  <2> QED
    BY <2>2, <2>3
<1>8. ASSUME NEW t \in Threads, Take(t) PROVE UNCHANGED Lifo!vars
  <2>1. /\ pc[t] = "take" /\ pc'[t] = "settle" /\ UNCHANGED <<head, mine, old>>
        /\ result'[t] = node[mine[t]].data
        /\ mine[t] \in Nodes /\ ~InStack(mine[t])
        /\ \A u \in Threads \ {t} : pc'[u] = pc[u] /\ result'[u] = result[u]
    BY <1>0, <1>8, MineIsNode DEF Take, Goto, TypeOK, IInv, Unlinked, Taking
  <2>2. \A m \in Nodes \ {mine[t]} : node'[m] = node[m]
    BY <1>0, <1>8 DEF Take, TypeOK
  <2>3. Stacked' = Stacked
    BY <1>0a, <2>1, <2>2, StackedStays
  <2>4. \A u \in Threads \ {t} : pc[u] = "take" => mine[u] \in Nodes \ {mine[t]}
    BY <1>0, <2>1, MineIsNode DEF IInv, Unlinked, Taking
  <2>5. \A u \in Threads \ {t} : Got(u)' = Got(u)
    BY <2>1, <2>2, <2>4, GotStays
  <2>6. Got(t)' = Got(t)
    BY <2>1 DEF Got
  <2> QED
    BY <2>3, <2>5, <2>6, AbstractStutter
(* Giving references back concerns only the count and the thread's result. *)
<1>9. ASSUME NEW t \in Threads, NEW x, mine[t] \in Nodes,
             node' = [node EXCEPT ![mine[t]].internal = x],
             head' = head, Got(t)' = Got(t),
             \A u \in Threads \ {t} : /\ pc'[u] = pc[u] /\ mine'[u] = mine[u]
                                      /\ old'[u] = old[u] /\ result'[u] = result[u]
      PROVE  UNCHANGED Lifo!vars
  <2>1. \A m \in Nodes : node'[m].next = node[m].next /\ node'[m].data = node[m].data
    BY <1>0, <1>9 DEF TypeOK, Node
  <2>2. Stacked' = Stacked
    BY <1>0a, <1>9, <2>1, StackedStays
  <2>3. \A u \in Threads : pc[u] = "take" => mine[u] \in Nodes
    BY <1>0, MineIsNode
  <2>4. \A u \in Threads \ {t} : Got(u)' = Got(u)
    BY <1>9, <2>1, <2>3, GotStays
  <2> QED
    BY <1>9, <2>2, <2>4, AbstractStutter
<1>10. ASSUME NEW t \in Threads, Settle(t) PROVE UNCHANGED Lifo!vars
  <2>1. /\ pc[t] = "settle" /\ pc'[t] = "idle" /\ head' = head /\ result' = result
        /\ \A u \in Threads \ {t} : pc'[u] = pc[u] /\ mine'[u] = mine[u] /\ old'[u] = old[u]
    BY <1>0, <1>10 DEF Settle, Goto, TypeOK
  <2>2. Got(t)' = Got(t) /\ mine[t] \in Nodes
    BY <1>0, <2>1, MineIsNode DEF Got
  <2>3. node' = [node EXCEPT ![mine[t]].internal = node[mine[t]].internal + (old[t].count - 2)]
    BY <1>10 DEF Settle
  <2> QED
    BY <1>9, <2>1, <2>2, <2>3
<1>11. ASSUME NEW t \in Threads, Release(t) PROVE UNCHANGED Lifo!vars
  <2>1. /\ pc[t] = "release" /\ result[t] = Nothing /\ head' = head
        /\ \A u \in Threads \ {t} : /\ pc'[u] = pc[u] /\ mine'[u] = mine[u]
                                     /\ old'[u] = old[u] /\ result'[u] = result[u]
    BY <1>0, <1>11 DEF Release, Saw, Goto, TypeOK, Knows
  <2>2. Got(t)' = Got(t)
    BY <1>0, <1>11, <2>1 DEF Release, Saw, Goto, TypeOK, Got
  <2>3. node' = [node EXCEPT ![mine[t]].internal = node[mine[t]].internal - 1]
    BY <1>11 DEF Release
  <2>4. mine[t] \in Nodes
    BY <1>0, <2>1, MineIsNode
  <2> QED
    BY <1>9, <2>1, <2>2, <2>3, <2>4
<1>12. ASSUME NEW t \in Threads, Return(t) PROVE Lifo!Next
  <2>1. /\ pc[t] = "idle" /\ result[t] # Nothing /\ result'[t] = Nothing
        /\ UNCHANGED <<head, node, pc, mine>>
        /\ \A u \in Threads \ {t} : old'[u] = old[u] /\ result'[u] = result[u]
    BY <1>0, <1>12 DEF Return, TypeOK
  <2>2. Stacked' = Stacked
    BY <2>1, StackedStays
  <2>3. \A u \in Threads \ {t} : Got(u)' = Got(u)
    BY <2>1, GotStays
  <2>4. Got(t) # Nothing /\ Got(t)' = Nothing
    BY <2>1 DEF Got
  <2> QED
    BY <2>2, <2>3, <2>4, AbstractReturn
<1>13. CASE UNCHANGED vars
  <2>1. UNCHANGED <<head, node, pc, mine, old, result>>
    BY <1>13 DEF vars
  <2>2. Stacked' = Stacked
    BY <2>1, StackedStays
  <2>3. \A u \in Threads : Got(u)' = Got(u)
    BY <2>1, GotStays
  <2> QED
    BY <2>2, <2>3, AbstractStutter
<1> QED
  BY <1>1, <1>2, <1>4, <1>5, <1>6, <1>7, <1>8, <1>10, <1>11, <1>12, <1>13 DEF Next

(* The lock-free stack is linearizable: every push and every pop takes effect
   at one access, and the values come out once, the most recent first. *)
THEOREM Linearizability == Spec => Linearizable
<1>1. Init => Lifo!Init
  BY RefinementInit
<1>2. IInv /\ IInv' /\ [Next]_vars => [Lifo!Next]_(Lifo!vars)
  BY RefinementStep
<1> QED
  BY <1>1, <1>2, Invariance, PTL DEF Spec, Linearizable, Lifo!Spec
=============================================================================
