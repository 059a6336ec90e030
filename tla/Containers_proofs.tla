-------------------------- MODULE Containers_proofs --------------------------
(***************************************************************************)
(* For every capacity, every number of nodes, blocks, objects and tasks    *)
(* and every set of values, the containers and owners that MCContainers    *)
(* runs keep their storage, and implement the queues and sequences that    *)
(* their callers see.                                                      *)
(***************************************************************************)
EXTENDS MCContainers, SequenceTheorems, FiniteSetTheorems, FunctionTheorems, NaturalsInduction,
        WellFoundedInduction, TLAPS

allVars == <<container, vars, queueVars, compactVars, pointerVars, managerVars>>

(* Each container, alone: a step of another leaves its variables. *)
LEMMA Alone ==
  /\ MCInit => Init /\ Queue!Init /\ compact!Init /\ pointer!Init /\ manager!Init
  /\ [MCNext]_allVars =>
       /\ [Next]_vars
       /\ [Queue!Next]_queueVars
       /\ [compact!Next]_compactVars
       /\ [pointer!Next]_pointerVars
       /\ [manager!Next]_managerVars
<1>. USE DEF MCNext, allVars
<1>1. [MCNext]_allVars => [Next]_vars /\ [Queue!Next]_queueVars
  OBVIOUS
<1>2. [MCNext]_allVars => [compact!Next]_compactVars /\ [pointer!Next]_pointerVars /\ [manager!Next]_managerVars
  OBVIOUS
<1>. QED BY <1>1, <1>2 DEF MCInit

-----------------------------------------------------------------------------
(* Induction over the naturals, for sets. *)

LEMMA SetInduction ==
  ASSUME NEW T \in SUBSET Nat, 0 \in T, \A n \in T : n + 1 \in T
  PROVE  T = Nat
<1> DEFINE M == Nat \ T
           R == {ss \in Nat \X Nat : ss[1] < ss[2]}
<1>1. SUFFICES ASSUME M # {} PROVE FALSE
  OBVIOUS
<1>2. IsWellFoundedOn(R, Nat)
  BY NatLessThanWellFounded DEF OpToRel
<1>3. M \subseteq Nat
  OBVIOUS
<1>4. \A x, y \in Nat : x < y => <<x, y>> \in R
  OBVIOUS
<1> HIDE DEF M, R
<1>5. PICK x \in M : \A y \in M : ~ (<<y, x>> \in R)
  BY <1>1, <1>2, <1>3, WFMin
<1>6. x # 0 /\ x \in Nat
  BY <1>3, <1>5 DEF M
<1>7. x - 1 \in Nat /\ x - 1 < x
  BY <1>6
<1>8. x - 1 \in T
  BY <1>4, <1>5, <1>6, <1>7 DEF M
<1>. QED BY <1>5, <1>6, <1>8, x - 1 + 1 = x DEF M

LEMMA UpTo ==
  ASSUME NEW n \in Nat
  PROVE  IsFiniteSet(1..n) /\ Cardinality(1..n) = n
<1>1. 1 \in Int /\ n \in Int
  OBVIOUS
<1>2. IsFiniteSet(1..n) /\ Cardinality(1..n) = IF 1 > n THEN 0 ELSE n - 1 + 1
  BY <1>1, FS_Interval, Zenon
<1>. QED BY <1>2

-----------------------------------------------------------------------------
(* The conflating queue. *)

LEMMA QueueConstants ==
  /\ QueueCapacity \in Nat \ {0} /\ NoValue \notin Nodes \union Queue!Entry
  /\ BadAlloc \notin Queue!Entry \union {NoValue}
BY QueueAssumption DEF Queue!ConflatingQueueAssumption

(* The list q, the map p and the nodes m fit together: what Queue!TypeOK and
   Queue!IteratorsValid say, of any three, so that it can be said of the steps of a
   call too. *)
Agree(q, p, m) ==
  /\ q \in Seq(Nodes)
  /\ m \in [Nodes -> Queue!Entry \cup {NoValue}]
  /\ p \in [Keys -> Nodes \cup {NoValue}]
  /\ Queue!IsInjective(q)
  /\ Queue!ToSet(q) = {n \in Nodes : m[n] # NoValue}
  /\ \A k \in Keys, n \in Nodes : p[k] = n => m[n] # NoValue /\ m[n].key = k
  /\ \A i, j \in 1..Len(q) : i < j => p[m[q[j]].key] # q[i]

(* The map and the nodes without the entry of the node n, and with one in it. *)
MapWithout(p, m, n) == [p EXCEPT ![m[n].key] = NoValue]
NodesWithout(m, n) == [m EXCEPT ![n] = NoValue]
MapWith(p, k, n) == [p EXCEPT ![k] = n]
NodesWith(m, n, k, v) == [m EXCEPT ![n] = [key |-> k, value |-> v]]

QueueInv == Queue!TypeOK /\ Queue!IteratorsValid

LEMMA QueueInvAgrees ==
  QueueInv <=> /\ Agree(queue_, pending_, node) /\ Len(queue_) <= QueueCapacity
               /\ popped \in Queue!Entry \cup {NoValue, BadAlloc}
<1>1. queue_ \in Seq(Nodes) => DOMAIN queue_ = 1..Len(queue_)
  OBVIOUS
<1>. QED BY <1>1 DEF QueueInv, Queue!TypeOK, Queue!IteratorsValid, Agree

LEMMA QueueInvAgreesNext ==
  (QueueInv <=> /\ Agree(queue_, pending_, node) /\ Len(queue_) <= QueueCapacity
                /\ popped \in Queue!Entry \cup {NoValue, BadAlloc})'
BY QueueInvAgrees, PTL

-----------------------------------------------------------------------------
(* Nodes in the list. *)

LEMMA InList ==
  ASSUME NEW q \in Seq(Nodes)
  PROVE  /\ DOMAIN q = 1..Len(q) /\ Len(q) \in Nat
         /\ \A n : n \in Queue!ToSet(q) <=> \E i \in 1..Len(q) : q[i] = n
<1>1. DOMAIN q = 1..Len(q) /\ Len(q) \in Nat
  OBVIOUS
<1>. QED BY <1>1 DEF Queue!ToSet

LEMMA TailNodes ==
  ASSUME NEW q \in Seq(Nodes), q # <<>>, Queue!IsInjective(q)
  PROVE  /\ Head(q) \in Nodes /\ Head(q) = q[1] /\ Head(q) \in Queue!ToSet(q)
         /\ Tail(q) \in Seq(Nodes) /\ Len(Tail(q)) = Len(q) - 1 /\ Queue!IsInjective(Tail(q))
         /\ \A i \in 1..(Len(q) - 1) : Tail(q)[i] = q[i + 1]
         /\ Queue!ToSet(Tail(q)) = Queue!ToSet(q) \ {Head(q)}
<1> DEFINE t == Tail(q)
<1>1. /\ t \in Seq(Nodes) /\ Len(t) = Len(q) - 1 /\ Head(q) \in Nodes /\ Head(q) = q[1]
      /\ \A i \in 1..(Len(q) - 1) : t[i] = q[i + 1]
  BY HeadTailProperties
<1>2. Len(q) \in Nat \ {0} /\ DOMAIN q = 1..Len(q)
  BY EmptySeq
<1>. HIDE DEF t
<1>3. DOMAIN t = 1..(Len(q) - 1)
  BY <1>1
<1>4. Queue!IsInjective(t)
  <2> SUFFICES ASSUME NEW i \in DOMAIN t, NEW j \in DOMAIN t, t[i] = t[j] PROVE i = j
    BY DEF Queue!IsInjective
  <2>1. q[i + 1] = q[j + 1] /\ i + 1 \in DOMAIN q /\ j + 1 \in DOMAIN q
    BY <1>1, <1>2, <1>3
  <2>2. i + 1 = j + 1
    BY <2>1 DEF Queue!IsInjective
  <2>. QED BY <1>2, <1>3, <2>2
<1>5. ASSUME NEW n PROVE n \in Queue!ToSet(t) <=> n \in Queue!ToSet(q) /\ n # q[1]
  <2>1. ASSUME n \in Queue!ToSet(t) PROVE n \in Queue!ToSet(q) /\ n # q[1]
    <3>1. PICK i \in 1..(Len(q) - 1) : t[i] = n
      BY <1>1, <2>1, InList
    <3>2. q[i + 1] = n /\ i + 1 \in 1..Len(q) /\ i + 1 # 1 /\ 1 \in 1..Len(q)
      BY <1>1, <1>2, <3>1
    <3>3. n # q[1]
      BY <1>2, <3>2 DEF Queue!IsInjective
    <3>. QED BY <3>2, <3>3, InList
  <2>2. ASSUME n \in Queue!ToSet(q), n # q[1] PROVE n \in Queue!ToSet(t)
    <3>1. PICK i \in 1..Len(q) : q[i] = n
      BY <2>2, InList
    <3>2. i - 1 \in 1..(Len(q) - 1) /\ q[(i - 1) + 1] = n
      BY <1>2, <2>2, <3>1
    <3>. QED BY <1>1, <3>2, InList
  <2>. QED BY <2>1, <2>2
<1>6. q[1] \in Queue!ToSet(q)
  BY <1>2, InList
<1>7. Queue!ToSet(t) = Queue!ToSet(q) \ {Head(q)}
  BY <1>1, <1>5
<1>. QED BY <1>1, <1>4, <1>6, <1>7 DEF t

LEMMA AppendNode ==
  ASSUME NEW q \in Seq(Nodes), Queue!IsInjective(q), NEW n \in Nodes, n \notin Queue!ToSet(q)
  PROVE  /\ Append(q, n) \in Seq(Nodes) /\ Len(Append(q, n)) = Len(q) + 1 /\ Queue!IsInjective(Append(q, n))
         /\ \A i \in 1..Len(q) : Append(q, n)[i] = q[i]
         /\ Append(q, n)[Len(q) + 1] = n
         /\ Queue!ToSet(Append(q, n)) = Queue!ToSet(q) \union {n}
<1> DEFINE longer == Append(q, n)
<1>1. /\ longer \in Seq(Nodes) /\ Len(longer) = Len(q) + 1 /\ longer[Len(q) + 1] = n
      /\ \A i \in 1..Len(q) : longer[i] = q[i]
  BY AppendProperties
<1>2. Len(q) \in Nat /\ DOMAIN q = 1..Len(q)
  OBVIOUS
<1>. HIDE DEF longer
<1>3. DOMAIN longer = 1..(Len(q) + 1)
  BY <1>1
<1>4. \A i \in 1..Len(q) : q[i] # n
  BY InList
<1>5. Queue!IsInjective(longer)
  <2> SUFFICES ASSUME NEW i \in DOMAIN longer, NEW j \in DOMAIN longer, longer[i] = longer[j] PROVE i = j
    BY DEF Queue!IsInjective
  <2>1. CASE i \in 1..Len(q) /\ j \in 1..Len(q)
    BY <1>1, <1>2, <2>1 DEF Queue!IsInjective
  <2>2. CASE ~(i \in 1..Len(q) /\ j \in 1..Len(q))
    BY <1>1, <1>2, <1>3, <1>4, <2>2
  <2>. QED BY <2>1, <2>2
<1>6. ASSUME NEW m PROVE m \in Queue!ToSet(longer) <=> m \in Queue!ToSet(q) \/ m = n
  <2>1. m \in Queue!ToSet(longer) <=> \E i \in 1..(Len(q) + 1) : longer[i] = m
    BY <1>1, InList
  <2>2. (\E i \in 1..(Len(q) + 1) : longer[i] = m) <=> (\E i \in 1..Len(q) : longer[i] = m) \/ longer[Len(q) + 1] = m
    BY <1>2
  <2>3. (\E i \in 1..Len(q) : longer[i] = m) <=> m \in Queue!ToSet(q)
    BY <1>1, InList
  <2>. QED BY <1>1, <2>1, <2>2, <2>3
<1>. QED BY <1>1, <1>5, <1>6 DEF longer

-----------------------------------------------------------------------------
(* What the steps of a call do to the list, the map and the nodes. *)

LEMMA Dropped ==
  ASSUME NEW q, NEW p, NEW m, Agree(q, p, m), q # <<>>
  PROVE  /\ Head(q) \in Nodes /\ m[Head(q)] \in Queue!Entry
         /\ Agree(Tail(q), [p EXCEPT ![m[Head(q)].key] = NoValue], [m EXCEPT ![Head(q)] = NoValue])
<1> DEFINE h == Head(q)
           p2 == [p EXCEPT ![m[h].key] = NoValue]
           m2 == [m EXCEPT ![h] = NoValue]
<1>1. /\ h \in Nodes /\ h \in Queue!ToSet(q) /\ Tail(q) \in Seq(Nodes) /\ Queue!IsInjective(Tail(q))
      /\ Queue!ToSet(Tail(q)) = Queue!ToSet(q) \ {h}
  BY TailNodes DEF Agree
<1>. HIDE DEF h
<1>2. m[h] \in Queue!Entry /\ m[h].key \in Keys
  BY <1>1 DEF Agree, Queue!Entry
<1>3. \A n \in Nodes : m2[n] = IF n = h THEN NoValue ELSE m[n]
  BY DEF Agree
<1>4. \A k \in Keys : p2[k] = IF k = m[h].key THEN NoValue ELSE p[k]
  BY DEF Agree
<1>5. m2 \in [Nodes -> Queue!Entry \cup {NoValue}] /\ p2 \in [Keys -> Nodes \cup {NoValue}]
  BY DEF Agree
<1>. HIDE DEF m2, p2
<1>6. Queue!ToSet(Tail(q)) = {n \in Nodes : m2[n] # NoValue}
  BY <1>1, <1>3 DEF Agree
<1>7. ASSUME NEW k \in Keys, NEW n \in Nodes, p2[k] = n
      PROVE  m2[n] # NoValue /\ m2[n].key = k
  <2>1. k # m[h].key /\ p[k] = n
    BY <1>4, <1>7, QueueConstants
  <2>2. m[n] # NoValue /\ m[n].key = k
    BY <2>1 DEF Agree
  <2>. QED BY <1>3, <2>1, <2>2
<1>8. ASSUME NEW i \in 1..Len(Tail(q)), NEW j \in 1..Len(Tail(q)), i < j
      PROVE  p2[m2[Tail(q)[j]].key] # Tail(q)[i]
  <2> DEFINE x == Tail(q)[i]
             y == Tail(q)[j]
  <2>1. /\ i + 1 \in 1..Len(q) /\ j + 1 \in 1..Len(q) /\ i + 1 < j + 1
        /\ x = q[i + 1] /\ y = q[j + 1]
    <3>1. /\ Len(Tail(q)) = Len(q) - 1 /\ Len(q) \in Nat
          /\ \A l \in 1..(Len(q) - 1) : Tail(q)[l] = q[l + 1]
      BY TailNodes DEF Agree
    <3>. QED BY <1>8, <3>1
  <2>2. x \in Nodes /\ y \in Nodes /\ y # h
    <3>1. x \in Queue!ToSet(Tail(q)) /\ y \in Queue!ToSet(Tail(q))
      BY <1>1, InList
    <3>. QED BY <1>1, <3>1 DEF Agree
  <2>3. m2[y] = m[y] /\ m[y].key \in Keys
    <3>1. y \in Queue!ToSet(q)
      BY <2>1, InList DEF Agree
    <3>2. m[y] \in Queue!Entry
      BY <2>2, <3>1 DEF Agree
    <3>. QED BY <1>3, <2>2, <3>2 DEF Queue!Entry
  <2>4. p[m[y].key] # x
    BY <2>1 DEF Agree
  <2>. HIDE DEF x, y
  <2>5. p2[m2[y].key] # x
    BY <1>4, <2>2, <2>3, <2>4, QueueConstants
  <2>. QED BY <2>5 DEF x, y
<1>9. Agree(Tail(q), p2, m2)
  BY <1>1, <1>5, <1>6, <1>7, <1>8 DEF Agree
<1>. QED BY <1>1, <1>2, <1>9 DEF h, m2, p2

(* The entry is in the list, and the map leads to it or, when its own allocation
   threw, is as it was. *)
LEMMA Added ==
  ASSUME NEW q, NEW p, NEW m, Agree(q, p, m),
         NEW k \in Keys, NEW v \in Values, p[k] = NoValue, NEW n \in Nodes, m[n] = NoValue,
         NEW p2, p2 = p \/ p2 = MapWith(p, k, n)
  PROVE  /\ n \notin Queue!ToSet(q)
         /\ Agree(Append(q, n), p2, NodesWith(m, n, k, v))
<1> DEFINE e == [key |-> k, value |-> v]
           m2 == NodesWith(m, n, k, v)
<1>1. n \notin Queue!ToSet(q)
  BY DEF Agree
<1>2. /\ Append(q, n) \in Seq(Nodes) /\ Queue!IsInjective(Append(q, n))
      /\ Len(Append(q, n)) = Len(q) + 1 /\ Len(q) \in Nat
      /\ \A i \in 1..Len(q) : Append(q, n)[i] = q[i]
      /\ Append(q, n)[Len(q) + 1] = n
      /\ Queue!ToSet(Append(q, n)) = Queue!ToSet(q) \union {n}
  BY <1>1, AppendNode DEF Agree
<1>3. e \in Queue!Entry /\ e.key = k /\ e # NoValue
  BY QueueConstants DEF Queue!Entry
<1>4. \A o \in Nodes : m2[o] = IF o = n THEN e ELSE m[o]
  BY DEF Agree, NodesWith
<1>0. m2 \in [Nodes -> Queue!Entry \cup {NoValue}]
  BY <1>3 DEF Agree, NodesWith
<1>. HIDE DEF e, m2
<1>5. \A l \in Keys : p2[l] = p[l] \/ (l = k /\ p2[l] = n)
  BY DEF Agree, MapWith
<1>6. m2 \in [Nodes -> Queue!Entry \cup {NoValue}] /\ p2 \in [Keys -> Nodes \cup {NoValue}]
  BY <1>0 DEF Agree, MapWith
<1>7. Queue!ToSet(Append(q, n)) = {o \in Nodes : m2[o] # NoValue}
  BY <1>2, <1>3, <1>4 DEF Agree
<1>8. ASSUME NEW l \in Keys, NEW o \in Nodes, p2[l] = o
      PROVE  m2[o] # NoValue /\ m2[o].key = l
  <2>1. CASE l = k /\ o = n
    BY <1>3, <1>4, <2>1
  <2>2. CASE p[l] = o
    <3>1. m[o] # NoValue /\ m[o].key = l
      BY <2>2 DEF Agree
    <3>. QED BY <1>4, <3>1
  <2>. QED BY <1>5, <1>8, <2>1, <2>2
<1>9. ASSUME NEW i \in 1..Len(Append(q, n)), NEW j \in 1..Len(Append(q, n)), i < j
      PROVE  p2[m2[Append(q, n)[j]].key] # Append(q, n)[i]
  <2>1. i \in 1..Len(q) /\ Append(q, n)[i] = q[i] /\ q[i] \in Nodes /\ q[i] # n
    BY <1>1, <1>2, <1>9, InList DEF Agree
  <2>2. CASE j = Len(q) + 1
    <3>1. m2[Append(q, n)[j]].key = k
      BY <1>2, <1>3, <1>4, <2>2
    <3>2. p2[k] # q[i]
      BY <1>5, <2>1, QueueConstants
    <3>. QED BY <2>1, <3>1, <3>2
  <2>3. CASE j \in 1..Len(q)
    <3>1. q[j] \in Nodes /\ q[j] \in Queue!ToSet(q) /\ q[j] # n /\ Append(q, n)[j] = q[j]
      BY <1>1, <1>2, <2>3, InList DEF Agree
    <3>2. m[q[j]] \in Queue!Entry /\ m2[q[j]] = m[q[j]]
      BY <1>4, <3>1 DEF Agree
    <3>3. m[q[j]].key \in Keys /\ p[m[q[j]].key] # q[i]
      BY <1>9, <2>1, <2>3, <3>2 DEF Agree, Queue!Entry
    <3>4. p2[m[q[j]].key] # q[i]
      BY <1>5, <2>1, <3>3
    <3>. QED BY <2>1, <3>1, <3>2, <3>4
  <2>. QED BY <1>2, <2>2, <2>3
<1>10. Agree(Append(q, n), p2, m2)
  BY <1>2, <1>6, <1>7, <1>8, <1>9 DEF Agree
<1>. QED BY <1>1, <1>10 DEF e, m2

LEMMA Updated ==
  ASSUME NEW q, NEW p, NEW m, Agree(q, p, m),
         NEW n \in Nodes, m[n] # NoValue, NEW v \in Values
  PROVE  Agree(q, p, [m EXCEPT ![n].value = v])
<1> DEFINE m2 == [m EXCEPT ![n].value = v]
<1>1. m[n] \in Queue!Entry
  BY DEF Agree
<1>2. [m[n] EXCEPT !.value = v] \in Queue!Entry /\ [m[n] EXCEPT !.value = v].key = m[n].key
  BY <1>1 DEF Queue!Entry
<1>3. [m[n] EXCEPT !.value = v] # NoValue
  BY <1>2, QueueConstants
<1>4. m2 \in [Nodes -> Queue!Entry \cup {NoValue}]
      /\ \A o \in Nodes : m2[o] = IF o = n THEN [m[n] EXCEPT !.value = v] ELSE m[o]
  BY <1>2 DEF Agree
<1>5. \A o \in Nodes : (m2[o] # NoValue <=> m[o] # NoValue) /\ m2[o].key = m[o].key
  BY <1>2, <1>3, <1>4
<1>. HIDE DEF m2
<1>6. \A i \in 1..Len(q) : q[i] \in Nodes
  BY DEF Agree
<1>7. Agree(q, p, m2)
  BY <1>4, <1>5, <1>6 DEF Agree
<1>. QED BY <1>7 DEF m2

-----------------------------------------------------------------------------
(* The entries of a list, and the keys that its map does not lead to. *)

(* The pendingEntries in the list q of nodes m. *)
EntriesIn(q, m) == [i \in 1..Len(q) |-> m[q[i]]]

LEMMA EntriesAre ==
  ASSUME NEW q, NEW p, NEW m, Agree(q, p, m)
  PROVE  /\ EntriesIn(q, m) \in Seq(Queue!Entry) /\ Len(EntriesIn(q, m)) = Len(q) /\ Len(q) \in Nat
         /\ \A i \in 1..Len(q) : EntriesIn(q, m)[i] = m[q[i]] /\ q[i] \in Nodes /\ m[q[i]] \in Queue!Entry
<1>1. Len(q) \in Nat /\ DOMAIN q = 1..Len(q)
  BY DEF Agree
<1>2. \A i \in 1..Len(q) : q[i] \in Nodes /\ m[q[i]] # NoValue
  <2> SUFFICES ASSUME NEW i \in 1..Len(q) PROVE q[i] \in Nodes /\ m[q[i]] # NoValue
    OBVIOUS
  <2>1. q[i] \in Queue!ToSet(q)
    BY <1>1 DEF Queue!ToSet
  <2>. QED BY <2>1 DEF Agree
<1>3. \A i \in 1..Len(q) : m[q[i]] \in Queue!Entry
  BY <1>2 DEF Agree
<1>4. EntriesIn(q, m) \in [1..Len(q) -> Queue!Entry]
  BY <1>3 DEF EntriesIn
<1>5. EntriesIn(q, m) \in Seq(Queue!Entry) /\ Len(EntriesIn(q, m)) = Len(q)
  BY <1>1, <1>4
<1>. QED BY <1>1, <1>2, <1>3, <1>5 DEF EntriesIn

(* The oldest entry goes, the others keep their order. *)
LEMMA EntriesDropped ==
  ASSUME NEW q, NEW p, NEW m, Agree(q, p, m), q # <<>>
  PROVE  LET rest == EntriesIn(Tail(q), [m EXCEPT ![Head(q)] = NoValue])
         IN  EntriesIn(q, m) # <<>> /\ Head(EntriesIn(q, m)) = m[Head(q)] /\ Tail(EntriesIn(q, m)) = rest
<1> DEFINE h == Head(q)
           m2 == [m EXCEPT ![h] = NoValue]
           all == EntriesIn(q, m)
           rest == EntriesIn(Tail(q), m2)
<1>1. /\ Tail(q) \in Seq(Nodes) /\ Len(Tail(q)) = Len(q) - 1 /\ h = q[1] /\ h \in Nodes
      /\ \A i \in 1..(Len(q) - 1) : Tail(q)[i] = q[i + 1]
  BY TailNodes DEF Agree
<1>2. /\ all \in Seq(Queue!Entry) /\ Len(all) = Len(q) /\ Len(q) \in Nat
      /\ \A i \in 1..Len(q) : all[i] = m[q[i]] /\ q[i] \in Nodes
  BY EntriesAre
<1>3. PICK p2 : Agree(Tail(q), p2, m2)
  BY Dropped
<1>4. /\ rest \in Seq(Queue!Entry) /\ Len(rest) = Len(q) - 1
      /\ \A i \in 1..(Len(q) - 1) : rest[i] = m2[q[i + 1]]
  <2> DEFINE t == Tail(q)
  <2>. HIDE DEF m2, t
  <2>1. /\ EntriesIn(t, m2) \in Seq(Queue!Entry) /\ Len(EntriesIn(t, m2)) = Len(t)
        /\ \A i \in 1..Len(t) : EntriesIn(t, m2)[i] = m2[t[i]]
    <3>1. Agree(t, p2, m2)
      BY <1>3 DEF t
    <3>. QED BY <3>1, EntriesAre
  <2>. QED BY <1>1, <2>1 DEF t
<1>5. Len(q) # 0
  BY EmptySeq DEF Agree
<1>. HIDE DEF all, rest, h
<1>6. all # <<>> /\ Head(all) = m[h]
  BY <1>1, <1>2, <1>5
<1>7. /\ Tail(all) \in Seq(Queue!Entry) /\ Len(Tail(all)) = Len(q) - 1
      /\ \A i \in 1..(Len(q) - 1) : Tail(all)[i] = all[i + 1]
  BY <1>2, <1>6, HeadTailProperties
<1>8. ASSUME NEW i \in 1..(Len(q) - 1) PROVE Tail(all)[i] = rest[i]
  <2>1. i + 1 \in 1..Len(q) /\ 1 \in 1..Len(q) /\ i + 1 # 1
    BY <1>2
  <2>2. q[i + 1] # h
    BY <1>1, <2>1 DEF Agree, Queue!IsInjective
  <2>3. m2[q[i + 1]] = m[q[i + 1]]
    BY <1>2, <2>1, <2>2 DEF Agree
  <2>. QED BY <1>2, <1>4, <1>7, <2>1, <2>3
<1>9. Tail(all) = rest
  BY <1>4, <1>7, <1>8, SeqEqual
<1>. QED BY <1>6, <1>9 DEF all, rest, h

(* A node that was not in use adds its entry at the back. *)
LEMMA EntriesAdded ==
  ASSUME NEW q, NEW p, NEW m, Agree(q, p, m), NEW n \in Nodes, n \notin Queue!ToSet(q), NEW e \in Queue!Entry,
         NEW p2, NEW m2, Agree(Append(q, n), p2, m2), \A o \in Nodes : m2[o] = IF o = n THEN e ELSE m[o]
  PROVE  EntriesIn(Append(q, n), m2) = Append(EntriesIn(q, m), e)
<1> DEFINE all == EntriesIn(q, m)
           more == EntriesIn(Append(q, n), m2)
<1>2. /\ Append(q, n) \in Seq(Nodes) /\ Len(Append(q, n)) = Len(q) + 1
      /\ \A i \in 1..Len(q) : Append(q, n)[i] = q[i]
      /\ Append(q, n)[Len(q) + 1] = n
  BY AppendNode DEF Agree
<1>3. /\ all \in Seq(Queue!Entry) /\ Len(all) = Len(q) /\ Len(q) \in Nat
      /\ \A i \in 1..Len(q) : all[i] = m[q[i]] /\ q[i] \in Nodes /\ m[q[i]] \in Queue!Entry
  BY EntriesAre
<1>. HIDE DEF all
<1>7. /\ more \in Seq(Queue!Entry) /\ Len(more) = Len(q) + 1
      /\ \A i \in 1..(Len(q) + 1) : more[i] = m2[Append(q, n)[i]]
  <2> DEFINE t == Append(q, n)
  <2>. HIDE DEF t
  <2>1. /\ EntriesIn(t, m2) \in Seq(Queue!Entry) /\ Len(EntriesIn(t, m2)) = Len(t)
        /\ \A i \in 1..Len(t) : EntriesIn(t, m2)[i] = m2[t[i]]
    <3>1. Agree(t, p2, m2)
      BY DEF t
    <3>. QED BY <3>1, EntriesAre
  <2>. QED BY <1>2, <2>1 DEF t
<1>. HIDE DEF more
<1>8. /\ Append(all, e) \in Seq(Queue!Entry) /\ Len(Append(all, e)) = Len(q) + 1
      /\ \A i \in 1..Len(q) : Append(all, e)[i] = all[i]
      /\ Append(all, e)[Len(q) + 1] = e
  BY <1>3, AppendProperties
<1>9. ASSUME NEW i \in 1..(Len(q) + 1) PROVE more[i] = Append(all, e)[i]
  <2>1. CASE i = Len(q) + 1
    BY <1>2, <1>7, <1>8, <2>1
  <2>2. CASE i \in 1..Len(q)
    <3>1. q[i] # n
      BY <2>2, InList DEF Agree
    <3>. QED BY <1>2, <1>3, <1>7, <1>8, <2>2, <3>1
  <2>. QED BY <1>3, <2>1, <2>2
<1>10. more = Append(all, e)
  BY <1>7, <1>8, <1>9, SeqEqual
<1>. QED BY <1>10 DEF all, more


pendingEntries == EntriesIn(queue_, node)

(* The keys that the map p does not lead to all the entries of. *)
Unfound(p, m) == {k \in Keys : \E n \in Nodes : m[n] # NoValue /\ m[n].key = k /\ p[k] # n}

(* The entry of a node in use. *)
LEMMA EntryListed ==
  ASSUME NEW q, NEW p, NEW m, Agree(q, p, m), NEW n \in Nodes, m[n] # NoValue
  PROVE  \E i \in 1..Len(EntriesIn(q, m)) : EntriesIn(q, m)[i] = m[n] /\ q[i] = n
<1>1. PICK i \in 1..Len(q) : q[i] = n
  <2>1. n \in Queue!ToSet(q)
    BY DEF Agree
  <2>. QED BY <2>1, InList DEF Agree
<1>. QED BY <1>1, EntriesAre

LEMMA UnfoundDropped ==
  ASSUME NEW q, NEW p, NEW m, Agree(q, p, m), q # <<>>,
         NEW rest, rest = EntriesIn(Tail(q), NodesWithout(m, Head(q)))
  PROVE  Unfound(MapWithout(p, m, Head(q)), NodesWithout(m, Head(q))) =
           {k \in Unfound(p, m) : \E i \in 1..Len(rest) : rest[i].key = k}
<1> DEFINE h == Head(q)
           t == Tail(q)
           p2 == MapWithout(p, m, h)
           m2 == NodesWithout(m, h)
           listed(k) == \E i \in 1..Len(rest) : rest[i].key = k
<1>1. h \in Nodes /\ m[h] \in Queue!Entry /\ Agree(t, p2, m2) /\ rest = EntriesIn(t, m2)
  BY Dropped DEF MapWithout, NodesWithout
<1>2. /\ \A n \in Nodes : m2[n] = IF n = h THEN NoValue ELSE m[n]
      /\ \A k \in Keys : p2[k] = IF k = m[h].key THEN NoValue ELSE p[k]
  BY <1>1 DEF Agree, MapWithout, NodesWithout
<1>. HIDE DEF h, t, p2, m2
<1>3. ASSUME NEW k \in Unfound(p2, m2) PROVE k \in Unfound(p, m) /\ listed(k)
  <2>1. PICK n \in Nodes : m2[n] # NoValue /\ m2[n].key = k /\ p2[k] # n
    BY DEF Unfound
  <2>2. n # h /\ m[n] = m2[n] /\ k \in Keys
    BY <1>2, <2>1 DEF Unfound
  <2>3. listed(k)
    <3>1. \E i \in 1..Len(rest) : rest[i] = m2[n]
      BY <1>1, <2>1, EntryListed
    <3>. QED BY <2>1, <3>1
  <2>4. CASE p[k] # n
    BY <2>1, <2>2, <2>3, <2>4 DEF Unfound
  <2>5. CASE p[k] = n
    <3>1. k = m[h].key
      BY <1>2, <2>1, <2>2, <2>5
    <3>2. m[h] # NoValue
      BY <1>1, QueueConstants
    <3>3. k \in Unfound(p, m)
      BY <1>1, <2>2, <2>5, <3>1, <3>2 DEF Unfound
    <3>. QED BY <2>3, <3>3
  <2>. QED BY <2>4, <2>5
<1>4. ASSUME NEW k \in Unfound(p, m), listed(k) PROVE k \in Unfound(p2, m2)
  <2>1. PICK n \in Nodes : m[n] # NoValue /\ m[n].key = k /\ p[k] # n
    BY DEF Unfound
  <2>2. k \in Keys
    BY DEF Unfound
  <2>3. CASE k # m[h].key
    BY <1>2, <2>1, <2>2, <2>3 DEF Unfound
  <2>4. CASE k = m[h].key
    <3>1. PICK i \in 1..Len(rest) : rest[i].key = k
      BY <1>4
    <3>2. t[i] \in Nodes /\ m2[t[i]] = rest[i] /\ rest[i] \in Queue!Entry
      BY <1>1, <3>1, EntriesAre
    <3>3. rest[i] # NoValue
      BY <3>2, QueueConstants
    <3>4. p2[k] = NoValue /\ p2[k] # t[i]
      BY <1>2, <2>2, <2>4, <3>2, QueueConstants
    <3>. QED BY <2>2, <3>1, <3>2, <3>3, <3>4 DEF Unfound
  <2>. QED BY <2>3, <2>4
<1>5. Unfound(p2, m2) = {k \in Unfound(p, m) : listed(k)}
  BY <1>3, <1>4
<1>. QED BY <1>5 DEF h, p2, m2

LEMMA UnfoundAdded ==
  ASSUME NEW q, NEW p, NEW m, Agree(q, p, m),
         NEW k \in Keys, NEW v \in Values, p[k] = NoValue, NEW n \in Nodes, m[n] = NoValue
  PROVE  /\ Unfound(MapWith(p, k, n), NodesWith(m, n, k, v)) = Unfound(p, m)
         /\ Unfound(p, NodesWith(m, n, k, v)) = Unfound(p, m) \union {k}
<1> DEFINE e == [key |-> k, value |-> v]
           p2 == MapWith(p, k, n)
           m2 == NodesWith(m, n, k, v)
<1>1. e.key = k /\ e # NoValue
  BY QueueConstants DEF Queue!Entry
<1>2. /\ \A o \in Nodes : m2[o] = IF o = n THEN e ELSE m[o]
      /\ \A l \in Keys : p2[l] = IF l = k THEN n ELSE p[l]
  BY DEF Agree, MapWith, NodesWith
<1>. HIDE DEF e, p2, m2
<1>3. p[k] \notin Nodes
  BY QueueConstants
<1>4. ASSUME NEW l PROVE l \in Unfound(p2, m2) <=> l \in Unfound(p, m)
  <2>1. ASSUME l \in Unfound(p2, m2) PROVE l \in Unfound(p, m)
    <3>1. PICK o \in Nodes : l \in Keys /\ m2[o] # NoValue /\ m2[o].key = l /\ p2[l] # o
      BY <2>1 DEF Unfound
    <3>2. o # n
      BY <1>1, <1>2, <3>1
    <3>. QED BY <1>2, <1>3, <3>1, <3>2 DEF Unfound
  <2>2. ASSUME l \in Unfound(p, m) PROVE l \in Unfound(p2, m2)
    <3>1. PICK o \in Nodes : l \in Keys /\ m[o] # NoValue /\ m[o].key = l /\ p[l] # o
      BY <2>2 DEF Unfound
    <3>. QED BY <1>2, <3>1 DEF Unfound
  <2>. QED BY <2>1, <2>2
<1>5. ASSUME NEW l PROVE l \in Unfound(p, m2) <=> l \in Unfound(p, m) \/ l = k
  <2>1. ASSUME l \in Unfound(p, m2) PROVE l \in Unfound(p, m) \/ l = k
    <3>1. PICK o \in Nodes : l \in Keys /\ m2[o] # NoValue /\ m2[o].key = l /\ p[l] # o
      BY <2>1 DEF Unfound
    <3>. QED BY <1>1, <1>2, <3>1 DEF Unfound
  <2>2. ASSUME l \in Unfound(p, m) PROVE l \in Unfound(p, m2)
    <3>1. PICK o \in Nodes : l \in Keys /\ m[o] # NoValue /\ m[o].key = l /\ p[l] # o
      BY <2>2 DEF Unfound
    <3>. QED BY <1>2, <3>1 DEF Unfound
  <2>3. k \in Unfound(p, m2)
    BY <1>1, <1>2, <1>3 DEF Unfound
  <2>. QED BY <2>1, <2>2, <2>3
<1>6. Unfound(p2, m2) = Unfound(p, m) /\ Unfound(p, m2) = Unfound(p, m) \union {k}
  BY <1>4, <1>5
<1>. QED BY <1>6 DEF p2, m2

-----------------------------------------------------------------------------
(* The invariant. *)

LEMMA QueueInit == Queue!Init => QueueInv
BY QueueConstants DEF Queue!Init, QueueInv, Queue!TypeOK, Queue!IteratorsValid, Queue!IsInjective, Queue!ToSet

(* A new entry comes into a list with a place for it: the list itself, or what the
   eviction has left of it. *)
LEMMA RoomMade ==
  ASSUME QueueInv, NEW k \in Keys, NEW v \in Values, Queue!Insert(k, v)
  PROVE  \E q, p, m :
           /\ Agree(q, p, m) /\ Len(q) < QueueCapacity /\ p[k] = NoValue
           /\ Queue!Emplace(q, p, m, k, v)
           /\ EntriesIn(q, m) = Queue!Conflated!Kept
           /\ Unfound(p, m) = Queue!Conflated!StillIn(Queue!Conflated!Kept)
<1> DEFINE h == Head(queue_)
           kept == Queue!Conflated!Kept
<1>1. /\ Agree(queue_, pending_, node) /\ Len(queue_) <= QueueCapacity /\ QueueCapacity \in Nat \ {0}
      /\ pending_[k] = NoValue
  BY QueueInvAgrees, QueueConstants DEF Queue!Insert
<1>2. Len(pendingEntries) = Len(queue_) /\ Len(queue_) \in Nat
  BY <1>1, EntriesAre DEF pendingEntries
<1>3. kept = IF Len(pendingEntries) = QueueCapacity THEN Tail(pendingEntries) ELSE pendingEntries
  BY DEF Queue!Conflated!Kept, pendingEntries, EntriesIn
<1>4. Queue!Conflated!StillIn(kept) = {l \in Unfound(pending_, node) : \E i \in 1..Len(kept) : kept[i].key = l}
  BY DEF Queue!Conflated!StillIn, Queue!Conflated!Pending, Queue!Unmapped, Unfound
<1>. HIDE DEF kept
<1>5. CASE Queue!full
  <2>1. queue_ # <<>>
    BY <1>1, <1>5, EmptySeq DEF Queue!full
  <2>2. Agree(Tail(queue_), Queue!Unmap(h), Queue!Freed(h))
    BY <1>1, <2>1, Dropped DEF Queue!Unmap, Queue!Freed
  <2>3. Len(Tail(queue_)) < QueueCapacity
    BY <1>1, <1>2, <2>1, TailNodes DEF Agree
  <2>4. Queue!Unmap(h)[k] = NoValue
    BY <1>1 DEF Queue!Unmap, Agree
  <2>5. Queue!Emplace(Tail(queue_), Queue!Unmap(h), Queue!Freed(h), k, v)
    BY <1>5 DEF Queue!Insert
  <2>6. EntriesIn(Tail(queue_), Queue!Freed(h)) = Tail(pendingEntries)
    BY <1>1, <2>1, EntriesDropped DEF pendingEntries, Queue!Freed
  <2>7. EntriesIn(Tail(queue_), Queue!Freed(h)) = kept
    BY <1>2, <1>3, <1>5, <2>6 DEF Queue!full
  <2>8. Unfound(Queue!Unmap(h), Queue!Freed(h)) = Queue!Conflated!StillIn(kept)
    <3>1. /\ Queue!Unmap(h) = MapWithout(pending_, node, Head(queue_))
          /\ Queue!Freed(h) = NodesWithout(node, Head(queue_))
      BY DEF Queue!Unmap, Queue!Freed, MapWithout, NodesWithout
    <3>. HIDE DEF h
    <3>2. Unfound(Queue!Unmap(h), Queue!Freed(h)) =
            {l \in Unfound(pending_, node) : \E i \in 1..Len(kept) : kept[i].key = l}
      BY ONLY <1>1, <2>1, <2>7, <3>1, UnfoundDropped
    <3>. QED BY <1>4, <3>2
  <2>. QED BY <2>2, <2>3, <2>4, <2>5, <2>7, <2>8 DEF kept
<1>6. CASE ~ Queue!full
  <2>1. Len(queue_) < QueueCapacity
    BY <1>1, <1>2, <1>6 DEF Queue!full
  <2>2. Queue!Emplace(queue_, pending_, node, k, v)
    BY <1>6 DEF Queue!Insert
  <2>3. EntriesIn(queue_, node) = kept
    BY <1>2, <1>3, <2>1 DEF pendingEntries
  <2>4. ASSUME NEW l \in Unfound(pending_, node) PROVE \E i \in 1..Len(kept) : kept[i].key = l
    <3>1. PICK n \in Nodes : node[n] # NoValue /\ node[n].key = l
      BY DEF Unfound
    <3>2. \E i \in 1..Len(kept) : kept[i] = node[n]
      BY <1>1, <2>3, <3>1, EntryListed
    <3>. QED BY <3>1, <3>2
  <2>5. Unfound(pending_, node) = Queue!Conflated!StillIn(kept)
    BY <1>4, <2>4
  <2>. QED BY <1>1, <2>1, <2>2, <2>3, <2>5 DEF kept
<1>. QED BY <1>5, <1>6

LEMMA InsertInv ==
  ASSUME QueueInv, NEW k \in Keys, NEW v \in Values, Queue!Insert(k, v)
  PROVE  QueueInv'
<1>1. PICK q, p, m : /\ Agree(q, p, m) /\ Len(q) < QueueCapacity /\ p[k] = NoValue
                     /\ Queue!Emplace(q, p, m, k, v)
  BY RoomMade
<1>2. Len(q) \in Nat /\ QueueCapacity \in Nat
  BY <1>1, QueueConstants DEF Agree
<1>3. popped' \in Queue!Entry \cup {NoValue, BadAlloc}
  BY <1>1 DEF Queue!Emplace
<1>4. CASE queue_' = q /\ node' = m /\ pending_' = p
  BY <1>1, <1>2, <1>3, <1>4, QueueInvAgreesNext
<1>5. ASSUME NEW n \in Nodes, Queue!EmplaceBack(q, m, n, k, v),
             pending_' = p \/ pending_' = MapWith(p, k, n)
      PROVE  QueueInv'
  <2>1. m[n] = NoValue /\ queue_' = Append(q, n) /\ node' = NodesWith(m, n, k, v)
    BY <1>5 DEF Queue!EmplaceBack, NodesWith
  <2>2. Agree(Append(q, n), pending_', NodesWith(m, n, k, v))
    <3>1. PICK p2 : p2 = pending_'
      OBVIOUS
    <3>2. p2 = p \/ p2 = MapWith(p, k, n)
      BY <1>5, <3>1
    <3>3. Agree(Append(q, n), p2, NodesWith(m, n, k, v))
      BY <1>1, <2>1, <3>2, Added
    <3>. QED BY <3>1, <3>3
  <2>3. Len(Append(q, n)) = Len(q) + 1
    BY <1>1, AppendProperties DEF Agree
  <2>4. Agree(queue_', pending_', node') /\ Len(queue_') <= QueueCapacity
    BY <1>1, <1>2, <2>1, <2>2, <2>3
  <2>. QED BY <1>3, <2>4, QueueInvAgreesNext
<1>. QED BY <1>1, <1>4, <1>5 DEF Queue!Emplace, MapWith

LEMMA ConflateInv ==
  ASSUME QueueInv, NEW k \in Keys, NEW v \in Values, Queue!Conflate(k, v)
  PROVE  QueueInv'
<1>1. Agree(queue_, pending_, node) /\ Len(queue_) <= QueueCapacity
  BY QueueInvAgrees
<1>2. /\ pending_[k] \in Nodes /\ node[pending_[k]] # NoValue
      /\ node' = [node EXCEPT ![pending_[k]].value = v] /\ UNCHANGED <<queue_, pending_>>
      /\ popped' = NoValue
  BY <1>1 DEF Queue!Conflate, Agree
<1>3. Agree(queue_, pending_, node')
  BY <1>1, <1>2, Updated
<1>4. Agree(queue_', pending_', node') /\ Len(queue_') <= QueueCapacity
  BY <1>1, <1>2, <1>3
<1>. QED BY <1>2, <1>4 DEF QueueInv, Queue!TypeOK, Queue!IteratorsValid, Agree

LEMMA QueuePopInv ==
  ASSUME QueueInv, Queue!Pop PROVE QueueInv'
<1>1. Agree(queue_, pending_, node) /\ Len(queue_) <= QueueCapacity /\ QueueCapacity \in Nat
  BY QueueInvAgrees, QueueConstants
<1>2. CASE Queue!empty
  BY <1>1, <1>2 DEF Queue!Pop, QueueInv, Queue!TypeOK, Queue!IteratorsValid
<1>3. CASE ~ Queue!empty
  <2> DEFINE h == Head(queue_)
  <2>1. /\ Agree(Tail(queue_), Queue!Unmap(h), Queue!Freed(h)) /\ node[h] \in Queue!Entry
    BY <1>1, <1>3, Dropped DEF Queue!Unmap, Queue!Freed, Queue!empty
  <2>2. Len(Tail(queue_)) = Len(queue_) - 1 /\ Len(queue_) \in Nat
    BY <1>1, <1>3, TailNodes DEF Queue!empty, Agree
  <2>3. popped' = node[h] /\ pending_' = Queue!Unmap(h) /\ node' = Queue!Freed(h) /\ queue_' = Tail(queue_)
    BY <1>3 DEF Queue!Pop
  <2>. HIDE DEF h
  <2>4. Agree(queue_', pending_', node') /\ Len(queue_') <= QueueCapacity /\ popped' \in Queue!Entry
    BY <1>1, <2>1, <2>2, <2>3
  <2>. QED BY <2>4 DEF QueueInv, Queue!TypeOK, Queue!IteratorsValid, Agree
<1>. QED BY <1>2, <1>3

LEMMA QueueNext == QueueInv /\ [Queue!Next]_queueVars => QueueInv'
<1> SUFFICES ASSUME QueueInv, [Queue!Next]_queueVars PROVE QueueInv'
  OBVIOUS
<1>1. CASE UNCHANGED queueVars
  BY <1>1 DEF queueVars, QueueInv, Queue!TypeOK, Queue!IteratorsValid
<1>. QED BY <1>1, QueuePopInv, InsertInv, ConflateInv DEF Queue!Next, Queue!PushOverwrite

-----------------------------------------------------------------------------
(* The refinement of ConflatedFifo. *)

(* The key's newest entry takes the value. *)
LEMMA ConflateRefines ==
  ASSUME QueueInv, NEW k \in Keys, NEW v \in Values, Queue!Conflate(k, v)
  PROVE  Queue!Conflated!Update(k, v)
<1> DEFINE n == pending_[k]
<1>1. Agree(queue_, pending_, node)
  BY QueueInvAgrees
<1>2. /\ n \in Nodes /\ node[n] # NoValue /\ node[n].key = k /\ node[n] \in Queue!Entry
      /\ node' = [node EXCEPT ![n].value = v] /\ queue_' = queue_ /\ pending_' = pending_ /\ popped' = NoValue
  BY <1>1 DEF Queue!Conflate, Agree
<1>3. /\ Len(pendingEntries) = Len(queue_) /\ pendingEntries = [i \in 1..Len(queue_) |-> node[queue_[i]]]
      /\ \A i \in 1..Len(queue_) : queue_[i] \in Nodes
  BY <1>1, EntriesAre DEF pendingEntries, EntriesIn
<1>4. PICK i \in 1..Len(queue_) : queue_[i] = n
  <2>1. n \in Queue!ToSet(queue_)
    BY <1>1, <1>2 DEF Agree
  <2>. QED BY <1>1, <2>1, InList DEF Agree
<1>11. \A j \in (i + 1)..Len(pendingEntries) : pendingEntries[j].key # k
  <2> SUFFICES ASSUME NEW j \in (i + 1)..Len(queue_) PROVE pendingEntries[j].key # k
    BY <1>3
  <2>1. i \in 1..Len(queue_) /\ j \in 1..Len(queue_) /\ i < j
    BY <1>1, InList DEF Agree
  <2>2. pending_[node[queue_[j]].key] # queue_[i]
    BY <1>1, <2>1 DEF Agree
  <2>. QED BY <1>3, <1>4, <2>1, <2>2
<1>. HIDE DEF n
<1>5. pendingEntries' = [j \in 1..Len(queue_) |-> node'[queue_[j]]]
  BY <1>2 DEF pendingEntries, EntriesIn
<1>6. \A j \in 1..Len(queue_) : queue_[j] = n <=> j = i
  BY <1>1, <1>4, InList DEF Agree, Queue!IsInjective
<1>7. \A j \in 1..Len(queue_) :
        node'[queue_[j]] = IF j = i THEN [node[n] EXCEPT !.value = v] ELSE node[queue_[j]]
  BY <1>1, <1>2, <1>3, <1>6 DEF Agree
<1>8. pendingEntries[i] = node[n]
  BY <1>3, <1>4
<1>9. pendingEntries' = [pendingEntries EXCEPT ![i] = [pendingEntries[i] EXCEPT !.value = v]]
  BY <1>3, <1>5, <1>7, <1>8
<1>10. Queue!Unmapped' = Queue!Unmapped
  <2>1. [node[n] EXCEPT !.value = v].key = node[n].key /\ [node[n] EXCEPT !.value = v] # NoValue
    BY <1>2, QueueConstants DEF Queue!Entry
  <2>2. \A o \in Nodes : node'[o] = IF o = n THEN [node[n] EXCEPT !.value = v] ELSE node[o]
    BY <1>1, <1>2 DEF Agree
  <2>3. \A o \in Nodes : (node'[o] # NoValue <=> node[o] # NoValue) /\ node'[o].key = node[o].key
    BY <1>2, <2>1, <2>2
  <2>. QED BY <1>2, <2>3 DEF Queue!Unmapped
<1>12. \E j \in 1..Len(pendingEntries) :
         /\ pendingEntries[j].key = k /\ \A l \in (j + 1)..Len(pendingEntries) : pendingEntries[l].key # k
         /\ pendingEntries' = [pendingEntries EXCEPT ![j].value = v]
  BY <1>2, <1>3, <1>4, <1>8, <1>9, <1>11
<1>. QED BY <1>2, <1>10, <1>12 DEF Queue!Conflated!Update, pendingEntries, EntriesIn

(* A new key goes to the back, the oldest entry of a full queue out; where an
   allocation throws, the new key is not there, or pushes do not find it. *)
LEMMA InsertRefines ==
  ASSUME QueueInv, NEW k \in Keys, NEW v \in Values, Queue!Insert(k, v)
  PROVE  Queue!Conflated!Add(k, v) \/ Queue!Conflated!AddThrows(k, v)
<1> DEFINE e == [key |-> k, value |-> v]
           kept == Queue!Conflated!Kept
<1>1. PICK q, p, m : /\ Agree(q, p, m) /\ p[k] = NoValue
                     /\ Queue!Emplace(q, p, m, k, v)
                     /\ EntriesIn(q, m) = kept
                     /\ Unfound(p, m) = Queue!Conflated!StillIn(kept)
  BY RoomMade
<1>2. Queue!Conflated!New(k)
  <2>1. Agree(queue_, pending_, node) /\ pending_[k] = NoValue
    BY QueueInvAgrees DEF Queue!Insert
  <2> SUFFICES ASSUME NEW i \in 1..Len(pendingEntries), pendingEntries[i].key = k PROVE k \in Queue!Unmapped
    BY DEF Queue!Conflated!New, Queue!Conflated!Pending, pendingEntries, EntriesIn
  <2>2. /\ pendingEntries[i] = node[queue_[i]] /\ queue_[i] \in Nodes /\ node[queue_[i]] \in Queue!Entry
    BY <2>1, EntriesAre DEF pendingEntries
  <2>3. node[queue_[i]] # NoValue /\ pending_[k] # queue_[i]
    BY <2>1, <2>2, QueueConstants
  <2>. QED BY <2>2, <2>3 DEF Queue!Unmapped
<1>3. Queue!Conflated!Appended(k, v) = Append(kept, e)
  BY DEF Queue!Conflated!Appended
<1>4. pendingEntries' = EntriesIn(queue_', node') /\ Queue!Unmapped' = Unfound(pending_', node')
  BY DEF pendingEntries, EntriesIn, Queue!Unmapped, Unfound
<1>. HIDE DEF kept
<1>5. CASE queue_' = q /\ node' = m /\ pending_' = p /\ popped' = BadAlloc
  <2>1. pendingEntries' = kept /\ Queue!Unmapped' = Queue!Conflated!StillIn(kept)
    BY <1>1, <1>4, <1>5
  <2>. QED BY <1>2, <1>5, <2>1 DEF Queue!Conflated!AddThrows, pendingEntries, EntriesIn, kept
<1>6. ASSUME NEW n \in Nodes, Queue!EmplaceBack(q, m, n, k, v),
             \/ pending_' = p /\ popped' = BadAlloc
             \/ pending_' = MapWith(p, k, n) /\ popped' = NoValue
      PROVE  Queue!Conflated!Add(k, v) \/ Queue!Conflated!AddThrows(k, v)
  <2>1. m[n] = NoValue /\ queue_' = Append(q, n) /\ node' = NodesWith(m, n, k, v)
    BY <1>6 DEF Queue!EmplaceBack, NodesWith
  <2>2. /\ Unfound(MapWith(p, k, n), node') = Queue!Conflated!StillIn(kept)
        /\ Unfound(p, node') = Queue!Conflated!StillIn(kept) \union {k}
    BY <1>1, <2>1, UnfoundAdded
  <2>3. pendingEntries' = Append(kept, e)
    <3>1. n \notin Queue!ToSet(q) /\ Agree(Append(q, n), p, node')
      BY <1>1, <2>1, Added
    <3>2. \A o \in Nodes : node'[o] = IF o = n THEN e ELSE m[o]
      BY <1>1, <2>1 DEF Agree, NodesWith
    <3>3. e \in Queue!Entry
      BY DEF Queue!Entry
    <3>. HIDE DEF e
    <3>4. EntriesIn(Append(q, n), node') = Append(EntriesIn(q, m), e)
      BY <1>1, <3>1, <3>2, <3>3, EntriesAdded
    <3>. QED BY <1>1, <1>4, <2>1, <3>4
  <2>4. CASE pending_' = p /\ popped' = BadAlloc
    <3>1. Queue!Unmapped' = Queue!Conflated!StillIn(kept) \union {k}
      BY <1>4, <2>2, <2>4
    <3>. QED BY <1>2, <1>3, <2>3, <2>4, <3>1 DEF Queue!Conflated!AddThrows, pendingEntries, EntriesIn, kept
  <2>5. CASE pending_' = MapWith(p, k, n) /\ popped' = NoValue
    <3>1. Queue!Unmapped' = Queue!Conflated!StillIn(kept)
      BY <1>4, <2>2, <2>5
    <3>. QED BY <1>2, <1>3, <2>3, <2>5, <3>1 DEF Queue!Conflated!Add, pendingEntries, EntriesIn, kept
  <2>. QED BY <1>6, <2>4, <2>5
<1>. QED BY <1>1, <1>5, <1>6 DEF Queue!Emplace, MapWith

LEMMA QueuePopRefines ==
  ASSUME QueueInv, Queue!Pop PROVE Queue!Conflated!Take
<1>1. Agree(queue_, pending_, node)
  BY QueueInvAgrees
<1>2. CASE Queue!empty
  <2>1. Len(queue_) = 0
    BY <1>2 DEF Queue!empty
  <2>2. pendingEntries = <<>>
    BY <1>1, <2>1, EntriesAre, EmptySeq DEF pendingEntries
  <2>3. pendingEntries' = pendingEntries /\ Queue!Unmapped' = Queue!Unmapped /\ popped' = NoValue
    BY <1>2 DEF Queue!Pop, pendingEntries, EntriesIn, Queue!Unmapped
  <2>. QED BY <2>2, <2>3 DEF Queue!Conflated!Take, pendingEntries, EntriesIn
<1>3. CASE ~ Queue!empty
  <2> DEFINE h == Head(queue_)
             rest == EntriesIn(Tail(queue_), Queue!Freed(h))
  <2>1. pendingEntries # <<>> /\ Head(pendingEntries) = node[h] /\ Tail(pendingEntries) = rest
    BY <1>1, <1>3, EntriesDropped DEF pendingEntries, Queue!empty, Queue!Freed
  <2>2. popped' = Head(pendingEntries) /\ pendingEntries' = Tail(pendingEntries)
    BY <1>3, <2>1 DEF Queue!Pop, pendingEntries
  <2>3. Unfound(Queue!Unmap(h), Queue!Freed(h)) =
          {k \in Unfound(pending_, node) : \E i \in 1..Len(rest) : rest[i].key = k}
    <3>1. /\ Queue!Unmap(h) = MapWithout(pending_, node, Head(queue_))
          /\ Queue!Freed(h) = NodesWithout(node, Head(queue_))
      BY DEF Queue!Unmap, Queue!Freed, MapWithout, NodesWithout
    <3>2. queue_ # <<>> /\ rest = EntriesIn(Tail(queue_), Queue!Freed(h))
      BY <1>3 DEF Queue!empty
    <3>. HIDE DEF h, rest
    <3>. QED BY ONLY <1>1, <3>1, <3>2, UnfoundDropped
  <2>4. Queue!Unmapped' = Unfound(Queue!Unmap(h), Queue!Freed(h))
    BY <1>3 DEF Queue!Pop, Queue!Unmapped, Unfound
  <2>. HIDE DEF rest
  <2>5. Queue!Unmapped' = Queue!Conflated!StillIn(Tail(pendingEntries))
    BY <2>1, <2>3, <2>4 DEF Queue!Conflated!StillIn, Queue!Conflated!Pending, Queue!Unmapped, Unfound
  <2>. QED BY <2>1, <2>2, <2>5 DEF Queue!Conflated!Take, pendingEntries, EntriesIn
<1>. QED BY <1>2, <1>3

LEMMA QueueRefines ==
  QueueInv /\ [Queue!Next]_queueVars => [Queue!Conflated!Next]_(Queue!Conflated!vars)
<1> SUFFICES ASSUME QueueInv, [Queue!Next]_queueVars PROVE [Queue!Conflated!Next]_(Queue!Conflated!vars)
  OBVIOUS
<1>1. ASSUME NEW k \in Keys, NEW v \in Values, Queue!PushOverwrite(k, v) PROVE Queue!Conflated!Offer(k, v)
  BY <1>1, ConflateRefines, InsertRefines DEF Queue!PushOverwrite, Queue!Conflated!Offer
<1>2. CASE Queue!Pop
  BY <1>2, QueuePopRefines DEF Queue!Conflated!Next
<1>3. CASE UNCHANGED queueVars
  BY <1>3 DEF queueVars, Queue!Conflated!vars, Queue!Unmapped
<1>. QED BY <1>1, <1>2, <1>3 DEF Queue!Next, Queue!Conflated!Next

(* No sequence of pushes, updates, evictions and pops leaves an iterator to an
   erased node in the map, or one to an older entry of its key than the newest,
   also where an allocation threw between the list and the map. *)
THEOREM NoStaleIterator == MCSpec => []IteratorsValid
<1>1. [MCNext]_allVars => [Queue!Next]_queueVars
  BY Alone
<1>2. QueueInv => IteratorsValid
  BY DEF QueueInv, IteratorsValid
<1>. QED BY <1>1, <1>2, Alone, QueueInit, QueueNext, PTL DEF MCSpec, allVars

(* Each key has one pending entry, with the newest value, where the key became
   pending; a new key drops the oldest entry of a full queue only, and a pop takes
   the oldest.  A push that throws drops no other entry, and a second entry of a key
   comes from such a push alone. *)
THEOREM Conflates == MCSpec => ImplementsConflation
<1>1. [MCNext]_allVars => [Queue!Next]_queueVars
  BY Alone
<1>2. Queue!Init => Queue!Conflated!Init
  BY DEF Queue!Init, Queue!Conflated!Init, Queue!Unmapped
<1>. QED BY <1>1, <1>2, Alone, QueueInit, QueueNext, QueueRefines, PTL
         DEF MCSpec, allVars, ImplementsConflation, Queue!ImplementsConflation, Queue!Conflated!Spec
-----------------------------------------------------------------------------
(* Every object has one owner. *)

PointerInv ==
  /\ ptr_ \in [Pointers -> Widgets \cup {None, NoPointer}]
  /\ raw \subseteq Widgets
  /\ pointer!OneOwner

LEMMA PointerInit == pointer!Init => PointerInv
  BY DEF pointer!Init, PointerInv, pointer!OneOwner

LEMMA PointerNext == PointerInv /\ [pointer!Next]_pointerVars => PointerInv'
<1>. SUFFICES ASSUME PointerInv, [pointer!Next]_pointerVars PROVE PointerInv'
  OBVIOUS
<1>1. None \notin Widgets /\ NoPointer \notin Widgets /\ None # NoPointer
  BY MCContainersAssumption DEF MCContainersAssumption
<1>2. raw \subseteq made
  BY DEF PointerInv, pointer!OneOwner
<1>. USE DEF PointerInv, pointer!OneOwner, pointer!Alive
<1>3. ASSUME NEW p \in Pointers, pointer!Make(p) PROVE PointerInv'
  BY <1>1, <1>2, <1>3 DEF pointer!Make
<1>4. ASSUME NEW p \in Pointers, pointer!Destroy(p) PROVE PointerInv'
  BY <1>1, <1>2, <1>4 DEF pointer!Destroy
<1>5. ASSUME NEW p \in Pointers, pointer!release(p) PROVE PointerInv'
  BY <1>1, <1>2, <1>5 DEF pointer!release
<1>6. ASSUME NEW p \in Pointers, pointer!reset(p) PROVE PointerInv'
  <2>1. PICK new_ptr \in raw \cup (Widgets \ made) \cup {None, ptr_[p]} :
          \/ UNCHANGED <<ptr_, made, raw>>
          \/ /\ new_ptr # ptr_[p] /\ ptr_' = [ptr_ EXCEPT ![p] = new_ptr]
             /\ made' = (made \cup ({new_ptr} \ {None})) \ {ptr_[p]}
             /\ raw' = raw \ {new_ptr}
    BY <1>6 DEF pointer!reset, pointer!vars
  <2>2. CASE UNCHANGED <<ptr_, made, raw>>
    BY <2>2
  <2>. QED BY <1>1, <1>2, <1>6, <2>1, <2>2 DEF pointer!reset
<1>7. ASSUME NEW p \in Pointers, NEW o \in Pointers, pointer!MoveConstruct(p, o) PROVE PointerInv'
  BY <1>1, <1>2, <1>7 DEF pointer!MoveConstruct
<1>8. ASSUME NEW p \in Pointers, NEW o \in Pointers, pointer!swap(p, o) PROVE PointerInv'
  BY <1>1, <1>2, <1>8 DEF pointer!swap
<1>9. CASE pointer!Delete
  BY <1>1, <1>2, <1>9 DEF pointer!Delete
<1>10. CASE UNCHANGED pointerVars
  BY <1>10 DEF pointerVars
<1>. QED BY <1>3, <1>4, <1>5, <1>6, <1>7, <1>8, <1>9, <1>10 DEF pointer!Next

-----------------------------------------------------------------------------
(* The set of the task manager lists the map, in the order of execution. *)

Before(e, f) == e[1] < f[1] \/ (e[1] = f[1] /\ e[2] <= f[2])

LEMMA BeforeThrough ==
  ASSUME NEW e \in Int \X Int, NEW f \in Int \X Int, NEW g \in Int \X Int,
         ~ Before(e, g), Before(e, f)
  PROVE  Before(g, f)
<1>1. e[1] \in Int /\ e[2] \in Int /\ f[1] \in Int /\ f[2] \in Int /\ g[1] \in Int /\ g[2] \in Int
  OBVIOUS
<1>. QED BY <1>1 DEF Before

LEMMA FirstExists ==
  ASSUME NEW S \in SUBSET (Int \X Int), IsFiniteSet(S), S # {}
  PROVE  \E e \in S : \A f \in S : Before(e, f)
<1>1. PICK n \in Nat : n = Cardinality(S)
  BY FS_CardinalityType
<1>2. PICK s \in Bijection(1..n, S) : TRUE
  BY <1>1, FS_CardinalityType DEF ExistsBijection
<1>3. s \in [1..n -> S] /\ \A e \in S : \E i \in 1..n : s[i] = e
  BY <1>2 DEF Bijection, Surjection
<1> DEFINE T == {k \in Nat : k + 1 <= n => \E e \in 1..(k + 1) : \A f \in 1..(k + 1) : Before(s[e], s[f])}
<1>4. 0 \in T
  <2>1. ASSUME 1 <= n PROVE Before(s[1], s[1])
    <3>1. s[1] \in Int \X Int
      BY <1>3, <2>1
    <3>. QED BY <3>1 DEF Before
  <2>. QED BY <2>1
<1>5. ASSUME NEW k \in T PROVE k + 1 \in T
  <2>1. CASE k + 2 <= n
    <3>1. PICK e \in 1..(k + 1) : \A f \in 1..(k + 1) : Before(s[e], s[f])
      BY <1>5, <2>1
    <3>2. /\ e \in 1..(k + 2) /\ k + 2 \in 1..(k + 2) /\ e \in 1..n /\ k + 2 \in 1..n
          /\ \A f \in 1..(k + 2) : f \in 1..(k + 1) \/ f = k + 2
          /\ \A f \in 1..(k + 2) : f \in 1..n
      BY <2>1, <3>1
    <3>3. \A f \in 1..n : s[f] \in Int \X Int
      BY <1>3
    <3>4. CASE Before(s[e], s[k + 2])
      <4>1. \A f \in 1..(k + 2) : Before(s[e], s[f])
        BY <3>1, <3>2, <3>4
      <4>. QED BY <3>2, <4>1
    <3>5. CASE ~ Before(s[e], s[k + 2])
      <4>1. \A f \in 1..(k + 2) : Before(s[k + 2], s[f])
        <5>1. ASSUME NEW f \in 1..(k + 1) PROVE Before(s[k + 2], s[f])
          <6>1. s[e] \in Int \X Int /\ s[f] \in Int \X Int /\ s[k + 2] \in Int \X Int /\ Before(s[e], s[f])
            <7>1. f \in 1..n
              BY <2>1
            <7>. QED BY <3>1, <3>2, <3>3, <7>1
          <6>. QED BY <3>5, <6>1, BeforeThrough
        <5>2. Before(s[k + 2], s[k + 2])
          BY <3>2, <3>3 DEF Before
        <5>. QED BY <3>2, <5>1, <5>2
      <4>. QED BY <3>2, <4>1
    <3>. QED BY <3>4, <3>5
  <2>2. CASE ~(k + 2 <= n)
    BY <2>2
  <2>. QED BY <2>1, <2>2
<1> HIDE DEF T
<1>6. T = Nat
  <2>1. T \in SUBSET Nat
    BY DEF T
  <2>. QED BY <1>4, <1>5, <2>1, SetInduction
<1>7. n # 0
  BY <1>1, FS_EmptySet
<1>8. PICK e \in 1..n : \A f \in 1..n : Before(s[e], s[f])
  <2>1. n - 1 \in T /\ (n - 1) + 1 = n
    BY <1>6, <1>7
  <2>. QED BY <2>1 DEF T
<1>. QED BY <1>3, <1>8

ManagerInv ==
  /\ mp \in [Tasks -> (Users \X Priorities) \cup {None}]
  /\ manager!RunsHighest

LEMMA ManagerInit == manager!Init => ManagerInv
  BY DEF manager!Init, ManagerInv, manager!RunsHighest, manager!Held

LEMMA HeldTypes ==
  ASSUME ManagerInv
  PROVE  /\ manager!Held \subseteq Tasks /\ Tasks \subseteq Int
         /\ \A t \in manager!Held : mp[t] \in Users \X Priorities /\ mp[t][2] \in Int
         /\ IsFiniteSet(manager!Held)
<1>1. manager!Held \subseteq Tasks /\ \A t \in manager!Held : mp[t] \in Users \X Priorities
  BY DEF ManagerInv, manager!Held
<1>. QED BY <1>1, FS_Subset, MCContainersAssumption DEF MCContainersAssumption

LEMMA ManagerNext == ManagerInv /\ [manager!Next]_managerVars => ManagerInv'
<1>. SUFFICES ASSUME ManagerInv, [manager!Next]_managerVars PROVE ManagerInv'
  OBVIOUS
<1>. DEFINE H == manager!Held
            entry(t) == <<-mp[t][2], -t>>
<1>1. /\ H \subseteq Tasks /\ Tasks \subseteq Int /\ Priorities \subseteq Int /\ None \notin Users \X Priorities
      /\ \A t \in H : mp[t] \in Users \X Priorities /\ mp[t][2] \in Int
      /\ IsFiniteSet(H)
      /\ st = {entry(t) : t \in H}
  BY HeldTypes, MCContainersAssumption DEF MCContainersAssumption, ManagerInv, manager!RunsHighest
<1>2. ASSUME NEW u \in Users, NEW t \in Tasks, NEW p \in Priorities, manager!add(u, t, p) PROVE ManagerInv'
  <2>1. mp' = [mp EXCEPT ![t] = <<u, p>>] /\ t \notin H /\ st' = st \cup {<<-p, -t>>} /\ ran' = manager!NotRun
    BY <1>2 DEF manager!add
  <2>2. mp' \in [Tasks -> (Users \X Priorities) \cup {None}]
    BY <2>1 DEF ManagerInv
  <2>3. H' = H \cup {t} /\ mp'[t] = <<u, p>> /\ \A o \in H : mp'[o] = mp[o]
    BY <1>1, <2>1 DEF ManagerInv, manager!Held
  <2>4. st' = {<<-mp'[o][2], -o>> : o \in H'}
    BY <1>1, <2>1, <2>3
  <2>. QED BY <2>1, <2>2, <2>4 DEF ManagerInv, manager!RunsHighest, manager!NotRun
<1>3. ASSUME NEW t \in Tasks, NEW p \in Priorities, manager!edit(t, p) PROVE ManagerInv'
  <2>1. mp' = [mp EXCEPT ![t] = <<mp[t][1], p>>] /\ t \in H /\ st' = (st \ {entry(t)}) \cup {<<-p, -t>>} /\ ran' = manager!NotRun
    BY <1>3 DEF manager!edit
  <2>2. mp' \in [Tasks -> (Users \X Priorities) \cup {None}]
    BY <1>1, <2>1 DEF ManagerInv
  <2>3. H' = H /\ mp'[t] = <<mp[t][1], p>> /\ \A o \in H : o # t => mp'[o] = mp[o]
    BY <1>1, <2>1 DEF ManagerInv, manager!Held
  <2>4. \A o \in H : entry(o) = entry(t) => o = t
    BY <1>1
  <2>5. st' = {<<-mp'[o][2], -o>> : o \in H'}
    BY <1>1, <2>1, <2>3, <2>4
  <2>. QED BY <2>1, <2>2, <2>5 DEF ManagerInv, manager!RunsHighest, manager!NotRun
<1>4. ASSUME NEW t \in H, st' = st \ {entry(t)}, mp' = [mp EXCEPT ![t] = None]
      PROVE  mp' \in [Tasks -> (Users \X Priorities) \cup {None}] /\ st' = {<<-mp'[o][2], -o>> : o \in H'}
  <2>1. mp' \in [Tasks -> (Users \X Priorities) \cup {None}]
    BY <1>4 DEF ManagerInv
  <2>2. H' = H \ {t} /\ \A o \in H \ {t} : mp'[o] = mp[o]
    BY <1>1, <1>4 DEF ManagerInv, manager!Held
  <2>3. ASSUME NEW o \in H, entry(o) = entry(t) PROVE o = t
    <3>1. o \in Int /\ t \in Int /\ -o = -t
      BY <1>1, <2>3
    <3>. QED BY <3>1
  <2>4. {<<-mp'[o][2], -o>> : o \in H'} = {entry(o) : o \in H \ {t}}
    BY ONLY <2>2
  <2>5. {entry(o) : o \in H \ {t}} = {entry(o) : o \in H} \ {entry(t)}
    <3>. HIDE DEF H, entry
    <3>. QED BY ONLY <2>3, t \in H
  <2>. QED BY ONLY <1>1, <1>4, <2>1, <2>4, <2>5
<1>5. ASSUME NEW t \in Tasks, manager!rmv(t) PROVE ManagerInv'
  BY <1>4, <1>5 DEF ManagerInv, manager!RunsHighest, manager!NotRun, manager!rmv
<1>6. CASE manager!execTop
  <2>1. st \in SUBSET (Int \X Int) /\ st # {}
    <3>1. \A t \in H : t \in Int /\ mp[t][2] \in Int
      BY <1>1
    <3>2. \A t \in H : entry(t) \in Int \X Int
      BY <3>1
    <3>. QED BY <1>1, <1>6, <3>2 DEF manager!execTop
  <2>2. IsFiniteSet(st)
    <3>1. [t \in H |-> entry(t)] \in Surjection(H, st)
      BY <1>1 DEF Surjection
    <3>. QED BY <1>1, <3>1, FS_Surjection
  <2>3. \E e \in st : \A f \in st : Before(e, f)
    BY <2>1, <2>2, FirstExists
  <2>4. manager!First \in st /\ \A f \in st : Before(manager!First, f)
    BY <2>3 DEF manager!First, Before
  <2>5. PICK t \in H : manager!First = entry(t)
    BY <1>1, <2>4
  <2>6. -manager!First[2] = t
    <3>1. t \in Int /\ manager!First[2] = -t
      BY <1>1, <2>5
    <3>. QED BY <3>1
  <2>7. st' = st \ {entry(t)} /\ mp' = [mp EXCEPT ![t] = None] /\ ran' = [task |-> t, among |-> {<<o, mp[o]>> : o \in H}]
    BY <1>6, <2>5, <2>6 DEF manager!execTop
  <2>8. ASSUME NEW o \in H PROVE mp[o][2] < mp[t][2] \/ (mp[o][2] = mp[t][2] /\ o <= t)
    <3>1. Before(entry(t), entry(o))
      BY <1>1, <2>4, <2>5
    <3>2. mp[o][2] \in Int /\ mp[t][2] \in Int /\ o \in Int /\ t \in Int
      BY <1>1
    <3>. QED BY <3>1, <3>2 DEF Before
  <2>9. \E e \in ran'.among :
          /\ e[1] = ran'.task
          /\ \A f \in ran'.among : f[2][2] < e[2][2] \/ (f[2][2] = e[2][2] /\ f[1] <= e[1])
    <3>1. <<t, mp[t]>> \in ran'.among /\ ran'.task = t
      BY <2>7
    <3>2. ASSUME NEW f \in ran'.among PROVE f[2][2] < mp[t][2] \/ (f[2][2] = mp[t][2] /\ f[1] <= t)
      <4>1. PICK o \in H : f = <<o, mp[o]>>
        BY <2>7
      <4>2. f[1] = o /\ f[2] = mp[o]
        BY <4>1
      <4>. QED BY <2>8, <4>2
    <3>3. <<t, mp[t]>>[1] = t /\ <<t, mp[t]>>[2] = mp[t]
      OBVIOUS
    <3>. QED BY <3>1, <3>2, <3>3, Zenon
  <2>. QED BY <1>4, <2>7, <2>9 DEF ManagerInv, manager!RunsHighest
<1>7. CASE UNCHANGED managerVars
  BY <1>7 DEF managerVars, ManagerInv, manager!RunsHighest, manager!Held, manager!NotRun
<1>. QED BY <1>2, <1>3, <1>5, <1>6, <1>7 DEF manager!Next
-----------------------------------------------------------------------------
(* CompactString. *)

StringRecord == [buffer : Seq(Items \cup {None}), length : Nat, heap_ptr : Blocks \cup {None}]

(* o holds the text t: in its buffer, or in a block that holds nothing else. *)
Holds(o, heap_, t) ==
  /\ o.length = Len(t)
  /\ IF Len(t) <= BUFFER_SIZE
       THEN o.heap_ptr = None /\ Len(o.buffer) = BUFFER_SIZE /\ \A i \in 1..Len(t) : o.buffer[i] = t[i]
       ELSE o.heap_ptr \in Blocks /\ heap_[o.heap_ptr] = t

CompactTypes ==
  /\ object \in [Strings -> StringRecord \cup {None}]
  /\ block \in [Blocks -> Seq(Items) \cup {None}]

TextsHeld == \A s \in Strings : object[s] # None => \E t \in Seq(Items) : Holds(object[s], block, t)

BlocksApart ==
  \A s, o \in Strings : object[s] # None /\ object[o] # None /\ s # o /\ object[s].heap_ptr # None =>
    object[s].heap_ptr # object[o].heap_ptr

BlocksReached ==
  \A k \in Blocks : block[k] # None => \E s \in Strings : object[s] # None /\ object[s].heap_ptr = k

CompactInv == CompactTypes /\ TextsHeld /\ BlocksApart /\ BlocksReached

(* None is not a string object, a text or a block. *)
LEMMA NoneIsNothing ==
  /\ None \notin StringRecord /\ None \notin Seq(Items) /\ None \notin Blocks
  /\ BUFFER_SIZE \in Nat /\ a \in Items /\ b \in Items
BY MCContainersAssumption DEF MCContainersAssumption, StringRecord

LEMMA RoomHolds ==
  ASSUME NEW t \in Seq(Items)
  PROVE  /\ compact!Room(BUFFER_SIZE, t) \in Seq(Items \cup {None})
         /\ Len(compact!Room(BUFFER_SIZE, t)) = BUFFER_SIZE
         /\ \A i \in 1..Len(t) : i <= BUFFER_SIZE => compact!Room(BUFFER_SIZE, t)[i] = t[i]
  BY NoneIsNothing DEF compact!Room

LEMMA EmptyRoom ==
  compact!Room(BUFFER_SIZE, <<>>) \in Seq(Items \cup {None}) /\ Len(compact!Room(BUFFER_SIZE, <<>>)) = BUFFER_SIZE
<1>1. <<>> \in Seq(Items)
  OBVIOUS
<1>. QED BY <1>1, RoomHolds

LEMMA ContentIs ==
  ASSUME NEW s \in Strings, CompactTypes, object[s] # None, NEW t \in Seq(Items), Holds(object[s], block, t)
  PROVE  compact!Content(s) = t
<1>1. object[s] \in StringRecord /\ Len(t) \in Nat /\ BUFFER_SIZE \in Nat
  BY NoneIsNothing DEF CompactTypes
<1>2. CASE Len(t) <= BUFFER_SIZE
  <2>1. SubSeq(object[s].buffer, 1, Len(t)) = t
    <3>1. /\ object[s].buffer \in Seq(Items \cup {None}) /\ Len(object[s].buffer) = BUFFER_SIZE
          /\ \A i \in 1..Len(t) : object[s].buffer[i] = t[i]
      BY <1>1, <1>2 DEF Holds, StringRecord
    <3>2. /\ SubSeq(object[s].buffer, 1, Len(t)) \in Seq(Items \cup {None})
          /\ Len(SubSeq(object[s].buffer, 1, Len(t))) = Len(t)
          /\ \A i \in 1..Len(t) : SubSeq(object[s].buffer, 1, Len(t))[i] = object[s].buffer[i]
      BY <1>1, <1>2, <3>1
    <3>3. t \in Seq(Items \cup {None})
      OBVIOUS
    <3>. QED BY <3>1, <3>2, <3>3, SeqEqual
  <2>. QED BY <1>1, <1>2, <2>1 DEF Holds, compact!Content, compact!is_small
<1>3. CASE ~ (Len(t) <= BUFFER_SIZE)
  <2>1. SubSeq(t, 1, Len(t)) = t
    BY SeqEqual
  <2>. QED BY <1>1, <1>3, <2>1 DEF Holds, compact!Content, compact!is_small
<1>. QED BY <1>2, <1>3

LEMMA ContentIsNext ==
  \A s \in Strings, t \in Seq(Items) :
    CompactTypes' /\ object'[s] # None /\ Holds(object'[s], block', t) => compact!Content(s)' = t
<1>1. \A s \in Strings, t \in Seq(Items) :
        CompactTypes /\ object[s] # None /\ Holds(object[s], block, t) => compact!Content(s) = t
  BY ContentIs
<1>2. (\A s \in Strings, t \in Seq(Items) :
         CompactTypes /\ object[s] # None /\ Holds(object[s], block, t) => compact!Content(s) = t)'
  BY <1>1, PTL
<1>. QED BY <1>2

LEMMA ContentHeld ==
  ASSUME NEW s \in Strings, CompactInv, object[s] # None
  PROVE  compact!Content(s) \in Seq(Items) /\ Holds(object[s], block, compact!Content(s))
<1>1. PICK t \in Seq(Items) : Holds(object[s], block, t)
  BY DEF CompactInv, TextsHeld
<1>. QED BY <1>1, ContentIs DEF CompactInv

LEMMA CompactInit == compact!Init => CompactInv
  BY DEF compact!Init, CompactInv, CompactTypes, TextsHeld, BlocksApart, BlocksReached

(* The block that new returns when the text is long. *)
NewBlock == CHOOSE f \in compact!FreeBlocks \union {None} : f = None <=> compact!FreeBlocks = {}

(* A new object takes a free block if it is long and none if it is short. *)
LEMMA HoldingHolds ==
  ASSUME NEW t \in Seq(Items), CompactTypes, compact!CanHold(t),
         NEW o, o = compact!Holding(t, NewBlock),
         NEW blocks, blocks = compact!Allocated(t, NewBlock)
  PROVE  /\ o \in StringRecord
         /\ blocks \in [Blocks -> Seq(Items) \cup {None}]
         /\ Holds(o, blocks, t)
         /\ o.heap_ptr = None => blocks = block
         /\ o.heap_ptr # None => block[o.heap_ptr] = None /\ blocks = [block EXCEPT ![o.heap_ptr] = t]
<1>1. Len(t) \in Nat /\ BUFFER_SIZE \in Nat
  BY NoneIsNothing
<1>2. CASE Len(t) <= BUFFER_SIZE
  <2>1. o = [buffer |-> compact!Room(BUFFER_SIZE, t), length |-> Len(t), heap_ptr |-> None] /\ blocks = block
    BY <1>2 DEF compact!Holding, compact!Allocated, compact!is_small
  <2>2. o \in StringRecord /\ o.buffer = compact!Room(BUFFER_SIZE, t) /\ o.length = Len(t) /\ o.heap_ptr = None
    <3>1. compact!Room(BUFFER_SIZE, t) \in Seq(Items \cup {None}) /\ None \in Blocks \cup {None}
      BY RoomHolds
    <3>. QED BY <1>1, <2>1, <3>1 DEF StringRecord
  <2>3. Holds(o, blocks, t)
    BY <1>1, <1>2, <2>2, RoomHolds DEF Holds
  <2>. QED BY <2>1, <2>2, <2>3 DEF CompactTypes
<1>3. CASE ~ (Len(t) <= BUFFER_SIZE)
  <2>1. compact!FreeBlocks # {} /\ None \notin compact!FreeBlocks
    BY <1>3, NoneIsNothing DEF compact!CanHold, compact!is_small, compact!FreeBlocks
  <2>2. \E g \in compact!FreeBlocks \union {None} : g = None <=> compact!FreeBlocks = {}
    BY <2>1
  <2>3. NewBlock \in compact!FreeBlocks
    BY <2>1, <2>2 DEF NewBlock
  <2>4. NewBlock \in Blocks /\ block[NewBlock] = None /\ NewBlock # None
    BY <2>1, <2>3 DEF compact!FreeBlocks
  <2>5. o = [buffer |-> compact!Room(BUFFER_SIZE, <<>>), length |-> Len(t), heap_ptr |-> NewBlock]
        /\ blocks = [block EXCEPT ![NewBlock] = t]
    BY <1>3 DEF compact!Holding, compact!Allocated, compact!is_small
  <2>6. o \in StringRecord /\ o.length = Len(t) /\ o.heap_ptr = NewBlock
    BY <1>1, <2>4, <2>5, EmptyRoom DEF StringRecord
  <2>7. Holds(o, blocks, t)
    BY <1>1, <1>3, <2>4, <2>5, <2>6 DEF Holds, CompactTypes
  <2>. QED BY <2>4, <2>5, <2>6, <2>7 DEF CompactTypes
<1>. QED BY <1>2, <1>3

(* A move leaves the text and the block in the target and neither in the source. *)
LEMMA MoveHolds ==
  ASSUME NEW o \in StringRecord, NEW heap_, NEW t \in Seq(Items), Holds(o, heap_, t)
  PROVE  /\ compact!Target(o) \in StringRecord /\ compact!Source(o) \in StringRecord
         /\ Holds(compact!Target(o), heap_, t) /\ compact!Target(o).heap_ptr = o.heap_ptr
         /\ Holds(compact!Source(o), heap_, <<>>) /\ compact!Source(o).heap_ptr = None
<1>1. Len(t) \in Nat /\ BUFFER_SIZE \in Nat /\ <<>> \in Seq(Items)
  BY NoneIsNothing
<1>2. o.length = Len(t) /\ (o.heap_ptr = None <=> Len(t) <= BUFFER_SIZE)
  BY NoneIsNothing DEF Holds
<1>3. /\ compact!Source(o) = [buffer |-> compact!Room(BUFFER_SIZE, <<>>), length |-> 0, heap_ptr |-> None]
      /\ compact!Target(o).length = Len(t) /\ compact!Target(o).heap_ptr = o.heap_ptr
  BY <1>2 DEF compact!Source, compact!Target, compact!is_small
<1>4. compact!Source(o) \in StringRecord /\ Holds(compact!Source(o), heap_, <<>>)
  <2>1. /\ compact!Source(o) \in StringRecord /\ compact!Source(o).length = 0 /\ compact!Source(o).heap_ptr = None
        /\ compact!Source(o).buffer = compact!Room(BUFFER_SIZE, <<>>)
    <3>1. None \in Blocks \cup {None} /\ 0 \in Nat
      OBVIOUS
    <3>. QED BY <1>3, <3>1, EmptyRoom DEF StringRecord
  <2>. QED BY <1>1, <2>1, EmptyRoom DEF Holds
<1>5. CASE Len(t) <= BUFFER_SIZE
  <2>1. /\ o.buffer \in Seq(Items \cup {None}) /\ Len(o.buffer) = BUFFER_SIZE
        /\ \A i \in 1..Len(t) : o.buffer[i] = t[i]
    BY <1>5 DEF Holds, StringRecord
  <2>2. SubSeq(o.buffer, 1, Len(t)) = t
    <3>1. /\ SubSeq(o.buffer, 1, Len(t)) \in Seq(Items \cup {None})
          /\ Len(SubSeq(o.buffer, 1, Len(t))) = Len(t)
          /\ \A i \in 1..Len(t) : SubSeq(o.buffer, 1, Len(t))[i] = o.buffer[i]
      BY <1>1, <1>5, <2>1
    <3>2. t \in Seq(Items \cup {None})
      OBVIOUS
    <3>. QED BY <2>1, <3>1, <3>2, SeqEqual
  <2>3. compact!Target(o) = [buffer |-> compact!Room(BUFFER_SIZE, t), length |-> Len(t), heap_ptr |-> None]
    BY <1>2, <1>5, <2>2 DEF compact!Target, compact!is_small
  <2>. QED BY <1>1, <1>2, <1>3, <1>4, <1>5, <2>3, RoomHolds DEF StringRecord, Holds
<1>6. CASE ~ (Len(t) <= BUFFER_SIZE)
  <2>1. compact!Target(o) = [buffer |-> compact!Room(BUFFER_SIZE, <<>>), length |-> Len(t), heap_ptr |-> o.heap_ptr]
    BY <1>2, <1>6 DEF compact!Target, compact!is_small
  <2>. QED BY <1>1, <1>2, <1>3, <1>4, <1>6, <2>1, RoomHolds DEF StringRecord, Holds
<1>. QED BY <1>5, <1>6

-----------------------------------------------------------------------------
(* What each step of CompactString does to the texts. *)

Texts == [s \in Strings |-> IF object[s] # None THEN compact!Content(s) ELSE None]

LEMMA TextsAre ==
  ASSUME CompactInv
  PROVE  /\ Texts \in [Strings -> Seq(Items) \cup {None}]
         /\ \A s \in Strings : Texts[s] = None <=> object[s] = None
         /\ \A s \in Strings : object[s] # None => Texts[s] = compact!Content(s) /\ Holds(object[s], block, Texts[s])
  BY ContentHeld, NoneIsNothing DEF Texts

(* From what the objects hold, their texts. *)
LEMMA TextsBecome ==
  \A t \in [Strings -> Seq(Items) \cup {None}] :
    /\ CompactTypes'
    /\ \A o \in Strings : /\ t[o] = None <=> object'[o] = None
                          /\ object'[o] # None => Holds(object'[o], block', t[o])
    => TextsHeld' /\ Texts' = t
<1>. SUFFICES ASSUME CompactTypes', NEW t \in [Strings -> Seq(Items) \cup {None}],
                     \A o \in Strings : /\ t[o] = None <=> object'[o] = None
                                        /\ object'[o] # None => Holds(object'[o], block', t[o])
              PROVE  TextsHeld' /\ Texts' = t
  OBVIOUS
<1>1. ASSUME NEW s \in Strings, object'[s] # None
      PROVE  t[s] \in Seq(Items) /\ Holds(object'[s], block', t[s]) /\ compact!Content(s)' = t[s]
  <2>1. t[s] \in Seq(Items) /\ Holds(object'[s], block', t[s])
    BY <1>1, NoneIsNothing
  <2>2. \A u \in Seq(Items) : Holds(object'[s], block', u) => compact!Content(s)' = u
    BY <1>1, ContentIsNext
  <2>. QED BY <2>1, <2>2
<1>2. TextsHeld'
  BY <1>1 DEF TextsHeld
<1>3. \A s \in Strings : Texts'[s] = t[s]
  BY <1>1 DEF Texts
<1>4. Texts' = [s \in Strings |-> Texts'[s]] /\ t = [s \in Strings |-> t[s]]
  BY DEF Texts
<1>. QED BY <1>2, <1>3, <1>4

LEMMA DeletedIs ==
  ASSUME NEW heap_ \in [Blocks -> Seq(Items) \cup {None}], NEW k \in Blocks \cup {None}
  PROVE  /\ compact!Deleted(heap_, k) \in [Blocks -> Seq(Items) \cup {None}]
         /\ \A c \in Blocks : compact!Deleted(heap_, k)[c] = IF c = k THEN None ELSE heap_[c]
  BY NoneIsNothing DEF compact!Deleted

(* The block of a string that holds a text. *)
LEMMA BlockOf ==
  ASSUME CompactInv, NEW s \in Strings, object[s] # None
  PROVE  /\ object[s] \in StringRecord /\ object[s].heap_ptr \in Blocks \cup {None}
         /\ object[s].heap_ptr # None => block[object[s].heap_ptr] # None
  BY NoneIsNothing DEF CompactInv, CompactTypes, TextsHeld, Holds, StringRecord

LEMMA HoldsElsewhere ==
  ASSUME NEW o, NEW t, NEW h, NEW g, Holds(o, h, t), o.heap_ptr # None => g[o.heap_ptr] = h[o.heap_ptr]
  PROVE  Holds(o, g, t)
  BY NoneIsNothing DEF Holds

(* The block that s had before. *)
Former(s) == IF object[s] = None THEN None ELSE object[s].heap_ptr

LEMMA FormerIs ==
  ASSUME CompactInv, NEW s \in Strings
  PROVE  /\ Former(s) \in Blocks \cup {None}
         /\ Former(s) # None => block[Former(s)] # None
         /\ \A o \in Strings : o # s /\ object[o] # None /\ object[o].heap_ptr # None => object[o].heap_ptr # Former(s)
  BY BlockOf DEF Former, CompactInv, BlocksApart

(* s becomes the object n, whose text t is in its buffer or in a new block, and
   gives up the block it had. *)
LEMMA Renewed ==
  ASSUME CompactInv, NEW s \in Strings, NEW t \in Seq(Items),
         NEW n \in StringRecord, NEW blocks \in [Blocks -> Seq(Items) \cup {None}],
         Holds(n, blocks, t),
         n.heap_ptr = None => blocks = block,
         n.heap_ptr # None => block[n.heap_ptr] = None /\ blocks = [block EXCEPT ![n.heap_ptr] = t],
         object' = [object EXCEPT ![s] = n], block' = compact!Deleted(blocks, Former(s))
  PROVE  CompactInv' /\ Texts' = [Texts EXCEPT ![s] = t]
<1>1. /\ object'[s] = n /\ \A o \in Strings : o # s => object'[o] = object[o]
      /\ object' \in [Strings -> StringRecord \cup {None}] /\ n # None
  BY NoneIsNothing DEF CompactInv, CompactTypes
<1>2. /\ block' \in [Blocks -> Seq(Items) \cup {None}]
      /\ \A c \in Blocks : block'[c] = IF c = Former(s) THEN None ELSE blocks[c]
  BY FormerIs, DeletedIs
<1>3. CompactTypes'
  BY <1>1, <1>2 DEF CompactTypes
<1>4. n.heap_ptr \in Blocks \cup {None} /\ (n.heap_ptr # None => n.heap_ptr # Former(s))
  BY FormerIs DEF StringRecord
<1>5. \A c \in Blocks : c # n.heap_ptr => blocks[c] = block[c]
  BY DEF CompactInv, CompactTypes
<1>6. Holds(n, block', t)
  BY <1>2, <1>4, HoldsElsewhere
<1>7. ASSUME NEW o \in Strings, o # s, object[o] # None
      PROVE  /\ Holds(object[o], block', Texts[o])
             /\ object[o].heap_ptr # None => object[o].heap_ptr # n.heap_ptr
  <2>. PICK p : p = object[o].heap_ptr
    OBVIOUS
  <2>. PICK q : q = n.heap_ptr
    OBVIOUS
  <2>1. p \in Blocks \cup {None} /\ (p # None => block[p] # None /\ p # Former(s))
    BY <1>7, BlockOf, FormerIs
  <2>2. p # None => p # q
    BY <2>1
  <2>3. p # None => block'[p] = block[p]
    BY <1>2, <1>5, <2>1, <2>2
  <2>. QED BY <1>7, <2>2, <2>3, TextsAre, HoldsElsewhere
<1>8. TextsHeld' /\ Texts' = [Texts EXCEPT ![s] = t]
  <2>. PICK u : u = [Texts EXCEPT ![s] = t]
    OBVIOUS
  <2>1. u \in [Strings -> Seq(Items) \cup {None}]
    BY TextsAre
  <2>4. u[s] = t /\ \A o \in Strings : o # s => u[o] = Texts[o]
    BY TextsAre
  <2>2. \A o \in Strings : /\ u[o] = None <=> object'[o] = None
                           /\ object'[o] # None => Holds(object'[o], block', u[o])
    BY <1>1, <1>6, <1>7, <2>4, TextsAre, NoneIsNothing
  <2>3. TextsHeld' /\ Texts' = u
    BY <1>3, <2>1, <2>2, TextsBecome
  <2>. QED BY <2>3
<1>9. BlocksApart'
  BY <1>1, <1>7 DEF BlocksApart, CompactInv
<1>10. BlocksReached'
  <2>. SUFFICES ASSUME NEW k \in Blocks, block'[k] # None
                PROVE  \E o \in Strings : object'[o] # None /\ object'[o].heap_ptr = k
    BY DEF BlocksReached
  <2>1. CASE k = n.heap_ptr
    BY <1>1, <2>1
  <2>2. CASE k # n.heap_ptr
    <3>1. k # Former(s) /\ block[k] # None
      BY <1>2, <1>5, <2>2
    <3>2. PICK o \in Strings : object[o] # None /\ object[o].heap_ptr = k
      BY <3>1 DEF CompactInv, BlocksReached
    <3>3. o # s
      BY <3>1, <3>2 DEF Former
    <3>. QED BY <1>1, <3>2, <3>3
  <2>. QED BY <2>1, <2>2
<1>. QED BY <1>3, <1>8, <1>9, <1>10 DEF CompactInv

LEMMA ConstructStep ==
  ASSUME CompactInv, NEW s \in Strings, NEW t \in Seq(Items), compact!Construct(s, t)
  PROVE  CompactInv' /\ Texts' = [Texts EXCEPT ![s] = t] /\ Texts[s] = None
<1>. DEFINE n == compact!Holding(t, NewBlock)
            blocks == compact!Allocated(t, NewBlock)
<1>1. object[s] = None /\ compact!CanHold(t) /\ object' = [object EXCEPT ![s] = n] /\ block' = blocks
  BY DEF compact!Construct, compact!Alive, NewBlock
<1>2. /\ n \in StringRecord
      /\ blocks \in [Blocks -> Seq(Items) \cup {None}]
      /\ Holds(n, blocks, t)
      /\ n.heap_ptr = None => blocks = block
      /\ n.heap_ptr # None => block[n.heap_ptr] = None /\ blocks = [block EXCEPT ![n.heap_ptr] = t]
  BY <1>1, HoldingHolds DEF CompactInv
<1>3. block' = compact!Deleted(blocks, Former(s))
  BY <1>1 DEF compact!Deleted, Former
<1>. HIDE DEF n, blocks
<1>. QED BY <1>1, <1>2, <1>3, Renewed, TextsAre

LEMMA CopyAssignStep ==
  ASSUME CompactInv, NEW s \in Strings, NEW p \in Strings, compact!CopyAssign(s, p)
  PROVE  CompactInv' /\ Texts' = [Texts EXCEPT ![s] = Texts[p]] /\ Texts[p] # None
<1>1. PICK t \in Seq(Items) : t = compact!Content(p) /\ t = Texts[p]
  BY ContentHeld, TextsAre DEF compact!CopyAssign, compact!Alive
<1>. DEFINE h == compact!Holding(t, NewBlock)
            n == compact!Target(h)
            blocks == compact!Allocated(t, NewBlock)
<1>2. /\ object[s] # None /\ object[p] # None /\ compact!CanHold(t) /\ object' = [object EXCEPT ![s] = n]
      /\ block' = compact!Deleted(blocks, object[s].heap_ptr)
  BY <1>1 DEF compact!CopyAssign, compact!Alive, NewBlock
<1>3. /\ h \in StringRecord
      /\ blocks \in [Blocks -> Seq(Items) \cup {None}]
      /\ Holds(h, blocks, t)
      /\ h.heap_ptr = None => blocks = block
      /\ h.heap_ptr # None => block[h.heap_ptr] = None /\ blocks = [block EXCEPT ![h.heap_ptr] = t]
  BY <1>2, HoldingHolds DEF CompactInv
<1>4. block' = compact!Deleted(blocks, Former(s))
  BY <1>2 DEF Former
<1>. HIDE DEF h, blocks
<1>5. n \in StringRecord /\ Holds(n, blocks, t) /\ n.heap_ptr = h.heap_ptr
  BY <1>3, MoveHolds
<1>. HIDE DEF n
<1>6. CompactInv' /\ Texts' = [Texts EXCEPT ![s] = t]
  BY <1>2, <1>3, <1>4, <1>5, Renewed
<1>. QED BY <1>1, <1>6, NoneIsNothing

(* A move gives s the text and the block of p, and p the empty text. *)
LEMMA MoveStep ==
  ASSUME CompactInv, NEW s \in Strings, NEW p \in Strings, s # p, object[p] # None,
         object' = [object EXCEPT ![s] = compact!Target(object[p]), ![p] = compact!Source(object[p])],
         block' = compact!Deleted(block, Former(s))
  PROVE  CompactInv' /\ Texts' = [Texts EXCEPT ![s] = Texts[p], ![p] = <<>>] /\ Texts[p] # None
<1>. PICK old : old = object[p]
  OBVIOUS
<1>. PICK n : n = compact!Target(old)
  OBVIOUS
<1>. PICK m : m = compact!Source(old)
  OBVIOUS
<1>1. old \in StringRecord /\ Texts[p] \in Seq(Items) /\ Holds(old, block, Texts[p])
  BY TextsAre, BlockOf, ContentHeld
<1>2. /\ n \in StringRecord /\ m \in StringRecord /\ n # None /\ m # None
      /\ Holds(n, block, Texts[p]) /\ n.heap_ptr = old.heap_ptr
      /\ Holds(m, block, <<>>) /\ m.heap_ptr = None
  BY <1>1, MoveHolds, NoneIsNothing
<1>3. /\ object' = [object EXCEPT ![s] = n, ![p] = m]
      /\ object'[s] = n /\ object'[p] = m /\ \A o \in Strings : o # s /\ o # p => object'[o] = object[o]
      /\ object' \in [Strings -> StringRecord \cup {None}]
  BY <1>2 DEF CompactInv, CompactTypes
<1>4. /\ block' \in [Blocks -> Seq(Items) \cup {None}]
      /\ \A c \in Blocks : block'[c] = IF c = Former(s) THEN None ELSE block[c]
  BY FormerIs, DeletedIs DEF CompactInv, CompactTypes
<1>5. CompactTypes'
  BY <1>3, <1>4 DEF CompactTypes
<1>6. ASSUME NEW o \in Strings, o # s, object[o] # None
      PROVE  \A q : q = object[o].heap_ptr /\ q # None => q \in Blocks /\ q # Former(s) /\ block'[q] = block[q] /\ block[q] # None
  <2>. SUFFICES ASSUME NEW q, q = object[o].heap_ptr, q # None
                PROVE  q \in Blocks /\ q # Former(s) /\ block'[q] = block[q] /\ block[q] # None
    OBVIOUS
  <2>1. q \in Blocks /\ q # Former(s) /\ block[q] # None
    BY <1>6, BlockOf, FormerIs
  <2>. QED BY <1>4, <2>1
<1>7. Holds(n, block', Texts[p]) /\ Holds(m, block', <<>>)
  <2>1. n.heap_ptr # None => block'[n.heap_ptr] = block[n.heap_ptr]
    BY <1>2, <1>6
  <2>. QED BY <1>2, <2>1, HoldsElsewhere
<1>8. TextsHeld' /\ Texts' = [Texts EXCEPT ![s] = Texts[p], ![p] = <<>>]
  <2>. PICK u : u = [Texts EXCEPT ![s] = Texts[p], ![p] = <<>>]
    OBVIOUS
  <2>1. u \in [Strings -> Seq(Items) \cup {None}]
    BY TextsAre
  <2>2. u[s] = Texts[p] /\ u[p] = <<>> /\ \A o \in Strings : o # s /\ o # p => u[o] = Texts[o]
    BY TextsAre
  <2>3. ASSUME NEW o \in Strings
        PROVE  (u[o] = None <=> object'[o] = None) /\ (object'[o] # None => Holds(object'[o], block', u[o]))
    <3>1. CASE o = s
      BY <1>1, <1>2, <1>3, <1>7, <2>2, <3>1, NoneIsNothing
    <3>2. CASE o = p
      BY <1>2, <1>3, <1>7, <2>2, <3>2, NoneIsNothing, <<>> \in Seq(Items)
    <3>3. CASE o # s /\ o # p
      <4>1. object[o] # None => Holds(object[o], block, Texts[o])
        BY TextsAre
      <4>2. object[o] # None /\ object[o].heap_ptr # None => block'[object[o].heap_ptr] = block[object[o].heap_ptr]
        BY <1>6, <3>3
      <4>3. object[o] # None => Holds(object[o], block', Texts[o])
        BY <4>1, <4>2, HoldsElsewhere
      <4>. QED BY <1>3, <2>2, <3>3, <4>3, TextsAre
    <3>. QED BY <3>1, <3>2, <3>3
  <2>. QED BY <1>5, <2>1, <2>3, TextsBecome
<1>9. BlocksApart'
  <2>. SUFFICES ASSUME NEW o \in Strings, NEW q \in Strings, object'[o] # None, object'[q] # None, o # q,
                       object'[o].heap_ptr # None
                PROVE  object'[o].heap_ptr # object'[q].heap_ptr
    BY DEF BlocksApart
  <2>1. \A x, y \in Strings : object[x] # None /\ object[y] # None /\ x # y /\ object[x].heap_ptr # None =>
          object[x].heap_ptr # object[y].heap_ptr
    BY DEF CompactInv, BlocksApart
  <2>2. CASE q = p \/ o = p
    BY <1>2, <1>3, <2>2
  <2>3. CASE o # p /\ q # p
    <3>1. CASE o = s
      BY <1>2, <1>3, <2>1, <2>3, <3>1
    <3>2. CASE q = s
      BY <1>2, <1>3, <2>1, <2>3, <3>2
    <3>3. CASE o # s /\ q # s
      BY <1>3, <2>1, <2>3, <3>3
    <3>. QED BY <3>1, <3>2, <3>3
  <2>. QED BY <2>2, <2>3
<1>10. BlocksReached'
  <2>. SUFFICES ASSUME NEW k \in Blocks, block'[k] # None
                PROVE  \E o \in Strings : object'[o] # None /\ object'[o].heap_ptr = k
    BY DEF BlocksReached
  <2>1. k # Former(s) /\ block[k] # None
    BY <1>4
  <2>2. PICK o \in Strings : object[o] # None /\ object[o].heap_ptr = k
    BY <2>1 DEF CompactInv, BlocksReached
  <2>3. o # s
    BY <2>1, <2>2 DEF Former
  <2>. QED BY <1>2, <1>3, <2>2, <2>3
<1>. QED BY <1>1, <1>5, <1>8, <1>9, <1>10, NoneIsNothing DEF CompactInv

LEMMA DestroyStep ==
  ASSUME CompactInv, NEW s \in Strings, compact!Destroy(s)
  PROVE  CompactInv' /\ Texts' = [Texts EXCEPT ![s] = None] /\ Texts[s] # None
<1>1. /\ object[s] # None /\ object'[s] = None /\ \A o \in Strings : o # s => object'[o] = object[o]
      /\ object' \in [Strings -> StringRecord \cup {None}]
      /\ block' = compact!Deleted(block, Former(s))
  BY DEF compact!Destroy, compact!Alive, Former, CompactInv, CompactTypes
<1>2. /\ block' \in [Blocks -> Seq(Items) \cup {None}]
      /\ \A c \in Blocks : block'[c] = IF c = Former(s) THEN None ELSE block[c]
  BY <1>1, FormerIs, DeletedIs DEF CompactInv, CompactTypes
<1>3. CompactTypes'
  BY <1>1, <1>2 DEF CompactTypes
<1>4. ASSUME NEW o \in Strings, o # s, object[o] # None
      PROVE  Holds(object[o], block', Texts[o])
  <2>. PICK q : q = object[o].heap_ptr
    OBVIOUS
  <2>1. q # None => q \in Blocks /\ q # Former(s)
    BY <1>4, BlockOf, FormerIs
  <2>2. q # None => block'[q] = block[q]
    BY <1>2, <2>1
  <2>. QED BY <1>4, <2>2, TextsAre, HoldsElsewhere
<1>5. TextsHeld' /\ Texts' = [Texts EXCEPT ![s] = None]
  <2>. PICK u : u = [Texts EXCEPT ![s] = None]
    OBVIOUS
  <2>1. u \in [Strings -> Seq(Items) \cup {None}]
    BY TextsAre
  <2>2. u[s] = None /\ \A o \in Strings : o # s => u[o] = Texts[o]
    BY TextsAre
  <2>3. ASSUME NEW o \in Strings
        PROVE  (u[o] = None <=> object'[o] = None) /\ (object'[o] # None => Holds(object'[o], block', u[o]))
    BY <1>1, <1>4, <2>2, TextsAre
  <2>. QED BY <1>3, <2>1, <2>3, TextsBecome
<1>6. BlocksApart'
  BY <1>1 DEF BlocksApart, CompactInv
<1>7. BlocksReached'
  <2>. SUFFICES ASSUME NEW k \in Blocks, block'[k] # None
                PROVE  \E o \in Strings : object'[o] # None /\ object'[o].heap_ptr = k
    BY DEF BlocksReached
  <2>1. k # Former(s) /\ block[k] # None
    BY <1>2
  <2>2. PICK o \in Strings : object[o] # None /\ object[o].heap_ptr = k
    BY <2>1 DEF CompactInv, BlocksReached
  <2>. QED BY <1>1, <2>1, <2>2 DEF Former
<1>. QED BY <1>1, <1>3, <1>5, <1>6, <1>7, TextsAre DEF CompactInv

LEMMA CompactRefines ==
  CompactInv /\ [compact!Next]_compactVars =>
    CompactInv' /\ [compact!Objects!Next]_Texts
<1>. SUFFICES ASSUME CompactInv, [compact!Next]_compactVars
              PROVE  CompactInv' /\ [compact!Objects!Next]_Texts
  OBVIOUS
<1>0. Texts = [s \in Strings |-> IF compact!Alive(s) THEN compact!Content(s) ELSE None]
  BY DEF Texts, compact!Alive
<1>10. Texts' = [s \in Strings |-> IF compact!Alive(s) THEN compact!Content(s) ELSE None]'
  BY DEF Texts, compact!Alive
<1>. USE DEF compact!Objects!Becomes, compact!Objects!Alive, compact!Objects!Next
<1>1. ASSUME NEW s \in Strings, compact!FromText(s) PROVE CompactInv' /\ [compact!Objects!Next]_Texts
  <2>1. PICK t \in {<<>>, <<a>>, <<b, a>>} : compact!Construct(s, t)
    BY <1>1 DEF compact!FromText
  <2>2. t \in Seq(Items)
    <3>1. <<>> \in Seq(Items) /\ <<a>> \in Seq(Items) /\ <<b, a>> \in Seq(Items)
      BY NoneIsNothing
    <3>. QED BY <3>1
  <2>3. CompactInv' /\ Texts' = [Texts EXCEPT ![s] = t] /\ Texts[s] = None
    BY <2>1, <2>2, ConstructStep
  <2>4. compact!Objects!Construct(s)
    BY <1>0, <1>10, <2>3 DEF compact!Objects!Construct
  <2>. QED BY <2>3, <2>4
<1>2. ASSUME NEW s \in Strings, compact!Destroy(s) PROVE CompactInv' /\ [compact!Objects!Next]_Texts
  <2>1. compact!Objects!Destroy(s)
    BY <1>0, <1>10, <1>2, DestroyStep DEF compact!Objects!Destroy
  <2>. QED BY <1>2, <2>1, DestroyStep
<1>3. ASSUME NEW s \in Strings, NEW p \in Strings, compact!CopyConstruct(s, p)
      PROVE  CompactInv' /\ [compact!Objects!Next]_Texts
  <2>1. compact!Construct(s, Texts[p]) /\ Texts[p] \in Seq(Items) /\ Texts[p] # None
    BY <1>3, ContentHeld, TextsAre DEF compact!CopyConstruct, compact!Alive
  <2>2. CompactInv' /\ Texts' = [Texts EXCEPT ![s] = Texts[p]]
    BY <2>1, ConstructStep
  <2>3. compact!Objects!Copy(s, p)
    BY <1>0, <1>10, <2>1, <2>2 DEF compact!Objects!Copy
  <2>. QED BY <2>2, <2>3
<1>4. ASSUME NEW s \in Strings, NEW p \in Strings, compact!CopyAssign(s, p)
      PROVE  CompactInv' /\ [compact!Objects!Next]_Texts
  <2>1. compact!Objects!Copy(s, p)
    BY <1>0, <1>10, <1>4, CopyAssignStep DEF compact!Objects!Copy
  <2>. QED BY <1>4, <2>1, CopyAssignStep
<1>5. ASSUME NEW s \in Strings, NEW p \in Strings, compact!MoveConstruct(s, p) \/ compact!MoveAssign(s, p)
      PROVE  CompactInv' /\ [compact!Objects!Next]_Texts
  <2>1. /\ s # p /\ object[p] # None
        /\ object' = [object EXCEPT ![s] = compact!Target(object[p]), ![p] = compact!Source(object[p])]
        /\ block' = compact!Deleted(block, Former(s))
    BY <1>5 DEF compact!MoveConstruct, compact!MoveAssign, compact!Alive, compact!Deleted, Former
  <2>2. CompactInv' /\ Texts' = [Texts EXCEPT ![s] = Texts[p], ![p] = <<>>] /\ Texts[p] # None
    BY <2>1, MoveStep
  <2>3. compact!Objects!Move(s, p)
    BY <1>0, <1>10, <2>1, <2>2 DEF compact!Objects!Move
  <2>. QED BY <2>2, <2>3
<1>6. ASSUME NEW s \in Strings, NEW p \in Strings, compact!substr(s, p)
      PROVE  CompactInv' /\ [compact!Objects!Next]_Texts
  <2>1. Texts[p] \in Seq(Items) /\ Texts[p] # None /\ object[p].length = Len(Texts[p]) /\ Texts[p] = compact!Content(p)
    BY <1>6, ContentHeld, TextsAre DEF compact!substr, compact!Alive, Holds
  <2>2. PICK i \in 0..Len(Texts[p]) : \E count \in 0..(Len(Texts[p]) - i) :
          compact!Construct(s, SubSeq(Texts[p], i + 1, i + count))
    BY <1>6, <2>1 DEF compact!substr
  <2>3. PICK count \in 0..(Len(Texts[p]) - i) : compact!Construct(s, SubSeq(Texts[p], i + 1, i + count))
    BY <2>2
  <2>4. SubSeq(Texts[p], i + 1, i + count) \in Seq(Items) /\ i + count \in 0..Len(Texts[p]) /\ i \in 0..Len(Texts[p])
    BY <2>1
  <2>5. CompactInv' /\ Texts' = [Texts EXCEPT ![s] = SubSeq(Texts[p], i + 1, i + count)] /\ Texts[s] = None
    BY <2>3, <2>4, ConstructStep
  <2>6. compact!Objects!Piece(s, p)
    <3>. PICK j : j = i + count
      OBVIOUS
    <3>1. j \in 0..Len(Texts[p]) /\ Texts' = [Texts EXCEPT ![s] = SubSeq(Texts[p], i + 1, j)]
      BY <2>4, <2>5
    <3>2. \E x, y \in 0..Len(Texts[p]) : Texts' = [Texts EXCEPT ![s] = SubSeq(Texts[p], x + 1, y)]
      BY <3>1
    <3>3. ~ compact!Objects!Alive(s) /\ compact!Objects!Alive(p)
      BY <1>0, <2>1, <2>5
    <3>4. \A t : Texts' = [Texts EXCEPT ![s] = t] => compact!Objects!Becomes(s, t)
      BY <1>0, <1>10
    <3>5. \E x, y \in 0..Len(Texts[p]) : compact!Objects!Becomes(s, SubSeq(Texts[p], x + 1, y))
      BY <3>2, <3>4, Zenon
    <3>. HIDE DEF compact!Objects!Becomes, compact!Objects!Alive
    <3>. QED BY <1>0, <3>3, <3>5 DEF compact!Objects!Piece
  <2>. QED BY <2>5, <2>6
<1>7. ASSUME NEW s \in Strings, NEW p \in Strings, NEW q \in Strings, compact!concat(s, p, q)
      PROVE  CompactInv' /\ [compact!Objects!Next]_Texts
  <2>1. /\ Texts[p] \in Seq(Items) /\ Texts[p] # None /\ Texts[p] = compact!Content(p)
        /\ Texts[q] \in Seq(Items) /\ Texts[q] # None /\ Texts[q] = compact!Content(q)
        /\ compact!Construct(s, compact!Content(p) \o compact!Content(q))
    BY <1>7, ContentHeld, TextsAre DEF compact!concat, compact!Alive
  <2>2. Texts[p] \o Texts[q] \in Seq(Items) /\ compact!Construct(s, Texts[p] \o Texts[q])
    BY <2>1
  <2>3. CompactInv' /\ Texts' = [Texts EXCEPT ![s] = Texts[p] \o Texts[q]] /\ Texts[s] = None
    BY <2>2, ConstructStep
  <2>4. compact!Objects!Join(s, p, q)
    BY <1>0, <1>10, <2>1, <2>3 DEF compact!Objects!Join
  <2>. QED BY <2>3, <2>4
<1>8. CASE UNCHANGED compactVars
  <2>1. object' = object /\ block' = block
    BY <1>8 DEF compactVars
  <2>2. CompactInv'
    BY <2>1 DEF CompactInv, CompactTypes, TextsHeld, BlocksApart, BlocksReached
  <2>3. Texts' = Texts
    BY <2>1 DEF Texts, compact!Content, compact!is_small
  <2>. QED BY <2>2, <2>3
<1>. QED BY <1>1, <1>2, <1>3, <1>4, <1>5, <1>6, <1>7, <1>8 DEF compact!Next

LEMMA CompactOwned == CompactInv => compact!BlocksOwned
<1>. SUFFICES ASSUME CompactInv PROVE compact!BlocksOwned
  OBVIOUS
<1>. DEFINE owned == {s \in Strings : compact!Alive(s) /\ object[s].heap_ptr # None}
<1>1. ASSUME NEW s \in Strings, object[s] # None
      PROVE  /\ s \in owned <=> ~ compact!is_small(object[s].length)
             /\ s \in owned => block[object[s].heap_ptr] # None /\ Len(block[object[s].heap_ptr]) >= object[s].length
  <2>1. PICK t \in Seq(Items) : Holds(object[s], block, t)
    BY <1>1 DEF CompactInv, TextsHeld
  <2>2. Len(t) \in Nat
    OBVIOUS
  <2>. QED BY <1>1, <2>1, <2>2, NoneIsNothing DEF Holds, compact!is_small, compact!Alive
<1>2. \A s, o \in owned : s # o => object[s].heap_ptr # object[o].heap_ptr
  BY DEF CompactInv, BlocksApart, compact!Alive
<1>3. Blocks \ compact!FreeBlocks = {object[s].heap_ptr : s \in owned}
  <2>1. ASSUME NEW k \in Blocks \ compact!FreeBlocks PROVE \E s \in owned : k = object[s].heap_ptr
    BY NoneIsNothing DEF CompactInv, BlocksReached, compact!FreeBlocks, compact!Alive
  <2>2. ASSUME NEW s \in owned PROVE object[s].heap_ptr \in Blocks \ compact!FreeBlocks
    BY BlockOf DEF compact!FreeBlocks, compact!Alive
  <2>. QED BY <2>1, <2>2
<1>. QED BY <1>1, <1>2, <1>3 DEF compact!BlocksOwned, compact!Alive


-----------------------------------------------------------------------------
(* The task manager runs, of the tasks that it holds, the one of the highest
   priority, and of those the one with the highest number, whatever was added,
   edited, removed and run before. *)
THEOREM HighestFirst == MCSpec => []RunsHighest
<1>1. [MCNext]_allVars => [manager!Next]_managerVars
  BY Alone
<1>2. ManagerInv => RunsHighest
  BY DEF ManagerInv, RunsHighest
<1>. QED BY <1>1, <1>2, Alone, ManagerInit, ManagerNext, PTL DEF MCSpec, allVars

(* No operation of CompactString leaves a block without an owner, with two, or
   too small for the text, and none frees a block that a string still uses.
   Every object that a SimpleUniquePtr was given is owned by one pointer or by the
   caller it was released to, and by nobody after it was deleted. *)
THEOREM StorageStaysOwned == MCSpec => []StorageOwned
<1>1. [MCNext]_allVars => [compact!Next]_compactVars /\ [pointer!Next]_pointerVars
  BY Alone
<1>2. MCSpec => []CompactInv
  BY <1>1, Alone, CompactInit, CompactRefines, PTL DEF MCSpec, allVars
<1>3. MCSpec => []PointerInv
  BY <1>1, Alone, PointerInit, PointerNext, PTL DEF MCSpec, allVars
<1>4. CompactInv /\ PointerInv => StorageOwned
  BY CompactOwned DEF PointerInv, StorageOwned
<1>. QED BY <1>2, <1>3, <1>4, PTL

(* Wherever its characters are kept, a CompactString is a sequence that every
   operation replaces as a whole, or leaves alone when new throws. *)
THEOREM TextsImplement == MCSpec => ImplementsSequences
<1>1. compact!Init => CompactInv /\ compact!Objects!Init
  BY CompactInit DEF compact!Init, compact!Alive, compact!Objects!Init
<1>0. Texts = [s \in Strings |-> IF compact!Alive(s) THEN compact!Content(s) ELSE None]
  BY DEF Texts, compact!Alive
<1>4. Texts' = [s \in Strings |-> IF compact!Alive(s) THEN compact!Content(s) ELSE None]'
  BY DEF Texts, compact!Alive
<1>2. CompactInv /\ [compact!Next]_compactVars =>
        CompactInv' /\ [compact!Objects!Next]_([s \in Strings |-> IF compact!Alive(s) THEN compact!Content(s) ELSE None])
  BY <1>0, <1>4, CompactRefines
<1>3. [MCNext]_allVars => [compact!Next]_compactVars
  BY Alone
<1>. QED BY <1>1, <1>2, <1>3, Alone, PTL DEF MCSpec, allVars, ImplementsSequences, compact!ImplementsSequences, compact!Objects!Spec

-----------------------------------------------------------------------------
(* The circular buffer. *)

USE CircularBufferAssumption

(* get_next_idx stays among the slots: one more, or back to 0. *)
LEMMA NextIndex ==
  ASSUME NEW i \in Slots
  PROVE  get_next_idx(i) = (IF i + 1 = Capacity THEN 0 ELSE i + 1) /\ get_next_idx(i) \in Slots
<1>1. CASE i + 1 = Capacity
  BY <1>1 DEF get_next_idx, Slots
<1>2. CASE i + 1 # Capacity
  <2>1. i + 1 \in 0..(Capacity - 1)
    BY <1>2 DEF Slots
  <2>2. (i + 1) % Capacity = i + 1
    BY <2>1
  <2>. QED BY <1>2, <2>1, <2>2 DEF get_next_idx, Slots
<1>. QED BY <1>1, <1>2

(* The places 0 to Capacity - 1 after the head are the slots, each once. *)
LEMMA SlotBijection ==
  ASSUME TypeOK
  PROVE  /\ \A i \in 0..(Capacity - 1) : Slot(i) \in Slots
         /\ \A i, j \in 0..(Capacity - 1) : Slot(i) = Slot(j) => i = j
         /\ Slot(0) = head_ /\ Slot(Capacity) = head_
BY DEF TypeOK, Slots, Slot

(* One step of the head shifts every place by one. *)
LEMMA SlotShift ==
  ASSUME TypeOK, head_' = get_next_idx(head_), NEW i \in 0..Capacity
  PROVE  i < Capacity => Slot(i)' = Slot(i + 1)
<1>1. head_' = IF head_ + 1 = Capacity THEN 0 ELSE head_ + 1
  BY NextIndex DEF TypeOK
<1>. QED BY <1>1 DEF TypeOK, Slots, Slot

LEMMA NextType == TypeOK /\ [Next]_vars => TypeOK'
<1> SUFFICES ASSUME TypeOK, [Next]_vars PROVE TypeOK'
  OBVIOUS
<1>1. ASSUME NEW v \in Values, Push(v) PROVE TypeOK'
  <2>1. get_next_idx(tail_) \in Slots
    BY NextIndex DEF TypeOK
  <2>2. ~full => size_ + 1 \in 0..Capacity
    BY DEF TypeOK, full
  <2>. QED BY <1>1, <2>1, <2>2 DEF TypeOK, Push
<1>2. ASSUME NEW v \in Values, PushOverwrite(v) PROVE TypeOK'
  BY <1>2, NextIndex DEF TypeOK, PushOverwrite, full
<1>3. CASE Pop
  BY <1>3, NextIndex DEF TypeOK, Pop, empty
<1>4. CASE Front
  BY <1>4 DEF TypeOK, Front, empty
<1>5. CASE UNCHANGED vars
  BY <1>5 DEF TypeOK, vars
<1>. QED BY <1>1, <1>2, <1>3, <1>4, <1>5 DEF Next

(* The invariants, in the form the steps use: storing at the tail when there is
   room, storing over the oldest when there is none, and emptying the head. *)
LEMMA NextInv == IInv /\ [Next]_vars => IInv'
<1> SUFFICES ASSUME IInv, [Next]_vars PROVE IInv'
  OBVIOUS
<1> USE DEF IInv
<1>1. TypeOK'
  BY NextType
<1>2. tail_ = IF head_ + size_ < Capacity THEN head_ + size_ ELSE head_ + size_ - Capacity
  BY DEF TailFollows, Slot
<1>3. head_ \in 0..(Capacity - 1) /\ tail_ \in 0..(Capacity - 1) /\ size_ \in 0..Capacity
  BY DEF TypeOK, Slots
<1>4. /\ get_next_idx(head_) = IF head_ + 1 = Capacity THEN 0 ELSE head_ + 1
      /\ get_next_idx(tail_) = IF tail_ + 1 = Capacity THEN 0 ELSE tail_ + 1
  BY NextIndex DEF TypeOK
<1>5. ASSUME NEW v \in Values, ~full, UNCHANGED head_, size_' = size_ + 1,
             tail_' = get_next_idx(tail_), buffer_' = [buffer_ EXCEPT ![tail_] = v]
      PROVE  TailFollows' /\ OnlyStoredEngaged'
  <2>1. size_ < Capacity
    BY <1>3, <1>5 DEF full
  <2>2. TailFollows'
    BY <1>2, <1>3, <1>4, <1>5, <2>1 DEF TailFollows, Slot
  <2>3. ASSUME NEW i \in 0..(Capacity - 1) PROVE buffer_'[Slot(i)'] # NoValue <=> i < size_'
    <3>1. Slot(i)' = Slot(i) /\ Slot(i) \in Slots
      BY <1>5, SlotBijection DEF Slot
    <3>2. Slot(i) = tail_ <=> i = size_
      BY <1>3, <2>1, SlotBijection DEF TailFollows
    <3>3. i = size_ => buffer_'[Slot(i)] = v
      BY <1>5, <3>1, <3>2 DEF TypeOK
    <3>4. i # size_ => buffer_'[Slot(i)] = buffer_[Slot(i)]
      BY <1>5, <3>1, <3>2 DEF TypeOK
    <3>. QED BY <1>3, <1>5, <3>1, <3>3, <3>4 DEF OnlyStoredEngaged
  <2>. QED BY <2>2, <2>3 DEF OnlyStoredEngaged
<1>6. ASSUME NEW v \in Values, full, UNCHANGED size_, head_' = get_next_idx(head_),
             tail_' = get_next_idx(tail_), buffer_' = [buffer_ EXCEPT ![tail_] = v]
      PROVE  TailFollows' /\ OnlyStoredEngaged'
  <2>1. size_ = Capacity /\ tail_ = head_
    BY <1>2, <1>3, <1>6 DEF full
  <2>2. TailFollows'
    BY <1>3, <1>4, <1>6, <2>1 DEF TailFollows, Slot
  <2>3. ASSUME NEW i \in 0..(Capacity - 1) PROVE buffer_'[Slot(i)'] # NoValue
    <3>1. Slot(i)' \in Slots
      BY <1>1, SlotBijection, <1>3, <1>4, <1>6 DEF Slot, Slots
    <3>2. \A q \in Slots : buffer_[q] # NoValue
      <4>1. ASSUME NEW q \in Slots PROVE \E j \in 0..(Capacity - 1) : q = Slot(j)
        <5>1. CASE q >= head_
          <6>1. q - head_ \in 0..(Capacity - 1) /\ Slot(q - head_) = q
            BY <1>3, <5>1 DEF Slots, Slot
          <6>. QED BY <6>1
        <5>2. CASE q < head_
          <6>1. q - head_ + Capacity \in 0..(Capacity - 1) /\ Slot(q - head_ + Capacity) = q
            BY <1>3, <5>2 DEF Slots, Slot
          <6>. QED BY <6>1
        <5>. QED BY <1>3, <5>1, <5>2 DEF Slots
      <4>. QED BY <4>1, <2>1 DEF OnlyStoredEngaged
    <3>. QED BY <1>6, <3>1, <3>2 DEF TypeOK
  <2>. QED BY <2>1, <2>2, <2>3, <1>6 DEF OnlyStoredEngaged
<1>7. ASSUME ~empty, UNCHANGED tail_, size_' = size_ - 1, head_' = get_next_idx(head_),
             buffer_' = [buffer_ EXCEPT ![head_] = NoValue]
      PROVE  TailFollows' /\ OnlyStoredEngaged'
  <2>1. size_ > 0
    BY <1>3, <1>7 DEF empty
  <2>2. TailFollows'
    BY <1>2, <1>3, <1>4, <1>7, <2>1 DEF TailFollows, Slot
  <2>3. ASSUME NEW i \in 0..(Capacity - 1) PROVE buffer_'[Slot(i)'] # NoValue <=> i < size_'
    <3>1. Slot(i)' = Slot(i + 1) /\ Slot(i)' \in Slots /\ i + 1 \in 0..Capacity
      BY <1>1, <1>7, SlotShift, SlotBijection, <1>3, <1>4 DEF Slot, Slots
    <3>2. CASE i + 1 = Capacity
      BY <1>3, <1>7, <3>1, <3>2, SlotBijection DEF TypeOK
    <3>3. CASE i + 1 # Capacity
      <4>1. i + 1 \in 0..(Capacity - 1) /\ Slot(i + 1) # head_
        BY <3>1, <3>3, SlotBijection
      <4>. QED BY <1>3, <1>7, <3>1, <4>1 DEF TypeOK, OnlyStoredEngaged
    <3>. QED BY <3>2, <3>3
  <2>. QED BY <2>2, <2>3 DEF OnlyStoredEngaged
<1>8. ASSUME UNCHANGED <<buffer_, head_, tail_, size_>>
      PROVE  TailFollows' /\ OnlyStoredEngaged'
  BY <1>8 DEF TailFollows, OnlyStoredEngaged, Slot
<1>9. ASSUME NEW v \in Values, Push(v) PROVE IInv'
  BY <1>1, <1>5, <1>8, <1>9 DEF Push
<1>10. ASSUME NEW v \in Values, PushOverwrite(v) PROVE IInv'
  BY <1>1, <1>5, <1>6, <1>10 DEF PushOverwrite
<1>11. CASE Pop
  BY <1>1, <1>7, <1>8, <1>11 DEF Pop
<1>12. CASE Front \/ UNCHANGED vars
  BY <1>1, <1>8, <1>12 DEF Front, vars
<1>. QED BY <1>9, <1>10, <1>11, <1>12 DEF Next

(* The documented invariants hold: the tail stays size_ places after the head
   and exactly the stored elements are engaged. *)
THEOREM Invariants == Spec => [](TailFollows /\ OnlyStoredEngaged)
<1>1. Init => IInv
  BY DEF Init, IInv, TypeOK, TailFollows, OnlyStoredEngaged, Slot, Slots
<1>2. IInv => TailFollows /\ OnlyStoredEngaged
  BY DEF IInv
<1>. QED BY <1>1, <1>2, NextInv, PTL DEF Spec

-----------------------------------------------------------------------------
(* The refinement.  Contents reads the stored elements from the head on. *)

LEMMA ContentsRead ==
  IInv => /\ Contents \in Seq(Values)
          /\ Len(Contents) = size_
          /\ \A i \in 1..size_ : Contents[i] = buffer_[Slot(i - 1)]
          /\ size_ \in Nat /\ size_ <= Capacity
<1> SUFFICES ASSUME IInv
             PROVE  /\ Contents \in Seq(Values)
                    /\ Len(Contents) = size_
                    /\ \A i \in 1..size_ : Contents[i] = buffer_[Slot(i - 1)]
                    /\ size_ \in Nat /\ size_ <= Capacity
  OBVIOUS
<1>1. size_ \in Nat /\ size_ <= Capacity
  BY DEF IInv, TypeOK
<1>2. ASSUME NEW i \in 1..size_ PROVE buffer_[Slot(i - 1)] \in Values
  <2>1. i - 1 \in 0..(Capacity - 1) /\ i - 1 < size_
    BY <1>1
  <2>2. Slot(i - 1) \in Slots
    BY <2>1, SlotBijection DEF IInv
  <2>. QED BY <2>1, <2>2 DEF IInv, TypeOK, OnlyStoredEngaged
<1>. QED BY <1>1, <1>2 DEF Contents

(* Storing at the tail appends to the contents. *)
LEMMA StoreAppends ==
  ASSUME IInv, IInv', NEW v \in Values, ~full, UNCHANGED head_, size_' = size_ + 1,
         buffer_' = [buffer_ EXCEPT ![tail_] = v]
  PROVE  Contents' = Append(Contents, v)
<1>1. /\ Contents \in Seq(Values) /\ Len(Contents) = size_ /\ size_ \in Nat
      /\ \A i \in 1..size_ : Contents[i] = buffer_[Slot(i - 1)]
  BY ContentsRead
<1>2. size_ < Capacity
  BY ContentsRead DEF full
<1>3. /\ Contents' \in Seq(Values) /\ Len(Contents') = size_ + 1
      /\ \A i \in 1..(size_ + 1) : Contents'[i] = buffer_'[Slot(i - 1)]
  <2>1. (/\ Contents \in Seq(Values) /\ Len(Contents) = size_
         /\ \A i \in 1..size_ : Contents[i] = buffer_[Slot(i - 1)])'
    BY ContentsRead, PTL
  <2>. QED BY <2>1 DEF Slot
<1>4. ASSUME NEW i \in 1..(size_ + 1) PROVE Contents'[i] = Append(Contents, v)[i]
  <2>1. i - 1 \in 0..(Capacity - 1) /\ size_ \in 0..(Capacity - 1)
    BY <1>1, <1>2
  <2>2. Slot(i - 1) \in Slots /\ (Slot(i - 1) = tail_ <=> i - 1 = size_)
    BY <2>1, SlotBijection DEF IInv, TailFollows
  <2>3. CASE i = size_ + 1
    <3>1. buffer_'[Slot(i - 1)] = v
      BY <1>1, <2>2, <2>3 DEF IInv, TypeOK
    <3>2. Append(Contents, v)[i] = v
      BY <1>1, <2>3, AppendProperties
    <3>. QED BY <1>3, <3>1, <3>2
  <2>4. CASE i # size_ + 1
    <3>1. i \in 1..size_ /\ Slot(i - 1) # tail_
      BY <1>1, <2>2, <2>4
    <3>2. buffer_'[Slot(i - 1)] = buffer_[Slot(i - 1)]
      BY <2>2, <3>1 DEF IInv, TypeOK
    <3>3. Append(Contents, v)[i] = Contents[i]
      BY <1>1, <3>1, AppendProperties
    <3>. QED BY <1>1, <1>3, <3>1, <3>2, <3>3
  <2>. QED BY <2>3, <2>4
<1>5. Append(Contents, v) \in Seq(Values) /\ Len(Append(Contents, v)) = size_ + 1
  BY <1>1, AppendProperties
<1>. QED BY <1>3, <1>4, <1>5, SeqEqual

(* Moving the head takes the first element off. *)
LEMMA AdvanceTail ==
  ASSUME IInv, size_ > 0, NEW slots \in [Slots -> Values \cup {NoValue}],
         \A q \in Slots : q # head_ => slots[q] = buffer_[q]
  PROVE  Tail(Contents) = [i \in 1..(size_ - 1) |-> slots[Slot(i)]]
<1>1. /\ Contents \in Seq(Values) /\ Len(Contents) = size_ /\ size_ \in Nat /\ size_ <= Capacity
      /\ \A i \in 1..size_ : Contents[i] = buffer_[Slot(i - 1)]
  BY ContentsRead
<1>2. Contents # <<>>
  BY <1>1
<1>3. /\ Tail(Contents) \in Seq(Values) /\ Len(Tail(Contents)) = size_ - 1
      /\ \A i \in 1..(size_ - 1) : Tail(Contents)[i] = Contents[i + 1]
  BY <1>1, <1>2, HeadTailProperties
<1>4. ASSUME NEW i \in 1..(size_ - 1) PROVE Tail(Contents)[i] = slots[Slot(i)]
  <2>1. i + 1 \in 1..size_ /\ (i + 1) - 1 = i /\ i \in 0..(Capacity - 1) /\ i # 0
    BY <1>1
  <2>2. Slot(i) \in Slots /\ Slot(i) # head_
    BY <2>1, SlotBijection DEF IInv
  <2>. QED BY <1>1, <1>3, <2>1, <2>2
<1>5. Tail(Contents) \in [1..(size_ - 1) -> Values]
  BY <1>3, LenProperties
<1>. QED BY <1>4, <1>5

LEMMA NextRefines == IInv /\ IInv' /\ [Next]_vars => [Fifo!Next]_(Fifo!vars)
<1> SUFFICES ASSUME IInv, IInv', [Next]_vars PROVE [Fifo!Next]_(Fifo!vars)
  OBVIOUS
<1>1. /\ Contents \in Seq(Values) /\ Len(Contents) = size_ /\ size_ \in Nat /\ size_ <= Capacity
      /\ \A i \in 1..size_ : Contents[i] = buffer_[Slot(i - 1)]
  BY ContentsRead
<1>2. (full <=> Fifo!Full) /\ (empty <=> Contents = <<>>)
  BY <1>1 DEF full, empty, Fifo!Full
<1>3. UNCHANGED <<buffer_, head_, tail_, size_>> => Contents' = Contents
  BY DEF Contents, Slot
<1>4. ~empty => Head(Contents) = buffer_[head_]
  <2>1. Slot(0) = head_
    BY SlotBijection DEF IInv
  <2>. QED BY <1>1, <1>2, <2>1
<1>5. ASSUME NEW v \in Values, Push(v) PROVE Fifo!Push(v)
  <2>1. CASE full
    BY <1>2, <1>3, <1>5, <2>1 DEF Push, Fifo!Push
  <2>2. CASE ~full
    BY <1>2, <1>5, <2>2, StoreAppends DEF Push, Fifo!Push
  <2>. QED BY <2>1, <2>2
<1>6. ASSUME head_' = get_next_idx(head_), NEW i \in 0..(Capacity - 1)
      PROVE  Slot(i)' = Slot(i + 1)
  <2>1. i \in 0..Capacity /\ i < Capacity
    OBVIOUS
  <2>. QED BY <1>6, <2>1, SlotShift DEF IInv
<1>7. ASSUME NEW v \in Values, PushOverwrite(v) PROVE Fifo!PushOverwrite(v)
  <2>1. CASE full
    <3>1. size_ = Capacity /\ tail_ = head_ /\ size_' = size_ /\ size_ > 0
      BY <1>1, <1>7, <2>1, SlotBijection DEF PushOverwrite, full, IInv, TailFollows
    <3>2. buffer_' = [buffer_ EXCEPT ![head_] = v] /\ head_' = get_next_idx(head_)
      BY <1>7, <2>1, <3>1 DEF PushOverwrite
    <3>3. /\ Tail(Contents) \in Seq(Values) /\ Len(Tail(Contents)) = size_ - 1
          /\ \A i \in 1..(size_ - 1) : Tail(Contents)[i] = buffer_[Slot(i)]
      <4>1. Contents # <<>>
        BY <1>1, <3>1
      <4>2. buffer_ \in [Slots -> Values \cup {NoValue}]
        BY DEF IInv, TypeOK
      <4>. QED BY <1>1, <3>1, <4>1, <4>2, HeadTailProperties, AdvanceTail
    <3>4. /\ Contents' \in Seq(Values) /\ Len(Contents') = size_
          /\ \A i \in 1..size_ : Contents'[i] = buffer_'[Slot(i - 1)']
      <4>1. (/\ Contents \in Seq(Values) /\ Len(Contents) = size_
             /\ \A i \in 1..size_ : Contents[i] = buffer_[Slot(i - 1)])'
        BY ContentsRead, PTL
      <4>. QED BY <3>1, <4>1
    <3>5. ASSUME NEW i \in 1..size_ PROVE Contents'[i] = Append(Tail(Contents), v)[i]
      <4>1. i - 1 \in 0..(Capacity - 1) /\ (i - 1) + 1 = i
        BY <1>1, <3>1
      <4>2. Contents'[i] = buffer_'[Slot(i)]
        BY <1>6, <3>2, <3>4, <4>1
      <4>3. CASE i = size_
        <5>1. Slot(i) = head_ /\ head_ \in Slots
          BY <3>1, <4>3, SlotBijection DEF IInv, TypeOK
        <5>2. buffer_'[Slot(i)] = v
          BY <3>2, <5>1 DEF IInv, TypeOK
        <5>3. Append(Tail(Contents), v)[i] = v
          BY <1>1, <3>3, <4>3, AppendProperties
        <5>. QED BY <4>2, <5>2, <5>3
      <4>4. CASE i # size_
        <5>1. i \in 1..(size_ - 1) /\ i \in 0..(Capacity - 1) /\ i # 0
          BY <1>1, <3>1, <4>4
        <5>2. Slot(i) \in Slots /\ Slot(i) # head_
          BY <5>1, SlotBijection DEF IInv
        <5>3. buffer_'[Slot(i)] = buffer_[Slot(i)]
          BY <3>2, <5>2 DEF IInv, TypeOK
        <5>4. Append(Tail(Contents), v)[i] = Tail(Contents)[i]
          BY <1>1, <3>3, <5>1, AppendProperties
        <5>. QED BY <3>3, <4>2, <5>1, <5>3, <5>4
      <4>. QED BY <4>3, <4>4
    <3>6. /\ Append(Tail(Contents), v) \in Seq(Values)
          /\ Len(Append(Tail(Contents), v)) = size_
      BY <1>1, <3>1, <3>3, AppendProperties
    <3>7. Contents' = Append(Tail(Contents), v)
      BY <3>4, <3>5, <3>6, SeqEqual
    <3>. QED BY <1>2, <1>7, <2>1, <3>7 DEF PushOverwrite, Fifo!PushOverwrite
  <2>2. CASE ~full
    <3>1. Contents' = Append(Contents, v)
      BY <1>7, <2>2, StoreAppends DEF PushOverwrite
    <3>. QED BY <1>2, <1>7, <2>2, <3>1 DEF PushOverwrite, Fifo!PushOverwrite
  <2>. QED BY <2>1, <2>2
<1>8. CASE Pop
  <2>1. CASE empty
    BY <1>2, <1>3, <1>8, <2>1 DEF Pop, Fifo!Pop, Fifo!Next
  <2>2. CASE ~empty
    <3>1. /\ size_ > 0 /\ size_' = size_ - 1 /\ head_' = get_next_idx(head_)
          /\ buffer_' = [buffer_ EXCEPT ![head_] = NoValue]
      BY <1>1, <1>8, <2>2 DEF Pop, empty
    <3>2. /\ buffer_' \in [Slots -> Values \cup {NoValue}]
          /\ \A q \in Slots : q # head_ => buffer_'[q] = buffer_[q]
      BY <3>1 DEF IInv, TypeOK
    <3>3. Tail(Contents) = [i \in 1..(size_ - 1) |-> buffer_'[Slot(i)]]
      BY <3>1, <3>2, AdvanceTail
    <3>4. Contents' = [i \in 1..(size_ - 1) |-> buffer_'[Slot(i - 1)']]
      BY <3>1 DEF Contents
    <3>5. ASSUME NEW i \in 1..(size_ - 1) PROVE Slot(i - 1)' = Slot(i)
      <4>1. i - 1 \in 0..(Capacity - 1) /\ (i - 1) + 1 = i
        BY <1>1, <3>1
      <4>. QED BY <1>6, <3>1, <4>1
    <3>6. Contents' = Tail(Contents)
      BY <3>3, <3>4, <3>5
    <3>. QED BY <1>2, <1>4, <1>8, <2>2, <3>6 DEF Pop, Fifo!Pop, Fifo!Next
  <2>. QED BY <2>1, <2>2
<1>9. CASE Front
  BY <1>2, <1>3, <1>4, <1>9 DEF Front, Fifo!Front, Fifo!Next
<1>10. CASE UNCHANGED vars
  BY <1>3, <1>10 DEF vars, Fifo!vars
<1>. QED BY <1>5, <1>7, <1>8, <1>9, <1>10 DEF Next, Fifo!Next

(* The ring with its head, tail and count is a bounded first-in first-out queue
   whose overwrite drops the oldest element. *)
THEOREM Refinement == Spec => ImplementsFifo
<1>1. Init => IInv
  BY DEF Init, IInv, TypeOK, TailFollows, OnlyStoredEngaged, Slot, Slots
<1>2. Init => Fifo!Init
  BY DEF Init, Contents, Fifo!Init
<1>. QED BY <1>1, <1>2, NextInv, NextRefines, PTL DEF Spec, ImplementsFifo, Fifo!Spec

HIDE CircularBufferAssumption
=============================================================================
