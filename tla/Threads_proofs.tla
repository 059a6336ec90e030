---------------------------- MODULE Threads_proofs ----------------------------
(***************************************************************************)
(* The small programs of threads, for any threads, keys, values, bounds    *)
(* and lengths.  The lookup table implements a map with atomic calls, for  *)
(* any hash function.  The counters, the stack with several producers and  *)
(* the parallel sum lose nothing and count nothing twice.                  *)
(***************************************************************************)
EXTENDS MCThreads, SequenceTheorems, FiniteSetTheorems, NaturalsInduction, WellFoundedInduction, TLAPS

USE LookupTableAssumption

-----------------------------------------------------------------------------
(* Searches in the entries of one bucket. *)

Entries == Seq(Keys \X Values)

KeysOnce(s) == \A i, j \in DOMAIN s : s[i][1] = s[j][1] => i = j

(* Where a key occurs once, the search returns that place. *)
LEMMA PlaceFound ==
  ASSUME NEW s \in Entries, KeysOnce(s), NEW i \in DOMAIN s
  PROVE  Place(s, s[i][1]) = i
<1> DEFINE places == {j \in DOMAIN s : s[j][1] = s[i][1]}
<1>1. places = {i}
  BY DEF KeysOnce
<1>2. DOMAIN s = 1..Len(s)
  BY DEF Entries
<1>3. (CHOOSE j \in places : \A l \in places : j <= l) = i
  <2>1. \A j \in places : (\A l \in places : j <= l) <=> j = i
    BY <1>1, <1>2
  <2>. HIDE DEF places
  <2>. QED BY <1>1, <2>1
<1>. QED BY <1>1, <1>3 DEF Place

LEMMA PlaceAbsent ==
  ASSUME NEW s, NEW k, \A i \in DOMAIN s : s[i][1] # k
  PROVE  Place(s, k) = 0 /\ ValueIn(s, k) = Absent
<1>1. {i \in DOMAIN s : s[i][1] = k} = {}
  OBVIOUS
<1>. QED BY <1>1 DEF Place, ValueIn

(* A place other than the end holds the key. *)
LEMMA PlaceHolds ==
  ASSUME NEW s \in Entries, KeysOnce(s), NEW k, Place(s, k) # 0
  PROVE  Place(s, k) \in DOMAIN s /\ s[Place(s, k)][1] = k
<1>1. PICK i \in DOMAIN s : s[i][1] = k
  BY PlaceAbsent
<1>. QED BY <1>1, PlaceFound

LEMMA ValueFound ==
  ASSUME NEW s \in Entries, KeysOnce(s), NEW i \in DOMAIN s
  PROVE  ValueIn(s, s[i][1]) = s[i][2]
<1>1. Place(s, s[i][1]) = i /\ i # 0
  BY PlaceFound DEF Entries
<1>. QED BY <1>1 DEF ValueIn

(* An entry for a new key at the end. *)
LEMMA AppendEntry ==
  ASSUME NEW s \in Entries, KeysOnce(s), NEW k \in Keys, NEW v \in Values, Place(s, k) = 0
  PROVE  /\ Append(s, <<k, v>>) \in Entries /\ KeysOnce(Append(s, <<k, v>>))
         /\ \A m : ValueIn(Append(s, <<k, v>>), m) = IF m = k THEN v ELSE ValueIn(s, m)
<1> DEFINE t == Append(s, <<k, v>>)
<1>1. /\ t \in Entries /\ Len(t) = Len(s) + 1 /\ t[Len(t)] = <<k, v>>
      /\ \A i \in 1..Len(s) : t[i] = s[i]
  BY AppendProperties DEF Entries
<1>2. \A i \in DOMAIN s : s[i][1] # k
  <2>1. ASSUME NEW i \in DOMAIN s, s[i][1] = k PROVE FALSE
    BY <2>1, PlaceFound DEF Entries
  <2>. QED BY <2>1
<1>3. DOMAIN s = 1..Len(s) /\ DOMAIN t = 1..(Len(s) + 1) /\ Len(s) \in Nat
  BY <1>1 DEF Entries
<1>. HIDE DEF t
<1>4. KeysOnce(t)
  <2> SUFFICES ASSUME NEW i \in DOMAIN t, NEW j \in DOMAIN t, t[i][1] = t[j][1] PROVE i = j
    BY DEF KeysOnce
  <2>1. CASE i \in DOMAIN s /\ j \in DOMAIN s
    BY <1>1, <1>3, <2>1 DEF KeysOnce
  <2>2. CASE i = Len(t) /\ j \in DOMAIN s
    BY <1>1, <1>2, <1>3, <2>2
  <2>3. CASE j = Len(t) /\ i \in DOMAIN s
    BY <1>1, <1>2, <1>3, <2>3
  <2>4. CASE i = Len(t) /\ j = Len(t)
    BY <2>4
  <2>. QED BY <1>1, <1>3, <2>1, <2>2, <2>3, <2>4
<1>5. ASSUME NEW m PROVE ValueIn(t, m) = IF m = k THEN v ELSE ValueIn(s, m)
  <2>1. CASE m = k
    <3>1. Len(t) \in DOMAIN t /\ t[Len(t)][1] = k /\ t[Len(t)][2] = v
      BY <1>1, <1>3
    <3>. QED BY <1>1, <1>4, <2>1, <3>1, ValueFound
  <2>2. CASE m # k /\ \E i \in DOMAIN s : s[i][1] = m
    <3>1. PICK i \in DOMAIN s : s[i][1] = m
      BY <2>2
    <3>2. i \in DOMAIN t /\ t[i] = s[i]
      BY <1>1, <1>3
    <3>3. ValueIn(t, m) = t[i][2] /\ ValueIn(s, m) = s[i][2]
      BY <1>1, <1>4, <3>1, <3>2, ValueFound
    <3>. QED BY <2>2, <3>2, <3>3
  <2>3. CASE m # k /\ \A i \in DOMAIN s : s[i][1] # m
    <3>1. \A i \in DOMAIN t : t[i][1] # m
      BY <1>1, <1>3, <2>3
    <3>. QED BY <2>3, <3>1, PlaceAbsent
  <2>. QED BY <2>1, <2>2, <2>3
<1>. QED BY <1>1, <1>4, <1>5 DEF t

(* A new value for a key that has an entry. *)
LEMMA AssignEntry ==
  ASSUME NEW s \in Entries, KeysOnce(s), NEW k \in Keys, NEW v \in Values, NEW p, p = Place(s, k), p # 0,
         NEW t \in Entries, DOMAIN t = DOMAIN s, t[p] = <<k, v>>, \A i \in DOMAIN s : i # p => t[i] = s[i]
  PROVE  /\ KeysOnce(t)
         /\ \A m : ValueIn(t, m) = IF m = k THEN v ELSE ValueIn(s, m)
<1>1. p \in DOMAIN s /\ s[p][1] = k
  BY PlaceHolds
<1>4. t[p][1] = k /\ t[p][2] = v
  OBVIOUS
<1>6. \A i \in DOMAIN s : t[i][1] = s[i][1]
  BY <1>1, <1>4
<1>7. KeysOnce(t)
  BY <1>6 DEF KeysOnce
<1>8. ASSUME NEW m PROVE ValueIn(t, m) = IF m = k THEN v ELSE ValueIn(s, m)
  <2>1. CASE \A i \in DOMAIN s : s[i][1] # m
    <3>1. \A i \in DOMAIN t : t[i][1] # m
      BY <1>6, <2>1
    <3>. QED BY <1>1, <2>1, <3>1, PlaceAbsent
  <2>2. CASE \E i \in DOMAIN s : s[i][1] = m
    <3>1. PICK i \in DOMAIN s : s[i][1] = m
      BY <2>2
    <3>2. ValueIn(s, m) = s[i][2] /\ ValueIn(t, m) = t[i][2]
      BY <1>6, <1>7, <3>1, ValueFound
    <3>3. i = p <=> m = k
      BY <1>1, <3>1 DEF KeysOnce
    <3>. QED BY <1>4, <3>2, <3>3
  <2>. QED BY <2>1, <2>2
<1>. QED BY <1>7, <1>8

(* The entry of a key taken out: the others move up and stay. *)
LEMMA RemoveEntry ==
  ASSUME NEW s \in Entries, KeysOnce(s), NEW k \in Keys, NEW p, p = Place(s, k), p # 0
  PROVE  /\ RemoveAt(s, p) \in Entries /\ KeysOnce(RemoveAt(s, p))
         /\ \A m : ValueIn(RemoveAt(s, p), m) = IF m = k THEN Absent ELSE ValueIn(s, m)
<1> DEFINE n == Len(s)
           a == SubSeq(s, 1, p - 1)
           b == SubSeq(s, p + 1, n)
           t == RemoveAt(s, p)
           Old(i) == IF i < p THEN i ELSE i + 1
<1>1. /\ n \in Nat /\ DOMAIN s = 1..n /\ p \in 1..n /\ s[p][1] = k
      /\ \A i \in 1..n : s[i] \in Keys \X Values
  BY PlaceHolds DEF Entries
<1>2. a \in Entries /\ Len(a) = p - 1 /\ \A i \in 1..(p - 1) : a[i] = s[i]
  <2>1. \A i \in 1..(p - 1) : s[i] \in Keys \X Values
    BY <1>1
  <2>2. a \in Seq(Keys \X Values) /\ Len(a) = (IF 1 <= p - 1 THEN p - 1 - 1 + 1 ELSE 0)
        /\ \A i \in 1..(p - 1 - 1 + 1) : a[i] = s[1 + i - 1]
    <3>. HIDE DEF a
    <3>1. 1 \in Int /\ p - 1 \in Int
      BY <1>1
    <3>. QED BY <2>1, <3>1, SubSeqProperties DEF a
  <2>. HIDE DEF a
  <2>. QED BY <1>1, <2>2 DEF Entries
<1>3. b \in Entries /\ Len(b) = n - p /\ \A i \in 1..(n - p) : b[i] = s[p + i]
  <2>1. \A i \in (p + 1)..n : s[i] \in Keys \X Values
    BY <1>1
  <2>2. b \in Seq(Keys \X Values) /\ Len(b) = (IF p + 1 <= n THEN n - (p + 1) + 1 ELSE 0)
        /\ \A i \in 1..(n - (p + 1) + 1) : b[i] = s[p + 1 + i - 1]
    <3>1. p + 1 \in Int /\ n \in Int
      BY <1>1
    <3>. QED BY <2>1, <3>1, SubSeqProperties
  <2>3. n - (p + 1) + 1 = n - p /\ \A i \in 1..(n - p) : p + 1 + i - 1 = p + i
    BY <1>1
  <2>. HIDE DEF b
  <2>. QED BY <1>1, <2>2, <2>3 DEF Entries
<1>4. t = a \o b
  BY DEF RemoveAt
<1>. HIDE DEF a, b, t
<1>5. t \in Entries /\ Len(t) = n - 1 /\ DOMAIN t = 1..(n - 1)
      /\ \A i \in 1..(n - 1) : t[i] = IF i <= p - 1 THEN a[i] ELSE b[i - (p - 1)]
  <2>1. /\ a \o b \in Entries /\ Len(a \o b) = Len(a) + Len(b)
        /\ \A i \in 1..(Len(a) + Len(b)) : (a \o b)[i] = IF i <= Len(a) THEN a[i] ELSE b[i - Len(a)]
    BY <1>2, <1>3, ConcatProperties DEF Entries
  <2>2. Len(a) + Len(b) = n - 1
    BY <1>1, <1>2, <1>3
  <2>. HIDE DEF n
  <2>. QED BY <1>1, <1>2, <1>4, <2>1, <2>2 DEF Entries
<1>. HIDE DEF n
<1>6. \A i \in DOMAIN t : Old(i) \in DOMAIN s /\ Old(i) # p /\ t[i] = s[Old(i)]
  <2> SUFFICES ASSUME NEW i \in DOMAIN t PROVE Old(i) \in DOMAIN s /\ Old(i) # p /\ t[i] = s[Old(i)]
    OBVIOUS
  <2>1. CASE i < p
    <3>1. i \in 1..(p - 1) /\ i \in 1..(n - 1) /\ i <= p - 1
      BY <1>1, <1>5, <2>1
    <3>2. t[i] = a[i] /\ a[i] = s[i]
      BY <1>2, <1>5, <3>1
    <3>. QED BY <1>1, <2>1, <3>1, <3>2
  <2>2. CASE ~(i < p)
    <3>1. i - (p - 1) \in 1..(n - p) /\ p + (i - (p - 1)) = i + 1
      BY <1>1, <1>5, <2>2
    <3>2. t[i] = b[i - (p - 1)] /\ b[i - (p - 1)] = s[p + (i - (p - 1))]
      <4>1. ~(i <= p - 1) /\ i \in 1..(n - 1)
        BY <1>1, <1>5, <2>2
      <4>2. t[i] = b[i - (p - 1)]
        BY <1>5, <4>1
      <4>. QED BY <1>3, <3>1, <4>2
    <3>3. t[i] = s[i + 1]
      BY <3>1, <3>2
    <3>4. Old(i) = i + 1 /\ i + 1 \in 1..n /\ i + 1 # p
      BY <1>1, <1>5, <2>2
    <3>. QED BY <1>1, <3>3, <3>4
  <2>. QED BY <2>1, <2>2
<1>7. \A j \in DOMAIN s : j # p => \E i \in DOMAIN t : Old(i) = j
  <2> SUFFICES ASSUME NEW j \in DOMAIN s, j # p PROVE \E i \in DOMAIN t : Old(i) = j
    OBVIOUS
  <2>1. CASE j < p
    <3>1. j \in DOMAIN t /\ Old(j) = j
      BY <1>1, <1>5, <2>1
    <3>. QED BY <3>1
  <2>2. CASE j > p
    <3>1. j - 1 \in DOMAIN t /\ Old(j - 1) = j
      BY <1>1, <1>5, <2>2
    <3>. QED BY <3>1
  <2>. QED BY <1>1, <2>1, <2>2
<1>8. KeysOnce(t)
  <2> SUFFICES ASSUME NEW i \in DOMAIN t, NEW j \in DOMAIN t, t[i][1] = t[j][1] PROVE i = j
    BY DEF KeysOnce
  <2>1. Old(i) = Old(j)
    <3>. HIDE DEF Old
    <3>. QED BY <1>6 DEF KeysOnce
  <2>. QED BY <1>1, <1>5, <2>1
<1>. HIDE DEF Old
<1>9. ASSUME NEW m PROVE ValueIn(t, m) = IF m = k THEN Absent ELSE ValueIn(s, m)
  <2>1. CASE m # k /\ \E j \in DOMAIN s : s[j][1] = m
    <3>1. PICK j \in DOMAIN s : s[j][1] = m
      BY <2>1
    <3>2. PICK i \in DOMAIN t : Old(i) = j
      BY <1>1, <1>7, <2>1, <3>1
    <3>3. t[i] = s[j]
      BY <1>6, <3>2
    <3>4. ValueIn(t, m) = t[i][2] /\ ValueIn(s, m) = s[j][2]
      BY <1>5, <1>8, <3>1, <3>3, ValueFound
    <3>. QED BY <2>1, <3>3, <3>4
  <2>2. CASE m = k
    <3>1. \A i \in DOMAIN t : t[i][1] # m
      BY <1>1, <1>6, <2>2 DEF KeysOnce
    <3>. QED BY <2>2, <3>1, PlaceAbsent
  <2>3. CASE m # k /\ \A j \in DOMAIN s : s[j][1] # m
    <3>1. \A i \in DOMAIN t : t[i][1] # m
      BY <1>6, <2>3
    <3>. QED BY <2>3, <3>1, PlaceAbsent
  <2>. QED BY <2>1, <2>2, <2>3
<1>. QED BY <1>5, <1>8, <1>9 DEF t

-----------------------------------------------------------------------------
(* The inductive invariant. *)

LEMMA InitInv == Init => IInv
<1> SUFFICES ASSUME Init PROVE IInv
  OBVIOUS
<1>1. \A b \in Buckets : data[b] = <<>>
  BY DEF Init
<1>2. \A t \in Threads : call[t] = Idle /\ pc[t] = "start" /\ found[t] = 0 /\ ret[t] = NoResult
  BY DEF Init
<1>3. TypeOK
  BY DEF Init, TypeOK
<1>4. OneEntryPerKey
  BY <1>1 DEF OneEntryPerKey
<1>. QED BY <1>2, <1>3, <1>4 DEF IInv, InCall, Exclusive, FoundIsCurrent

Locked == {"find", "act", "unlock"}

(* Calls and results tell where a thread is. *)
LEMMA CallTypes ==
  ASSUME NEW c \in Calls
  PROVE  /\ c # Idle /\ c.op \in {"value_for", "add_or_update_mapping", "remove_mapping"} /\ c.key \in Keys
         /\ c.op = "add_or_update_mapping" => c.value \in Values
         /\ c.op # "add_or_update_mapping" => c.value = Absent
BY DEF Calls

LEMMA CallOf ==
  ASSUME TypeOK, InCall, NEW t \in Threads, pc[t] # "start"
  PROVE  call[t] \in Calls /\ call[t].key \in Keys /\ get_bucket(t) \in Buckets
<1>1. call[t] \in Calls
  BY DEF TypeOK, InCall
<1>. QED BY <1>1, CallTypes DEF TypeOK, get_bucket

(* A step that changes neither the table nor a search keeps what is about them. *)
LEMMA CallInv ==
  ASSUME IInv, NEW t \in Threads, Call(t) PROVE IInv'
<1> USE DEF IInv
<1>1. PICK c \in Calls : call' = [call EXCEPT ![t] = c]
  BY DEF Call
<1>2. pc[t] = "start" /\ pc' = [pc EXCEPT ![t] = "lock"] /\ UNCHANGED <<hash, data, found, ret>>
  BY DEF Call, InCall
<1>3. TypeOK'
  BY <1>1, <1>2 DEF TypeOK
<1>4. InCall'
  BY <1>1, <1>2 DEF InCall, TypeOK
<1>5. OneEntryPerKey'
  BY <1>2 DEF OneEntryPerKey
<1>6. \A u \in Threads : u # t => call'[u] = call[u] /\ pc'[u] = pc[u]
  BY <1>1, <1>2 DEF TypeOK
<1>7. pc'[t] = "lock"
  BY <1>2 DEF TypeOK
<1>8. Exclusive'
  BY <1>2, <1>6, <1>7 DEF Exclusive, get_bucket, Shared
<1>9. FoundIsCurrent'
  BY <1>2, <1>6, <1>7 DEF FoundIsCurrent, get_bucket
<1>. QED BY <1>3, <1>4, <1>5, <1>8, <1>9

LEMMA LockInv ==
  ASSUME IInv, NEW t \in Threads, Lock(t) PROVE IInv'
<1> USE DEF IInv
<1>1. pc[t] = "lock" /\ pc' = [pc EXCEPT ![t] = "find"] /\ UNCHANGED <<hash, data, call, found, ret>>
  BY DEF Lock
<1>2. TypeOK' /\ InCall' /\ OneEntryPerKey' /\ FoundIsCurrent'
  BY <1>1 DEF TypeOK, InCall, OneEntryPerKey, FoundIsCurrent, get_bucket
<1>3. \A u \in Threads : pc[u] \in Locked /\ get_bucket(u) = get_bucket(t) => Shared(t) /\ Shared(u)
  BY DEF Lock, Owners, Locked
<1>4. \A u \in Threads : u # t => pc'[u] = pc[u]
  BY <1>1 DEF TypeOK
<1>5. \A u \in Threads : get_bucket(u)' = get_bucket(u) /\ Shared(u)' = Shared(u)
  BY <1>1 DEF get_bucket, Shared
<1>6. Exclusive'
  <2> SUFFICES ASSUME NEW x \in Threads, NEW y \in Threads, x # y,
                      {pc'[x], pc'[y]} \subseteq Locked, get_bucket(x) = get_bucket(y)
               PROVE  Shared(x) /\ Shared(y)
    BY <1>5 DEF Exclusive, Locked
  <2>1. CASE x # t /\ y # t
    BY <1>4, <2>1 DEF Exclusive, Locked
  <2>2. CASE x = t \/ y = t
    BY <1>3, <1>4, <2>2
  <2>. QED BY <2>1, <2>2
<1>. QED BY <1>2, <1>6

LEMMA FindInv ==
  ASSUME IInv, NEW t \in Threads, find_entry_for(t) PROVE IInv'
<1> USE DEF IInv
<1> DEFINE place == Place(data[get_bucket(t)], call[t].key)
<1>1. /\ pc[t] = "find" /\ pc' = [pc EXCEPT ![t] = "act"] /\ UNCHANGED <<hash, data, call, ret>>
      /\ found' = [found EXCEPT ![t] = place]
  BY DEF find_entry_for
<1>2. place \in Nat
  <2>1. data[get_bucket(t)] \in Entries /\ KeysOnce(data[get_bucket(t)])
    BY <1>1, CallOf DEF TypeOK, Entries, KeysOnce, OneEntryPerKey
  <2>. QED BY <2>1, PlaceHolds DEF Entries
<1>. HIDE DEF place
<1>3. TypeOK' /\ InCall' /\ OneEntryPerKey'
  BY <1>1, <1>2 DEF TypeOK, InCall, OneEntryPerKey
<1>4. \A u \in Threads : get_bucket(u)' = get_bucket(u) /\ Shared(u)' = Shared(u)
                         /\ (pc'[u] \in Locked <=> pc[u] \in Locked)
  BY <1>1 DEF get_bucket, Shared, TypeOK, Locked
<1>5. Exclusive'
  BY <1>4 DEF Exclusive, Locked
<1>6. FoundIsCurrent'
  <2> SUFFICES ASSUME NEW u \in Threads, pc'[u] = "act"
               PROVE  found'[u] = Place(data[get_bucket(u)], call[u].key)
    BY <1>1 DEF FoundIsCurrent, get_bucket
  <2>. QED BY <1>1 DEF FoundIsCurrent, TypeOK, place
<1>. QED BY <1>3, <1>5, <1>6

LEMMA UnlockInv ==
  ASSUME IInv, NEW t \in Threads, Unlock(t) PROVE IInv'
<1> USE DEF IInv
<1>1. /\ pc[t] = "unlock" /\ call' = [call EXCEPT ![t] = Idle] /\ pc' = [pc EXCEPT ![t] = "start"]
      /\ found' = [found EXCEPT ![t] = 0] /\ ret' = [ret EXCEPT ![t] = NoResult]
      /\ UNCHANGED <<hash, data>>
  BY DEF Unlock
<1>2. TypeOK' /\ InCall' /\ OneEntryPerKey'
  BY <1>1 DEF TypeOK, InCall, OneEntryPerKey
<1>3. \A u \in Threads : u # t => call'[u] = call[u] /\ pc'[u] = pc[u] /\ found'[u] = found[u]
  BY <1>1 DEF TypeOK
<1>4. pc'[t] = "start"
  BY <1>1 DEF TypeOK
<1>5. Exclusive' /\ FoundIsCurrent'
  BY <1>1, <1>3, <1>4 DEF Exclusive, FoundIsCurrent, get_bucket, Shared
<1>. QED BY <1>2, <1>5

(* What the table and the search of a thread about to act are like. *)
LEMMA AboutToAct ==
  ASSUME IInv, NEW t \in Threads, pc[t] = "act"
  PROVE  LET s == data[get_bucket(t)]
             k == call[t].key
         IN  /\ call[t] \in Calls /\ k \in Keys /\ get_bucket(t) \in Buckets /\ get_bucket(t) = hash[k]
             /\ s \in Entries /\ KeysOnce(s) /\ found[t] = Place(s, k)
             /\ call[t] # Idle /\ ret[t] = NoResult
<1>1. call[t] \in Calls /\ call[t].key \in Keys /\ get_bucket(t) \in Buckets /\ call[t] # Idle
  BY CallOf, CallTypes DEF IInv
<1>2. data[get_bucket(t)] \in Entries /\ KeysOnce(data[get_bucket(t)])
  BY <1>1 DEF IInv, TypeOK, Entries, OneEntryPerKey, KeysOnce
<1>3. found[t] = Place(data[get_bucket(t)], call[t].key) /\ ret[t] = NoResult
  BY DEF IInv, FoundIsCurrent, InCall
<1>. QED BY <1>1, <1>2, <1>3 DEF get_bucket

(* Whoever changes a bucket has it alone, so the searches of others stay valid. *)
LEMMA ActInv ==
  ASSUME IInv, NEW t \in Threads, Acts(t),
         NEW e, e \in Entries, KeysOnce(e), NEW v, v \in Values \union {Absent},
         data' = [data EXCEPT ![get_bucket(t)] = e], ret' = [ret EXCEPT ![t] = <<v>>],
         e = data[get_bucket(t)] \/ ~Shared(t)
  PROVE  IInv'
<1> USE DEF IInv
<1> DEFINE b == get_bucket(t)
<1>1. pc[t] = "act" /\ pc' = [pc EXCEPT ![t] = "unlock"] /\ UNCHANGED <<hash, call, found>>
  BY DEF Acts
<1>2. b \in Buckets
  BY <1>1, AboutToAct
<1>3. TypeOK'
  BY <1>1, <1>2 DEF TypeOK, Entries
<1>4. InCall'
  <2>1. <<v>> # NoResult
    BY DEF NoResult
  <2>. QED BY <1>1, <2>1 DEF InCall, TypeOK
<1>5. \A d \in Buckets : data'[d] = IF d = b THEN e ELSE data[d]
  BY <1>2 DEF TypeOK
<1>6. OneEntryPerKey'
  <2> SUFFICES ASSUME NEW d \in Buckets PROVE KeysOnce(data'[d])
    BY DEF OneEntryPerKey, KeysOnce
  <2>. QED BY <1>5 DEF OneEntryPerKey, KeysOnce
<1>7. \A u \in Threads : get_bucket(u)' = get_bucket(u) /\ Shared(u)' = Shared(u)
                         /\ (pc'[u] \in Locked <=> pc[u] \in Locked)
  BY <1>1 DEF get_bucket, Shared, TypeOK, Locked
<1>8. Exclusive'
  BY <1>7 DEF Exclusive, Locked
<1>9. FoundIsCurrent'
  <2> SUFFICES ASSUME NEW u \in Threads, pc'[u] = "act"
               PROVE  found[u] = Place(data'[get_bucket(u)], call[u].key)
    BY <1>1 DEF FoundIsCurrent, get_bucket
  <2>1. u # t /\ pc[u] = "act"
    BY <1>1 DEF TypeOK
  <2>2. get_bucket(u) \in Buckets /\ found[u] = Place(data[get_bucket(u)], call[u].key)
    BY <2>1, AboutToAct
  <2>3. get_bucket(u) = b => Shared(t)
    BY <1>1, <2>1 DEF Exclusive
  <2>4. data'[get_bucket(u)] = data[get_bucket(u)]
    BY <1>5, <2>2, <2>3
  <2>. QED BY <2>2, <2>4
<1>. QED BY <1>3, <1>4, <1>6, <1>8, <1>9

(* What each kind of call does to its bucket and to the values of all keys. *)
LEMMA ValueForEffect ==
  ASSUME IInv, NEW t \in Threads, value_for(t)
  PROVE  /\ IInv' /\ data' = data
         /\ ret' = [ret EXCEPT ![t] = <<ValueIn(data[get_bucket(t)], call[t].key)>>]
<1> DEFINE s == data[get_bucket(t)]
           k == call[t].key
<1>1. pc[t] = "act" /\ Acts(t) /\ data' = data /\ call[t].op = "value_for"
      /\ ret' = [ret EXCEPT ![t] = <<IF found[t] = 0 THEN Absent ELSE s[found[t]][2]>>]
  BY DEF value_for, Acts
<1>2. s \in Entries /\ KeysOnce(s) /\ found[t] = Place(s, k) /\ get_bucket(t) \in Buckets
  BY <1>1, AboutToAct
<1>3. ret' = [ret EXCEPT ![t] = <<ValueIn(s, k)>>]
  BY <1>1, <1>2 DEF ValueIn
<1>4. ValueIn(s, k) \in Values \union {Absent}
  <2>1. CASE Place(s, k) = 0
    BY <2>1 DEF ValueIn
  <2>2. CASE Place(s, k) # 0
    <3>1. Place(s, k) \in DOMAIN s
      BY <1>2, <2>2, PlaceHolds
    <3>2. s[Place(s, k)] \in Keys \X Values
      BY <1>2, <3>1 DEF Entries
    <3>. QED BY <2>2, <3>2 DEF ValueIn
  <2>. QED BY <2>1, <2>2
<1>5. data' = [data EXCEPT ![get_bucket(t)] = s]
  BY <1>1, <1>2 DEF IInv, TypeOK
<1>. HIDE DEF s, k
<1>6. IInv'
  BY <1>1, <1>2, <1>3, <1>4, <1>5, ActInv DEF s
<1>. QED BY <1>1, <1>3, <1>6 DEF s, k

LEMMA AddEffect ==
  ASSUME IInv, NEW t \in Threads, add_or_update_mapping(t)
  PROVE  LET c == call[t]
             b == get_bucket(t)
         IN  /\ IInv' /\ \A d \in Buckets : d # b => data'[d] = data[d]
             /\ \A m : ValueIn(data'[b], m) = IF m = c.key THEN c.value ELSE ValueIn(data[b], m)
             /\ ret' = [ret EXCEPT ![t] = <<Absent>>]
<1> DEFINE c == call[t]
           b == get_bucket(t)
           s == data[b]
           e == IF found[t] = 0 THEN Append(s, <<c.key, c.value>>) ELSE [s EXCEPT ![found[t]][2] = c.value]
<1>1. /\ pc[t] = "act" /\ Acts(t) /\ c.op = "add_or_update_mapping"
      /\ data' = [data EXCEPT ![b] = e] /\ ret' = [ret EXCEPT ![t] = <<Absent>>]
  BY DEF add_or_update_mapping, Acts
<1>2. s \in Entries /\ KeysOnce(s) /\ found[t] = Place(s, c.key) /\ b \in Buckets /\ c.key \in Keys /\ c \in Calls
  BY <1>1, AboutToAct
<1>3. c.value \in Values
  BY <1>1, <1>2, CallTypes
<1>4. /\ e \in Entries /\ KeysOnce(e)
      /\ \A m : ValueIn(e, m) = IF m = c.key THEN c.value ELSE ValueIn(s, m)
  <2>1. CASE found[t] = 0
    <3>1. e = Append(s, <<c.key, c.value>>)
      BY <2>1
    <3>. HIDE DEF e, s, c
    <3>2. Place(s, c.key) = 0
      BY <1>2, <2>1
    <3>. QED BY <1>2, <1>3, <3>1, <3>2, AppendEntry
  <2>2. CASE found[t] # 0
    <3> DEFINE p == found[t]
    <3>1. e = [s EXCEPT ![p] = [s[p] EXCEPT ![2] = c.value]]
      BY <2>2
    <3>2. p \in DOMAIN s /\ s[p][1] = c.key
      BY <1>2, <2>2, PlaceHolds
    <3>3. PICK x \in Keys, y \in Values : s[p] = <<x, y>>
      BY <1>2, <3>2 DEF Entries
    <3>4. [<<x, y>> EXCEPT ![2] = c.value] = <<c.key, c.value>>
      BY <3>2, <3>3
    <3>. HIDE DEF e, s
    <3>5. e = [s EXCEPT ![p] = <<c.key, c.value>>]
      BY <3>1, <3>3, <3>4
    <3>6. p = Place(s, c.key) /\ p # 0
      BY <1>2, <2>2
    <3>7. e \in Entries
      BY <1>2, <1>3, <3>2, <3>5, ExceptSeq DEF Entries
    <3>8. DOMAIN e = DOMAIN s /\ e[p] = <<c.key, c.value>> /\ \A i \in DOMAIN s : i # p => e[i] = s[i]
      BY <3>2, <3>5
    <3>. HIDE DEF p
    <3>. QED BY <1>2, <1>3, <3>6, <3>7, <3>8, AssignEntry
  <2>. QED BY <2>1, <2>2
<1>5. ~Shared(t)
  BY <1>1 DEF Shared
<1>. HIDE DEF e, s
<1>6. IInv'
  BY <1>1, <1>4, <1>5, ActInv
<1>7. data'[b] = e /\ \A d \in Buckets : d # b => data'[d] = data[d]
  BY <1>1, <1>2 DEF IInv, TypeOK
<1>. QED BY <1>1, <1>4, <1>6, <1>7 DEF s

LEMMA RemoveEffect ==
  ASSUME IInv, NEW t \in Threads, remove_mapping(t)
  PROVE  LET c == call[t]
             b == get_bucket(t)
         IN  /\ IInv' /\ \A d \in Buckets : d # b => data'[d] = data[d]
             /\ \A m : ValueIn(data'[b], m) = IF m = c.key THEN c.value ELSE ValueIn(data[b], m)
             /\ ret' = [ret EXCEPT ![t] = <<Absent>>]
<1> DEFINE c == call[t]
           b == get_bucket(t)
           s == data[b]
           e == IF found[t] = 0 THEN s ELSE RemoveAt(s, found[t])
<1>1. /\ pc[t] = "act" /\ Acts(t) /\ c.op = "remove_mapping"
      /\ data' = [data EXCEPT ![b] = e] /\ ret' = [ret EXCEPT ![t] = <<Absent>>]
  BY DEF remove_mapping, Acts
<1>2. s \in Entries /\ KeysOnce(s) /\ found[t] = Place(s, c.key) /\ b \in Buckets /\ c.key \in Keys /\ c \in Calls
  BY <1>1, AboutToAct
<1>3. c.value = Absent
  BY <1>1, <1>2, CallTypes
<1>4. /\ e \in Entries /\ KeysOnce(e)
      /\ \A m : ValueIn(e, m) = IF m = c.key THEN c.value ELSE ValueIn(s, m)
  <2>1. CASE found[t] = 0
    <3>1. e = s /\ ValueIn(s, c.key) = Absent
      BY <1>2, <2>1 DEF ValueIn
    <3>. HIDE DEF e, s
    <3>. QED BY <1>2, <1>3, <3>1
  <2>2. CASE found[t] # 0
    <3>1. e = RemoveAt(s, found[t])
      BY <2>2
    <3>. HIDE DEF e, s, c
    <3>2. /\ RemoveAt(s, found[t]) \in Entries /\ KeysOnce(RemoveAt(s, found[t]))
          /\ \A m : ValueIn(RemoveAt(s, found[t]), m) = IF m = c.key THEN Absent ELSE ValueIn(s, m)
      BY <1>2, <2>2, RemoveEntry
    <3>. QED BY <1>3, <3>1, <3>2
  <2>. QED BY <2>1, <2>2
<1>5. ~Shared(t)
  BY <1>1 DEF Shared
<1>. HIDE DEF e, s
<1>6. IInv'
  BY <1>1, <1>4, <1>5, ActInv
<1>7. data'[b] = e /\ \A d \in Buckets : d # b => data'[d] = data[d]
  BY <1>1, <1>2 DEF IInv, TypeOK
<1>. QED BY <1>1, <1>4, <1>6, <1>7 DEF s

LEMMA NextInv == IInv /\ [Next]_vars => IInv'
<1> SUFFICES ASSUME IInv, [Next]_vars PROVE IInv'
  OBVIOUS
<1>1. ASSUME NEW t \in Threads, Call(t) PROVE IInv'
  BY <1>1, CallInv
<1>2. ASSUME NEW t \in Threads, Lock(t) PROVE IInv'
  BY <1>2, LockInv
<1>3. ASSUME NEW t \in Threads, find_entry_for(t) PROVE IInv'
  BY <1>3, FindInv
<1>4. ASSUME NEW t \in Threads, Unlock(t) PROVE IInv'
  BY <1>4, UnlockInv
<1>5. ASSUME NEW t \in Threads, value_for(t) PROVE IInv'
  BY <1>5, ValueForEffect
<1>6. ASSUME NEW t \in Threads, add_or_update_mapping(t) PROVE IInv'
  BY <1>6, AddEffect
<1>7. ASSUME NEW t \in Threads, remove_mapping(t) PROVE IInv'
  BY <1>7, RemoveEffect
<1>8. CASE UNCHANGED vars
  BY <1>8 DEF vars, IInv, TypeOK, InCall, OneEntryPerKey, Exclusive, FoundIsCurrent, get_bucket, Shared
<1>. QED BY <1>1, <1>2, <1>3, <1>4, <1>5, <1>6, <1>7, <1>8 DEF Next

-----------------------------------------------------------------------------
(* The refinement of LookupMap. *)

map == [k \in Keys |-> ValueIn(data[hash[k]], k)]

LEMMA InitRefines == Init => Map!Init
<1> SUFFICES ASSUME Init PROVE Map!Init
  OBVIOUS
<1>1. \A k \in Keys : data[hash[k]] = <<>>
  BY DEF Init
<1>2. \A k \in Keys : ValueIn(data[hash[k]], k) = Absent
  BY <1>1, PlaceAbsent
<1>. QED BY <1>2 DEF Init, Map!Init, NoResult, Map!NoResult

(* An entry that a call changes is the one of its key in the bucket of the key:
   in every bucket the other keys keep their values. *)
LEMMA UpdateRefines ==
  ASSUME IInv, NEW t \in Threads, add_or_update_mapping(t) \/ remove_mapping(t)
  PROVE  Map!Effect(t)
<1> DEFINE c == call[t]
           b == get_bucket(t)
<1>1. pc[t] = "act" /\ UNCHANGED <<hash, call>> /\ c.op # "value_for"
  BY DEF add_or_update_mapping, remove_mapping, Acts
<1>2. /\ \A d \in Buckets : d # b => data'[d] = data[d]
      /\ \A m : ValueIn(data'[b], m) = IF m = c.key THEN c.value ELSE ValueIn(data[b], m)
      /\ ret' = [ret EXCEPT ![t] = <<Absent>>]
  <2>1. CASE add_or_update_mapping(t)
    BY <2>1, AddEffect
  <2>2. CASE remove_mapping(t)
    BY <2>2, RemoveEffect
  <2>. QED BY <2>1, <2>2
<1>3. c.key \in Keys /\ b = hash[c.key] /\ b \in Buckets /\ c # Idle /\ ret[t] = NoResult
  BY <1>1, AboutToAct
<1>4. \A k \in Keys : hash[k] \in Buckets
  BY DEF IInv, TypeOK
<1>5. ASSUME NEW k \in Keys
      PROVE  ValueIn(data'[hash[k]], k) = IF k = c.key THEN c.value ELSE ValueIn(data[hash[k]], k)
  <2>1. CASE hash[k] = b
    BY <1>2, <2>1
  <2>2. CASE hash[k] # b
    BY <1>2, <1>3, <1>4, <2>2
  <2>. QED BY <2>1, <2>2
<1>6. map' = [map EXCEPT ![c.key] = c.value]
  BY <1>1, <1>5 DEF map
<1>. QED BY <1>1, <1>2, <1>3, <1>6 DEF Map!Effect, Map!NoResult, NoResult, map

LEMMA ReadRefines ==
  ASSUME IInv, NEW t \in Threads, value_for(t)
  PROVE  Map!Effect(t)
<1> DEFINE c == call[t]
<1>1. pc[t] = "act" /\ UNCHANGED <<hash, call>> /\ c.op = "value_for"
  BY DEF value_for, Acts
<1>2. data' = data /\ ret' = [ret EXCEPT ![t] = <<ValueIn(data[get_bucket(t)], c.key)>>]
  BY ValueForEffect
<1>3. c.key \in Keys /\ get_bucket(t) = hash[c.key] /\ c # Idle /\ ret[t] = NoResult
  BY <1>1, AboutToAct
<1>4. map' = map /\ map[c.key] = ValueIn(data[get_bucket(t)], c.key)
  BY <1>1, <1>2, <1>3 DEF map
<1>. QED BY <1>1, <1>2, <1>3, <1>4 DEF Map!Effect, Map!NoResult, NoResult, map

LEMMA NextRefines == IInv /\ [Next]_vars => [Map!Next]_<<map, call, ret>>
<1> SUFFICES ASSUME IInv, [Next]_vars PROVE [Map!Next]_<<map, call, ret>>
  OBVIOUS
<1>1. UNCHANGED <<hash, data>> => UNCHANGED map
  BY DEF map
<1>2. ASSUME NEW t \in Threads, Call(t) PROVE Map!Begin(t)
  BY <1>1, <1>2 DEF Call, Map!Begin, Calls, Map!Calls, map
<1>3. ASSUME NEW t \in Threads, Lock(t) \/ find_entry_for(t) PROVE UNCHANGED <<map, call, ret>>
  BY <1>1, <1>3 DEF Lock, find_entry_for
<1>4. ASSUME NEW t \in Threads, Unlock(t) PROVE Map!Return(t)
  <2>1. ret[t] # NoResult
    BY <1>4 DEF IInv, InCall, Unlock
  <2>. QED BY <1>1, <1>4, <2>1 DEF Unlock, Map!Return, NoResult, Map!NoResult, map
<1>5. ASSUME NEW t \in Threads, value_for(t) \/ add_or_update_mapping(t) \/ remove_mapping(t) PROVE Map!Effect(t)
  BY <1>5, UpdateRefines, ReadRefines
<1>6. CASE UNCHANGED vars
  BY <1>1, <1>6 DEF vars
<1>. QED BY <1>2, <1>3, <1>4, <1>5, <1>6 DEF Next, Map!Next

(* Every call on the lookup table takes effect on one map at one moment between
   its start and its return, whichever keys share a bucket and whatever other
   threads do there: a bucket's shared mutex is held from the search to the use
   of what it found, and the searches of one bucket go on together only while
   nobody changes it. *)
THEOREM AtomicMap == Spec => ImplementsMap
<1>1. Init => IInv
  BY InitInv
<1>2. IInv /\ [Next]_vars => IInv'
  BY NextInv
<1>3. Init => Map!Init
  BY InitRefines
<1>4. IInv /\ [Next]_vars => [Map!Next]_<<[k \in Keys |-> ValueIn(data[hash[k]], k)], call, ret>>
  BY NextRefines DEF map
<1>. QED BY <1>1, <1>2, <1>3, <1>4, PTL DEF Spec, ImplementsMap, Map!Spec

-----------------------------------------------------------------------------
(* The counters of badcnt.c and timer.cpp. *)

(* The increments of badcnt.c that have been stored. *)
Stored == {p \in Threads \X (1..Iterations) :
             p[2] <= done[p[1]] \/ (at[p[1]] = "post" /\ p[2] = done[p[1]] + 1)}

(* One thread at a time is inside the semaphore, and what it has loaded is
   still the counter when it stores. *)
SemaphoreInv ==
  /\ cnt \in Nat /\ mutex \in {0, 1}
  /\ at \in [Threads -> {"wait", "load", "store", "post"}]
  /\ done \in [Threads -> 0..Iterations] /\ loaded \in [Threads -> Nat]
  /\ \A t \in Threads : at[t] # "wait" => mutex = 0 /\ done[t] < Iterations
  /\ \A t, u \in Threads : at[t] # "wait" /\ at[u] # "wait" => t = u
  /\ \A t \in Threads : at[t] = "store" => loaded[t] = cnt
  /\ cnt = Cardinality(Stored)
  /\ verdict # "BOOM"

LEMMA StoredFinite == IsFiniteSet(Threads \X (1..Iterations)) /\ Cardinality(Threads \X (1..Iterations)) = Cardinality(Threads) * Iterations
<1>1. IsFiniteSet(1..Iterations) /\ Cardinality(1..Iterations) = Iterations
  BY FS_Interval, MCThreadsAssumption DEF MCThreadsAssumption
<1>. QED BY <1>1, FS_Product, MCThreadsAssumption DEF MCThreadsAssumption

LEMMA SemaphoreInit == counters!Init => SemaphoreInv
<1>1. ASSUME counters!Init PROVE Stored = {}
  BY <1>1, MCThreadsAssumption DEF Stored, counters!Init, MCThreadsAssumption
<1>. QED BY <1>1, FS_EmptySet, MCThreadsAssumption DEF SemaphoreInv, counters!Init, MCThreadsAssumption

LEMMA SemaphoreNext == SemaphoreInv /\ [counters!Next]_counterVars => SemaphoreInv'
<1>. SUFFICES ASSUME SemaphoreInv, [counters!Next]_counterVars PROVE SemaphoreInv'
  OBVIOUS
<1>. USE MCThreadsAssumption DEF MCThreadsAssumption
<1>1. ASSUME NEW t \in Threads, counters!sem_wait(t) PROVE SemaphoreInv'
  <2>1. Stored' = Stored
    BY <1>1 DEF SemaphoreInv, Stored, counters!sem_wait
  <2>. QED BY <1>1, <2>1 DEF SemaphoreInv, counters!sem_wait
<1>2. ASSUME NEW t \in Threads, counters!Load(t) PROVE SemaphoreInv'
  <2>1. Stored' = Stored
    BY <1>2 DEF SemaphoreInv, Stored, counters!Load
  <2>. QED BY <1>2, <2>1 DEF SemaphoreInv, counters!Load
<1>3. ASSUME NEW t \in Threads, counters!Store(t) PROVE SemaphoreInv'
  <2>. DEFINE n == <<t, done[t] + 1>>
  <2>1. Stored' = Stored \cup {n} /\ n \notin Stored
    BY <1>3 DEF SemaphoreInv, Stored, counters!Store
  <2>2. IsFiniteSet(Stored)
    BY StoredFinite, FS_Subset DEF Stored
  <2>3. Cardinality(Stored') = Cardinality(Stored) + 1
    BY <2>1, <2>2, FS_AddElement
  <2>. QED BY <1>3, <2>3 DEF SemaphoreInv, counters!Store
<1>4. ASSUME NEW t \in Threads, counters!sem_post(t) PROVE SemaphoreInv'
  <2>1. Stored' = Stored
    BY <1>4 DEF SemaphoreInv, Stored, counters!sem_post
  <2>. QED BY <1>4, <2>1 DEF SemaphoreInv, counters!sem_post
<1>5. ASSUME counters!Check PROVE SemaphoreInv'
  <2>1. Stored' = Stored
    BY <1>5 DEF Stored, counters!Check
  <2>2. Stored = Threads \X (1..Iterations)
    BY <1>5 DEF Stored, counters!Check
  <2>3. counters!Cardinality(Threads) = Cardinality(Threads)
    BY DEF counters!Cardinality, Cardinality
  <2>. QED BY <1>5, <2>1, <2>2, <2>3, StoredFinite DEF SemaphoreInv, counters!Check
<1>6. ASSUME UNCHANGED <<cnt, mutex, done, at, loaded, verdict>> PROVE SemaphoreInv'
  BY <1>6 DEF SemaphoreInv, Stored
<1>7. ASSUME NEW t \in Timers, counters!Fire(t) \/ counters!Test(t) \/ counters!LoadCount(t) \/ counters!StoreCount(t) PROVE SemaphoreInv'
  BY <1>6, <1>7 DEF counters!Fire, counters!Test, counters!LoadCount, counters!StoreCount, counters!badcnt
<1>. QED BY <1>1, <1>2, <1>3, <1>4, <1>5, <1>6, <1>7 DEF counters!Next, counterVars

Running == {"test", "load", "store"}

(* The strand runs one handler at a time, so that the limit it has tested and
   the value it has loaded still hold when it stores. *)
StrandInv ==
  /\ count_ \in 0..Limit
  /\ handler \in [Timers -> {"waiting", "off"} \cup Running] /\ read \in [Timers -> Nat]
  /\ \A t, u \in Timers : handler[t] \in Running /\ handler[u] \in Running => t = u
  /\ \A t \in Timers :
       /\ handler[t] \in {"load", "store"} => count_ < Limit
       /\ handler[t] = "store" => read[t] = count_
       /\ handler[t] = "off" => count_ = Limit

LEMMA StrandInit == counters!Init => StrandInv
  BY MCThreadsAssumption DEF counters!Init, StrandInv, Running, MCThreadsAssumption

LEMMA StrandNext == StrandInv /\ [counters!Next]_counterVars => StrandInv'
<1>. SUFFICES ASSUME StrandInv, [counters!Next]_counterVars PROVE StrandInv'
  OBVIOUS
<1>. USE MCThreadsAssumption DEF MCThreadsAssumption, StrandInv, Running
<1>1. ASSUME NEW t \in Timers, counters!Fire(t) PROVE StrandInv'
  BY <1>1 DEF counters!Fire
<1>2. ASSUME NEW t \in Timers, counters!Test(t) PROVE StrandInv'
  BY <1>2 DEF counters!Test
<1>3. ASSUME NEW t \in Timers, counters!LoadCount(t) PROVE StrandInv'
  BY <1>3 DEF counters!LoadCount
<1>4. ASSUME NEW t \in Timers, counters!StoreCount(t) PROVE StrandInv'
  BY <1>4 DEF counters!StoreCount
<1>5. ASSUME UNCHANGED <<count_, handler, read>> PROVE StrandInv'
  BY <1>5
<1>6. ASSUME counters!Check \/ \E t \in Threads : counters!sem_wait(t) \/ counters!Load(t) \/ counters!Store(t) \/ counters!sem_post(t) PROVE StrandInv'
  BY <1>5, <1>6 DEF counters!Check, counters!sem_wait, counters!Load, counters!Store, counters!sem_post, counters!printer_multi
<1>. QED BY <1>1, <1>2, <1>3, <1>4, <1>5, <1>6 DEF counters!Next, counterVars

LEMMA CountersHold == SemaphoreInv /\ StrandInv => counters!NoLostCount
<1>. SUFFICES ASSUME SemaphoreInv, StrandInv PROVE counters!NoLostCount
  OBVIOUS
<1>1. PICK t \in Timers : TRUE
  BY MCThreadsAssumption DEF MCThreadsAssumption
<1>. QED BY <1>1 DEF SemaphoreInv, StrandInv, counters!NoLostCount

-----------------------------------------------------------------------------
(* The stack of my_stack.cpp. *)

Pushes == Producers \X (1..PerProducer)

Pushed == {v \in Pushes : v[2] <= pushed[v[1]]}

(* What was pushed is in the stack or taken, each producer's earlier values
   lower in the stack and later among the taken. *)
ContentsInv ==
  /\ stack \in Seq(Pushes) /\ taken \in Seq(Pushes)
  /\ pushed \in [Producers -> 0..PerProducer]
  /\ Len(stack) + Len(taken) = Cardinality(Pushed)
  /\ \A i \in DOMAIN stack : stack[i] \in Pushed
  /\ \A v \in Pushed : (\E i \in DOMAIN stack : stack[i] = v) \/ (\E i \in DOMAIN taken : taken[i] = v)
  /\ \A i, j \in DOMAIN stack : i < j /\ stack[i][1] = stack[j][1] => stack[i][2] < stack[j][2]
  /\ \A i, j \in DOMAIN taken : i < j /\ taken[i][1] = taken[j][1] => taken[j][2] < taken[i][2]
  /\ \A i \in DOMAIN stack, j \in DOMAIN taken : stack[i][1] = taken[j][1] => stack[i][2] < taken[j][2]

(* Main takes from the stack after the producers have ended, and pops only
   what it has seen. *)
DrainInv ==
  /\ drain \in {"join", "empty", "pop", "done"}
  /\ drain = "join" => taken = <<>>
  /\ drain # "join" => \A p \in Producers : pushed[p] = PerProducer
  /\ drain = "pop" => stack # <<>>
  /\ drain = "done" => stack = <<>>

StackInv == ContentsInv /\ DrainInv

LEMMA PushesFinite == IsFiniteSet(Pushes) /\ Cardinality(Pushes) = Cardinality(Producers) * PerProducer
<1>1. IsFiniteSet(1..PerProducer) /\ Cardinality(1..PerProducer) = PerProducer
  BY FS_Interval, MCThreadsAssumption DEF MCThreadsAssumption
<1>. QED BY <1>1, FS_Product, MCThreadsAssumption DEF Pushes, MCThreadsAssumption

LEMMA StackInit == mutexStack!Init => StackInv
<1>1. ASSUME mutexStack!Init PROVE Pushed = {}
  BY <1>1 DEF Pushed, Pushes, mutexStack!Init
<1>2. mutexStack!Init => ContentsInv
  <2>. SUFFICES ASSUME mutexStack!Init PROVE ContentsInv
    OBVIOUS
  <2>1. stack = <<>> /\ taken = <<>> /\ pushed \in [Producers -> 0..PerProducer]
    BY MCThreadsAssumption DEF mutexStack!Init, MCThreadsAssumption
  <2>2. DOMAIN stack = {} /\ DOMAIN taken = {} /\ Len(stack) + Len(taken) = 0
        /\ stack \in Seq(Pushes) /\ taken \in Seq(Pushes)
    BY <2>1
  <2>. QED BY <1>1, <2>1, <2>2, FS_EmptySet DEF ContentsInv
<1>. QED BY <1>2 DEF StackInv, DrainInv, mutexStack!Init

LEMMA StackNext == StackInv /\ [mutexStack!Next]_stackVars => StackInv'
<1>. SUFFICES ASSUME StackInv, [mutexStack!Next]_stackVars PROVE StackInv'
  OBVIOUS
<1>1. ASSUME NEW p \in Producers, mutexStack!push(p) PROVE StackInv'
  <2>. DEFINE v == <<p, pushed[p] + 1>>
  <2>1. /\ pushed[p] \in Nat /\ pushed[p] < PerProducer /\ PerProducer \in Nat /\ v \in Pushes
        /\ drain = "join" /\ drain' = drain /\ taken = <<>> /\ taken' = <<>> /\ stack' = Append(stack, v)
        /\ pushed' = [pushed EXCEPT ![p] = @ + 1]
    <3>1. pushed[p] \in Nat /\ pushed[p] < PerProducer /\ PerProducer \in Nat
      BY <1>1, MCThreadsAssumption DEF StackInv, ContentsInv, mutexStack!push, MCThreadsAssumption
    <3>2. drain = "join"
      BY <3>1 DEF StackInv, DrainInv
    <3>3. v \in Pushes
      BY <3>1 DEF Pushes
    <3>. QED BY <1>1, <3>1, <3>2, <3>3 DEF StackInv, DrainInv, mutexStack!push
  <2>2. Pushed' = Pushed \cup {v} /\ v \notin Pushed
    BY <2>1 DEF StackInv, ContentsInv, DrainInv, Pushed, Pushes
  <2>3. Cardinality(Pushed') = Cardinality(Pushed) + 1
    BY <2>2, PushesFinite, FS_Subset, FS_AddElement DEF Pushed
  <2>4. /\ stack' \in Seq(Pushes) /\ Len(stack') = Len(stack) + 1 /\ stack'[Len(stack) + 1] = v
        /\ \A i \in DOMAIN stack : stack'[i] = stack[i]
        /\ DOMAIN stack = 1..Len(stack) /\ DOMAIN stack' = 1..(Len(stack) + 1) /\ Len(stack) \in Nat
    BY <2>1 DEF StackInv, ContentsInv, DrainInv
  <2>5. \A i \in DOMAIN stack' : i \in DOMAIN stack \/ i = Len(stack) + 1
    BY <2>4
  <2>6. \A i \in DOMAIN stack' : stack'[i] \in Pushed'
    BY <2>2, <2>4, <2>5 DEF StackInv, ContentsInv, DrainInv
  <2>7. \A w \in Pushed' : \E i \in DOMAIN stack' : stack'[i] = w
    <3>1. \A i \in DOMAIN stack : i \in DOMAIN stack'
      BY <2>4
    <3>2. \A w \in Pushed : \E i \in DOMAIN stack : stack[i] = w
      BY <2>1 DEF StackInv, ContentsInv, DrainInv
    <3>. QED BY <2>2, <2>4, <3>1, <3>2
  <2>8. \A i, j \in DOMAIN stack' : i < j /\ stack'[i][1] = stack'[j][1] => stack'[i][2] < stack'[j][2]
    <3>. SUFFICES ASSUME NEW i \in DOMAIN stack', NEW j \in DOMAIN stack', i < j, stack'[i][1] = stack'[j][1]
                  PROVE  stack'[i][2] < stack'[j][2]
      OBVIOUS
    <3>1. i \in DOMAIN stack
      BY <2>4
    <3>2. CASE j \in DOMAIN stack
      BY <2>4, <3>1, <3>2 DEF StackInv, ContentsInv, DrainInv
    <3>3. CASE j = Len(stack) + 1
      <4>1. stack[i] \in Pushed
        BY <3>1 DEF StackInv, ContentsInv, DrainInv
      <4>2. stack[i][2] \in Nat /\ stack[i][2] <= pushed[stack[i][1]] /\ stack[i][1] = p
        BY <2>4, <3>1, <3>3, <4>1 DEF Pushed, Pushes
      <4>. QED BY <2>1, <2>4, <3>1, <3>3, <4>2
    <3>. QED BY <2>5, <3>2, <3>3
  <2>9. pushed' \in [Producers -> 0..PerProducer] /\ Len(stack') + Len(taken') = Cardinality(Pushed')
    BY <2>1, <2>3, <2>4 DEF StackInv, ContentsInv, DrainInv
  <2>10. DrainInv'
    BY <2>1 DEF StackInv, DrainInv
  <2>11. taken' \in Seq(Pushes) /\ DOMAIN taken' = {}
    BY <2>1
  <2>. QED BY <2>4, <2>6, <2>7, <2>8, <2>9, <2>10, <2>11 DEF StackInv, ContentsInv
<1>2. ASSUME UNCHANGED <<stack, pushed, taken>> PROVE ContentsInv'
  BY <1>2 DEF StackInv, ContentsInv, Pushed
<1>3. ASSUME mutexStack!pop PROVE StackInv'
  <2>. DEFINE n == Len(stack)
  <2>1. /\ drain = "pop" /\ drain' = "empty" /\ stack # <<>> /\ pushed' = pushed
        /\ taken' = Append(taken, stack[n]) /\ stack' = SubSeq(stack, 1, n - 1)
    BY <1>3 DEF StackInv, ContentsInv, DrainInv, mutexStack!pop
  <2>2. Pushed' = Pushed
    BY <2>1 DEF Pushed
  <2>3. /\ n \in Nat /\ n > 0 /\ n \in DOMAIN stack /\ DOMAIN stack = 1..n
        /\ stack' \in Seq(Pushes) /\ Len(stack') = n - 1 /\ DOMAIN stack' = 1..(n - 1)
        /\ \A i \in 1..(n - 1) : stack'[i] = stack[i]
    <3>1. stack \in Seq(Pushes) /\ stack # <<>>
      BY <2>1 DEF StackInv, ContentsInv
    <3>2. n \in Nat /\ n > 0 /\ n \in DOMAIN stack /\ DOMAIN stack = 1..n
      BY <3>1
    <3>3. \A i \in 1..(n - 1) : stack[i] \in Pushes
      BY <3>1, <3>2
    <3>4. stack' = [i \in 1..(n - 1) |-> stack[i]]
      BY <2>1, <3>1, <3>2
    <3>. QED BY <3>2, <3>3, <3>4
  <2>4. /\ stack[n] \in Pushes /\ taken' \in Seq(Pushes) /\ Len(taken') = Len(taken) + 1 /\ Len(taken) \in Nat
        /\ DOMAIN taken = 1..Len(taken) /\ DOMAIN taken' = 1..(Len(taken) + 1)
        /\ taken'[Len(taken) + 1] = stack[n] /\ \A i \in DOMAIN taken : taken'[i] = taken[i]
    BY <2>1, <2>3 DEF StackInv, ContentsInv, DrainInv
  <2>5. \A i \in DOMAIN taken' : i \in DOMAIN taken \/ i = Len(taken) + 1
    BY <2>4
  <2>6. \A i \in DOMAIN stack : i = n \/ i \in DOMAIN stack'
    BY <2>3
  <2>. DEFINE m == Len(taken) + 1
  <2>14. \A i \in DOMAIN taken : stack[n][1] = taken[i][1] => stack[n][2] < taken[i][2]
    BY <2>3 DEF StackInv, ContentsInv
  <2>15. \A i \in 1..(n - 1) : stack[i][1] = stack[n][1] => stack[i][2] < stack[n][2]
    <3>1. \A i \in 1..(n - 1) : i \in DOMAIN stack /\ i < n
      BY <2>3
    <3>. QED BY <2>3, <3>1 DEF StackInv, ContentsInv
  <2>7. \A v \in Pushed : (\E i \in DOMAIN stack' : stack'[i] = v) \/ (\E i \in DOMAIN taken' : taken'[i] = v)
    <3>. SUFFICES ASSUME NEW v \in Pushed
                  PROVE  (\E i \in DOMAIN stack' : stack'[i] = v) \/ (\E i \in DOMAIN taken' : taken'[i] = v)
      OBVIOUS
    <3>1. CASE \E i \in DOMAIN stack : stack[i] = v
      <4>1. PICK i \in DOMAIN stack : stack[i] = v
        BY <3>1
      <4>2. Len(taken) + 1 \in DOMAIN taken'
        BY <2>4
      <4>. QED BY <2>3, <2>4, <2>6, <4>1, <4>2
    <3>2. CASE \E i \in DOMAIN taken : taken[i] = v
      <4>1. \A i \in DOMAIN taken : i \in DOMAIN taken'
        BY <2>4
      <4>. QED BY <2>4, <3>2, <4>1
    <3>. QED BY <3>1, <3>2 DEF StackInv, ContentsInv, DrainInv
  <2>8. \A i, j \in DOMAIN taken' : i < j /\ taken'[i][1] = taken'[j][1] => taken'[j][2] < taken'[i][2]
    <3>. SUFFICES ASSUME NEW i \in DOMAIN taken', NEW j \in DOMAIN taken', i < j, taken'[i][1] = taken'[j][1]
                  PROVE  taken'[j][2] < taken'[i][2]
      OBVIOUS
    <3>1. i \in DOMAIN taken
      BY <2>4
    <3>2. CASE j \in DOMAIN taken
      BY <2>4, <3>1, <3>2 DEF StackInv, ContentsInv, DrainInv
    <3>3. CASE j = Len(taken) + 1
      BY <2>4, <2>14, <3>1, <3>3
    <3>. QED BY <2>5, <3>2, <3>3
  <2>9. \A i \in DOMAIN stack', j \in DOMAIN taken' : stack'[i][1] = taken'[j][1] => stack'[i][2] < taken'[j][2]
    <3>. SUFFICES ASSUME NEW i \in DOMAIN stack', NEW j \in DOMAIN taken', stack'[i][1] = taken'[j][1]
                  PROVE  stack'[i][2] < taken'[j][2]
      OBVIOUS
    <3>1. i \in DOMAIN stack /\ i < n /\ stack'[i] = stack[i]
      BY <2>3
    <3>2. CASE j \in DOMAIN taken
      BY <2>4, <3>1, <3>2 DEF StackInv, ContentsInv, DrainInv
    <3>3. CASE j = Len(taken) + 1
      BY <2>3, <2>4, <2>15, <3>1, <3>3
    <3>. QED BY <2>5, <3>2, <3>3
  <2>10. /\ \A i \in DOMAIN stack' : stack'[i] \in Pushed
         /\ \A i, j \in DOMAIN stack' : i < j /\ stack'[i][1] = stack'[j][1] => stack'[i][2] < stack'[j][2]
    <3>1. \A i \in DOMAIN stack' : i \in DOMAIN stack /\ stack'[i] = stack[i]
      BY <2>3
    <3>. QED BY <3>1 DEF StackInv, ContentsInv
  <2>11. Len(stack') + Len(taken') = Cardinality(Pushed')
    BY <2>2, <2>3, <2>4 DEF StackInv, ContentsInv, DrainInv
  <2>12. drain' \in {"join", "empty", "pop", "done"} /\ pushed' \in [Producers -> 0..PerProducer]
         /\ \A p \in Producers : pushed'[p] = PerProducer
    BY <2>1 DEF StackInv, ContentsInv, DrainInv
  <2>13. drain' # "join" /\ drain' # "pop" /\ drain' # "done"
    BY <2>1
  <2>. QED BY <2>2, <2>3, <2>4, <2>7, <2>8, <2>9, <2>10, <2>11, <2>12, <2>13 DEF StackInv, ContentsInv, DrainInv
<1>4. CASE UNCHANGED stackVars
  BY <1>2, <1>4 DEF stackVars, StackInv, DrainInv
<1>5. CASE mutexStack!join
  BY <1>2, <1>5 DEF mutexStack!join, StackInv, DrainInv
<1>6. CASE mutexStack!empty
  BY <1>2, <1>6 DEF mutexStack!empty, StackInv, DrainInv
<1>. QED BY <1>1, <1>3, <1>4, <1>5, <1>6 DEF mutexStack!Next

LEMMA StackHolds == StackInv => mutexStack!DrainsAll
<1>. SUFFICES ASSUME StackInv, drain = "done"
              PROVE  /\ Len(taken) = mutexStack!Cardinality(Producers) * PerProducer
                     /\ \A p \in Producers, i \in 1..PerProducer : \E j \in DOMAIN taken : taken[j] = <<p, i>>
                     /\ \A j, k \in DOMAIN taken : j < k /\ taken[j][1] = taken[k][1] => taken[k][2] < taken[j][2]
  BY DEF StackInv, ContentsInv, DrainInv, mutexStack!DrainsAll
<1>1. Pushed = Pushes
  BY DEF StackInv, ContentsInv, DrainInv, Pushed, Pushes
<1>2. mutexStack!Cardinality(Producers) = Cardinality(Producers)
  BY DEF mutexStack!Cardinality, Cardinality
<1>3. stack = <<>> /\ Len(stack) = 0 /\ Len(taken) \in Nat
  BY DEF StackInv, ContentsInv, DrainInv
<1>4. Len(taken) = mutexStack!Cardinality(Producers) * PerProducer
  BY <1>1, <1>2, <1>3, PushesFinite DEF StackInv, ContentsInv, DrainInv
<1>5. \A p \in Producers, i \in 1..PerProducer : \E j \in DOMAIN taken : taken[j] = <<p, i>>
  <2>1. \A p \in Producers, i \in 1..PerProducer : <<p, i>> \in Pushed
    BY <1>1 DEF Pushes
  <2>2. \A v \in Pushed : \E j \in DOMAIN taken : taken[j] = v
    BY <1>3 DEF StackInv, ContentsInv
  <2>. QED BY <2>1, <2>2
<1>. QED BY <1>4, <1>5 DEF StackInv, ContentsInv, DrainInv

-----------------------------------------------------------------------------
(* The blocks of accumulate.cpp. *)

LEMMA SetInduction ==
  ASSUME NEW T \in SUBSET Nat, 0 \in T, \A n \in T : n + 1 \in T
  PROVE  T = Nat
<1> DEFINE M == Nat \ T
           R == {ss \in Nat \X Nat : ss[1] < ss[2]}
<1>1. SUFFICES ASSUME M # {} PROVE FALSE
  OBVIOUS
<1>2. IsWellFoundedOn(R, Nat)
  BY NatLessThanWellFounded DEF OpToRel
<1>3. M \subseteq Nat
  OBVIOUS
<1>4. \A x, y \in Nat : x < y => <<x, y>> \in R
  OBVIOUS
<1> HIDE DEF M, R
<1>5. PICK x \in M : \A y \in M : ~ (<<y, x>> \in R)
  BY <1>1, <1>2, <1>3, WFMin
<1>6. x # 0 /\ x \in Nat
  BY <1>3, <1>5 DEF M
<1>7. x - 1 \in Nat /\ x - 1 < x
  BY <1>6
<1>8. x - 1 \in T
  BY <1>4, <1>5, <1>6, <1>7 DEF M
<1>. QED BY <1>5, <1>6, <1>8, x - 1 + 1 = x DEF M

-----------------------------------------------------------------------------
num_threads == accumulate!num_threads

(* The elements before the end of the i-th block. *)
Cut == [i \in 0..num_threads |-> IF i = num_threads THEN length ELSE i * accumulate!block_size]

LEMMA Quotient ==
  ASSUME NEW a \in Nat, NEW b \in Nat \ {0}
  PROVE  a \div b \in Nat /\ b * (a \div b) <= a /\ (b <= a => a \div b # 0)
  OBVIOUS

LEMMA Distributes ==
  ASSUME NEW k \in Nat, NEW b \in Nat
  PROVE  k * b \in Nat /\ (k + 1) * b = k * b + b
  OBVIOUS

LEMMA BlocksFit ==
  ASSUME length \in Nat \ {0}, hardware_threads \in Nat
  PROVE  num_threads \in Nat \ {0} /\ accumulate!block_size \in Nat /\ num_threads * accumulate!block_size <= length
<1> DEFINE a == length + MinPerThread - 1
<1>1. a \in Nat /\ MinPerThread \in Nat \ {0} /\ MinPerThread <= a
  BY MCThreadsAssumption DEF MCThreadsAssumption
<1>2. a \div MinPerThread \in Nat \ {0}
  BY <1>1, Quotient
<1>3. num_threads \in Nat \ {0}
  BY <1>2 DEF num_threads, accumulate!num_threads, accumulate!max_threads, accumulate!least
<1>. QED BY <1>3, Quotient DEF num_threads, accumulate!block_size

LEMMA Cuts ==
  ASSUME length \in Nat \ {0}, hardware_threads \in Nat
  PROVE  /\ Cut[0] = 0 /\ Cut[num_threads] = length
         /\ \A i \in 0..num_threads : Cut[i] \in Nat
         /\ \A i \in 0..num_threads : i + 1 < num_threads => Cut[i + 1] = Cut[i] + accumulate!block_size
         /\ \A i \in 0..num_threads : i + 1 <= num_threads => Cut[i] <= Cut[i + 1]
<1> DEFINE B == accumulate!block_size
<1>1. num_threads \in Nat \ {0} /\ B \in Nat /\ num_threads * B <= length
  BY BlocksFit
<1>2. Cut[0] = 0 /\ Cut[num_threads] = length
  BY <1>1 DEF Cut
<1>3. ASSUME NEW i \in 0..num_threads PROVE Cut[i] \in Nat
  BY <1>1, <1>3, Distributes DEF Cut
<1>4. ASSUME NEW i \in 0..num_threads, i + 1 < num_threads PROVE Cut[i + 1] = Cut[i] + B
  BY <1>1, <1>4, Distributes DEF Cut
<1>5. ASSUME NEW i \in 0..num_threads, i + 1 <= num_threads PROVE Cut[i] <= Cut[i + 1]
  <2>1. CASE i + 1 < num_threads
    BY <1>1, <1>3, <1>4, <2>1
  <2>2. CASE i + 1 = num_threads
    <3>1. num_threads * B = i * B + B /\ i * B \in Nat
      BY <1>1, <2>2, Distributes
    <3>2. Cut[i] = i * B /\ Cut[i + 1] = length
      BY <1>1, <2>2 DEF Cut
    <3>. QED BY <1>1, <3>1, <3>2
  <2>. QED BY <1>1, <1>5, <2>1, <2>2
<1>. QED BY <1>2, <1>3, <1>4, <1>5

-----------------------------------------------------------------------------
(* Blocks that follow one another add up to the sum of all of their elements. *)

Partial(f, q) == f = [i \in 1..Len(q) |-> IF i = 1 THEN q[i] ELSE f[i - 1] \o q[i]]

LEMMA SumsJoin ==
  ASSUME NEW a \in Nat, NEW b \in Nat, a <= b
  PROVE  accumulate!Sum(1, a) \o accumulate!Sum(a + 1, b) = accumulate!Sum(1, b)
  BY DEF accumulate!Sum

(* q has the sums of n blocks that are cut at c. *)
CutAt(q, c, n) ==
  /\ Len(q) = n /\ c[0] = 0
  /\ \A i \in 0..n : c[i] \in Nat
  /\ \A i \in 0..n : i + 1 <= n => c[i] <= c[i + 1]
  /\ \A i \in 1..n : q[i] = accumulate!Sum(c[i - 1] + 1, c[i])

LEMMA PartialSums ==
  ASSUME NEW q, NEW n \in Nat, NEW c, CutAt(q, c, n), NEW f, Partial(f, q)
  PROVE  \A i \in 1..n : f[i] = accumulate!Sum(1, c[i])
<1> DEFINE T == {i \in Nat : i + 1 <= n => f[i + 1] = accumulate!Sum(1, c[i + 1])}
<1>1. 0 \in T
  <2>1. CASE n > 0
    <3>1. 1 \in 1..n /\ f[1] = q[1]
      BY <2>1 DEF Partial, CutAt
    <3>. QED BY <3>1 DEF CutAt
  <2>. QED BY <2>1
<1>2. ASSUME NEW i \in T PROVE i + 1 \in T
  <2>1. CASE i + 2 <= n
    <3>1. i + 1 \in 0..n /\ i + 2 \in 0..n /\ i + 2 \in 1..n /\ (i + 2) - 1 = i + 1 /\ i + 2 # 1 /\ (i + 1) + 1 = i + 2
      BY <2>1
    <3>2. f[i + 2] = f[i + 1] \o q[i + 2]
      BY <3>1 DEF Partial, CutAt
    <3>3. f[i + 1] = accumulate!Sum(1, c[i + 1])
      BY <1>2, <2>1
    <3>4. c[i + 1] \in Nat /\ c[i + 2] \in Nat /\ c[i + 1] <= c[i + 2] /\ q[i + 2] = accumulate!Sum(c[i + 1] + 1, c[i + 2])
      BY <3>1 DEF CutAt
    <3>5. f[i + 2] = accumulate!Sum(1, c[i + 2])
      BY <3>2, <3>3, <3>4, SumsJoin
    <3>. QED BY <3>1, <3>5
  <2>. QED BY <2>1
<1> HIDE DEF T
<1>3. T = Nat
  <2>1. T \in SUBSET Nat
    BY DEF T
  <2>. QED BY <1>1, <1>2, <2>1, SetInduction
<1>4. ASSUME NEW i \in 1..n PROVE f[i] = accumulate!Sum(1, c[i])
  <2>1. i - 1 \in T /\ (i - 1) + 1 = i
    BY <1>3
  <2>. QED BY <2>1 DEF T
<1>. QED BY <1>4

LEMMA BlocksJoin ==
  ASSUME NEW n \in Nat \ {0}, NEW c, c[0] = 0,
         \A i \in 0..n : c[i] \in Nat,
         \A i \in 0..n : i + 1 <= n => c[i] <= c[i + 1],
         NEW q, q = [i \in 1..n |-> accumulate!Sum(c[i - 1] + 1, c[i])]
  PROVE  accumulate!FlattenSeq(q) = accumulate!Sum(1, c[n])
<1>1. q \in Seq(Seq(Nat)) /\ Len(q) = n
  <2>1. \A i \in 1..n : i \in 0..n /\ i - 1 \in 0..n
    OBVIOUS
  <2>2. \A i \in 1..n : accumulate!Sum(c[i - 1] + 1, c[i]) \in Seq(Nat)
    <3>1. \A i \in 1..n : c[i] \in Nat /\ c[i - 1] \in Nat /\ c[i] + 1 - (c[i - 1] + 1) \in Int
      BY <2>1
    <3>2. ASSUME NEW a \in Nat, NEW b \in Nat PROVE accumulate!Sum(a + 1, b) \in Seq(Nat)
      <4>1. accumulate!Sum(a + 1, b) = [i \in 1..(b + 1 - (a + 1)) |-> a + 1 + i - 1]
        BY DEF accumulate!Sum
      <4>2. CASE b >= a
        <5>1. b + 1 - (a + 1) \in Nat /\ \A i \in 1..(b + 1 - (a + 1)) : a + 1 + i - 1 \in Nat
          BY <4>2
        <5>. QED BY <4>1, <5>1
      <4>3. CASE b < a
        <5>1. 1..(b + 1 - (a + 1)) = 1..0
          BY <4>3
        <5>. QED BY <4>1, <5>1
      <4>. QED BY <4>2, <4>3
    <3>. QED BY <3>1, <3>2
  <2>. QED BY <2>2
<1>2. \E f : Partial(f, q)
  <2> DEFINE w == [i \in 1..n |-> accumulate!Sum(1, c[i])]
  <2>1. ASSUME NEW i \in 1..n PROVE w[i] = IF i = 1 THEN q[i] ELSE w[i - 1] \o q[i]
    <3>1. CASE i = 1
      BY <3>1
    <3>2. CASE i # 1
      <4>1. i - 1 \in 1..n /\ i - 1 \in 0..n /\ i \in 0..n /\ (i - 1) + 1 = i
        BY <3>2
      <4>2. c[i - 1] \in Nat /\ c[i] \in Nat /\ c[i - 1] <= c[i]
        BY <4>1
      <4>3. q[i] = accumulate!Sum(c[i - 1] + 1, c[i])
        OBVIOUS
      <4>4. accumulate!Sum(1, c[i - 1]) \o accumulate!Sum(c[i - 1] + 1, c[i]) = accumulate!Sum(1, c[i])
        BY <4>2, SumsJoin
      <4>. QED BY <3>2, <4>1, <4>3, <4>4
    <3>. QED BY <3>1, <3>2
  <2>2. w = [i \in 1..n |-> w[i]]
    OBVIOUS
  <2> HIDE DEF w
  <2>3. w = [i \in 1..n |-> IF i = 1 THEN q[i] ELSE w[i - 1] \o q[i]]
    BY <2>1, <2>2
  <2>4. Partial(w, q)
    BY <1>1, <2>3 DEF Partial
  <2>. QED BY <2>4
<1> DEFINE g == CHOOSE f : Partial(f, q)
<1>3. Partial(g, q)
  BY <1>2
<1>4. accumulate!FlattenSeq(q) = g[Len(q)]
  BY <1>1 DEF Partial, accumulate!FlattenSeq
<1> HIDE DEF g
<1>5. \A i \in 1..n : q[i] = accumulate!Sum(c[i - 1] + 1, c[i])
  OBVIOUS
<1>6. CutAt(q, c, n)
  BY <1>1, <1>5 DEF CutAt
<1>7. \A i \in 1..n : g[i] = accumulate!Sum(1, c[i])
  BY <1>3, <1>6, PartialSums
<1>. QED BY <1>1, <1>4, <1>7

-----------------------------------------------------------------------------
(* The threads' blocks follow one another from the first element. *)
StartedInv ==
  /\ started \in Seq(Nat \X Nat) /\ Len(started) + 1 <= num_threads
  /\ block_start = Cut[Len(started)] + 1
  /\ \A i \in DOMAIN started : started[i] = <<Cut[i - 1] + 1, Cut[i]>>

(* Each block that has ended has the sum of the elements between its cuts. *)
EndedInv ==
  /\ ended \subseteq 1..num_threads
  /\ \A i \in ended : results[i] = accumulate!Sum(Cut[i - 1] + 1, Cut[i])

IsTuple(f, n) == f = [i \in 1..n |-> f[i]]

BlocksInv ==
  /\ length \in Nat /\ hardware_threads \in Nat
  /\ IsTuple(results, num_threads)
  /\ length > 0 => StartedInv /\ EndedInv
  /\ length = 0 => total # <<>> /\ started = <<>>
  /\ accumulate!AddsEveryElement

LEMMA BlocksInit == accumulate!Init => BlocksInv
<1>. SUFFICES ASSUME accumulate!Init PROVE BlocksInv
  OBVIOUS
<1>1. length \in Nat /\ hardware_threads \in Nat
  BY MCThreadsAssumption DEF accumulate!Init, MCThreadsAssumption
<1>2. IsTuple(results, num_threads)
  BY DEF accumulate!Init, num_threads, IsTuple
<1>3. ASSUME length > 0 PROVE Cut[0] = 0 /\ num_threads \in Nat \ {0}
  BY <1>1, <1>3, Cuts, BlocksFit
<1>4. total = IF length = 0 THEN <<0>> ELSE <<>>
  BY DEF accumulate!Init
<1>5. accumulate!AddsEveryElement
  <2>1. CASE length = 0
    BY <1>4, <2>1 DEF accumulate!AddsEveryElement
  <2>. QED BY <1>4, <2>1 DEF accumulate!AddsEveryElement
<1>. QED BY <1>1, <1>2, <1>3, <1>4, <1>5 DEF BlocksInv, StartedInv, EndedInv, accumulate!Init

LEMMA BlocksNext == BlocksInv /\ [accumulate!Next]_accumulateVars => BlocksInv'
<1>. SUFFICES ASSUME BlocksInv, [accumulate!Next]_accumulateVars PROVE BlocksInv'
  OBVIOUS
<1>1. UNCHANGED <<length, hardware_threads>> /\ num_threads' = num_threads /\ accumulate!block_size' = accumulate!block_size
  <2>1. UNCHANGED <<length, hardware_threads>>
    BY DEF accumulate!Next, accumulate!StartThread, accumulate!accumulate_block, accumulate!LastBlock, accumulate!Join, accumulateVars
  <2>. QED BY <2>1 DEF num_threads, accumulate!num_threads, accumulate!block_size, accumulate!max_threads, accumulate!least
<1>2. Cut' = Cut
  BY <1>1 DEF Cut
<1>3. length \in Nat /\ hardware_threads \in Nat /\ IsTuple(results, num_threads)
  BY DEF BlocksInv, StartedInv, EndedInv
<1>4. ASSUME length > 0
      PROVE  /\ num_threads \in Nat \ {0} /\ accumulate!block_size \in Nat
             /\ Cut[0] = 0 /\ Cut[num_threads] = length
             /\ \A i \in 0..num_threads : Cut[i] \in Nat
             /\ \A i \in 0..num_threads : i + 1 < num_threads => Cut[i + 1] = Cut[i] + accumulate!block_size
             /\ \A i \in 0..num_threads : i + 1 <= num_threads => Cut[i] <= Cut[i + 1]
  BY <1>3, <1>4, Cuts, BlocksFit
<1>5. CASE accumulate!StartThread
  <2> DEFINE k == Len(started)
             B == accumulate!block_size
  <2>1. /\ length > 0 /\ k < num_threads - 1 /\ started \in Seq(Nat \X Nat) /\ k \in Nat
        /\ started' = Append(started, <<Cut[k] + 1, Cut[k] + 1 + B - 1>>)
        /\ block_start' = Cut[k] + 1 + B
        /\ UNCHANGED <<results, ended, total>>
    BY <1>5 DEF BlocksInv, StartedInv, EndedInv, accumulate!StartThread, num_threads
  <2>2. Cut[k + 1] = Cut[k] + B /\ Cut[k] \in Nat /\ Cut[k + 1] \in Nat /\ B \in Nat /\ num_threads \in Nat
    BY <1>4, <2>1
  <2>3. block_start' = Cut[k + 1] + 1 /\ started' = Append(started, <<Cut[k] + 1, Cut[k + 1]>>)
    <3>1. Cut[k] + 1 + B = Cut[k + 1] + 1 /\ Cut[k] + 1 + B - 1 = Cut[k + 1]
      BY <2>2
    <3>. QED BY <2>1, <3>1
  <2>4. /\ started' \in Seq(Nat \X Nat) /\ Len(started') = k + 1 /\ DOMAIN started' = 1..(k + 1) /\ DOMAIN started = 1..k
        /\ started'[k + 1] = <<Cut[k] + 1, Cut[k + 1]>> /\ \A i \in 1..k : started'[i] = started[i]
    <3> DEFINE e == <<Cut[k] + 1, Cut[k + 1]>>
    <3>1. e \in Nat \X Nat
      BY <2>2
    <3>2. started' = Append(started, e)
      BY <2>3
    <3> HIDE DEF e
    <3>3. /\ started' \in Seq(Nat \X Nat) /\ Len(started') = k + 1
          /\ DOMAIN started' = 1..(k + 1) /\ DOMAIN started = 1..k
          /\ started'[k + 1] = e /\ \A i \in 1..k : started'[i] = started[i]
      BY <2>1, <3>1, <3>2
    <3>. QED BY <3>3 DEF e
  <2>5. \A i \in DOMAIN started' : started'[i] = <<Cut[i - 1] + 1, Cut[i]>>
    <3>1. \A i \in DOMAIN started' : i \in 1..k \/ i = k + 1
      BY <2>1, <2>4
    <3>2. (k + 1) - 1 = k
      BY <2>1
    <3>3. \A i \in 1..k : started[i] = <<Cut[i - 1] + 1, Cut[i]>>
      BY <2>1, <2>4 DEF BlocksInv, StartedInv, EndedInv
    <3>. QED BY <2>4, <3>1, <3>2, <3>3
  <2>6. accumulate!AddsEveryElement'
    BY <1>1, <2>1 DEF BlocksInv, StartedInv, EndedInv, accumulate!AddsEveryElement
  <2>7. StartedInv'
    <3>1. k + 1 + 1 <= num_threads
      BY <2>1, <2>2
    <3>. QED BY <1>1, <1>2, <2>3, <2>4, <2>5, <3>1 DEF StartedInv
  <2>8. EndedInv'
    BY <1>1, <1>2, <2>1 DEF BlocksInv, EndedInv, accumulate!Sum
  <2>. QED BY <1>1, <2>1, <2>6, <2>7, <2>8 DEF BlocksInv
<1>6. ASSUME NEW i \in 1..num_threads, results' = [results EXCEPT ![i] = accumulate!Sum(Cut[i - 1] + 1, Cut[i])],
             ended' = ended \cup {i}, UNCHANGED <<started, block_start, total>>
      PROVE  BlocksInv'
  <2>1. accumulate!AddsEveryElement'
    BY <1>1, <1>6 DEF BlocksInv, StartedInv, EndedInv, accumulate!AddsEveryElement
  <2>2. IsTuple(results', num_threads) /\ \A j \in 1..num_threads : results'[j] = IF j = i THEN accumulate!Sum(Cut[i - 1] + 1, Cut[i]) ELSE results[j]
    BY <1>3, <1>6 DEF IsTuple
  <2>3. length > 0 => StartedInv'
    BY <1>1, <1>2, <1>6 DEF BlocksInv, StartedInv
  <2>4. length > 0 => EndedInv'
    BY <1>1, <1>2, <1>6, <2>2 DEF BlocksInv, EndedInv, accumulate!Sum
  <2>. QED BY <1>1, <1>6, <2>1, <2>2, <2>3, <2>4 DEF BlocksInv
<1>7. ASSUME NEW i \in 1..MaxHardwareThreads, accumulate!accumulate_block(i) PROVE BlocksInv'
  <2>1. i \in DOMAIN started /\ length > 0
    BY <1>3, <1>7 DEF BlocksInv, StartedInv, EndedInv, accumulate!accumulate_block
  <2>2. i \in 1..num_threads
    BY <1>4, <2>1 DEF BlocksInv, StartedInv, EndedInv
  <2>3. started[i] = <<Cut[i - 1] + 1, Cut[i]>>
    BY <2>1 DEF BlocksInv, StartedInv, EndedInv
  <2>4. results' = [results EXCEPT ![i] = accumulate!Sum(Cut[i - 1] + 1, Cut[i])]
    BY <1>7, <2>3 DEF accumulate!accumulate_block
  <2>. QED BY <1>6, <1>7, <2>2, <2>4 DEF accumulate!accumulate_block
<1>8. CASE accumulate!LastBlock
  <2>1. length > 0 /\ Len(started) = num_threads - 1 /\ block_start = Cut[num_threads - 1] + 1 /\ num_threads \in 1..num_threads /\ Cut[num_threads] = length
    BY <1>3, <1>4, <1>8 DEF BlocksInv, StartedInv, EndedInv, accumulate!LastBlock, num_threads
  <2>. QED BY <1>6, <1>8, <2>1 DEF accumulate!LastBlock, num_threads
<1>9. CASE accumulate!Join
  <2>1. /\ total = <<>> /\ ended = 1..num_threads /\ total' = <<0>> \o accumulate!FlattenSeq(results)
        /\ UNCHANGED <<started, block_start, results, ended>> /\ length > 0
    <3>1. total = <<>> /\ ended = 1..num_threads /\ UNCHANGED <<started, block_start, results, ended>>
          /\ total' = <<0>> \o accumulate!FlattenSeq(results)
      BY <1>9 DEF accumulate!Join, num_threads
    <3>2. length = 0 => total # <<>>
      BY DEF BlocksInv
    <3>. QED BY <1>3, <3>1, <3>2
  <2>2. accumulate!FlattenSeq(results) = accumulate!Sum(1, length)
    <3>1. PICK n \in Nat \ {0} : n = num_threads
      BY <1>4, <2>1
    <3> DEFINE c == [i \in 0..n |-> Cut[i]]
    <3>2. c[0] = 0 /\ c[n] = length /\ \A i \in 0..n : c[i] \in Nat
      BY <1>4, <2>1, <3>1
    <3>3. ASSUME NEW i \in 0..n, i + 1 <= n PROVE c[i] <= c[i + 1]
      <4>1. i + 1 \in 0..n
        BY <3>3
      <4>. QED BY <1>4, <2>1, <3>1, <3>3, <4>1
    <3>4. \A i \in 1..n : results[i] = accumulate!Sum(c[i - 1] + 1, c[i])
      <4>1. \A i \in 1..n : i \in 0..n /\ i - 1 \in 0..n
        OBVIOUS
      <4>. QED BY <2>1, <3>1, <4>1 DEF BlocksInv, StartedInv, EndedInv
    <3> HIDE DEF c
    <3>5. results = [i \in 1..n |-> accumulate!Sum(c[i - 1] + 1, c[i])]
      BY <1>3, <3>1, <3>4 DEF IsTuple
    <3>. QED BY <3>2, <3>3, <3>5, BlocksJoin
  <2>3. <<0>> \o accumulate!Sum(1, length) = [i \in 1..(length + 1) |-> i - 1]
    BY <1>3 DEF accumulate!Sum
  <2>4. accumulate!AddsEveryElement'
    BY <1>1, <2>1, <2>2, <2>3 DEF accumulate!AddsEveryElement
  <2>5. StartedInv' /\ EndedInv'
    BY <1>1, <1>2, <2>1 DEF BlocksInv, StartedInv, EndedInv, accumulate!Sum
  <2>. QED BY <1>1, <2>1, <2>4, <2>5 DEF BlocksInv
<1>10. CASE UNCHANGED accumulateVars
  BY <1>1, <1>2, <1>10 DEF BlocksInv, StartedInv, EndedInv, accumulateVars, accumulate!AddsEveryElement, accumulate!Sum
<1>. QED BY <1>5, <1>7, <1>8, <1>9, <1>10 DEF accumulate!Next

-----------------------------------------------------------------------------
(* Each program of threads, alone: a step of another leaves its variables. *)
LEMMA Programs ==
  /\ MCInit => counters!Init /\ mutexStack!Init /\ accumulate!Init
  /\ [MCNext]_<<program, vars, dnsVars, stackVars, accumulateVars, counterVars>> =>
       /\ [counters!Next]_counterVars
       /\ [mutexStack!Next]_stackVars
       /\ [accumulate!Next]_accumulateVars
  BY DEF MCInit, MCNext, Step, Finished

(* Main finds the counter of badcnt.c at the sum of all iterations, because the
   semaphore admits one thread from the load to the store; the two timers of
   timer.cpp reach the limit and stop there, because the strand runs one handler
   at a time; main of my_stack.cpp takes every value that any producer pushed,
   each producer's last value first, and pop never throws, because nobody else
   takes between empty and pop; and parallel_accumulate adds up every element
   once and in order, because the blocks are cut next to one another and the
   last takes what the division leaves over. *)
THEOREM NothingLost == MCSpec => []CountsExact
<1>1. MCInit => SemaphoreInv /\ StrandInv /\ StackInv /\ BlocksInv
  BY Programs, SemaphoreInit, StrandInit, StackInit, BlocksInit
<1>2. SemaphoreInv /\ [MCNext]_<<program, vars, dnsVars, stackVars, accumulateVars, counterVars>> => SemaphoreInv'
  BY Programs, SemaphoreNext
<1>3. StrandInv /\ [MCNext]_<<program, vars, dnsVars, stackVars, accumulateVars, counterVars>> => StrandInv'
  BY Programs, StrandNext
<1>4. StackInv /\ [MCNext]_<<program, vars, dnsVars, stackVars, accumulateVars, counterVars>> => StackInv'
  BY Programs, StackNext
<1>5. BlocksInv /\ [MCNext]_<<program, vars, dnsVars, stackVars, accumulateVars, counterVars>> => BlocksInv'
  BY Programs, BlocksNext
<1>6. SemaphoreInv /\ StrandInv /\ StackInv /\ BlocksInv => CountsExact
  BY CountersHold, StackHolds DEF CountsExact, BlocksInv
<1>. QED BY <1>1, <1>2, <1>3, <1>4, <1>5, <1>6, PTL DEF MCSpec
=============================================================================
