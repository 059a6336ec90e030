----------------------------- MODULE LookupTable -----------------------------
(***************************************************************************)
(* The table of concurrency/threadsafe_lookup_table.cpp: buckets that are  *)
(* lists of entries, each with a shared mutex of its own.  Taking the lock,*)
(* the search, what is done with its result and the release are steps that *)
(* other threads come between.                                             *)
(***************************************************************************)
EXTENDS Naturals, Sequences, FiniteSets, SequencesExt

CONSTANTS
  Threads, Keys, Values, Buckets,
  Absent,  \* the default value of value_for, which no entry has
  Idle     \* a thread outside a call

VARIABLES
  hash,   \* the bucket of each key
  data,   \* the entries of each bucket, <<key, value>>
  call,   \* the call each thread is in
  pc,     \* what it does next in it
  found,  \* the place its search returned, 0 for the end
  ret     \* what it is about to return

vars == <<hash, data, call, pc, found, ret>>

NoResult == <<>>

Init ==
  /\ hash \in [Keys -> Buckets]
  /\ data = [b \in Buckets |-> <<>>]
  /\ call = [t \in Threads |-> Idle]
  /\ pc = [t \in Threads |-> "start"]
  /\ found = [t \in Threads |-> 0]
  /\ ret = [t \in Threads |-> NoResult]

Calls == [op : {"value_for", "remove_mapping"}, key : Keys, value : {Absent}]
           \union [op : {"add_or_update_mapping"}, key : Keys, value : Values]

ASSUME LookupTableAssumption == Idle \notin Calls

Call(t) ==
  /\ call[t] = Idle
  /\ \E c \in Calls : call' = [call EXCEPT ![t] = c]
  /\ pc' = [pc EXCEPT ![t] = "lock"]
  /\ UNCHANGED <<hash, data, found, ret>>

get_bucket(t) == hash[call[t].key]

(* The threads that have the mutex of bucket b. *)
Owners(b) == {t \in Threads : pc[t] \in {"find", "act", "unlock"} /\ get_bucket(t) = b}

Shared(t) == call[t].op = "value_for"

(* Mutant: whoever is not removing shares the lock. *)
Lock_Shares(t) ==
  /\ pc[t] = "lock"
  /\ \A u \in Owners(get_bucket(t)) : call[t].op # "remove_mapping" /\ call[u].op # "remove_mapping"
  /\ pc' = [pc EXCEPT ![t] = "find"]
  /\ UNCHANGED <<hash, data, call, found, ret>>

(* shared_lock or unique_lock. *)
Lock(t) ==
  /\ pc[t] = "lock"
  /\ \A u \in Owners(get_bucket(t)) : Shared(t) /\ Shared(u)
  /\ pc' = [pc EXCEPT ![t] = "find"]
  /\ UNCHANGED <<hash, data, call, found, ret>>

(* What find_if returns: the first place of k in the entries, or 0 for the end. *)
Place(entries, k) ==
  LET places == {i \in DOMAIN entries : entries[i][1] = k}
  IN  IF places = {} THEN 0 ELSE CHOOSE i \in places : \A j \in places : i <= j

find_entry_for(t) ==
  /\ pc[t] = "find"
  /\ found' = [found EXCEPT ![t] = Place(data[get_bucket(t)], call[t].key)]
  /\ pc' = [pc EXCEPT ![t] = "act"]
  /\ UNCHANGED <<hash, data, call, ret>>

Acts(t) ==
  /\ pc[t] = "act"
  /\ pc' = [pc EXCEPT ![t] = "unlock"]
  /\ UNCHANGED <<hash, call, found>>

value_for(t) ==
  /\ Acts(t) /\ call[t].op = "value_for"
  /\ ret' = [ret EXCEPT ![t] = <<IF found[t] = 0 THEN Absent ELSE data[get_bucket(t)][found[t]][2]>>]
  /\ UNCHANGED data

add_or_update_mapping(t) ==
  LET b == get_bucket(t)
      c == call[t]
  IN  /\ Acts(t) /\ c.op = "add_or_update_mapping"
      /\ data' = [data EXCEPT ![b] = IF found[t] = 0 THEN Append(@, <<c.key, c.value>>)
                                                     ELSE [@ EXCEPT ![found[t]][2] = c.value]]
      /\ ret' = [ret EXCEPT ![t] = <<Absent>>]

remove_mapping(t) ==
  LET b == get_bucket(t)
  IN  /\ Acts(t) /\ call[t].op = "remove_mapping"
      /\ data' = [data EXCEPT ![b] = IF found[t] = 0 THEN @ ELSE RemoveAt(@, found[t])]
      /\ ret' = [ret EXCEPT ![t] = <<Absent>>]

(* The lock is released and the call returns. *)
Unlock(t) ==
  /\ pc[t] = "unlock"
  /\ call' = [call EXCEPT ![t] = Idle]
  /\ pc' = [pc EXCEPT ![t] = "start"]
  /\ found' = [found EXCEPT ![t] = 0]
  /\ ret' = [ret EXCEPT ![t] = NoResult]
  /\ UNCHANGED <<hash, data>>

Next ==
  \E t \in Threads :
    \/ Call(t) \/ Lock(t) \/ find_entry_for(t) \/ Unlock(t)
    \/ value_for(t) \/ add_or_update_mapping(t) \/ remove_mapping(t)

Spec == Init /\ [][Next]_vars

-----------------------------------------------------------------------------
TypeOK ==
  /\ hash \in [Keys -> Buckets] /\ data \in [Buckets -> Seq(Keys \X Values)]
  /\ call \in [Threads -> Calls \union {Idle}]
  /\ pc \in [Threads -> {"start", "lock", "find", "act", "unlock"}]
  /\ found \in [Threads -> Nat]
  /\ ret \in [Threads -> {NoResult} \union {<<v>> : v \in Values \union {Absent}}]

(* A thread has a call from its start to its return, and a result from the
   moment it acts until it returns. *)
InCall ==
  \A t \in Threads : /\ call[t] = Idle <=> pc[t] = "start"
                     /\ ret[t] = NoResult <=> pc[t] # "unlock"

(* No key has two entries in a bucket. *)
OneEntryPerKey ==
  \A b \in Buckets : \A i, j \in DOMAIN data[b] : data[b][i][1] = data[b][j][1] => i = j

(* Only readers share a bucket. *)
Exclusive ==
  \A t, u \in Threads :
    t # u /\ {pc[t], pc[u]} \subseteq {"find", "act", "unlock"} /\ get_bucket(t) = get_bucket(u)
      => Shared(t) /\ Shared(u)

(* The iterator a thread is about to use is where a search would find its key. *)
FoundIsCurrent ==
  \A t \in Threads : pc[t] = "act" => found[t] = Place(data[get_bucket(t)], call[t].key)

IInv == TypeOK /\ InCall /\ OneEntryPerKey /\ Exclusive /\ FoundIsCurrent

(* The value that a search for k finds. *)
ValueIn(entries, k) == IF Place(entries, k) = 0 THEN Absent ELSE entries[Place(entries, k)][2]

Map == INSTANCE LookupMap WITH map <- [k \in Keys |-> ValueIn(data[hash[k]], k)]

(* The table is one map whose calls are atomic, whichever buckets the keys are
   in and whatever the other threads do there. *)
ImplementsMap == Map!Spec
=============================================================================
