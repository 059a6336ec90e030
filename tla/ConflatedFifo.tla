---------------------------- MODULE ConflatedFifo ----------------------------
(***************************************************************************)
(* What a conflating queue promises: one entry per key, holding the newest *)
(* value, in the order in which the keys became pending.  A new key on a   *)
(* full queue pushes the oldest entry out.  A push that throws may leave   *)
(* its entry where later pushes of the key do not find it.                 *)
(***************************************************************************)
EXTENDS Naturals, Sequences

CONSTANTS Keys, Values, Capacity, NoEntry, BadAlloc

VARIABLES
  entries,   \* records of a key and its value, the oldest first
  unmapped,  \* the keys with an entry that pushes do not find
  ret        \* what the last call returned or threw

vars == <<entries, unmapped, ret>>

Init == entries = <<>> /\ unmapped = {} /\ ret = NoEntry

Pending(s, k) == \E i \in 1..Len(s) : s[i].key = k

StillIn(s) == {k \in unmapped : Pending(s, k)}

(* The newest entry of the key takes the value. *)
Update(k, v) ==
  /\ \E i \in 1..Len(entries) :
       /\ entries[i].key = k /\ \A j \in (i + 1)..Len(entries) : entries[j].key # k
       /\ entries' = [entries EXCEPT ![i].value = v]
  /\ UNCHANGED unmapped /\ ret' = NoEntry

(* The entries that a full queue keeps. *)
Kept == IF Len(entries) = Capacity THEN Tail(entries) ELSE entries

New(k) == Pending(entries, k) => k \in unmapped

Appended(k, v) == Append(Kept, [key |-> k, value |-> v])

Add(k, v) ==
  /\ New(k)
  /\ entries' = Appended(k, v)
  /\ unmapped' = StillIn(Kept)
  /\ ret' = NoEntry

(* The oldest entry of a full queue is gone, the new one is there or not. *)
AddThrows(k, v) ==
  /\ New(k)
  /\ \/ entries' = Kept /\ unmapped' = StillIn(Kept)
     \/ entries' = Appended(k, v) /\ unmapped' = StillIn(Kept) \union {k}
  /\ ret' = BadAlloc

Offer(k, v) == Update(k, v) \/ Add(k, v) \/ AddThrows(k, v)

Take ==
  IF entries = <<>>
    THEN ret' = NoEntry /\ UNCHANGED <<entries, unmapped>>
    ELSE ret' = Head(entries) /\ entries' = Tail(entries) /\ unmapped' = StillIn(Tail(entries))

Next == Take \/ \E k \in Keys, v \in Values : Offer(k, v)

Spec == Init /\ [][Next]_vars
=============================================================================
