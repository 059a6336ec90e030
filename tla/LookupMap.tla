------------------------------ MODULE LookupMap ------------------------------
(***************************************************************************)
(* A map that threads read, update and remove from: every call takes       *)
(* effect at one moment between its start and its return.                  *)
(***************************************************************************)
CONSTANTS Threads, Keys, Values, Absent, Idle

VARIABLES
  map,   \* the value of each key, or Absent
  call,  \* the call each thread is in
  ret    \* a thread's pending result: none, or a value or Absent

NoResult == <<>>

Calls == [op : {"value_for", "remove_mapping"}, key : Keys, value : {Absent}]
           \union [op : {"add_or_update_mapping"}, key : Keys, value : Values]

Init ==
  /\ map = [k \in Keys |-> Absent]
  /\ call = [t \in Threads |-> Idle]
  /\ ret = [t \in Threads |-> NoResult]

Begin(t) ==
  /\ call[t] = Idle
  /\ \E c \in Calls : call' = [call EXCEPT ![t] = c]
  /\ UNCHANGED <<map, ret>>

(* An update puts its value, a removal Absent; a read returns what is there. *)
Effect(t) ==
  /\ call[t] # Idle /\ ret[t] = NoResult
  /\ LET c == call[t]
     IN  /\ map' = IF c.op = "value_for" THEN map ELSE [map EXCEPT ![c.key] = c.value]
         /\ ret' = [ret EXCEPT ![t] = <<IF c.op = "value_for" THEN map[c.key] ELSE Absent>>]
  /\ UNCHANGED call

Return(t) ==
  /\ ret[t] # NoResult
  /\ call' = [call EXCEPT ![t] = Idle]
  /\ ret' = [ret EXCEPT ![t] = NoResult]
  /\ UNCHANGED map

Next == \E t \in Threads : Begin(t) \/ Effect(t) \/ Return(t)

Spec == Init /\ [][Next]_<<map, call, ret>>
=============================================================================
