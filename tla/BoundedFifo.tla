----------------------------- MODULE BoundedFifo -----------------------------
(***************************************************************************)
(* A first-in first-out queue of at most Capacity values, which either     *)
(* refuses a value when it is full or makes room by dropping its oldest.   *)
(***************************************************************************)
EXTENDS Naturals, Sequences

CONSTANTS Values, Capacity, NoValue

VARIABLES
  queue,  \* the values, the oldest first
  ret     \* what the last operation returned

vars == <<queue, ret>>

Init == queue = <<>> /\ ret = NoValue

Full == Len(queue) = Capacity

Push(v) ==
  IF Full THEN ret' = FALSE /\ UNCHANGED queue
          ELSE ret' = TRUE  /\ queue' = Append(queue, v)

PushOverwrite(v) ==
  /\ queue' = Append(IF Full THEN Tail(queue) ELSE queue, v)
  /\ ret' = NoValue

Pop ==
  IF queue = <<>> THEN ret' = NoValue /\ UNCHANGED queue
                  ELSE ret' = Head(queue) /\ queue' = Tail(queue)

Front ==
  /\ queue # <<>>
  /\ ret' = Head(queue)
  /\ UNCHANGED queue

Next == Pop \/ Front \/ \E v \in Values : Push(v) \/ PushOverwrite(v)

Spec == Init /\ [][Next]_vars
=============================================================================
