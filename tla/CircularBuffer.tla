---------------------------- MODULE CircularBuffer ----------------------------
(***************************************************************************)
(* The fixed-capacity queue of impl/circular_buffer.cpp: an array of slots *)
(* (std::optional<T>), the index of the oldest element, the index of the   *)
(* next insertion, and the number of elements.  A call is one action.      *)
(***************************************************************************)
EXTENDS Integers, Sequences

CONSTANTS
  Values,    \* the elements that are pushed
  Capacity,  \* buffer_.size()
  NoValue    \* an empty optional, and the result of a void call

(* The constructor refuses a capacity of 0. *)
ASSUME CircularBufferAssumption ==
  /\ Capacity \in Nat \ {0}
  /\ NoValue \notin Values

VARIABLES
  buffer_,  \* the slots, 0 to Capacity - 1
  head_,    \* the slot of the oldest element
  tail_,    \* the slot of the next insertion
  size_,    \* how many elements are stored
  ret       \* what the last call returned

vars == <<buffer_, head_, tail_, size_, ret>>

Slots == 0..(Capacity - 1)

TypeOK ==
  /\ buffer_ \in [Slots -> Values \cup {NoValue}]
  /\ head_ \in Slots
  /\ tail_ \in Slots
  /\ size_ \in 0..Capacity
  /\ ret \in Values \cup {NoValue} \cup BOOLEAN

Init ==
  /\ buffer_ = [i \in Slots |-> NoValue]
  /\ head_ = 0
  /\ tail_ = 0
  /\ size_ = 0
  /\ ret = NoValue

(* The next slot, with wraparound. *)
get_next_idx(index) == (index + 1) % Capacity

full  == size_ = Capacity
empty == size_ = 0

Push(v) ==
  IF full
    THEN ret' = FALSE /\ UNCHANGED <<buffer_, head_, tail_, size_>>
    ELSE /\ buffer_' = [buffer_ EXCEPT ![tail_] = v]
         /\ tail_' = get_next_idx(tail_)
         /\ size_' = size_ + 1
         /\ ret' = TRUE
         /\ UNCHANGED head_

(* Mutant: the full buffer keeps its head. *)
PushOverwrite_KeepsHead(v) ==
  /\ buffer_' = [buffer_ EXCEPT ![tail_] = v]
  /\ size_' = IF full THEN size_ ELSE size_ + 1
  /\ tail_' = get_next_idx(tail_)
  /\ ret' = NoValue
  /\ UNCHANGED head_

PushOverwrite(v) ==
  /\ buffer_' = [buffer_ EXCEPT ![tail_] = v]
  /\ IF full
       THEN head_' = get_next_idx(head_) /\ UNCHANGED size_
       ELSE size_' = size_ + 1 /\ UNCHANGED head_
  /\ tail_' = get_next_idx(tail_)
  /\ ret' = NoValue

(* Mutant: the slot is not reset. *)
Pop_KeepsSlot ==
  IF empty
    THEN ret' = NoValue /\ UNCHANGED <<buffer_, head_, tail_, size_>>
    ELSE /\ ret' = buffer_[head_]
         /\ head_' = get_next_idx(head_)
         /\ size_' = size_ - 1
         /\ UNCHANGED <<buffer_, tail_>>

Pop ==
  IF empty
    THEN ret' = NoValue /\ UNCHANGED <<buffer_, head_, tail_, size_>>
    ELSE /\ ret' = buffer_[head_]
         /\ buffer_' = [buffer_ EXCEPT ![head_] = NoValue]
         /\ head_' = get_next_idx(head_)
         /\ size_' = size_ - 1
         /\ UNCHANGED tail_

(* front() throws, and changes nothing, when the buffer is empty. *)
Front ==
  /\ ~empty
  /\ ret' = buffer_[head_]
  /\ UNCHANGED <<buffer_, head_, tail_, size_>>

Next == Pop \/ Front \/ \E v \in Values : Push(v) \/ PushOverwrite(v)

Spec == Init /\ [][Next]_vars

-----------------------------------------------------------------------------
(* Properties. *)

(* The slot that is i places after the head, with wraparound. *)
Slot(i) == IF head_ + i < Capacity THEN head_ + i ELSE head_ + i - Capacity

(* size_ tells full from empty: the tail is size_ places after the head, which
   is the head itself in both cases.  (L62-87.) *)
TailFollows == tail_ = Slot(size_)

(* "An engaged optional contains a constructed T object": exactly the size_
   slots from the head on hold an element.  (L54-60.) *)
OnlyStoredEngaged ==
  \A i \in 0..(Capacity - 1) : buffer_[Slot(i)] # NoValue <=> i < size_

(* The buffer is a bounded FIFO queue: "Elements are popped in FIFO order
   starting from head_", and an overwrite drops the oldest.  (L69, L174-184.) *)
Contents == [i \in 1..size_ |-> buffer_[Slot(i - 1)]]

Fifo == INSTANCE BoundedFifo WITH queue <- Contents

ImplementsFifo == Fifo!Spec

(* What makes them inductive. *)
IInv == TypeOK /\ TailFollows /\ OnlyStoredEngaged
=============================================================================
