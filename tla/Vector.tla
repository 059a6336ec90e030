-------------------------------- MODULE Vector --------------------------------
(***************************************************************************)
(* learning::Vector of containers/vector.hpp: an allocation whose first    *)
(* slots hold the elements.  Growing builds the elements in a second       *)
(* allocation, where every constructor may throw.  The construction of one *)
(* element is one action.                                                  *)
(***************************************************************************)
EXTENDS Integers, Sequences, FiniteSets

CONSTANTS
  Values,
  Moved,       \* what is left of an element that was moved from
  Raw,         \* storage in which no element lives
  Blocks,      \* the allocations there can be at a time
  NULL,
  Limit,       \* Traits::max_size(allocator_)
  SizeMod,     \* the number of values of std::size_t
  MaxAppends   \* bound: how many elements are appended

ASSUME VectorAssumption ==
  /\ Limit \in Nat \ {0} /\ SizeMod \in Nat /\ Limit < SizeMod
  /\ MaxAppends \in Nat
  /\ Moved \notin Values /\ Raw \notin Values /\ Moved # Raw
  /\ NULL \notin Blocks

VARIABLES
  relocation, \* what move_if_noexcept selects: a move that cannot throw, a
              \* copy, or a move that can (the element cannot be copied)
  heap,       \* per block, the size of its allocation (0: free) and the slots
  data_, size_, capacity_,
  pc,         \* the call that is under way, and where it is
  arg,        \* the argument of emplace_back
  new_data,
  relocated,  \* how many elements live in the new block
  appended,   \* is the appended element one more of them?
  appends,    \* history: how many elements were appended
  moves       \* history: how many elements growing has relocated

members == <<data_, size_, capacity_>>
local   == <<new_data, relocated, appended>>
history == <<appends, moves>>
vars    == <<relocation, heap, members, pc, arg, local, history>>

Slots    == 0..(Limit - 1)
Elements == Values \cup {Moved}

(* emplace_back is given something to make an element from, or one of the
   vector's own elements. *)
Args == [how : {"make"}, from : Elements] \cup [how : {"copy", "move"}, from : Slots]

Heaps == [Blocks -> [size : 0..Limit, slot : [Slots -> Elements \cup {Raw}]]]

TypeOK ==
  /\ relocation \in {"move", "copy", "riskyMove"}
  /\ heap \in Heaps
  /\ data_ \in Blocks \cup {NULL}
  /\ size_ \in 0..Limit
  /\ capacity_ \in 0..Limit
  /\ pc \in {"idle", "emplace", "append", "relocate", "reserve", "unwind", "destroyed"}
  /\ arg \in Args
  /\ new_data \in Blocks \cup {NULL}
  /\ relocated \in 0..Limit
  /\ appended \in BOOLEAN
  /\ appends \in 0..MaxAppends
  /\ moves \in Nat

Free(b)     == heap[b].size = 0
NoElements  == [s \in Slots |-> Raw]
Element(i)  == heap[data_].slot[i]
NoArg       == [how |-> "make", from |-> Moved]

(* Vector() and Vector(initial_capacity). *)
Init ==
  /\ relocation \in {"move", "copy", "riskyMove"}
  /\ capacity_ \in 0..Limit
  /\ data_ \in IF capacity_ = 0 THEN {NULL} ELSE Blocks
  /\ heap = [b \in Blocks |-> [size |-> IF b = data_ THEN capacity_ ELSE 0, slot |-> NoElements]]
  /\ size_ = 0
  /\ pc = "idle" /\ arg = NoArg
  /\ new_data = NULL /\ relocated = 0 /\ appended = FALSE
  /\ appends = 0 /\ moves = 0

Return == pc' = "idle" /\ arg' = NoArg

-----------------------------------------------------------------------------
(* Constructing an element. *)

(* The block b with e in its slot i. *)
Put(h, b, i, e) == [h EXCEPT ![b].slot[i] = e]

(* An element made from the argument a; a move leaves its source spent. *)
Made(a) == IF a.how = "make" THEN a.from ELSE Element(a.from)

Spent(h, a) ==
  IF a.how = "move" THEN Put(h, data_, a.from, Moved) ELSE h

(* Only the move of an element that never throws is safe. *)
MayThrow(a) == a.how = "move" => relocation # "move"

(* The element of slot i is relocated: moved or copied. *)
Relocation(i) == [how |-> IF relocation = "copy" THEN "copy" ELSE "move", from |-> i]

-----------------------------------------------------------------------------
(* emplace_back and push_back.  An element that cannot be copied is not. *)
EmplaceBack(a) ==
  /\ pc = "idle" /\ appends < MaxAppends
  /\ a.how # "make" => a.from < size_
  /\ a.how = "copy" => relocation # "riskyMove"
  /\ a.how = "make" => a.from # Moved
  /\ pc' = "emplace" /\ arg' = a
  /\ UNCHANGED <<relocation, heap, members, local, history>>

InPlace ==
  /\ pc = "emplace" /\ size_ < capacity_
  /\ heap' = Put(Spent(heap, arg), data_, size_, Made(arg))
  /\ size_' = size_ + 1
  /\ appends' = appends + 1
  /\ Return
  /\ UNCHANGED <<relocation, data_, capacity_, local, moves>>

(* The constructor throws, and may have spent its argument. *)
InPlaceThrows ==
  /\ pc = "emplace" /\ size_ < capacity_ /\ MayThrow(arg)
  /\ heap' \in {heap, Spent(heap, arg)}
  /\ Return
  /\ UNCHANGED <<relocation, members, local, history>>

(* Mutant: one more slot. *)
GrownCapacity_ByOne == capacity_ + 1

GrownCapacity ==
  IF capacity_ = 0 THEN 1
  ELSE IF capacity_ > Limit \div 2 THEN Limit ELSE (2 * capacity_) % SizeMod

Allocate(b, n) == Free(b) /\ heap' = [heap EXCEPT ![b].size = n] /\ new_data' = b

Grow ==
  /\ pc = "emplace" /\ size_ = capacity_ /\ capacity_ # Limit
  /\ \E b \in Blocks : Allocate(b, GrownCapacity)
  /\ pc' = "append"
  /\ UNCHANGED <<relocation, members, arg, relocated, appended, history>>

(* The limit is reached, the element can be neither moved nor copied, or there
   is no memory. *)
GrowRefused ==
  /\ pc = "emplace" /\ size_ = capacity_
  /\ Return
  /\ UNCHANGED <<relocation, heap, members, local, history>>

(* Mutant: the argument is moved from before it is read. *)
AppendFirst_ReadsMoved ==
  /\ pc = "append"
  /\ heap' = Put(Spent(heap, arg), new_data, size_,
                 IF arg.how = "make" THEN arg.from ELSE Spent(heap, arg)[data_].slot[arg.from])
  /\ appended' = TRUE
  /\ pc' = "relocate"
  /\ UNCHANGED <<relocation, members, arg, new_data, relocated, history>>

(* The new element first, as the argument may be one of the old elements. *)
AppendFirst ==
  /\ pc = "append"
  /\ heap' = Put(Spent(heap, arg), new_data, size_, Made(arg))
  /\ appended' = TRUE
  /\ pc' = "relocate"
  /\ UNCHANGED <<relocation, members, arg, new_data, relocated, history>>

AppendThrows ==
  /\ pc = "append" /\ MayThrow(arg)
  /\ heap' \in {heap, Spent(heap, arg)}
  /\ pc' = "unwind"
  /\ UNCHANGED <<relocation, members, arg, local, history>>

-----------------------------------------------------------------------------
(* reserve: a smaller capacity changes nothing, one that is beyond the limit or
   cannot be allocated throws and changes nothing. *)
Reserve(n) ==
  /\ pc = "idle"
  /\ capacity_ < n /\ n <= Limit
  /\ \E b \in Blocks : Allocate(b, n)
  /\ pc' = "reserve"
  /\ UNCHANGED <<relocation, members, arg, relocated, appended, history>>

-----------------------------------------------------------------------------
(* Both move or copy the elements one after the other, and then commit. *)
Relocate ==
  /\ pc \in {"relocate", "reserve"} /\ relocated < size_
  /\ LET a == Relocation(relocated)
     IN heap' = Put(Spent(heap, a), new_data, relocated, Made(a))
  /\ relocated' = relocated + 1
  /\ UNCHANGED <<relocation, members, pc, arg, new_data, appended, history>>

RelocateThrows ==
  /\ pc \in {"relocate", "reserve"} /\ relocated < size_
  /\ MayThrow(Relocation(relocated))
  /\ heap' \in {heap, Spent(heap, Relocation(relocated))}
  /\ pc' = "unwind"
  /\ UNCHANGED <<relocation, members, arg, local, history>>

(* The elements of the slots in S die, and the block b is given back. *)
Dispose(b, S) ==
  [heap EXCEPT ![b] = [size |-> 0,
                       slot |-> [s \in Slots |-> IF s \in S THEN Raw ELSE heap[b].slot[s]]]]

Installed ==
  /\ new_data' = NULL /\ relocated' = 0 /\ appended' = FALSE
  /\ Return

Commit ==
  /\ pc \in {"relocate", "reserve"} /\ relocated = size_
  /\ heap' = IF data_ = NULL THEN heap ELSE Dispose(data_, 0..(size_ - 1))
  /\ data_' = new_data
  /\ size_' = IF appended THEN size_ + 1 ELSE relocated
  /\ capacity_' = heap[new_data].size
  /\ appends' = IF appended THEN appends + 1 ELSE appends
  /\ moves' = IF appended THEN moves + size_ ELSE moves
  /\ Installed
  /\ UNCHANGED relocation

(* Mutant: the appended element is left alive in freed storage. *)
Unwind_KeepsAppended ==
  /\ pc = "unwind"
  /\ heap' = Dispose(new_data, 0..(relocated - 1))
  /\ Installed
  /\ UNCHANGED <<relocation, members, history>>

(* catch (...): what was constructed is destroyed, and the old block kept. *)
Unwind ==
  /\ pc = "unwind"
  /\ heap' = Dispose(new_data, 0..(relocated - 1) \cup IF appended THEN {size_} ELSE {})
  /\ Installed
  /\ UNCHANGED <<relocation, members, history>>

-----------------------------------------------------------------------------
(* The other members. *)

(* pop_back on an empty vector throws and changes nothing. *)
PopBack ==
  /\ pc = "idle" /\ size_ > 0
  /\ size_' = size_ - 1
  /\ heap' = Put(heap, data_, size_ - 1, Raw)
  /\ UNCHANGED <<relocation, data_, capacity_, pc, arg, local, history>>

Clear ==
  /\ pc = "idle" /\ size_ > 0
  /\ size_' = 0
  /\ heap' = [heap EXCEPT ![data_].slot = NoElements]
  /\ UNCHANGED <<relocation, data_, capacity_, pc, arg, local, history>>

Destroy ==
  /\ pc = "idle"
  /\ pc' = "destroyed"
  /\ size_' = 0
  /\ heap' = IF data_ = NULL THEN heap ELSE Dispose(data_, 0..(size_ - 1))
  /\ UNCHANGED <<relocation, data_, capacity_, arg, local, history>>

Gone == pc = "destroyed" /\ UNCHANGED vars

Next ==
  \/ \E a \in Args : EmplaceBack(a)
  \/ InPlace \/ InPlaceThrows
  \/ Grow \/ GrowRefused \/ AppendFirst \/ AppendThrows
  \/ \E n \in 0..Limit : Reserve(n)
  \/ Relocate \/ RelocateThrows \/ Commit \/ Unwind
  \/ PopBack \/ Clear \/ Destroy \/ Gone

Spec == Init /\ [][Next]_vars

-----------------------------------------------------------------------------
(* Properties. *)

(* Elements live exactly where the vector will destroy them: in the first
   size_ slots of its block, and while it grows in what the catch block would
   destroy.  No other block is allocated, and each is given back with the size
   it was allocated with.  ("The current invariants", containers/README.md:14-19;
   reserve L45-69, grow_and_emplace L125-155.) *)
Living(b) == {s \in Slots : heap[b].slot[s] # Raw}

Owned(b) ==
  IF pc = "destroyed" THEN {}
  ELSE IF b = data_ THEN 0..(size_ - 1)
  ELSE IF b = new_data THEN 0..(relocated - 1) \cup IF appended THEN {size_} ELSE {}
  ELSE {}

Lifetimes ==
  /\ \A b \in Blocks :
       /\ Living(b) = Owned(b)
       /\ Free(b) <=> pc = "destroyed" \/ b \notin {data_, new_data}
       /\ b = data_ /\ ~Free(b) => heap[b].size = capacity_
       /\ \A s \in Living(b) : s < heap[b].size
  /\ data_ = NULL <=> capacity_ = 0
  /\ new_data # NULL <=> pc \in {"append", "relocate", "reserve", "unwind"}

(* "Across N appends starting empty, doubling relocates fewer than 2N existing
   elements" (containers/README.md:250), and does so from any first capacity and
   whatever is removed, reserved or thrown in between.  (L122-124.) *)
AppendIsAmortized == IF appends = 0 THEN moves = 0 ELSE moves < 2 * appends

(* What makes the two inductive.  Below the limit the capacity pays for what was
   relocated so far, growing at least doubles it, and the progress of the call
   under way is where its program counter says. *)
CapacityPays ==
  /\ size_ <= capacity_ /\ size_ <= appends
  /\ capacity_ < Limit => moves <= capacity_

Progress ==
  /\ pc \in {"append", "relocate"} =>
       size_ = capacity_ /\ capacity_ < Limit /\ heap[new_data].size = GrownCapacity
  /\ pc = "reserve" => capacity_ < heap[new_data].size
  /\ pc \notin {"relocate", "reserve", "unwind"} => relocated = 0
  /\ relocated <= size_
  /\ pc = "relocate" => appended
  /\ pc \notin {"relocate", "unwind"} => ~appended
  /\ pc = "destroyed" => size_ = 0
  /\ data_ # NULL => data_ # new_data
  /\ pc \in {"emplace", "append", "relocate"} => appends < MaxAppends
  /\ pc \in {"idle", "destroyed"} => arg = NoArg
  /\ arg.how # "make" => arg.from < size_

IInv == TypeOK /\ Lifetimes /\ AppendIsAmortized /\ CapacityPays /\ Progress

(* A call takes effect as a whole or throws and leaves the vector as it was,
   unless relocating moves elements and the move may throw.  Until the commit
   an element that was moved is found in the new block, and after a throw it is
   lost with that block.  (L71-89, L128-146.) *)
Stored(i) ==
  IF pc = "unwind" THEN Element(i)
  ELSE IF appended /\ arg.how = "move" /\ arg.from = i THEN heap[new_data].slot[size_]
  ELSE IF i < relocated THEN heap[new_data].slot[i] ELSE Element(i)

Contents == IF pc = "destroyed" THEN <<>> ELSE [i \in 1..size_ |-> Stored(i - 1)]

Giving == IF arg.how = "move" /\ pc # "unwind" THEN {arg.from + 1} ELSE {}

Object == INSTANCE VectorObject
  WITH contents  <- Contents,
       capacity  <- capacity_,
       giving    <- Giving,
       spoiling  <- relocation = "riskyMove"

(* What is found in the slots a call has moved or copied from, when the next
   constructor throws. *)
Halfway ==
  /\ pc \in {"relocate", "reserve"} =>
       \A i \in 0..(relocated - 1) :
         IF relocation = "copy" THEN heap[new_data].slot[i] = Element(i) ELSE Element(i) = Moved
  /\ pc = "relocate" /\ arg.how = "move" =>
       /\ Element(arg.from) = Moved
       /\ arg.from < relocated => heap[new_data].slot[arg.from] = Moved
  /\ pc = "reserve" => arg = NoArg

ImplementsVector == Object!Spec
=============================================================================
