---------------------------- MODULE Vector_proofs ----------------------------
(***************************************************************************)
(* For every limit, every set of blocks and values and every sequence of   *)
(* calls and throws: elements live exactly where the vector will destroy   *)
(* them, and growing relocates fewer than two elements per append.         *)
(***************************************************************************)
EXTENDS Vector, TLAPS

-----------------------------------------------------------------------------
(* What the three ways to change the heap do. *)

(* Placing an element, or ending its life, changes one slot of one block. *)
LEMMA PutSlot ==
  ASSUME NEW h \in Heaps, NEW b \in Blocks, NEW s \in Slots, NEW e \in Elements \cup {Raw}
  PROVE  /\ Put(h, b, s, e) \in Heaps
         /\ \A c \in Blocks : Put(h, b, s, e)[c].size = h[c].size
         /\ \A c \in Blocks, t \in Slots :
              Put(h, b, s, e)[c].slot[t] = IF c = b /\ t = s THEN e ELSE h[c].slot[t]
BY DEF Heaps, Put

(* Allocating gives a block its size. *)
LEMMA Allocated ==
  ASSUME heap \in Heaps, NEW b \in Blocks, NEW n \in 0..Limit, Allocate(b, n)
  PROVE  /\ heap' \in Heaps
         /\ \A c \in Blocks : heap'[c].size = IF c = b THEN n ELSE heap[c].size
         /\ \A c \in Blocks, t \in Slots : heap'[c].slot[t] = heap[c].slot[t]
BY DEF Heaps, Allocate

(* Disposing of a block frees it and ends the lives in the slots given. *)
LEMMA Disposed ==
  ASSUME heap \in Heaps, NEW b \in Blocks, NEW S, VectorAssumption
  PROVE  /\ Dispose(b, S) \in Heaps
         /\ \A c \in Blocks : Dispose(b, S)[c].size = IF c = b THEN 0 ELSE heap[c].size
         /\ \A c \in Blocks, t \in Slots :
              Dispose(b, S)[c].slot[t] = IF c = b /\ t \in S THEN Raw ELSE heap[c].slot[t]
BY DEF Dispose, Heaps, VectorAssumption

(* The capacity that growing asks for. *)
LEMMA Doubling ==
  ASSUME VectorAssumption, capacity_ \in 0..Limit, capacity_ < Limit
  PROVE  /\ GrownCapacity \in 0..Limit
         /\ capacity_ < GrownCapacity
         /\ GrownCapacity = Limit \/ 2 * capacity_ <= GrownCapacity
<1>1. capacity_ = 0 => GrownCapacity = 1
  BY DEF GrownCapacity
<1>2. capacity_ # 0 /\ capacity_ > Limit \div 2 => GrownCapacity = Limit
  BY DEF GrownCapacity
<1>3. ASSUME capacity_ # 0, ~(capacity_ > Limit \div 2)
      PROVE  GrownCapacity = 2 * capacity_ /\ 2 * capacity_ <= Limit
  <2>1. 2 * capacity_ <= Limit
    BY <1>3 DEF VectorAssumption
  <2>2. 2 * capacity_ \in 0..(SizeMod - 1)
    BY <2>1 DEF VectorAssumption
  <2>3. (2 * capacity_) % SizeMod = 2 * capacity_
    BY <2>2 DEF VectorAssumption
  <2> QED BY <1>3, <2>1, <2>3 DEF GrownCapacity
<1> QED BY <1>1, <1>2, <1>3 DEF VectorAssumption

(* What lives in which slot, said of one slot at a time. *)
Places ==
  \A c \in Blocks :
    /\ Owned(c) \subseteq Slots
    /\ \A t \in Slots : heap[c].slot[t] # Raw <=> t \in Owned(c)

LEMMA LivingIsOwned == Places <=> \A c \in Blocks : Living(c) = Owned(c)
BY DEF Places, Living

(* The elements of the vector are alive. *)
LEMMA ElementLives ==
  ASSUME VectorAssumption, IInv, pc # "destroyed", NEW i \in 0..(size_ - 1)
  PROVE  data_ \in Blocks /\ i \in Slots /\ Element(i) \in Elements
<1>1. data_ \in Blocks /\ i \in Slots
  BY DEF IInv, TypeOK, Lifetimes, CapacityPays, Slots
<1>2. Living(data_) = Owned(data_) /\ Owned(data_) = 0..(size_ - 1)
  BY <1>1 DEF IInv, Lifetimes, Owned
<1>3. heap[data_].slot[i] # Raw
  BY <1>2 DEF Living
<1> QED BY <1>1, <1>3 DEF IInv, TypeOK, Heaps, Element

(* So what is made from an argument is an element. *)
LEMMA MadeLives ==
  ASSUME VectorAssumption, IInv, pc # "destroyed",
         NEW a \in Args, a.how # "make" => a.from < size_
  PROVE  Made(a) \in Elements
<1>1. CASE a.how = "make"
  BY <1>1 DEF Args, Made
<1>2. CASE a.how # "make"
  <2>1. a.from \in 0..(size_ - 1)
    BY <1>2 DEF Args, Slots, IInv, TypeOK
  <2> QED BY <2>1, <1>2, ElementLives DEF Made
<1> QED BY <1>1, <1>2

(* Moving from an element leaves it alive: what lives where is as before. *)
LEMMA SpentLives ==
  ASSUME VectorAssumption, IInv, pc # "destroyed",
         NEW a \in Args, a.how # "make" => a.from < size_
  PROVE  /\ Spent(heap, a) \in Heaps
         /\ \A c \in Blocks : Spent(heap, a)[c].size = heap[c].size
         /\ \A c \in Blocks, t \in Slots :
              Spent(heap, a)[c].slot[t] # Raw <=> heap[c].slot[t] # Raw
<1>1. CASE a.how # "move"
  BY <1>1 DEF Spent, IInv, TypeOK
<1>2. CASE a.how = "move"
  <2>1. a.from \in 0..(size_ - 1)
    BY <1>2 DEF Args, Slots, IInv, TypeOK
  <2>2. /\ data_ \in Blocks /\ a.from \in Slots
        /\ heap[data_].slot[a.from] \in Elements
    BY <2>1, ElementLives DEF Element
  <2>3. Spent(heap, a) = Put(heap, data_, a.from, Moved)
    BY <1>2 DEF Spent
  <2>4. Moved \in Elements \cup {Raw} /\ Raw \notin Elements
    BY DEF Elements, VectorAssumption
  <2>5. heap \in Heaps
    BY DEF IInv, TypeOK
  <2>6. /\ Spent(heap, a) \in Heaps
        /\ \A c \in Blocks : Spent(heap, a)[c].size = heap[c].size
        /\ \A c \in Blocks, t \in Slots :
             Spent(heap, a)[c].slot[t] =
               IF c = data_ /\ t = a.from THEN Moved ELSE heap[c].slot[t]
    BY <2>2, <2>3, <2>4, <2>5, PutSlot, SMTT(30)
  <2> QED BY <2>2, <2>4, <2>6
<1> QED BY <1>1, <1>2

(* Constructing an element from an argument makes one slot more alive. *)
LEMMA Constructed ==
  ASSUME VectorAssumption, IInv, pc # "destroyed",
         NEW a \in Args, a.how # "make" => a.from < size_,
         NEW b \in Blocks, NEW s \in Slots,
         NEW k, k = Put(Spent(heap, a), b, s, Made(a))
  PROVE  /\ k \in Heaps
         /\ \A c \in Blocks : k[c].size = heap[c].size
         /\ \A c \in Blocks, t \in Slots :
              k[c].slot[t] # Raw <=> (heap[c].slot[t] # Raw \/ (c = b /\ t = s))
<1>1. Made(a) \in Elements \cup {Raw} /\ Made(a) # Raw
  BY MadeLives DEF Elements, VectorAssumption
<1>2. /\ k \in Heaps
      /\ \A c \in Blocks : k[c].size = Spent(heap, a)[c].size
      /\ \A c \in Blocks, t \in Slots :
           k[c].slot[t] = IF c = b /\ t = s THEN Made(a) ELSE Spent(heap, a)[c].slot[t]
  BY <1>1, SpentLives, PutSlot
<1> QED BY <1>1, <1>2, SpentLives

-----------------------------------------------------------------------------
LEMMA InitInv == VectorAssumption /\ Init => IInv
<1> SUFFICES ASSUME VectorAssumption, Init PROVE IInv
  OBVIOUS
<1>1. TypeOK
  <2>1. heap \in Heaps
    BY DEF VectorAssumption, Init, Heaps, NoElements
  <2>2. arg \in Args
    BY DEF Init, Args, NoArg, Elements
  <2>3. data_ \in Blocks \cup {NULL}
    BY DEF Init
  <2>4. size_ \in 0..Limit /\ capacity_ \in 0..Limit /\ relocated \in 0..Limit
        /\ appends \in 0..MaxAppends /\ moves \in Nat
    BY DEF VectorAssumption, Init
  <2> QED BY <2>1, <2>2, <2>3, <2>4 DEF Init, TypeOK
<1>2. Lifetimes
  <2>1. Places
    BY DEF Init, Places, Owned, NoElements
  <2>2. data_ = NULL <=> capacity_ = 0
    BY DEF VectorAssumption, Init
  <2>3. \A b \in Blocks : /\ Free(b) <=> b \notin {data_, new_data}
                          /\ b = data_ => heap[b].size = capacity_
    BY <2>2 DEF VectorAssumption, Init, Free
  <2>4. \A b \in Blocks : Living(b) = {}
    BY DEF Init, Living, NoElements
  <2> QED BY <2>1, <2>2, <2>3, <2>4, LivingIsOwned DEF Lifetimes, Init
<1>3. AppendIsAmortized /\ CapacityPays
  BY DEF Init, AppendIsAmortized, CapacityPays
<1>4. Progress
  BY DEF Init, Progress, NoArg, VectorAssumption
<1> QED BY <1>1, <1>2, <1>3, <1>4 DEF IInv
-----------------------------------------------------------------------------
USE DEF members, local, history, Return

(* A block's lives are what it owns, said of one slot at a time in the next state. *)
LEMMA LivingIsOwnedNext == Places' => \A c \in Blocks : Living(c)' = Owned(c)'
BY DEF Places, Living

(* Calls that only move the program counter. *)
LEMMA EmplaceBackInv ==
  ASSUME VectorAssumption, IInv, NEW a \in Args, EmplaceBack(a)
  PROVE  IInv'
<1> USE DEF EmplaceBack
<1>1. TypeOK'
  BY DEF IInv, TypeOK
<1>2. Lifetimes'
  BY DEF IInv, Lifetimes, Living, Owned, Free
<1>3. AppendIsAmortized' /\ CapacityPays'
  BY DEF IInv, AppendIsAmortized, CapacityPays
<1>4. Progress'
  BY DEF IInv, Progress
<1> QED BY <1>1, <1>2, <1>3, <1>4 DEF IInv

LEMMA GrowRefusedInv ==
  ASSUME VectorAssumption, IInv, GrowRefused
  PROVE  IInv'
<1> USE DEF GrowRefused
<1>1. TypeOK'
  BY DEF IInv, TypeOK, NoArg, Args, Elements
<1>2. Lifetimes'
  BY DEF IInv, Lifetimes, Living, Owned, Free
<1>3. AppendIsAmortized' /\ CapacityPays'
  BY DEF IInv, AppendIsAmortized, CapacityPays
<1>4. Progress'
  BY DEF IInv, Progress, NoArg
<1> QED BY <1>1, <1>2, <1>3, <1>4 DEF IInv

(* A constructor in place adds the slot behind the last element. *)
LEMMA InPlaceInv ==
  ASSUME VectorAssumption, IInv, InPlace
  PROVE  IInv'
<1> USE DEF InPlace
<1>1. /\ data_ \in Blocks /\ size_ \in Slots
  BY DEF IInv, TypeOK, Lifetimes, Slots
<1>2. arg \in Args /\ (arg.how # "make" => arg.from < size_) /\ pc # "destroyed"
  BY DEF IInv, TypeOK, Progress
<1>3. /\ heap' \in Heaps
      /\ \A c \in Blocks : heap'[c].size = heap[c].size
      /\ \A c \in Blocks, t \in Slots :
           heap'[c].slot[t] # Raw <=> (heap[c].slot[t] # Raw \/ (c = data_ /\ t = size_))
  BY <1>1, <1>2, Constructed
<1>4. TypeOK'
  <2>1. arg' \in Args
    BY DEF NoArg, Args, Elements
  <2>2. size_' \in 0..Limit /\ appends' \in 0..MaxAppends
    BY DEF IInv, TypeOK, Progress, VectorAssumption
  <2> QED BY <1>3, <2>1, <2>2 DEF IInv, TypeOK
<1>5. Lifetimes'
  <2>1. Places
    BY LivingIsOwned DEF IInv, Lifetimes
  <2>2. Owned(data_) = 0..(size_ - 1) /\ Owned(data_)' = 0..size_
    BY <1>2 DEF Owned, IInv, TypeOK
  <2>3. \A c \in Blocks : c # data_ => Owned(c)' = Owned(c)
    BY <1>2 DEF Owned, IInv, Progress
  <2>4. Places'
    <3>1. \A t \in Slots : t \in Owned(data_)' <=> (t \in Owned(data_) \/ t = size_)
      BY <2>2 DEF Slots, IInv, TypeOK
    <3>2. Owned(data_)' \subseteq Slots
      BY <1>1, <2>2 DEF Slots
    <3> QED BY <1>1, <1>3, <2>1, <2>3, <3>1, <3>2 DEF Places
  <2>5. \A b \in Blocks : Living(b)' = Owned(b)'
    BY <2>4, LivingIsOwnedNext
  <2>6. \A b \in Blocks : \A t \in Owned(b)' : t < heap'[b].size
    <3>1. heap[data_].size = capacity_
      BY <1>1, <1>2 DEF IInv, Lifetimes
    <3>2. \A b \in Blocks : b # data_ => \A t \in Owned(b)' : t < heap[b].size
      BY <2>3 DEF IInv, Lifetimes
    <3> QED BY <1>3, <2>2, <3>1, <3>2 DEF IInv, TypeOK
  <2>7. \A b \in Blocks : /\ Free(b)' <=> pc' = "destroyed" \/ b \notin {data_', new_data'}
                          /\ b = data_' /\ ~Free(b)' => heap'[b].size = capacity_'
    BY <1>2, <1>3 DEF IInv, Lifetimes, Free
  <2> QED BY <2>5, <2>6, <2>7 DEF IInv, Lifetimes
<1>6. AppendIsAmortized' /\ CapacityPays'
  <2>1. AppendIsAmortized'
    BY DEF IInv, TypeOK, AppendIsAmortized
  <2>2. CapacityPays'
    BY DEF IInv, TypeOK, CapacityPays
  <2> QED BY <2>1, <2>2
<1>7. Progress'
  BY DEF IInv, TypeOK, Progress, NoArg
<1> QED BY <1>4, <1>5, <1>6, <1>7 DEF IInv

(* A constructor that throws leaves alive what lived before. *)
LEMMA ThrownLives ==
  ASSUME VectorAssumption, IInv, pc # "destroyed",
         NEW a \in Args, a.how # "make" => a.from < size_,
         NEW k \in {heap, Spent(heap, a)}
  PROVE  /\ k \in Heaps
         /\ \A c \in Blocks : k[c].size = heap[c].size
         /\ \A c \in Blocks, t \in Slots : k[c].slot[t] # Raw <=> heap[c].slot[t] # Raw
BY SpentLives DEF IInv, TypeOK

(* If nothing is born, dies or changes its owner, lifetimes stay in order. *)
LEMMA SameLives ==
  ASSUME Lifetimes, pc # "destroyed", pc' # "destroyed",
         \A c \in Blocks : heap'[c].size = heap[c].size,
         \A c \in Blocks, t \in Slots : heap'[c].slot[t] # Raw <=> heap[c].slot[t] # Raw,
         \A c \in Blocks : Owned(c)' = Owned(c),
         UNCHANGED <<data_, capacity_, new_data>>,
         pc' \in {"append", "relocate", "reserve", "unwind"} <=>
           pc \in {"append", "relocate", "reserve", "unwind"}
  PROVE  Lifetimes'
<1>1. \A c \in Blocks : Living(c)' = Living(c)
  BY DEF Living
<1>2. \A c \in Blocks : Free(c)' <=> Free(c)
  BY DEF Free
<1> QED BY <1>1, <1>2 DEF Lifetimes

LEMMA InPlaceThrowsInv ==
  ASSUME VectorAssumption, IInv, InPlaceThrows
  PROVE  IInv'
<1> USE DEF InPlaceThrows
<1>1. arg \in Args /\ (arg.how # "make" => arg.from < size_) /\ pc # "destroyed"
  BY DEF IInv, TypeOK, Progress
<1>2. /\ heap' \in Heaps
      /\ \A c \in Blocks : heap'[c].size = heap[c].size
      /\ \A c \in Blocks, t \in Slots : heap'[c].slot[t] # Raw <=> heap[c].slot[t] # Raw
  BY <1>1, ThrownLives
<1>3. TypeOK'
  BY <1>2 DEF IInv, TypeOK, NoArg, Args, Elements
<1>4. \A c \in Blocks : Owned(c)' = Owned(c)
  BY DEF Owned
<1>5. Lifetimes'
  BY <1>1, <1>2, <1>4, SameLives DEF IInv
<1>6. AppendIsAmortized' /\ CapacityPays'
  BY DEF IInv, AppendIsAmortized, CapacityPays
<1>7. Progress'
  BY DEF IInv, Progress, NoArg
<1> QED BY <1>3, <1>5, <1>6, <1>7 DEF IInv

(* A throw while a vector grows, of the appended or of a relocated element. *)
LEMMA ThrowInv ==
  ASSUME VectorAssumption, IInv, pc \in {"append", "relocate", "reserve"},
         NEW a \in Args, a.how # "make" => a.from < size_,
         heap' \in {heap, Spent(heap, a)},
         pc' = "unwind", UNCHANGED <<relocation, members, arg, local, history>>
  PROVE  IInv'
<1>1. /\ heap' \in Heaps
      /\ \A c \in Blocks : heap'[c].size = heap[c].size
      /\ \A c \in Blocks, t \in Slots : heap'[c].slot[t] # Raw <=> heap[c].slot[t] # Raw
  BY ThrownLives
<1>2. TypeOK'
  BY <1>1 DEF IInv, TypeOK
<1>3. \A c \in Blocks : Owned(c)' = Owned(c)
  BY DEF Owned
<1>4. Lifetimes'
  BY <1>1, <1>3, SameLives DEF IInv
<1>5. AppendIsAmortized' /\ CapacityPays'
  BY DEF IInv, AppendIsAmortized, CapacityPays
<1>6. Progress'
  BY DEF IInv, Progress
<1> QED BY <1>2, <1>4, <1>5, <1>6 DEF IInv

(* A relocated element is one of the vector's. *)
LEMMA RelocationArg ==
  ASSUME IInv, VectorAssumption, relocated < size_
  PROVE  /\ Relocation(relocated) \in Args
         /\ Relocation(relocated).how # "make" => Relocation(relocated).from < size_
BY DEF Relocation, Args, Slots, IInv, TypeOK, VectorAssumption

(* Taking a free block for the vector to grow into. *)
LEMMA AllocateInv ==
  ASSUME VectorAssumption, IInv, pc \in {"idle", "emplace"},
         NEW b \in Blocks, NEW n \in 1..Limit, Allocate(b, n),
         pc' \in {"append", "reserve"}, UNCHANGED <<members, relocated, appended>>
  PROVE  /\ heap' \in Heaps /\ new_data' = b /\ heap'[b].size = n
         /\ data_ # NULL => data_ # b
         /\ Lifetimes'
<1>1. Free(b) /\ new_data' = b
  BY DEF Allocate
<1>2. /\ heap' \in Heaps
      /\ \A c \in Blocks : heap'[c].size = IF c = b THEN n ELSE heap[c].size
      /\ \A c \in Blocks, t \in Slots : heap'[c].slot[t] = heap[c].slot[t]
  BY Allocated DEF IInv, TypeOK
<1>3. new_data = NULL /\ relocated = 0 /\ ~appended /\ pc # "destroyed"
  BY DEF IInv, Lifetimes, Progress
<1>4. data_ # NULL => data_ # b
  BY <1>1, <1>3 DEF IInv, TypeOK, Lifetimes
<1>5. \A c \in Blocks : Living(c)' = Living(c)
  BY <1>2 DEF Living
<1>6. \A c \in Blocks : Owned(c)' = Owned(c)
  BY <1>1, <1>3 DEF Owned
<1>7. Owned(b) = {}
  BY <1>3, <1>4 DEF Owned, VectorAssumption
<1>8. \A c \in Blocks : Free(c)' <=> c \notin {data_, b}
  BY <1>1, <1>2, <1>3 DEF Free, IInv, Lifetimes, VectorAssumption
<1>9. Lifetimes'
  <2>1. \A c \in Blocks : Living(c)' = Owned(c)'
    BY <1>5, <1>6 DEF IInv, Lifetimes
  <2>2. \A c \in Blocks : Free(c)' <=> pc' = "destroyed" \/ c \notin {data_', new_data'}
    BY <1>1, <1>8
  <2>3. \A c \in Blocks : c = data_' /\ ~Free(c)' => heap'[c].size = capacity_'
    BY <1>2, <1>3, <1>4 DEF IInv, Lifetimes, VectorAssumption
  <2>4. \A c \in Blocks : \A t \in Living(c)' : t < heap'[c].size
    BY <1>2, <1>5, <1>7 DEF IInv, Lifetimes
  <2>5. data_' = NULL <=> capacity_' = 0
    BY DEF IInv, Lifetimes
  <2>6. new_data' # NULL
    BY <1>1 DEF VectorAssumption
  <2> QED BY <2>1, <2>2, <2>3, <2>4, <2>5, <2>6 DEF Lifetimes
<1> QED BY <1>1, <1>2, <1>4, <1>9

LEMMA GrowInv ==
  ASSUME VectorAssumption, IInv, Grow
  PROVE  IInv'
<1> USE DEF Grow
<1>1. capacity_ \in 0..Limit /\ capacity_ < Limit
  BY DEF IInv, TypeOK, VectorAssumption
<1>2. GrownCapacity \in 1..Limit
  BY <1>1, Doubling
<1>3. PICK b \in Blocks : Allocate(b, GrownCapacity)
  OBVIOUS
<1>4. /\ heap' \in Heaps /\ new_data' = b /\ heap'[b].size = GrownCapacity
      /\ data_ # NULL => data_ # b
      /\ Lifetimes'
  BY <1>2, <1>3, AllocateInv
<1>5. TypeOK'
  BY <1>4 DEF IInv, TypeOK
<1>6. AppendIsAmortized' /\ CapacityPays'
  BY DEF IInv, AppendIsAmortized, CapacityPays
<1>7. GrownCapacity' = GrownCapacity
  BY DEF GrownCapacity
<1>8. Progress'
  BY <1>1, <1>4, <1>7 DEF IInv, Progress
<1> QED BY <1>4, <1>5, <1>6, <1>8 DEF IInv

LEMMA ReserveInv ==
  ASSUME VectorAssumption, IInv, NEW n \in 0..Limit, Reserve(n)
  PROVE  IInv'
<1> USE DEF Reserve
<1>1. n \in 1..Limit
  BY DEF IInv, TypeOK, VectorAssumption
<1>2. PICK b \in Blocks : Allocate(b, n)
  OBVIOUS
<1>3. /\ heap' \in Heaps /\ new_data' = b /\ heap'[b].size = n
      /\ data_ # NULL => data_ # b
      /\ Lifetimes'
  BY <1>1, <1>2, AllocateInv
<1>4. TypeOK'
  BY <1>3 DEF IInv, TypeOK
<1>5. AppendIsAmortized' /\ CapacityPays'
  BY DEF IInv, AppendIsAmortized, CapacityPays
<1>6. Progress'
  BY <1>3 DEF IInv, Progress
<1> QED BY <1>3, <1>4, <1>5, <1>6 DEF IInv

(* Constructing an element in the new block adds one life and its owner. *)
LEMMA BuildInv ==
  ASSUME VectorAssumption, IInv, pc \in {"append", "relocate", "reserve"},
         NEW a \in Args, a.how # "make" => a.from < size_,
         NEW s \in Slots, s < heap[new_data].size,
         heap' = Put(Spent(heap, a), new_data, s, Made(a)),
         pc' \in {"relocate", "reserve"}, UNCHANGED <<members, new_data>>,
         Owned(new_data)' = Owned(new_data) \cup {s}
  PROVE  Lifetimes' /\ heap' \in Heaps /\ \A c \in Blocks : heap'[c].size = heap[c].size
<1>1. new_data \in Blocks /\ data_ # new_data
  BY DEF IInv, TypeOK, Lifetimes, Progress, VectorAssumption
<1>2. /\ heap' \in Heaps
      /\ \A c \in Blocks : heap'[c].size = heap[c].size
      /\ \A c \in Blocks, t \in Slots :
           heap'[c].slot[t] # Raw <=> (heap[c].slot[t] # Raw \/ (c = new_data /\ t = s))
  BY <1>1, Constructed
<1>3. Living(new_data)' = Living(new_data) \cup {s}
  BY <1>1, <1>2 DEF Living
<1>4. \A c \in Blocks : c # new_data => Living(c)' = Living(c) /\ Owned(c)' = Owned(c)
  BY <1>2 DEF Living, Owned
<1>5. \A c \in Blocks : Living(c)' = Owned(c)' /\ \A t \in Living(c)' : t < heap'[c].size
  BY <1>1, <1>2, <1>3, <1>4 DEF IInv, Lifetimes
<1>6. \A c \in Blocks : Free(c)' <=> Free(c)
  BY <1>2 DEF Free
<1> QED BY <1>1, <1>2, <1>5, <1>6 DEF IInv, Lifetimes

LEMMA AppendFirstInv ==
  ASSUME VectorAssumption, IInv, AppendFirst
  PROVE  IInv'
<1> USE DEF AppendFirst
<1>1. arg \in Args /\ (arg.how # "make" => arg.from < size_)
  BY DEF IInv, TypeOK, Progress
<1>2. size_ \in Slots /\ size_ < heap[new_data].size
  BY Doubling DEF Slots, IInv, TypeOK, Progress, VectorAssumption
<1>3. data_ # new_data /\ relocated = 0 /\ ~appended
  BY DEF IInv, TypeOK, Lifetimes, Progress, VectorAssumption
<1>4. Owned(new_data)' = Owned(new_data) \cup {size_}
  BY <1>3 DEF Owned
<1>5. Lifetimes' /\ heap' \in Heaps /\ \A c \in Blocks : heap'[c].size = heap[c].size
  BY <1>1, <1>2, <1>4, BuildInv
<1>6. TypeOK'
  BY <1>5 DEF IInv, TypeOK
<1>7. AppendIsAmortized' /\ CapacityPays'
  BY DEF IInv, AppendIsAmortized, CapacityPays
<1>8. GrownCapacity' = GrownCapacity
  BY DEF GrownCapacity
<1>9. new_data \in Blocks
  BY DEF IInv, TypeOK, Lifetimes
<1>10. Progress'
  BY <1>3, <1>5, <1>8, <1>9 DEF IInv, Progress
<1> QED BY <1>5, <1>6, <1>7, <1>10 DEF IInv

LEMMA RelocateInv ==
  ASSUME VectorAssumption, IInv, Relocate
  PROVE  IInv'
<1> USE DEF Relocate
<1>1. /\ Relocation(relocated) \in Args
      /\ Relocation(relocated).how # "make" => Relocation(relocated).from < size_
  BY RelocationArg
<1>2. data_ # new_data /\ new_data \in Blocks
  BY DEF IInv, TypeOK, Lifetimes, Progress, VectorAssumption
<1>3. relocated \in Slots /\ relocated < heap[new_data].size
  <2>1. pc = "relocate" => capacity_ < GrownCapacity
    BY Doubling DEF IInv, TypeOK, Progress
  <2>2. heap[new_data].size \in Nat /\ GrownCapacity \in Int
    BY <1>2 DEF IInv, TypeOK, Heaps, GrownCapacity, VectorAssumption
  <2> QED BY <2>1, <2>2 DEF Slots, IInv, TypeOK, Progress, CapacityPays, VectorAssumption
<1>4. Owned(new_data)' = Owned(new_data) \cup {relocated}
  BY <1>2 DEF Owned, IInv, TypeOK
<1>5. Lifetimes' /\ heap' \in Heaps /\ \A c \in Blocks : heap'[c].size = heap[c].size
  BY <1>1, <1>3, <1>4, BuildInv
<1>6. TypeOK'
  BY <1>5 DEF IInv, TypeOK, VectorAssumption
<1>7. AppendIsAmortized' /\ CapacityPays'
  BY DEF IInv, AppendIsAmortized, CapacityPays
<1>8. GrownCapacity' = GrownCapacity
  BY DEF GrownCapacity
<1>9. Progress'
  BY <1>2, <1>5, <1>8 DEF IInv, TypeOK, Progress
<1> QED BY <1>5, <1>6, <1>7, <1>9 DEF IInv

(* The old block goes, and the new one is the vector's. *)
LEMMA CommitInv ==
  ASSUME VectorAssumption, IInv, Commit
  PROVE  IInv'
<1> USE DEF Commit, Installed
<1>1. new_data \in Blocks /\ data_ # new_data
  BY DEF IInv, TypeOK, Lifetimes, Progress, VectorAssumption
<1>2. /\ heap' \in Heaps
      /\ \A c \in Blocks : heap'[c].size = IF c = data_ THEN 0 ELSE heap[c].size
      /\ \A c \in Blocks, t \in Slots :
           heap'[c].slot[t] = IF c = data_ /\ t \in 0..(size_ - 1) THEN Raw ELSE heap[c].slot[t]
  <2>1. CASE data_ = NULL
    BY <2>1 DEF IInv, TypeOK, VectorAssumption
  <2>2. CASE data_ # NULL
    BY <2>2, Disposed DEF IInv, TypeOK
  <2> QED BY <2>1, <2>2
<1>3. /\ size_' = IF appended THEN size_ + 1 ELSE size_
      /\ appended <=> pc = "relocate"
      /\ size_ \in Nat /\ relocated = size_
  BY DEF IInv, TypeOK, Progress
<1>4. capacity_' = heap[new_data].size /\ capacity_' \in 1..Limit /\ capacity_ < capacity_'
  <2>1. heap[new_data].size \in 0..Limit
    BY <1>1 DEF IInv, TypeOK, Heaps
  <2>2. capacity_ < heap[new_data].size
    BY Doubling DEF IInv, TypeOK, Progress
  <2> QED BY <2>1, <2>2 DEF IInv, TypeOK
<1>5. TypeOK'
  <2>1. arg' \in Args
    BY DEF NoArg, Args, Elements
  <2>2. size_' \in 0..Limit
    BY <1>3, <1>4 DEF IInv, TypeOK, CapacityPays
  <2>3. appends' \in 0..MaxAppends /\ moves' \in Nat
    BY <1>3 DEF IInv, TypeOK, Progress, VectorAssumption
  <2>4. relocated' \in 0..Limit
    BY DEF VectorAssumption
  <2>5. data_' \in Blocks \cup {NULL} /\ new_data' \in Blocks \cup {NULL}
    BY <1>1
  <2>6. /\ appended' \in BOOLEAN
        /\ pc' = "idle" /\ relocation' = relocation
    OBVIOUS
  <2> QED BY <1>2, <1>4, <2>1, <2>2, <2>3, <2>4, <2>5, <2>6 DEF IInv, TypeOK
<1>6. Lifetimes'
  <2>1. Owned(new_data) = 0..(size_' - 1)
    <3>1. Owned(new_data) = 0..(size_ - 1) \cup IF appended THEN {size_} ELSE {}
      BY <1>1, <1>3 DEF Owned
    <3> QED BY <1>3, <3>1
  <2>2. data_ \in Blocks => Owned(data_) = 0..(size_ - 1)
    BY DEF Owned
  <2>3. \A c \in Blocks : c \notin {data_, new_data} => Owned(c) = {}
    BY DEF Owned
  <2>4. \A c \in Blocks : Living(c)' = IF c = data_ THEN {} ELSE Living(c)
    BY <1>2, <2>2 DEF Living, IInv, Lifetimes
  <2>5. \A c \in Blocks : Owned(c)' = IF c = new_data THEN 0..(size_' - 1) ELSE {}
    BY <1>1 DEF Owned, VectorAssumption
  <2>6. \A c \in Blocks : Living(c)' = Owned(c)'
    BY <1>1, <2>1, <2>3, <2>4, <2>5 DEF IInv, Lifetimes
  <2>7. \A c \in Blocks : Free(c)' <=> c # new_data
    BY <1>1, <1>2 DEF Free, IInv, Lifetimes
  <2>8. \A c \in Blocks : \A t \in Living(c)' : t < heap'[c].size
    BY <1>2, <2>4 DEF IInv, Lifetimes
  <2> QED BY <1>1, <1>2, <1>4, <2>5, <2>6, <2>7, <2>8 DEF Lifetimes, VectorAssumption
<1>7. AppendIsAmortized' /\ CapacityPays'
  <2>1. CASE appended
    <3>1. /\ size_ = capacity_ /\ capacity_ < Limit /\ capacity_' = GrownCapacity
          /\ size_ <= appends /\ moves <= capacity_
      BY <1>3, <2>1 DEF IInv, Progress, CapacityPays
    <3>2. capacity_' = Limit \/ 2 * capacity_ <= capacity_'
      BY <3>1, Doubling DEF IInv, TypeOK
    <3>3. size_' = size_ + 1 /\ appends' = appends + 1 /\ moves' = moves + size_
      BY <2>1
    <3> QED BY <1>4, <3>1, <3>2, <3>3 DEF IInv, TypeOK, AppendIsAmortized, CapacityPays
  <2>2. CASE ~appended
    BY <1>3, <1>4, <2>2 DEF IInv, TypeOK, AppendIsAmortized, CapacityPays
  <2> QED BY <2>1, <2>2
<1>8. Progress'
  BY <1>1, <1>3 DEF Progress, NoArg, VectorAssumption
<1> QED BY <1>5, <1>6, <1>7, <1>8 DEF IInv

(* The catch block takes back exactly what was built. *)
LEMMA UnwindInv ==
  ASSUME VectorAssumption, IInv, Unwind
  PROVE  IInv'
<1> USE DEF Unwind, Installed
<1>1. new_data \in Blocks /\ data_ # new_data
  BY DEF IInv, TypeOK, Lifetimes, Progress, VectorAssumption
<1> DEFINE S == 0..(relocated - 1) \cup IF appended THEN {size_} ELSE {}
<1>2. /\ heap' \in Heaps
      /\ \A c \in Blocks : heap'[c].size = IF c = new_data THEN 0 ELSE heap[c].size
      /\ \A c \in Blocks, t \in Slots :
           heap'[c].slot[t] = IF c = new_data /\ t \in S THEN Raw ELSE heap[c].slot[t]
  BY <1>1, Disposed DEF IInv, TypeOK
<1>3. TypeOK'
  <2>1. arg' \in Args
    BY DEF NoArg, Args, Elements
  <2>2. relocated' \in 0..Limit /\ new_data' \in Blocks \cup {NULL}
    BY DEF VectorAssumption
  <2> QED BY <1>2, <2>1, <2>2 DEF IInv, TypeOK
<1>4. Lifetimes'
  <2>1. Owned(new_data) = S
    BY <1>1 DEF Owned
  <2>2. \A c \in Blocks : Living(c)' = IF c = new_data THEN {} ELSE Living(c)
    <3>1. Living(new_data) = S
      BY <1>1, <2>1 DEF IInv, Lifetimes
    <3> HIDE DEF S
    <3>2. \A c \in Blocks : c # new_data => Living(c)' = Living(c)
      BY <1>2 DEF Living
    <3>3. \A c \in Blocks : c = new_data => \A t \in Slots : heap'[c].slot[t] = Raw
      BY <1>2, <3>1 DEF Living
    <3>4. \A c \in Blocks : c = new_data => Living(c)' = {}
      BY <3>3 DEF Living
    <3> QED BY <3>2, <3>4
  <2>3. \A c \in Blocks : Owned(c)' = IF c = new_data THEN {} ELSE Owned(c)
    BY <1>1 DEF Owned, VectorAssumption
  <2>4. \A c \in Blocks : Free(c)' <=> c # data_
    BY <1>1, <1>2 DEF Free, IInv, Lifetimes
  <2> QED BY <1>1, <1>2, <2>2, <2>3, <2>4 DEF IInv, Lifetimes, VectorAssumption
<1>5. AppendIsAmortized' /\ CapacityPays'
  BY DEF IInv, AppendIsAmortized, CapacityPays
<1>6. Progress'
  BY <1>1 DEF IInv, TypeOK, Progress, NoArg, VectorAssumption
<1> QED BY <1>3, <1>4, <1>5, <1>6 DEF IInv

(* Only the last element dies. *)
LEMMA PopBackInv ==
  ASSUME VectorAssumption, IInv, PopBack
  PROVE  IInv'
<1> USE DEF PopBack
<1>1. size_ - 1 \in 0..(size_ - 1) /\ pc # "destroyed"
  BY DEF IInv, TypeOK
<1>2. data_ \in Blocks /\ size_ - 1 \in Slots
  BY <1>1, ElementLives
<1>3. /\ heap' \in Heaps
      /\ \A c \in Blocks : heap'[c].size = heap[c].size
      /\ \A c \in Blocks, t \in Slots :
           heap'[c].slot[t] = IF c = data_ /\ t = size_ - 1 THEN Raw ELSE heap[c].slot[t]
  BY <1>2, PutSlot DEF IInv, TypeOK
<1>4. TypeOK'
  BY <1>3 DEF IInv, TypeOK
<1>5. Lifetimes'
  <2>1. Owned(data_) = 0..(size_ - 1) /\ Owned(data_)' = 0..(size_ - 2)
    BY <1>1 DEF Owned, IInv, TypeOK
  <2>2. Living(data_)' = Living(data_) \ {size_ - 1}
    BY <1>2, <1>3 DEF Living
  <2>3. Living(data_)' = Owned(data_)'
    BY <1>2, <2>1, <2>2 DEF IInv, TypeOK, Lifetimes
  <2>4. \A c \in Blocks : c # data_ => Living(c)' = Living(c) /\ Owned(c)' = Owned(c)
    BY <1>3 DEF Living, Owned, IInv, Progress
  <2>5. \A c \in Blocks : Living(c)' = Owned(c)' /\ \A t \in Living(c)' : t < heap'[c].size
    BY <1>2, <1>3, <2>2, <2>3, <2>4 DEF IInv, Lifetimes
  <2>6. \A c \in Blocks : Free(c)' <=> Free(c)
    BY <1>3 DEF Free
  <2> QED BY <1>2, <1>3, <2>5, <2>6 DEF IInv, Lifetimes
<1>6. AppendIsAmortized' /\ CapacityPays'
  BY DEF IInv, TypeOK, AppendIsAmortized, CapacityPays
<1>7. Progress'
  BY DEF IInv, TypeOK, Progress, NoArg
<1> QED BY <1>4, <1>5, <1>6, <1>7 DEF IInv

LEMMA ClearInv ==
  ASSUME VectorAssumption, IInv, Clear
  PROVE  IInv'
<1> USE DEF Clear
<1>1. data_ \in Blocks
  BY DEF IInv, TypeOK, Lifetimes, CapacityPays
<1>2. /\ heap' \in Heaps
      /\ \A c \in Blocks : heap'[c].size = heap[c].size
      /\ \A c \in Blocks, t \in Slots :
           heap'[c].slot[t] = IF c = data_ THEN Raw ELSE heap[c].slot[t]
  BY <1>1 DEF IInv, TypeOK, Heaps, NoElements
<1>3. TypeOK'
  BY <1>2 DEF IInv, TypeOK, VectorAssumption
<1>4. Lifetimes'
  <2>1. Living(data_)' = {} /\ Owned(data_)' = {}
    BY <1>1, <1>2 DEF Living, Owned
  <2>2. \A c \in Blocks : c # data_ => Living(c)' = Living(c) /\ Owned(c)' = Owned(c)
    BY <1>2 DEF Living, Owned, IInv, Progress
  <2>3. \A c \in Blocks : Living(c)' = Owned(c)' /\ \A t \in Living(c)' : t < heap'[c].size
    BY <1>1, <1>2, <2>1, <2>2 DEF IInv, Lifetimes
  <2>4. \A c \in Blocks : Free(c)' <=> Free(c)
    BY <1>2 DEF Free
  <2> QED BY <1>1, <1>2, <2>3, <2>4 DEF IInv, Lifetimes
<1>5. AppendIsAmortized' /\ CapacityPays'
  BY DEF IInv, TypeOK, AppendIsAmortized, CapacityPays
<1>6. Progress'
  BY DEF IInv, TypeOK, Progress, NoArg
<1> QED BY <1>3, <1>4, <1>5, <1>6 DEF IInv

(* The destructor leaves nothing alive and nothing allocated. *)
LEMMA DestroyInv ==
  ASSUME VectorAssumption, IInv, Destroy
  PROVE  IInv'
<1> USE DEF Destroy
<1>1. new_data = NULL
  BY DEF IInv, Lifetimes
<1>2. /\ heap' \in Heaps
      /\ \A c \in Blocks : heap'[c].size = IF c = data_ THEN 0 ELSE heap[c].size
      /\ \A c \in Blocks, t \in Slots :
           heap'[c].slot[t] = IF c = data_ /\ t \in 0..(size_ - 1) THEN Raw ELSE heap[c].slot[t]
  <2>1. CASE data_ = NULL
    BY <2>1 DEF IInv, TypeOK, VectorAssumption
  <2>2. CASE data_ # NULL
    BY <2>2, Disposed DEF IInv, TypeOK
  <2> QED BY <2>1, <2>2
<1>3. TypeOK'
  BY <1>2 DEF IInv, TypeOK, VectorAssumption
<1>4. Lifetimes'
  <2>1. \A c \in Blocks : Owned(c) = IF c = data_ THEN 0..(size_ - 1) ELSE {}
    BY <1>1 DEF Owned, VectorAssumption
  <2>2. \A c \in Blocks : Living(c)' = {} /\ Owned(c)' = {}
    BY <1>2, <2>1 DEF Living, Owned, IInv, Lifetimes
  <2>3. \A c \in Blocks : Free(c)'
    BY <1>1, <1>2 DEF Free, IInv, Lifetimes, VectorAssumption
  <2> QED BY <1>1, <2>2, <2>3 DEF IInv, Lifetimes
<1>5. AppendIsAmortized' /\ CapacityPays'
  BY DEF IInv, TypeOK, AppendIsAmortized, CapacityPays
<1>6. Progress'
  BY DEF IInv, TypeOK, Progress, NoArg
<1> QED BY <1>3, <1>4, <1>5, <1>6 DEF IInv

LEMMA StutterInv == IInv /\ UNCHANGED vars => IInv'
<1> SUFFICES ASSUME IInv, UNCHANGED vars PROVE IInv'
  OBVIOUS
<1> USE DEF vars
<1>1. TypeOK' /\ CapacityPays' /\ AppendIsAmortized'
  BY DEF IInv, TypeOK, CapacityPays, AppendIsAmortized
<1>2. Lifetimes'
  BY DEF IInv, Lifetimes, Living, Owned, Free
<1>3. Progress'
  BY DEF IInv, Progress, GrownCapacity
<1> QED BY <1>1, <1>2, <1>3 DEF IInv

-----------------------------------------------------------------------------
LEMMA NextInv == VectorAssumption /\ IInv /\ [Next]_vars => IInv'
<1> SUFFICES ASSUME VectorAssumption, IInv, [Next]_vars PROVE IInv'
  OBVIOUS
<1>1. ASSUME NEW a \in Args, EmplaceBack(a) PROVE IInv'
  BY <1>1, EmplaceBackInv
<1>2. CASE InPlace
  BY <1>2, InPlaceInv
<1>3. CASE InPlaceThrows
  BY <1>3, InPlaceThrowsInv
<1>4. CASE Grow
  BY <1>4, GrowInv
<1>5. CASE GrowRefused
  BY <1>5, GrowRefusedInv
<1>6. CASE AppendFirst
  BY <1>6, AppendFirstInv
<1>7. CASE AppendThrows
  BY <1>7, ThrowInv DEF AppendThrows, IInv, TypeOK, Progress
<1>8. ASSUME NEW n \in 0..Limit, Reserve(n) PROVE IInv'
  BY <1>8, ReserveInv
<1>9. CASE Relocate
  BY <1>9, RelocateInv
<1>10. CASE RelocateThrows
  BY <1>10, ThrowInv, RelocationArg DEF RelocateThrows
<1>11. CASE Commit
  BY <1>11, CommitInv
<1>12. CASE Unwind
  BY <1>12, UnwindInv
<1>13. CASE PopBack
  BY <1>13, PopBackInv
<1>14. CASE Clear
  BY <1>14, ClearInv
<1>15. CASE Destroy
  BY <1>15, DestroyInv
<1>16. CASE Gone
  BY <1>16, StutterInv DEF Gone
<1>17. CASE UNCHANGED vars
  BY <1>17, StutterInv
<1> QED
  BY <1>1, <1>2, <1>3, <1>4, <1>5, <1>6, <1>7, <1>8, <1>9, <1>10, <1>11, <1>12,
     <1>13, <1>14, <1>15, <1>16, <1>17 DEF Next

LEMMA Inductive == Spec => []IInv
<1>1. Init => IInv
  BY VectorAssumption, InitInv
<1>2. IInv /\ [Next]_vars => IInv'
  BY VectorAssumption, NextInv
<1> QED BY <1>1, <1>2, PTL DEF Spec

(* However constructors throw, an element lives where the vector will destroy
   it and nowhere else, and no block leaks.  (reserve L45-69, grow_and_emplace
   L125-157, ~Vector L23-29.) *)
THEOREM BalancedLifetimes == Spec => [](TypeOK /\ Lifetimes)
<1>1. IInv => TypeOK /\ Lifetimes
  BY DEF IInv
<1> QED BY <1>1, Inductive, PTL

(* Doubling relocates fewer than 2N elements in N appends, from any first
   capacity, up to any limit and whatever else is called.  (L122-124.) *)
THEOREM Amortized == Spec => []AppendIsAmortized
<1>1. IInv => AppendIsAmortized
  BY DEF IInv
<1> QED BY <1>1, Inductive, PTL

-----------------------------------------------------------------------------
(* The refinement.  First, what is in every slot after a construction and
   after a throw, and not only what lives there. *)
LEMMA SpentSlots ==
  ASSUME VectorAssumption, IInv, pc # "destroyed",
         NEW a \in Args, a.how # "make" => a.from < size_
  PROVE  \A c \in Blocks, t \in Slots :
           Spent(heap, a)[c].slot[t] =
             IF a.how = "move" /\ c = data_ /\ t = a.from THEN Moved ELSE heap[c].slot[t]
<1>1. CASE a.how # "move"
  BY <1>1 DEF Spent
<1>2. CASE a.how = "move"
  <2>1. a.from \in 0..(size_ - 1)
    BY <1>2 DEF Args, Slots, IInv, TypeOK
  <2>2. data_ \in Blocks /\ a.from \in Slots
    BY <2>1, ElementLives
  <2>3. Spent(heap, a) = Put(heap, data_, a.from, Moved) /\ heap \in Heaps
    BY <1>2 DEF Spent, IInv, TypeOK
  <2>4. Moved \in Elements \cup {Raw}
    BY DEF Elements
  <2>. QED BY <1>2, <2>2, <2>3, <2>4, PutSlot
<1>. QED BY <1>1, <1>2

LEMMA ConstructedSlots ==
  ASSUME VectorAssumption, IInv, pc # "destroyed",
         NEW a \in Args, a.how # "make" => a.from < size_,
         NEW b \in Blocks, NEW s \in Slots
  PROVE  \A c \in Blocks, t \in Slots :
           Put(Spent(heap, a), b, s, Made(a))[c].slot[t] =
             IF c = b /\ t = s THEN Made(a)
             ELSE IF a.how = "move" /\ c = data_ /\ t = a.from THEN Moved
             ELSE heap[c].slot[t]
<1>1. Spent(heap, a) \in Heaps /\ Made(a) \in Elements \cup {Raw}
  BY SpentLives, MadeLives
<1>2. \A c \in Blocks, t \in Slots :
        Put(Spent(heap, a), b, s, Made(a))[c].slot[t] =
          IF c = b /\ t = s THEN Made(a) ELSE Spent(heap, a)[c].slot[t]
  BY <1>1, PutSlot
<1>. QED BY <1>2, SpentSlots

(* The steps of the abstract vector, from what changes in its contents. *)
LEMMA ContentsFacts ==
  ASSUME IInv, pc # "destroyed"
  PROVE  /\ Contents = [i \in 1..size_ |-> Stored(i - 1)]
         /\ DOMAIN Contents = 1..size_ /\ size_ \in Nat /\ capacity_ \in Nat
         /\ \A i \in 1..size_ : Contents[i] = Stored(i - 1)
         /\ Len(Contents) = size_
BY DEF Contents, IInv, TypeOK

LEMMA ContentsFactsNext ==
  (IInv /\ pc # "destroyed" =>
     /\ Contents = [i \in 1..size_ |-> Stored(i - 1)]
     /\ DOMAIN Contents = 1..size_ /\ size_ \in Nat /\ capacity_ \in Nat
     /\ \A i \in 1..size_ : Contents[i] = Stored(i - 1)
     /\ Len(Contents) = size_)'
BY ContentsFacts, PTL

LEMMA SameContents ==
  ASSUME IInv, pc # "destroyed", pc' # "destroyed", size_' = size_,
         \A i \in 0..(size_ - 1) : Stored(i)' = Stored(i)
  PROVE  Contents' = Contents
<1>1. Contents' = [i \in 1..size_ |-> Stored(i - 1)']
  BY DEF Contents
<1>2. \A i \in 1..size_ : Stored(i - 1)' = Stored(i - 1)
  BY DEF IInv, TypeOK
<1>. QED BY <1>1, <1>2, ContentsFacts

(* Elements of a growing vector are either in the old block or in the new. *)
LEMMA StoredOutside ==
  ASSUME IInv, pc \notin {"relocate", "reserve"}, NEW i \in Nat
  PROVE  Stored(i) = Element(i)
BY DEF Stored, IInv, Progress

LEMMA StoredOutsideNext ==
  (\A i \in Nat : IInv /\ pc \notin {"relocate", "reserve"} => Stored(i) = Element(i))'
<1>1. \A i \in Nat : IInv /\ pc \notin {"relocate", "reserve"} => Stored(i) = Element(i)
  BY StoredOutside
<1>. QED BY <1>1, PTL

LEMMA AbstractEnter ==
  ASSUME IInv, pc # "destroyed", Contents' = Contents, capacity_' = capacity_,
         relocation' = relocation,
         Giving' = {} \/ \E i \in 1..size_ : Giving' = {i}
  PROVE  Object!Next
<1>1. Giving' \in {{}} \cup {{i} : i \in DOMAIN Contents}
  BY ContentsFacts
<1>. QED BY <1>1 DEF Object!Next, Object!Enter

LEMMA AbstractStutter ==
  ASSUME Contents' = Contents, capacity_' = capacity_, relocation' = relocation, Giving' = Giving
  PROVE  UNCHANGED Object!vars
BY DEF Object!vars

LEMMA AbstractPush ==
  ASSUME IInv, IInv', pc # "destroyed", pc' # "destroyed", relocation' = relocation,
         size_' = size_ + 1, NEW x \in Elements,
         \A i \in Giving : x = Contents[i],
         Giving' = {},
         \A i \in 1..size_ : Contents'[i] = IF i \in Giving THEN Moved ELSE Contents[i],
         Contents'[size_ + 1] = x,
         capacity_' = IF size_ = capacity_ THEN Object!Twice(capacity_) ELSE capacity_
  PROVE  Object!Next
<1> DEFINE old == [i \in DOMAIN Contents |-> IF i \in Giving THEN Moved ELSE Contents[i]]
<1>1. /\ DOMAIN Contents = 1..size_ /\ size_ \in Nat /\ Len(Contents) = size_
  BY ContentsFacts
<1>2. DOMAIN Contents' = 1..(size_ + 1) /\ Len(Contents') = size_ + 1
      /\ Contents' = [i \in 1..(size_ + 1) |-> Stored(i - 1)']
      /\ \A i \in 1..(size_ + 1) : Contents'[i] = Stored(i - 1)'
  BY ContentsFactsNext
<1>3. Contents' = [i \in 1..(size_ + 1) |-> Contents'[i]]
  BY <1>2
<1>4. /\ old = [i \in 1..size_ |-> IF i \in Giving THEN Moved ELSE Contents[i]]
      /\ Len(old) = size_
  BY <1>1
<1>5. Append(old, x) = [i \in 1..(size_ + 1) |-> IF i = size_ + 1 THEN x ELSE old[i]]
  BY <1>1, <1>4
<1>6. \A i \in 1..(size_ + 1) : Contents'[i] = IF i = size_ + 1 THEN x ELSE old[i]
  <2>1. \A i \in 1..(size_ + 1) : i \in 1..size_ \/ i = size_ + 1
    BY <1>1
  <2>2. \A i \in 1..size_ : i # size_ + 1 /\ Contents'[i] = old[i]
    BY <1>1
  <2>. QED BY <2>1, <2>2
<1>7. Contents' = Append(old, x)
  BY <1>3, <1>5, <1>6
<1>8. Len(Contents') <= capacity_'
  BY <1>2 DEF IInv, CapacityPays
<1>9. Object!Append1(x)
  BY <1>1, <1>7, <1>8 DEF Object!Append1
<1>10. Object!Push
  BY <1>9 DEF Object!Push, Elements
<1>. QED BY <1>10 DEF Object!Next

LEMMA AbstractLose ==
  ASSUME IInv, IInv', pc # "destroyed", pc' # "destroyed",
         relocation' = relocation, capacity_' = capacity_, size_' = size_,
         Giving' = {}, Giving \subseteq 1..size_,
         \A i \in 0..(size_ - 1) :
           \/ Stored(i)' = Stored(i)
           \/ Stored(i)' = Moved /\ (relocation = "riskyMove" \/ i + 1 \in Giving)
  PROVE  Object!Next
<1>1. DOMAIN Contents = 1..size_ /\ size_ \in Nat
      /\ \A i \in 1..size_ : Contents[i] = Stored(i - 1)
  BY ContentsFacts
<1>2. Contents' = [i \in 1..size_ |-> Stored(i - 1)']
  BY ContentsFactsNext
<1> DEFINE S == {i \in 1..size_ : Stored(i - 1)' # Stored(i - 1)}
<1>3. \A i \in 1..size_ :
        \/ Stored(i - 1)' = Stored(i - 1)
        \/ Stored(i - 1)' = Moved /\ (relocation = "riskyMove" \/ i \in Giving)
  <2>1. \A i \in 1..size_ : i - 1 \in 0..(size_ - 1) /\ (i - 1) + 1 = i
    BY <1>1
  <2>. QED BY <2>1
<1>4. S \in SUBSET (IF relocation = "riskyMove" THEN DOMAIN Contents ELSE Giving)
  BY <1>1, <1>3
<1>5. Contents' = [i \in DOMAIN Contents |-> IF i \in S THEN Moved ELSE Contents[i]]
  BY <1>1, <1>2, <1>3
<1>6. Object!Lose
  BY <1>4, <1>5 DEF Object!Lose
<1>. QED BY <1>6 DEF Object!Next

LEMMA GivingFacts ==
  ASSUME VectorAssumption, IInv
  PROVE  /\ Giving \subseteq 1..size_
         /\ arg.how = "move" => arg.from \in 0..(size_ - 1) /\ arg.from \in Slots
<1>1. arg \in Args /\ size_ \in Nat /\ (arg.how = "move" => arg.from < size_)
  BY DEF IInv, TypeOK, Progress
<1>2. arg.how = "move" => arg.from \in Slots
  BY <1>1 DEF Args
<1>3. arg.how = "move" => arg.from \in 0..(size_ - 1)
  BY <1>1, <1>2 DEF Slots
<1>. QED BY <1>1, <1>2, <1>3 DEF Giving

LEMMA NothingGiven ==
  ASSUME arg = NoArg
  PROVE  Giving = {}
BY DEF Giving, NoArg

LEMMA NothingGivenNext == (arg = NoArg => Giving = {})'
BY NothingGiven, PTL

(* The steps of the call, one after the other. *)
LEMMA EmplaceBackSim ==
  ASSUME VectorAssumption, IInv, IInv', Halfway, NEW a \in Args, EmplaceBack(a)
  PROVE  Halfway' /\ Object!Next
<1> USE DEF EmplaceBack
<1>1. Halfway'
  BY DEF Halfway
<1>2. \A i \in 0..(size_ - 1) : Stored(i)' = Stored(i)
  BY DEF Stored, Element, IInv, Progress
<1>3. Contents' = Contents
  BY <1>2, SameContents
<1>4. (Giving \subseteq 1..size_)'
  <2>1. (VectorAssumption /\ IInv => Giving \subseteq 1..size_)'
    BY GivingFacts, PTL
  <2>. QED BY <2>1
<1>5. Giving' = {} \/ \E i \in 1..size_ : Giving' = {i}
  BY <1>4 DEF Giving
<1>. QED BY <1>1, <1>3, <1>5, AbstractEnter

LEMMA InPlaceSim ==
  ASSUME VectorAssumption, IInv, IInv', Halfway, InPlace
  PROVE  Halfway' /\ Object!Next
<1> USE DEF InPlace, Return
<1>1. Halfway'
  BY DEF Halfway
<1>2. /\ arg \in Args /\ (arg.how # "make" => arg.from < size_)
      /\ data_ \in Blocks /\ size_ \in Slots /\ size_ \in Nat
  BY DEF IInv, TypeOK, Lifetimes, Progress, Slots
<1>3. Made(arg) \in Elements
  BY <1>2, MadeLives
<1>4. \A t \in Slots : Element(t)' = IF t = size_ THEN Made(arg)
                                     ELSE IF arg.how = "move" /\ t = arg.from THEN Moved
                                     ELSE Element(t)
  BY <1>2, ConstructedSlots DEF Element
<1>5. /\ \A i \in 0..size_ : i \in Slots /\ Stored(i)' = Element(i)'
      /\ \A i \in 0..(size_ - 1) : i \in Slots /\ Stored(i) = Element(i)
  BY <1>2, StoredOutside, StoredOutsideNext DEF Slots
<1>6. /\ \A i \in 1..size_ : Contents[i] = Element(i - 1) /\ i - 1 \in 0..(size_ - 1)
      /\ \A i \in 1..(size_ + 1) : Contents'[i] = Element(i - 1)' /\ i - 1 \in 0..size_
  <2>1. /\ \A i \in 1..size_ : i - 1 \in 0..(size_ - 1) /\ Contents[i] = Stored(i - 1)
        /\ \A i \in 1..(size_ + 1) : i - 1 \in 0..size_ /\ Contents'[i] = Stored(i - 1)'
    BY <1>2, ContentsFacts, ContentsFactsNext
  <2>. QED BY <1>5, <2>1
<1>7. Giving = IF arg.how = "move" THEN {arg.from + 1} ELSE {}
  BY DEF Giving
<1>8. \A i \in Giving : Made(arg) = Contents[i]
  BY <1>2, <1>6, <1>7, GivingFacts DEF Made
<1>9. \A i \in 1..size_ : Contents'[i] = IF i \in Giving THEN Moved ELSE Contents[i]
  <2>1. \A i \in 1..size_ : i - 1 # size_ /\ i \in 1..(size_ + 1) /\ i - 1 \in Slots
    BY <1>2, <1>5, <1>6
  <2>2. arg.how = "move" => arg.from \in Nat
    BY GivingFacts
  <2>3. \A i \in 1..size_ : i \in Giving <=> arg.how = "move" /\ i - 1 = arg.from
    BY <1>2, <1>7, <2>2
  <2>. QED BY <1>4, <1>6, <2>1, <2>3
<1>10. Contents'[size_ + 1] = Made(arg)
  <2>1. size_ + 1 \in 1..(size_ + 1) /\ (size_ + 1) - 1 = size_
    BY <1>2
  <2>. QED BY <1>2, <1>4, <1>6, <2>1
<1>11. Giving' = {}
  BY NothingGivenNext
<1>12. capacity_' = IF size_ = capacity_ THEN Object!Twice(capacity_) ELSE capacity_
  BY DEF IInv, TypeOK
<1>. QED BY <1>1, <1>3, <1>8, <1>9, <1>10, <1>11, <1>12, AbstractPush

LEMMA InPlaceThrowsSim ==
  ASSUME VectorAssumption, IInv, IInv', Halfway, InPlaceThrows
  PROVE  Halfway' /\ Object!Next
<1> USE DEF InPlaceThrows, Return
<1>1. Halfway'
  BY DEF Halfway
<1>2. /\ arg \in Args /\ (arg.how # "make" => arg.from < size_) /\ size_ \in Nat
  BY DEF IInv, TypeOK, Progress
<1>3. \A i \in 0..(size_ - 1) : /\ data_ \in Blocks /\ i \in Slots
                                /\ Stored(i) = Element(i) /\ Stored(i)' = Element(i)'
  BY <1>2, ElementLives, StoredOutside, StoredOutsideNext
<1>4. \A i \in 0..(size_ - 1) :
        Element(i)' = Element(i) \/ (Element(i)' = Moved /\ i + 1 \in Giving)
  <2>1. CASE heap' = heap
    BY <2>1 DEF Element
  <2>2. CASE heap' = Spent(heap, arg)
    BY <1>2, <1>3, <2>2, SpentSlots DEF Element, Giving
  <2>. QED BY <2>1, <2>2
<1>5. Giving' = {}
  BY NothingGivenNext
<1>. QED BY <1>1, <1>3, <1>4, <1>5, GivingFacts, AbstractLose

LEMMA GrowRefusedSim ==
  ASSUME VectorAssumption, IInv, IInv', Halfway, GrowRefused
  PROVE  Halfway' /\ Object!Next
<1> USE DEF GrowRefused, Return
<1>1. Halfway'
  BY DEF Halfway
<1>2. \A i \in 0..(size_ - 1) : Stored(i)' = Stored(i)
  BY DEF Stored, Element, IInv, Progress
<1>3. Contents' = Contents
  BY <1>2, SameContents
<1>. QED BY <1>1, <1>3, NothingGivenNext, AbstractEnter

LEMMA AllocateSim ==
  ASSUME VectorAssumption, IInv, pc \in {"idle", "emplace"}, pc' \in {"append", "reserve"},
         NEW b \in Blocks, NEW n \in 0..Limit, Allocate(b, n),
         UNCHANGED <<relocation, members, arg, relocated, appended>>
  PROVE  Contents' = Contents /\ capacity_' = capacity_ /\ Giving' = Giving
<1>1. \A i \in 0..(size_ - 1) : data_ \in Blocks /\ i \in Slots
  BY ElementLives
<1>2. \A c \in Blocks, t \in Slots : heap'[c].slot[t] = heap[c].slot[t]
  BY Allocated DEF IInv, TypeOK
<1>3. \A i \in 0..(size_ - 1) : Stored(i)' = Stored(i)
  BY <1>1, <1>2 DEF Stored, Element, IInv, Progress
<1>. QED BY <1>3, SameContents DEF Giving

LEMMA GrowSim ==
  ASSUME VectorAssumption, IInv, Halfway, Grow
  PROVE  Halfway' /\ UNCHANGED Object!vars
<1> USE DEF Grow
<1>1. Halfway'
  BY DEF Halfway
<1>2. PICK b \in Blocks : Allocate(b, GrownCapacity)
  OBVIOUS
<1>3. GrownCapacity \in 0..Limit
  BY Doubling DEF IInv, TypeOK
<1>4. Contents' = Contents /\ capacity_' = capacity_ /\ Giving' = Giving
  BY <1>2, <1>3, AllocateSim
<1>. QED BY <1>1, <1>4, AbstractStutter

LEMMA ReserveSim ==
  ASSUME VectorAssumption, IInv, Halfway, NEW n \in 0..Limit, Reserve(n)
  PROVE  Halfway' /\ UNCHANGED Object!vars
<1> USE DEF Reserve
<1>1. Halfway'
  <2>1. relocated' = 0 /\ arg' = NoArg /\ 0..(relocated' - 1) = {}
    BY DEF IInv, Progress
  <2>. QED BY <2>1 DEF Halfway
<1>2. PICK b \in Blocks : Allocate(b, n)
  OBVIOUS
<1>3. Contents' = Contents /\ capacity_' = capacity_ /\ Giving' = Giving
  BY <1>2, AllocateSim
<1>. QED BY <1>1, <1>3, AbstractStutter

(* Where the step of a growing vector finds the blocks. *)
LEMMA Growing ==
  ASSUME VectorAssumption, IInv, pc \in {"append", "relocate", "reserve", "unwind"}
  PROVE  /\ new_data \in Blocks /\ data_ # new_data
         /\ arg \in Args /\ (arg.how # "make" => arg.from < size_)
         /\ size_ \in Nat /\ relocated \in 0..size_
         /\ \A i \in 0..(size_ - 1) : data_ \in Blocks /\ i \in Slots
         /\ pc = "append" \/ (pc = "relocate") => size_ \in Slots
         /\ appended \in BOOLEAN
<1>1. /\ new_data \in Blocks /\ data_ # new_data
      /\ arg \in Args /\ (arg.how # "make" => arg.from < size_)
      /\ appended \in BOOLEAN
  BY DEF IInv, TypeOK, Lifetimes, Progress, VectorAssumption
<1>2. size_ \in Nat /\ relocated \in 0..size_
  BY DEF IInv, TypeOK, Progress
<1>3. pc = "append" \/ (pc = "relocate") => size_ \in Slots
  BY DEF IInv, TypeOK, Progress, Slots, VectorAssumption
<1>. QED BY <1>1, <1>2, <1>3, ElementLives

LEMMA AppendFirstSim ==
  ASSUME VectorAssumption, IInv, Halfway, AppendFirst
  PROVE  Halfway' /\ UNCHANGED Object!vars
<1> USE DEF AppendFirst
<1>1. relocated = 0 /\ ~appended
  BY DEF IInv, Progress
<1>2. \A c \in Blocks, t \in Slots :
        heap'[c].slot[t] = IF c = new_data /\ t = size_ THEN Made(arg)
                           ELSE IF arg.how = "move" /\ c = data_ /\ t = arg.from THEN Moved
                           ELSE heap[c].slot[t]
  BY Growing, ConstructedSlots
<1>3. /\ \A i \in 0..(size_ - 1) : Element(i)' = IF arg.how = "move" /\ i = arg.from THEN Moved
                                                 ELSE Element(i)
      /\ heap'[new_data].slot[size_] = Made(arg)
  BY <1>2, Growing DEF Element
<1>4. Halfway'
  <2>1. arg.how = "move" => Element(arg.from)' = Moved
    BY <1>3, GivingFacts
  <2>2. 0..(relocated' - 1) = {} /\ ~(arg.how = "move" /\ arg.from < relocated')
    BY <1>1, GivingFacts
  <2>. QED BY <2>1, <2>2 DEF Halfway
<1>5. \A i \in 0..(size_ - 1) : Stored(i)' = Stored(i)
  BY <1>1, <1>3, Growing DEF Stored, Made
<1>6. Contents' = Contents
  BY <1>5, SameContents
<1>. QED BY <1>4, <1>6, AbstractStutter DEF Giving

LEMMA AppendThrowsSim ==
  ASSUME VectorAssumption, IInv, IInv', Halfway, AppendThrows
  PROVE  Halfway' /\ Object!Next
<1> USE DEF AppendThrows
<1>1. Halfway'
  BY DEF Halfway
<1>2. \A i \in 0..(size_ - 1) : Stored(i) = Element(i) /\ Stored(i)' = Element(i)'
  BY Growing, StoredOutside, StoredOutsideNext
<1>3. \A i \in 0..(size_ - 1) :
        Element(i)' = Element(i) \/ (Element(i)' = Moved /\ i + 1 \in Giving)
  <2>1. CASE heap' = heap
    BY <2>1 DEF Element
  <2>2. CASE heap' = Spent(heap, arg)
    BY <2>2, Growing, SpentSlots DEF Element, Giving
  <2>. QED BY <2>1, <2>2
<1>4. Giving' = {}
  BY DEF Giving
<1>. QED BY <1>1, <1>2, <1>3, <1>4, GivingFacts, AbstractLose

LEMMA RelocateSim ==
  ASSUME VectorAssumption, IInv, Halfway, Relocate
  PROVE  Halfway' /\ UNCHANGED Object!vars
<1> USE DEF Relocate
<1> DEFINE a == Relocation(relocated)
           r == relocated
<1>1. /\ a \in Args /\ (a.how # "make" => a.from < size_)
      /\ a.how = (IF relocation = "copy" THEN "copy" ELSE "move") /\ a.from = r
      /\ Made(a) = Element(r)
  BY RelocationArg DEF Relocation, Made
<1>2. /\ r \in 0..(size_ - 1) /\ r \in Slots /\ data_ \in Blocks
      /\ r \in Nat /\ size_ \in Nat
  BY Growing
<1>3. \A c \in Blocks, t \in Slots :
        heap'[c].slot[t] = IF c = new_data /\ t = r THEN Element(r)
                           ELSE IF relocation # "copy" /\ c = data_ /\ t = r THEN Moved
                           ELSE heap[c].slot[t]
  BY <1>1, <1>2, Growing, ConstructedSlots
<1>4. /\ \A t \in Slots : Element(t)' = IF relocation # "copy" /\ t = r THEN Moved ELSE Element(t)
      /\ \A t \in Slots : heap'[new_data].slot[t] =
                            IF t = r THEN Element(r) ELSE heap[new_data].slot[t]
  BY <1>2, <1>3, Growing DEF Element
<1>5. \A i \in 0..(relocated' - 1) : i \in Slots /\ (i = r \/ i \in 0..(r - 1))
  BY <1>2 DEF Slots, IInv, TypeOK
<1>6. Halfway'
  <2>1. \A i \in 0..(relocated' - 1) :
          IF relocation = "copy" THEN heap'[new_data].slot[i] = Element(i)' ELSE Element(i)' = Moved
    <3>1. \A i \in 0..(r - 1) : i \in Slots /\ i # r
      BY <1>2 DEF Slots, IInv, TypeOK
    <3>. QED BY <1>4, <1>5, <3>1 DEF Halfway
  <2>2. ASSUME pc = "relocate", arg.how = "move"
        PROVE  /\ Element(arg.from)' = Moved
               /\ arg.from < relocated' => heap'[new_data].slot[arg.from] = Moved
    <3>1. arg.from \in Slots /\ Element(arg.from) = Moved
          /\ (arg.from < r => heap[new_data].slot[arg.from] = Moved)
      BY <2>2, GivingFacts DEF Halfway
    <3>2. arg.from < relocated' => arg.from < r \/ arg.from = r
      BY <1>2, <3>1 DEF Slots
    <3>. QED BY <1>4, <3>1, <3>2
  <2>3. pc' = "reserve" => arg' = NoArg
    BY DEF Halfway
  <2>. QED BY <2>1, <2>2, <2>3 DEF Halfway
<1>7. ASSUME NEW i \in 0..(size_ - 1) PROVE Stored(i)' = Stored(i)
  <2>1. i \in Slots /\ (i < r + 1 <=> i < r \/ i = r)
    BY <1>2, Growing
  <2>2. appended => size_ \in Slots /\ size_ # r
    BY <1>2, Growing DEF IInv, Progress
  <2>3. pc # "unwind" /\ pc' # "unwind"
    OBVIOUS
  <2>4. Stored(i) = IF appended /\ arg.how = "move" /\ arg.from = i THEN heap[new_data].slot[size_]
                    ELSE IF i < r THEN heap[new_data].slot[i] ELSE Element(i)
    BY <2>3 DEF Stored
  <2>5. Stored(i)' = IF appended /\ arg.how = "move" /\ arg.from = i THEN heap'[new_data].slot[size_]
                     ELSE IF i < r + 1 THEN heap'[new_data].slot[i] ELSE Element(i)'
    BY <2>3 DEF Stored
  <2>6. CASE appended /\ arg.how = "move" /\ arg.from = i
    <3>1. heap'[new_data].slot[size_] = heap[new_data].slot[size_]
      BY <1>4, <2>2, <2>6
    <3>. QED BY <2>4, <2>5, <2>6, <3>1
  <2>7. CASE ~(appended /\ arg.how = "move" /\ arg.from = i)
    <3>1. CASE i = r
      <4>1. heap'[new_data].slot[i] = Element(i)
        BY <1>4, <2>1, <3>1
      <4>. QED BY <1>2, <2>1, <2>4, <2>5, <2>7, <3>1, <4>1
    <3>2. CASE i # r
      <4>1. heap'[new_data].slot[i] = heap[new_data].slot[i] /\ Element(i)' = Element(i)
        BY <1>4, <2>1, <3>2
      <4>. QED BY <2>1, <2>4, <2>5, <2>7, <3>2, <4>1
    <3>. QED BY <3>1, <3>2
  <2>. QED BY <2>6, <2>7
<1>8. Contents' = Contents
  BY <1>7, SameContents
<1>. QED BY <1>6, <1>8, AbstractStutter DEF Giving

LEMMA RelocateThrowsSim ==
  ASSUME VectorAssumption, IInv, IInv', Halfway, RelocateThrows
  PROVE  Halfway' /\ Object!Next
<1> USE DEF RelocateThrows
<1> DEFINE a == Relocation(relocated)
           r == relocated
<1>1. Halfway'
  BY DEF Halfway
<1>2. /\ a \in Args /\ (a.how # "make" => a.from < size_)
      /\ a.how = (IF relocation = "copy" THEN "copy" ELSE "move") /\ a.from = r
      /\ relocation \in {"copy", "riskyMove"}
  BY RelocationArg DEF Relocation, MayThrow, IInv, TypeOK
<1>3. \A i \in 0..(size_ - 1) :
        Element(i)' = Element(i) \/ (Element(i)' = Moved /\ relocation = "riskyMove")
  <2>1. CASE heap' = heap
    BY <2>1 DEF Element
  <2>2. CASE heap' = Spent(heap, a)
    BY <1>2, <2>2, Growing, SpentSlots DEF Element
  <2>. QED BY <2>1, <2>2
<1>4. ASSUME NEW i \in 0..(size_ - 1)
      PROVE  \/ Element(i) = Stored(i)
             \/ Element(i) = Moved /\ (relocation = "riskyMove" \/ i + 1 \in Giving)
  <2>1. CASE appended /\ arg.how = "move" /\ arg.from = i
    BY <2>1 DEF Halfway, Giving, IInv, Progress
  <2>2. CASE ~(appended /\ arg.how = "move" /\ arg.from = i) /\ i < r
    <3>1. Stored(i) = heap[new_data].slot[i] /\ i \in 0..(r - 1)
      BY <2>2, Growing DEF Stored
    <3>. QED BY <1>2, <3>1 DEF Halfway
  <2>3. CASE ~(appended /\ arg.how = "move" /\ arg.from = i) /\ ~(i < r)
    BY <2>3 DEF Stored
  <2>. QED BY <2>1, <2>2, <2>3
<1>5. \A i \in 0..(size_ - 1) : Stored(i)' = Element(i)'
  BY Growing, StoredOutsideNext
<1>6. Giving' = {}
  BY DEF Giving
<1>. QED BY <1>1, <1>3, <1>4, <1>5, <1>6, GivingFacts, AbstractLose

LEMMA GrownIsTwice ==
  ASSUME VectorAssumption, capacity_ \in 0..Limit, capacity_ < Limit
  PROVE  GrownCapacity = Object!Twice(capacity_)
<1>1. CASE capacity_ = 0
  BY <1>1 DEF GrownCapacity, Object!Twice
<1>2. CASE capacity_ # 0 /\ capacity_ > Limit \div 2
  <2>1. 2 * capacity_ > Limit
    BY <1>2 DEF VectorAssumption
  <2>. QED BY <1>2, <2>1 DEF GrownCapacity, Object!Twice
<1>3. CASE capacity_ # 0 /\ ~(capacity_ > Limit \div 2)
  <2>1. 2 * capacity_ <= Limit /\ 2 * capacity_ \in 0..(SizeMod - 1)
    BY <1>3 DEF VectorAssumption
  <2>2. (2 * capacity_) % SizeMod = 2 * capacity_
    BY <2>1 DEF VectorAssumption
  <2>3. ~(2 * capacity_ > Limit)
    BY <2>1 DEF VectorAssumption
  <2>. QED BY <1>3, <2>2, <2>3 DEF GrownCapacity, Object!Twice
<1>. QED BY <1>1, <1>2, <1>3

(* What the new block holds becomes the contents. *)
LEMMA CommitSim ==
  ASSUME VectorAssumption, IInv, IInv', Halfway, Commit
  PROVE  Halfway' /\ Object!Next
<1> USE DEF Commit, Installed, Return
<1> DEFINE new(i) == heap[new_data].slot[i]
<1>1. Halfway'
  BY DEF Halfway
<1>2. /\ new_data \in Blocks /\ data_ # new_data
      /\ size_ \in Nat /\ relocated = size_ /\ appended \in BOOLEAN
      /\ (appended <=> pc = "relocate")
      /\ \A i \in 0..(size_ - 1) : i \in Slots
      /\ pc = "relocate" => size_ \in Slots
  BY Growing DEF IInv, Progress
<1>3. \A t \in Slots : Element(t)' = new(t)
  <2>1. CASE data_ = NULL
    BY <2>1 DEF Element
  <2>2. CASE data_ # NULL
    <3>1. data_ \in Blocks
      BY <2>2 DEF IInv, TypeOK
    <3>. QED BY <1>2, <2>2, <3>1, Disposed DEF Element, IInv, TypeOK
  <2>. QED BY <2>1, <2>2
<1>4. \A i \in Nat : Stored(i)' = Element(i)'
  BY StoredOutsideNext
<1>5. \A i \in 1..size_ : i - 1 \in 0..(size_ - 1) /\ Contents[i] = Stored(i - 1)
  BY <1>2, ContentsFacts
<1>6. \A i \in 0..(size_ - 1) :
        Stored(i) = IF appended /\ arg.how = "move" /\ arg.from = i THEN new(size_) ELSE new(i)
  BY <1>2 DEF Stored
<1>7. Giving' = {} /\ pc' # "destroyed"
  BY NothingGivenNext
<1>8. CASE appended
  <2>1. size_' = size_ + 1 /\ pc = "relocate"
    BY <1>2, <1>8
  <2>2. new(size_) \in Elements
    <3>1. size_ \in Owned(new_data)
      BY <1>2, <1>8 DEF Owned
    <3>2. new(size_) # Raw
      BY <1>2, <2>1, <3>1 DEF IInv, Lifetimes, Living
    <3>. QED BY <1>2, <2>1, <3>2 DEF IInv, TypeOK, Heaps
  <2>3. Giving = IF arg.how = "move" THEN {arg.from + 1} ELSE {}
    BY DEF Giving
  <2>4. \A i \in Giving : new(size_) = Contents[i]
    <3>1. ASSUME arg.how = "move" PROVE Contents[arg.from + 1] = new(size_)
      <4>1. arg.from \in 0..(size_ - 1) /\ arg.from + 1 \in 1..size_ /\ (arg.from + 1) - 1 = arg.from
        BY <1>2, <3>1, GivingFacts
      <4>. QED BY <1>5, <1>6, <1>8, <3>1, <4>1
    <3>. QED BY <2>3, <3>1
  <2>5. ASSUME NEW i \in 1..size_
        PROVE  Contents'[i] = IF i \in Giving THEN Moved ELSE Contents[i]
    <3>1. i \in 1..(size_ + 1) /\ i - 1 \in Nat /\ i - 1 \in Slots /\ (i - 1) + 1 = i
      BY <1>2, <1>5
    <3>2. Contents'[i] = new(i - 1)
      <4>1. Contents'[i] = Stored(i - 1)'
        BY <1>7, <2>1, <3>1, ContentsFactsNext
      <4>. QED BY <1>3, <1>4, <3>1, <4>1
    <3>3. CASE i \in Giving
      <4>1. arg.how = "move" /\ arg.from = i - 1 /\ arg.from < relocated
        BY <1>2, <2>3, <3>1, <3>3, GivingFacts
      <4>2. new(arg.from) = Moved
        BY <2>1, <4>1 DEF Halfway
      <4>. QED BY <3>2, <3>3, <4>1, <4>2
    <3>4. CASE i \notin Giving
      <4>1. ~(arg.how = "move" /\ arg.from = i - 1)
        BY <2>3, <3>1, <3>4
      <4>2. Contents[i] = new(i - 1)
        BY <1>5, <1>6, <4>1
      <4>. QED BY <3>2, <3>4, <4>2
    <3>. QED BY <3>3, <3>4
  <2>6. Contents'[size_ + 1] = new(size_)
    <3>1. PICK n \in Nat : n = size_
      BY <1>2
    <3>2. n + 1 \in 1..(size_ + 1) /\ (n + 1) - 1 = n
      BY <3>1
    <3>3. Contents'[n + 1] = Stored(n)'
      BY <1>7, <2>1, <3>1, <3>2, ContentsFactsNext
    <3>. QED BY <1>2, <1>3, <1>4, <2>1, <3>1, <3>3
  <2>7. capacity_' = IF size_ = capacity_ THEN Object!Twice(capacity_) ELSE capacity_
    BY <2>1, GrownIsTwice DEF IInv, TypeOK, Progress
  <2>. QED BY <1>1, <1>7, <2>1, <2>2, <2>4, <2>5, <2>6, <2>7, AbstractPush
<1>9. CASE ~appended
  <2>1. size_' = size_ /\ pc = "reserve" /\ arg = NoArg
    BY <1>2, <1>9 DEF Halfway
  <2>2. \A i \in 0..(size_ - 1) : Stored(i)' = Stored(i)
    BY <1>2, <1>3, <1>4, <1>6, <1>9
  <2>3. Contents' = Contents
    BY <1>7, <2>1, <2>2, SameContents
  <2>4. Giving = {}
    BY <2>1, NothingGiven
  <2>5. capacity_' \in (capacity_ + 1)..Limit
    <3>1. heap[new_data].size \in 0..Limit /\ capacity_ \in 0..Limit
      BY <1>2 DEF IInv, TypeOK, Heaps
    <3>2. capacity_ < heap[new_data].size
      BY <2>1 DEF IInv, Progress
    <3>. QED BY <3>1, <3>2 DEF VectorAssumption
  <2>. QED BY <1>1, <1>7, <2>3, <2>4, <2>5 DEF Object!Next, Object!Reserve
<1>. QED BY <1>2, <1>8, <1>9

LEMMA UnwindSim ==
  ASSUME VectorAssumption, IInv, IInv', Halfway, Unwind
  PROVE  Halfway' /\ UNCHANGED Object!vars
<1> USE DEF Unwind, Installed, Return
<1>1. Halfway'
  BY DEF Halfway
<1>2. \A i \in 0..(size_ - 1) : Element(i)' = Element(i)
  BY Growing, Disposed DEF Element, IInv, TypeOK
<1>3. \A i \in 0..(size_ - 1) : Stored(i)' = Stored(i)
  BY <1>2, Growing, StoredOutside, StoredOutsideNext
<1>4. Contents' = Contents
  BY <1>3, SameContents
<1>5. Giving' = Giving
  BY NothingGivenNext DEF Giving
<1>. QED BY <1>1, <1>4, <1>5, AbstractStutter

LEMMA PopBackSim ==
  ASSUME VectorAssumption, IInv, IInv', Halfway, PopBack
  PROVE  Halfway' /\ Object!Next
<1> USE DEF PopBack
<1>1. Halfway'
  BY DEF Halfway
<1>2. size_ \in Nat /\ size_ - 1 \in Nat
  BY DEF IInv, TypeOK
<1>3. \A i \in 0..(size_ - 1) : data_ \in Blocks /\ i \in Slots
  BY ElementLives
<1>4. \A t \in Slots : t # size_ - 1 => Element(t)' = Element(t)
  <2>1. data_ \in Blocks /\ size_ - 1 \in Slots /\ heap \in Heaps /\ Raw \in Elements \cup {Raw}
    BY <1>2, <1>3 DEF IInv, TypeOK
  <2>. QED BY <2>1, PutSlot DEF Element
<1>5. \A i \in 1..(size_ - 1) : Contents'[i] = Contents[i]
  <2>1. \A i \in 1..(size_ - 1) : /\ i \in 1..size_ /\ i - 1 \in 0..(size_ - 1)
                                  /\ i - 1 # size_ - 1 /\ i - 1 \in Nat
    BY <1>2
  <2>2. \A i \in 1..(size_ - 1) : Contents'[i] = Stored(i - 1)' /\ Contents[i] = Stored(i - 1)
    BY <2>1, ContentsFacts, ContentsFactsNext
  <2>. QED BY <1>3, <1>4, <2>1, <2>2, StoredOutside, StoredOutsideNext
<1>6. Contents' = [i \in 1..(size_ - 1) |-> Contents'[i]]
  BY ContentsFactsNext
<1>7. SubSeq(Contents, 1, Len(Contents) - 1) = [i \in 1..(size_ - 1) |-> Contents[i]]
  BY <1>2, ContentsFacts
<1>8. Contents' = SubSeq(Contents, 1, Len(Contents) - 1) /\ Contents # <<>>
  BY <1>2, <1>5, <1>6, <1>7, ContentsFacts
<1>9. Giving' = Giving
  BY DEF Giving
<1>. QED BY <1>1, <1>8, <1>9 DEF Object!Next, Object!Pop

LEMMA ClearSim ==
  ASSUME VectorAssumption, IInv, Halfway, Clear \/ Destroy
  PROVE  Halfway' /\ Object!Next
<1>1. pc = "idle" /\ pc' \in {"idle", "destroyed"} /\ size_' = 0 /\ arg' = arg
      /\ UNCHANGED <<relocation, capacity_>>
  BY DEF Clear, Destroy
<1>2. Halfway'
  BY <1>1 DEF Halfway
<1>3. Contents' = <<>>
  BY <1>1 DEF Contents
<1>4. Giving' = Giving
  BY <1>1 DEF Giving
<1>. QED BY <1>1, <1>2, <1>3, <1>4 DEF Object!Next, Object!Clear

LEMMA InitSim ==
  ASSUME VectorAssumption, Init
  PROVE  Halfway /\ Object!Init
<1>1. Halfway
  BY DEF Init, Halfway
<1>2. Contents = <<>>
  BY DEF Init, Contents
<1>3. Giving = {}
  BY NothingGiven DEF Init
<1>. QED BY <1>1, <1>2, <1>3 DEF Init, Object!Init

LEMMA StepSim ==
  VectorAssumption /\ IInv /\ IInv' /\ Halfway /\ [Next]_vars
    => Halfway' /\ [Object!Next]_(Object!vars)
<1> SUFFICES ASSUME VectorAssumption, IInv, IInv', Halfway, [Next]_vars
             PROVE  Halfway' /\ [Object!Next]_(Object!vars)
  OBVIOUS
<1>1. CASE Gone \/ UNCHANGED vars
  <2>1. UNCHANGED vars
    BY <1>1 DEF Gone
  <2>2. Halfway'
    BY <2>1 DEF vars, members, local, history, Halfway, Element
  <2>3. Contents' = Contents /\ Giving' = Giving
    BY <2>1 DEF vars, members, local, history, Contents, Giving, Stored, Element
  <2>4. capacity_' = capacity_ /\ relocation' = relocation
    BY <2>1 DEF vars, members
  <2>. QED BY <2>2, <2>3, <2>4, AbstractStutter
<1>. QED
  BY <1>1, EmplaceBackSim, InPlaceSim, InPlaceThrowsSim, GrowSim, GrowRefusedSim, AppendFirstSim,
     AppendThrowsSim, ReserveSim, RelocateSim, RelocateThrowsSim, CommitSim, UnwindSim, PopBackSim,
     ClearSim DEF Next

(* A call takes effect as a whole, or throws and leaves the vector as it was
   but for what it moved from where a move may throw.  (L71-89, L128-146.) *)
THEOREM WholeOrNothing == Spec => ImplementsVector
<1>1. Init => Halfway /\ Object!Init
  BY VectorAssumption, InitSim
<1>2. IInv /\ IInv' /\ Halfway /\ [Next]_vars => Halfway' /\ [Object!Next]_(Object!vars)
  BY VectorAssumption, StepSim
<1>. QED BY <1>1, <1>2, Inductive, PTL DEF Spec, ImplementsVector, Object!Spec
=============================================================================
