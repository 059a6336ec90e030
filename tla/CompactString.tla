---------------------------- MODULE CompactString ----------------------------
(***************************************************************************)
(* The strings of strings/compact.hpp: up to BUFFER_SIZE characters live   *)
(* in the object and longer ones in a block of the heap that it owns.      *)
(***************************************************************************)
EXTENDS Naturals, Sequences, FiniteSets, SequencesExt

CONSTANTS
  Strings,      \* the string objects
  Chars,
  Texts,        \* the texts strings are constructed from
  BUFFER_SIZE,
  MaxLength,    \* bound on the length of the strings of the model
  Blocks,       \* heap blocks; new throws when none is left
  None          \* nullptr, no string, a character that was never written

VARIABLES
  object,  \* buffer, length and heap_ptr of each string, or None
  block    \* the characters of each allocated block, or None

vars == <<object, block>>

Init == object = [s \in Strings |-> None] /\ block = [b \in Blocks |-> None]

Alive(s) == object[s] # None

is_small(length) == length <= BUFFER_SIZE

(* n characters that begin with text; what lies behind it was never written or
   is left over, and must not be read. *)
Room(n, text) == [i \in 1..n |-> IF i <= Len(text) THEN text[i] ELSE None]

Content(s) ==
  LET o == object[s]
  IN  SubSeq(IF is_small(o.length) THEN o.buffer ELSE block[o.heap_ptr], 1, o.length)

FreeBlocks == {b \in Blocks : block[b] = None}

(* An object that holds text, in the block b if it is long. *)
Holding(text, b) ==
  [buffer |-> Room(BUFFER_SIZE, IF is_small(Len(text)) THEN text ELSE <<>>),
   length |-> Len(text),
   heap_ptr |-> IF is_small(Len(text)) THEN None ELSE b]

(* new char[length] and what is copied there; it throws without a free block. *)
Allocated(text, b) == IF is_small(Len(text)) THEN block ELSE [block EXCEPT ![b] = text]

CanHold(text) == Len(text) <= MaxLength /\ (is_small(Len(text)) \/ FreeBlocks # {})

Construct(s, text) ==
  LET b == CHOOSE f \in FreeBlocks \union {None} : f = None <=> FreeBlocks = {}
  IN  /\ ~ Alive(s) /\ CanHold(text)
      /\ object' = [object EXCEPT ![s] = Holding(text, b)]
      /\ block' = Allocated(text, b)

FromText(s) == \E text \in Texts : Construct(s, text)

CopyConstruct(s, o) == Alive(o) /\ Construct(s, Content(o))

(* Mutant: the second text is copied to the beginning. *)
concat_Overwrites(s, p, o) ==
  /\ Alive(p) /\ Alive(o)
  /\ Construct(s, Room(Len(Content(p)) + Len(Content(o)), Content(o)))

concat(s, p, o) == Alive(p) /\ Alive(o) /\ Construct(s, Content(p) \o Content(o))

substr(s, o) ==
  /\ Alive(o)
  /\ \E pos \in 0..object[o].length : \E count \in 0..(object[o].length - pos) :
       Construct(s, SubSeq(Content(o), pos + 1, pos + count))

(* What a move makes of its target and its source. *)
Target(o) ==
  [buffer |-> Room(BUFFER_SIZE, IF is_small(o.length) THEN SubSeq(o.buffer, 1, o.length) ELSE <<>>),
   length |-> o.length,
   heap_ptr |-> IF is_small(o.length) THEN None ELSE o.heap_ptr]

Source(o) ==
  [buffer |-> Room(BUFFER_SIZE, <<>>), length |-> 0,
   heap_ptr |-> IF is_small(o.length) THEN o.heap_ptr ELSE None]

MoveConstruct(s, o) ==
  /\ ~ Alive(s) /\ Alive(o)
  /\ object' = [object EXCEPT ![s] = Target(object[o]), ![o] = Source(object[o])]
  /\ UNCHANGED block

(* delete[] of a block, or of nullptr. *)
Deleted(heap, b) == IF b = None THEN heap ELSE [heap EXCEPT ![b] = None]

(* Mutant: the block of the target is not deleted. *)
MoveAssign_Leaks(s, o) ==
  /\ s # o /\ Alive(s) /\ Alive(o)
  /\ object' = [object EXCEPT ![s] = Target(object[o]), ![o] = Source(object[o])]
  /\ UNCHANGED block

MoveAssign(s, o) ==
  /\ s # o /\ Alive(s) /\ Alive(o)
  /\ object' = [object EXCEPT ![s] = Target(object[o]), ![o] = Source(object[o])]
  /\ block' = Deleted(block, object[s].heap_ptr)

(* A copy into tmp that is then moved; when new throws nothing has changed. *)
CopyAssign(s, o) ==
  LET text == Content(o)
      b == CHOOSE f \in FreeBlocks \union {None} : f = None <=> FreeBlocks = {}
  IN  /\ s # o /\ Alive(s) /\ Alive(o) /\ CanHold(text)
      /\ object' = [object EXCEPT ![s] = Target(Holding(text, b))]
      /\ block' = Deleted(Allocated(text, b), object[s].heap_ptr)

Destroy(s) ==
  /\ Alive(s)
  /\ object' = [object EXCEPT ![s] = None]
  /\ block' = Deleted(block, object[s].heap_ptr)

Next ==
  \E s \in Strings :
    \/ FromText(s) \/ Destroy(s)
    \/ \E o \in Strings : CopyConstruct(s, o) \/ MoveConstruct(s, o) \/ CopyAssign(s, o) \/ MoveAssign(s, o) \/ substr(s, o)
    \/ \E p, o \in Strings : concat(s, p, o)

Spec == Init /\ [][Next]_vars

-----------------------------------------------------------------------------
(* A string has a block if and only if it is long, the block is large enough
   and its own, and every allocated block belongs to a string. *)
BlocksOwned ==
  LET owned == {s \in Strings : Alive(s) /\ object[s].heap_ptr # None}
  IN  /\ \A s \in Strings : Alive(s) => (s \in owned <=> ~ is_small(object[s].length))
      /\ \A s \in owned : block[object[s].heap_ptr] # None /\ Len(block[object[s].heap_ptr]) >= object[s].length
      /\ \A s, o \in owned : s # o => object[s].heap_ptr # object[o].heap_ptr
      /\ Blocks \ FreeBlocks = {object[s].heap_ptr : s \in owned}

Objects == INSTANCE SequenceObjects
  WITH Objects <- Strings, Items <- Chars, Literals <- Texts, Moved <- None, Gone <- None,
       content <- [s \in Strings |-> IF Alive(s) THEN Content(s) ELSE None]

(* The strings behave as sequences of characters wherever those are kept. *)
ImplementsSequences == Objects!Spec
=============================================================================
