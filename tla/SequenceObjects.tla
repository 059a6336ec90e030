--------------------------- MODULE SequenceObjects ---------------------------
(***************************************************************************)
(* Objects that each hold a sequence, as the callers of ds::List, the      *)
(* doubly linked list and CompactString see them: an operation changes the *)
(* sequences as a whole or, when it throws, leaves them as they were.      *)
(***************************************************************************)
EXTENDS Naturals, Sequences

CONSTANTS
  Objects,
  Items,
  Literals,  \* the sequences an object may be constructed with
  Moved,     \* what a move leaves in an element
  Gone       \* in place of the sequence of an object that does not exist

VARIABLE content  \* the sequence of every object

Alive(o) == content[o] # Gone

Becomes(o, s) == content' = [content EXCEPT ![o] = s]

Init == content \in [Objects -> {<<>>, Gone}]

Construct(o) == ~ Alive(o) /\ \E s \in Literals : Becomes(o, s)

Destroy(o) == Alive(o) /\ Becomes(o, Gone)

InsertItem(o) ==
  /\ Alive(o)
  /\ \E i \in 0..Len(content[o]), v \in Items :
       Becomes(o, SubSeq(content[o], 1, i) \o <<v>> \o SubSeq(content[o], i + 1, Len(content[o])))

(* The elements i to j - 1 leave. *)
RemoveRange(o) ==
  /\ Alive(o)
  /\ \E i, j \in 1..(Len(content[o]) + 1) :
       i < j /\ Becomes(o, SubSeq(content[o], 1, i - 1) \o SubSeq(content[o], j, Len(content[o])))

Swap(o, p) ==
  /\ Alive(o) /\ Alive(p)
  /\ content' = [content EXCEPT ![o] = content[p], ![p] = content[o]]

(* Construction from another object, or assignment. *)
Copy(o, p) == Alive(p) /\ Becomes(o, content[p])

Move(o, p) ==
  /\ o # p /\ Alive(p)
  /\ content' = [content EXCEPT ![o] = content[p], ![p] = <<>>]

(* A move element by element that throws after the first k. *)
MoveStops(o, p) ==
  /\ o # p /\ Alive(o) /\ Alive(p)
  /\ \E k \in 0..(Len(content[p]) - 1) :
       content' = [content EXCEPT
         ![o] = SubSeq(content[p], 1, k),
         ![p] = [i \in 1..Len(content[p]) |-> IF i <= k THEN Moved ELSE content[p][i]]]

(* o is constructed as a piece of p, or as p followed by q. *)
Piece(o, p) ==
  /\ ~ Alive(o) /\ Alive(p)
  /\ \E i, j \in 0..Len(content[p]) : Becomes(o, SubSeq(content[p], i + 1, j))

Join(o, p, q) == ~ Alive(o) /\ Alive(p) /\ Alive(q) /\ Becomes(o, content[p] \o content[q])

Next ==
  \E o \in Objects :
    \/ Construct(o) \/ Destroy(o) \/ InsertItem(o) \/ RemoveRange(o)
    \/ \E p \in Objects : Swap(o, p) \/ Copy(o, p) \/ Move(o, p) \/ MoveStops(o, p) \/ Piece(o, p)
    \/ \E p, q \in Objects : Join(o, p, q)

Spec == Init /\ [][Next]_content
=============================================================================
