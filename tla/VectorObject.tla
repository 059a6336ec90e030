----------------------------- MODULE VectorObject -----------------------------
(***************************************************************************)
(* What a user of a growing vector sees: its elements and its capacity.  A *)
(* call that throws changes nothing, but for elements that were moved from. *)
(***************************************************************************)
EXTENDS Integers, Sequences

CONSTANTS
  Values,
  Moved,  \* what is left of an element that was moved from
  Limit   \* the largest capacity there can be

VARIABLES
  contents, capacity,
  giving,   \* the places of the elements the caller moves from
  spoiling  \* may a failed relocation leave elements moved from?

vars == <<contents, capacity, giving, spoiling>>

Twice(n) == IF n = 0 THEN 1 ELSE IF 2 * n > Limit THEN Limit ELSE 2 * n

Init ==
  /\ contents = <<>>
  /\ capacity \in 0..Limit
  /\ giving = {}
  /\ spoiling \in BOOLEAN

(* A call starts, or throws and returns. *)
Enter == giving' \in {{}} \cup {{i} : i \in DOMAIN contents} /\ UNCHANGED <<contents, capacity>>

(* After the insertion the moved element is spent. *)
Append1(x) ==
  /\ contents' = Append([i \in DOMAIN contents |-> IF i \in giving THEN Moved ELSE contents[i]], x)
  /\ capacity' = IF Len(contents) = capacity THEN Twice(capacity) ELSE capacity
  /\ Len(contents') <= capacity'
  /\ giving' = {}

Push == \E x \in Values \cup {Moved} :
          /\ giving # {} => \A i \in giving : x = contents[i]
          /\ Append1(x)

Pop ==
  /\ contents # <<>>
  /\ contents' = SubSeq(contents, 1, Len(contents) - 1)
  /\ UNCHANGED <<capacity, giving>>

Clear == contents' = <<>> /\ UNCHANGED <<capacity, giving>>

Reserve == capacity' \in (capacity + 1)..Limit /\ UNCHANGED <<contents, giving>>

(* A constructor throws.  What that may cost: the element the caller gave away,
   and any element if relocating is not safe. *)
Lose ==
  /\ \E S \in SUBSET (IF spoiling THEN DOMAIN contents ELSE giving) :
       contents' = [i \in DOMAIN contents |-> IF i \in S THEN Moved ELSE contents[i]]
  /\ giving' = {}
  /\ UNCHANGED capacity

Next == (Enter \/ Push \/ Pop \/ Clear \/ Reserve \/ Lose) /\ UNCHANGED spoiling

Spec == Init /\ [][Next]_vars
=============================================================================
