------------------------------ MODULE UniquePtr ------------------------------
(***************************************************************************)
(* SimpleUniquePtr of impl/simple_unique_ptr.cpp, which owns one object.   *)
(* Its move assignment compares a pointer with an object and does not      *)
(* compile when it is used, so no program has it.                          *)
(***************************************************************************)
EXTENDS FiniteSets

CONSTANTS
  Pointers,  \* the SimpleUniquePtr objects
  Widgets,   \* addresses of what they own
  Null,      \* nullptr
  NoPointer  \* in place of ptr_ where no pointer exists

VARIABLES
  ptr_,  \* what each pointer owns
  made,  \* the objects that exist
  raw    \* the objects that were released to the caller, who has to delete them

vars == <<ptr_, made, raw>>

Init == ptr_ = [p \in Pointers |-> NoPointer] /\ made = {} /\ raw = {}

Alive(p) == ptr_[p] # NoPointer

(* make_simple_unique, the constructor from a pointer of the caller's, and the
   default one. *)
Make(p) ==
  /\ ~ Alive(p)
  /\ \E w \in (Widgets \ made) \union raw \union {Null} :
       ptr_' = [ptr_ EXCEPT ![p] = w] /\ made' = made \union ({w} \ {Null}) /\ raw' = raw \ {w}

MoveConstruct(p, o) ==
  /\ ~ Alive(p) /\ Alive(o)
  /\ ptr_' = [ptr_ EXCEPT ![p] = ptr_[o], ![o] = Null]
  /\ UNCHANGED <<made, raw>>

Destroy(p) ==
  /\ Alive(p)
  /\ ptr_' = [ptr_ EXCEPT ![p] = NoPointer]
  /\ made' = made \ {ptr_[p]}
  /\ UNCHANGED raw

release(p) ==
  /\ Alive(p)
  /\ ptr_' = [ptr_ EXCEPT ![p] = Null]
  /\ raw' = raw \union ({ptr_[p]} \ {Null})
  /\ UNCHANGED made

(* Mutant: the old object is deleted though it is the new one. *)
reset_Unguarded(p) ==
  /\ Alive(p)
  /\ \E new_ptr \in raw \union (Widgets \ made) \union {Null, ptr_[p]} :
       /\ ptr_' = [ptr_ EXCEPT ![p] = new_ptr]
       /\ made' = (made \union ({new_ptr} \ {Null})) \ {ptr_[p]}
       /\ raw' = raw \ {new_ptr}

(* The object new_ptr belongs to the caller, is made for the call, is nullptr,
   or is the one that p owns, for which nothing happens.  The old one is deleted
   after the new one was made. *)
reset(p) ==
  /\ Alive(p)
  /\ \E new_ptr \in raw \union (Widgets \ made) \union {Null, ptr_[p]} :
       IF new_ptr = ptr_[p] THEN UNCHANGED vars
       ELSE /\ ptr_' = [ptr_ EXCEPT ![p] = new_ptr]
            /\ made' = (made \union ({new_ptr} \ {Null})) \ {ptr_[p]}
            /\ raw' = raw \ {new_ptr}

swap(p, o) ==
  /\ Alive(p) /\ Alive(o)
  /\ ptr_' = [ptr_ EXCEPT ![p] = ptr_[o], ![o] = ptr_[p]]
  /\ UNCHANGED <<made, raw>>

(* The caller deletes what was released to it. *)
Delete == \E w \in raw : raw' = raw \ {w} /\ made' = made \ {w} /\ UNCHANGED ptr_

Next ==
  \/ Delete
  \/ \E p \in Pointers :
       \/ Make(p) \/ Destroy(p) \/ release(p) \/ reset(p)
       \/ \E o \in Pointers : MoveConstruct(p, o) \/ swap(p, o)

Spec == Init /\ [][Next]_vars

-----------------------------------------------------------------------------
(* Every object that exists has one owner, and no pointer owns another. *)
OneOwner ==
  LET owns == {p \in Pointers : ptr_[p] \notin {Null, NoPointer}}
  IN  /\ made = raw \union {ptr_[p] : p \in owns}
      /\ \A p \in owns : ptr_[p] \notin raw
      /\ \A p, o \in owns : ptr_[p] = ptr_[o] => p = o
=============================================================================
