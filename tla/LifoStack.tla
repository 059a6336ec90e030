------------------------------ MODULE LifoStack ------------------------------
(***************************************************************************)
(* What a concurrent stack promises: every operation takes effect at one   *)
(* instant, a pop takes the most recent value that is left, and it finds   *)
(* nothing only when there is nothing.                                     *)
(***************************************************************************)
EXTENDS Naturals, Sequences

CONSTANTS Threads, Values, Empty, Nothing

VARIABLES
  stack,  \* the values, the most recent first
  got     \* per thread, what its pop has taken: a value, Empty, or Nothing yet

vars == <<stack, got>>

Init == stack = <<>> /\ got = [t \in Threads |-> Nothing]

Push(v) == stack' = <<v>> \o stack /\ UNCHANGED got

Pop(t) ==
  /\ got[t] = Nothing
  /\ IF stack = <<>>
       THEN got' = [got EXCEPT ![t] = Empty] /\ UNCHANGED stack
       ELSE got' = [got EXCEPT ![t] = Head(stack)] /\ stack' = Tail(stack)

Return(t) == got[t] # Nothing /\ got' = [got EXCEPT ![t] = Nothing] /\ UNCHANGED stack

Next == (\E v \in Values : Push(v)) \/ \E t \in Threads : Pop(t) \/ Return(t)

Spec == Init /\ [][Next]_vars
=============================================================================
