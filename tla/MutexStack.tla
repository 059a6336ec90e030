------------------------------ MODULE MutexStack ------------------------------
(***************************************************************************)
(* ThreadSafe_Stack of concurrency/my_stack.cpp (and the same class of     *)
(* lock_base_stack.cpp) in its example with several producers: each pushes *)
(* its values, main joins them and takes everything with empty() and       *)
(* pop(), which lock the mutex one after the other.                        *)
(***************************************************************************)
EXTENDS Naturals, Sequences, FiniteSets, SequencesExt

CONSTANTS
  Producers,
  PerProducer   \* how many values each pushes


VARIABLES
  data,    \* the stack, its top last; <<producer, i>> is a producer's i-th value
  pushed,  \* how many values each producer has pushed
  main,    \* what main does next: join, empty, pop, done, or the throw of pop
  taken    \* what main has popped

vars == <<data, pushed, main, taken>>

Init ==
  /\ data = <<>> /\ taken = <<>> /\ main = "join"
  /\ pushed = [p \in Producers |-> 0]

push(p) ==
  /\ pushed[p] < PerProducer
  /\ data' = Append(data, <<p, pushed[p] + 1>>)
  /\ pushed' = [pushed EXCEPT ![p] = @ + 1]
  /\ UNCHANGED <<main, taken>>

join ==
  /\ main = "join" /\ \A p \in Producers : pushed[p] = PerProducer
  /\ main' = "empty"
  /\ UNCHANGED <<data, pushed, taken>>

empty ==
  /\ main = "empty"
  /\ main' = IF data = <<>> THEN "done" ELSE "pop"
  /\ UNCHANGED <<data, pushed, taken>>

pop ==
  /\ main = "pop"
  /\ IF data = <<>>
       THEN main' = "empty_stack" /\ UNCHANGED <<data, taken>>
       ELSE /\ taken' = Append(taken, data[Len(data)])
            /\ data' = SubSeq(data, 1, Len(data) - 1)
            /\ main' = "empty"
  /\ UNCHANGED pushed

Next == (\E p \in Producers : push(p)) \/ join \/ empty \/ pop

Spec == Init /\ [][Next]_vars

-----------------------------------------------------------------------------
(* Main ends with every value that was pushed, each producer's in the reverse
   of the order of its pushes, and pop never throws. *)
DrainsAll ==
  /\ main # "empty_stack"
  /\ main = "done" =>
       /\ Len(taken) = Cardinality(Producers) * PerProducer
       /\ \A p \in Producers, i \in 1..PerProducer : \E j \in DOMAIN taken : taken[j] = <<p, i>>
       /\ \A j, k \in DOMAIN taken : j < k /\ taken[j][1] = taken[k][1] => taken[k][2] < taken[j][2]
=============================================================================
