-------------------------- MODULE ParallelAccumulate --------------------------
(***************************************************************************)
(* parallel_accumulate of concurrency/accumulate.cpp: the range is cut     *)
(* into blocks, a thread adds up each but the last, and the caller adds up *)
(* the last, joins and adds up the results.  Addition is concatenation, as *)
(* in the example with strings, so order and every element count.          *)
(***************************************************************************)
EXTENDS Naturals, Sequences, FiniteSets, SequencesExt

CONSTANTS
  MaxLength,            \* bound on the length of the range; its elements are 1, 2, ...
  MaxHardwareThreads,   \* bound on hardware_concurrency
  min_per_thread

VARIABLES
  length, hardware_threads,
  block_start,  \* one after the elements given out so far
  started,      \* the first and last element of each thread's block, in order
  results,      \* what each block adds up to
  ended,        \* the threads that have ended
  total         \* what the function returns, or <<>> before

vars == <<length, hardware_threads, block_start, started, results, ended, total>>

least(a, b) == IF a < b THEN a ELSE b

max_threads == (length + min_per_thread - 1) \div min_per_thread

num_threads == least(IF hardware_threads # 0 THEN hardware_threads ELSE 2, max_threads)

block_size == length \div num_threads

(* The initial value is an element 0; an empty range returns at once. *)
Init ==
  /\ length \in 0..MaxLength /\ hardware_threads \in 0..MaxHardwareThreads
  /\ block_start = 1 /\ started = <<>> /\ ended = {}
  /\ results = [i \in 1..num_threads |-> <<>>]
  /\ total = IF length = 0 THEN <<0>> ELSE <<>>

StartThread ==
  /\ length > 0 /\ Len(started) < num_threads - 1
  /\ started' = Append(started, <<block_start, block_start + block_size - 1>>)
  /\ block_start' = block_start + block_size
  /\ UNCHANGED <<length, hardware_threads, results, ended, total>>

Sum(first, last) == [i \in 1..(last + 1 - first) |-> first + i - 1]

(* A thread stores what it accumulated. *)
accumulate_block(i) ==
  /\ i \in DOMAIN started /\ i \notin ended
  /\ results' = [results EXCEPT ![i] = Sum(started[i][1], started[i][2])]
  /\ ended' = ended \union {i}
  /\ UNCHANGED <<length, hardware_threads, block_start, started, total>>

(* The caller's own block has what the division left over, too. *)
LastBlock ==
  /\ length > 0 /\ Len(started) = num_threads - 1 /\ num_threads \notin ended
  /\ results' = [results EXCEPT ![num_threads] = Sum(block_start, length)]
  /\ ended' = ended \union {num_threads}
  /\ UNCHANGED <<length, hardware_threads, block_start, started, total>>

(* All threads are joined before the results are added up. *)
Join ==
  /\ total = <<>> /\ ended = 1..num_threads
  /\ total' = <<0>> \o FlattenSeq(results)
  /\ UNCHANGED <<length, hardware_threads, block_start, started, results, ended>>

Next == StartThread \/ LastBlock \/ Join \/ \E i \in 1..MaxHardwareThreads : accumulate_block(i)

Spec == Init /\ [][Next]_vars

-----------------------------------------------------------------------------
(* The result is that of std::accumulate: the initial value, then every
   element once, in order. *)
AddsEveryElement == total # <<>> => total = [i \in 1..(length + 1) |-> i - 1]
=============================================================================
