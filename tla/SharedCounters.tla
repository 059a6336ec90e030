---------------------------- MODULE SharedCounters ----------------------------
(***************************************************************************)
(* Two small programs whose threads share a counter.  In                   *)
(* cthreads/badcnt.c two threads increment cnt under a semaphore, and main *)
(* joins them and compares.  In sample_boost/timer.cpp two timers count to *)
(* ten together: two threads run the io_context, and a strand is to keep   *)
(* the handlers print1 and print2 apart.  A load and the store of an       *)
(* increment are steps of their own.                                       *)
(***************************************************************************)
EXTENDS Naturals, FiniteSets

CONSTANTS
  Threads,  \* of badcnt.c
  niters,
  Timers,   \* timer1_ and timer2_
  Limit     \* 10 in the code

VARIABLES
  cnt, mutex,  \* the counter of badcnt.c and its semaphore
  done,        \* the iterations that each thread has finished
  at, loaded,  \* what each thread does next, and the value it has loaded
  verdict,     \* what main printed
  count_,      \* the counter of printer_multi
  handler,     \* each timer: waiting, its handler about to test, load or store, off
  read         \* the value of count_ that each handler has loaded

vars == <<cnt, mutex, done, at, loaded, verdict, count_, handler, read>>

badcnt == <<cnt, mutex, done, at, loaded, verdict>>
printer_multi == <<count_, handler, read>>

Init ==
  /\ cnt = 0 /\ mutex = 1 /\ verdict = "none"
  /\ done = [t \in Threads |-> 0]
  /\ at = [t \in Threads |-> "wait"]
  /\ loaded = [t \in Threads |-> 0]
  /\ count_ = 0
  /\ handler = [t \in Timers |-> "waiting"]
  /\ read = [t \in Timers |-> 0]

sem_wait(t) ==
  /\ at[t] = "wait" /\ done[t] < niters /\ mutex > 0
  /\ mutex' = mutex - 1
  /\ at' = [at EXCEPT ![t] = "load"]
  /\ UNCHANGED <<cnt, done, loaded, verdict, printer_multi>>

Load(t) ==
  /\ at[t] = "load"
  /\ loaded' = [loaded EXCEPT ![t] = cnt]
  /\ at' = [at EXCEPT ![t] = "store"]
  /\ UNCHANGED <<cnt, mutex, done, verdict, printer_multi>>

Store(t) ==
  /\ at[t] = "store"
  /\ cnt' = loaded[t] + 1
  /\ at' = [at EXCEPT ![t] = "post"]
  /\ UNCHANGED <<mutex, done, loaded, verdict, printer_multi>>

sem_post(t) ==
  /\ at[t] = "post"
  /\ mutex' = mutex + 1
  /\ done' = [done EXCEPT ![t] = @ + 1]
  /\ at' = [at EXCEPT ![t] = "wait"]
  /\ UNCHANGED <<cnt, loaded, verdict, printer_multi>>

(* Main joins both threads and checks the counter. *)
Check ==
  /\ verdict = "none" /\ \A t \in Threads : done[t] = niters
  /\ verdict' = IF cnt # Cardinality(Threads) * niters THEN "BOOM" ELSE "OK"
  /\ UNCHANGED <<cnt, mutex, done, at, loaded, printer_multi>>

-----------------------------------------------------------------------------
(* Mutant: the handlers are not bound to the strand. *)
Fire_Unbound(t) ==
  /\ handler[t] = "waiting"
  /\ handler' = [handler EXCEPT ![t] = "test"]
  /\ UNCHANGED <<count_, read, badcnt>>

(* The timer expires and the strand starts its handler. *)
Fire(t) ==
  /\ handler[t] = "waiting"
  /\ \A u \in Timers : handler[u] \in {"waiting", "off"}
  /\ handler' = [handler EXCEPT ![t] = "test"]
  /\ UNCHANGED <<count_, read, badcnt>>

(* if (count_ < 10) *)
Test(t) ==
  /\ handler[t] = "test"
  /\ handler' = [handler EXCEPT ![t] = IF count_ < Limit THEN "load" ELSE "off"]
  /\ UNCHANGED <<count_, read, badcnt>>

(* count_++ *)
LoadCount(t) ==
  /\ handler[t] = "load"
  /\ read' = [read EXCEPT ![t] = count_]
  /\ handler' = [handler EXCEPT ![t] = "store"]
  /\ UNCHANGED <<count_, badcnt>>

(* The store, after which the timer waits again. *)
StoreCount(t) ==
  /\ handler[t] = "store"
  /\ count_' = read[t] + 1
  /\ handler' = [handler EXCEPT ![t] = "waiting"]
  /\ UNCHANGED <<read, badcnt>>

Next ==
  \/ \E t \in Threads : sem_wait(t) \/ Load(t) \/ Store(t) \/ sem_post(t)
  \/ Check
  \/ \E t \in Timers : Fire(t) \/ Test(t) \/ LoadCount(t) \/ StoreCount(t)

Spec == Init /\ [][Next]_vars

-----------------------------------------------------------------------------
(* No increment is lost: main prints OK; and the two timers count every value
   up to the limit once, whichever thread runs which handler. *)
NoLostCount ==
  /\ verdict # "BOOM"
  /\ (\A t \in Timers : handler[t] = "off") => count_ = Limit
=============================================================================
