--------------------------- MODULE ThreadsafeQueue ---------------------------
(***************************************************************************)
(* concurrency/thread_queue.cpp: threadsafe_queue and the threads around   *)
(* it.  What a thread does under queue_mutex is one action; a notification *)
(* comes after the unlock, so it is an action of its own, and a thread     *)
(* that waits on data_ready is asleep until it is notified or wakes up for *)
(* no reason, and then tests its predicate again.                          *)
(***************************************************************************)
EXTENDS Naturals, Sequences, FiniteSets, SequencesExt

CONSTANTS
  Workers,    \* threads in worker_loop: wait_and_pop until it returns nothing
  Producers,  \* threads that push their jobs
  Pollers,    \* threads that call try_pop once
  Closer,     \* the thread that closes the queue, at any time
  PerProducer \* how many jobs a producer pushes

ASSUME ThreadsafeQueueAssumption ==
  /\ IsFiniteSet(Workers) /\ IsFiniteSet(Producers) /\ IsFiniteSet(Pollers)
  /\ PerProducer \in Nat
  /\ Workers \cap (Producers \cup Pollers \cup {Closer}) = {}
  /\ Producers \cap (Pollers \cup {Closer}) = {}
  /\ Closer \notin Pollers

VARIABLES
  data_queue,  \* the jobs that wait
  closed,
  pc,          \* what each thread does next
  pushed,      \* how many of its jobs each producer has handed to push
  job,         \* the job a worker is busy with
  processed,   \* the jobs that were worked on, in the order of their end
  accepted,    \* history: the jobs that push took
  popped       \* history: the jobs that a pop returned

queueVars == <<data_queue, closed>>
vars == <<data_queue, closed, pc, pushed, job, processed, accepted, popped>>

Threads == Workers \cup Producers \cup Pollers \cup {Closer}

Jobs == Producers \X (1..PerProducer)

NoJob == <<>>

TypeOK ==
  /\ data_queue \in Seq(Jobs)
  /\ closed \in BOOLEAN
  /\ pc \in [Threads -> {"wait", "asleep", "work", "stopped", "push", "threw",
                         "notify", "poll", "close", "notifyAll", "done"}]
  /\ pushed \in [Producers -> 0..PerProducer]
  /\ job \in [Workers -> Jobs \cup {NoJob}]
  /\ processed \in Seq(Jobs)
  /\ accepted \in Seq(Jobs)
  /\ popped \in Seq(Jobs)

Init ==
  /\ data_queue = <<>>
  /\ closed = FALSE
  /\ pc = [t \in Threads |-> CASE t \in Workers   -> "wait"
                               [] t \in Producers -> "push"
                               [] t \in Pollers   -> "poll"
                               [] OTHER           -> "close"]
  /\ pushed = [p \in Producers |-> 0]
  /\ job = [w \in Workers |-> NoJob]
  /\ processed = <<>>
  /\ accepted = <<>>
  /\ popped = <<>>

At(t, here) == pc[t] = here

Goto(t, there) == pc' = [pc EXCEPT ![t] = there]

asleep == {w \in Workers : At(w, "asleep")}

-----------------------------------------------------------------------------
(* push *)

(* Mutant: a closed queue takes the job. *)
Push_Closed(p) ==
  /\ At(p, "push")
  /\ pushed[p] < PerProducer
  /\ data_queue' = Append(data_queue, <<p, pushed[p] + 1>>)
  /\ accepted' = Append(accepted, <<p, pushed[p] + 1>>)
  /\ pushed' = [pushed EXCEPT ![p] = @ + 1]
  /\ Goto(p, "notify")
  /\ UNCHANGED <<closed, job, processed, popped>>

(* Mutant: a job that finds others waiting notifies nobody. *)
Push_NotifiesFirst(p) ==
  /\ At(p, "push")
  /\ pushed[p] < PerProducer
  /\ ~closed
  /\ data_queue' = Append(data_queue, <<p, pushed[p] + 1>>)
  /\ accepted' = Append(accepted, <<p, pushed[p] + 1>>)
  /\ pushed' = [pushed EXCEPT ![p] = @ + 1]
  /\ IF data_queue = <<>> THEN Goto(p, "notify") ELSE UNCHANGED pc
  /\ UNCHANGED <<closed, job, processed, popped>>

Push(p) ==
  /\ At(p, "push")
  /\ pushed[p] < PerProducer
  /\ pushed' = [pushed EXCEPT ![p] = @ + 1]
  /\ IF closed
       THEN Goto(p, "threw") /\ UNCHANGED <<data_queue, accepted>>
       ELSE /\ data_queue' = Append(data_queue, <<p, pushed[p] + 1>>)
            /\ accepted' = Append(accepted, <<p, pushed[p] + 1>>)
            /\ Goto(p, "notify")
  /\ UNCHANGED <<closed, job, processed, popped>>

(* data_ready.notify_one(): some sleeper, if there is one. *)
NotifyOne(p) ==
  /\ At(p, "notify")
  /\ \/ asleep = {} /\ Goto(p, "push")
     \/ \E w \in asleep : pc' = [pc EXCEPT ![p] = "push", ![w] = "wait"]
  /\ UNCHANGED <<queueVars, pushed, job, processed, accepted, popped>>

Finish(p) ==
  /\ At(p, "push")
  /\ pushed[p] = PerProducer
  /\ Goto(p, "done")
  /\ UNCHANGED <<queueVars, pushed, job, processed, accepted, popped>>

-----------------------------------------------------------------------------
(* wait_and_pop and worker_loop *)

(* The predicate of the wait. *)
Ready == closed \/ data_queue # <<>>

Sleep(w) ==
  /\ At(w, "wait")
  /\ ~Ready
  /\ Goto(w, "asleep")
  /\ UNCHANGED <<queueVars, pushed, job, processed, accepted, popped>>

SpuriousWakeup(w) ==
  /\ At(w, "asleep")
  /\ Goto(w, "wait")
  /\ UNCHANGED <<queueVars, pushed, job, processed, accepted, popped>>

(* Mutant: the job stays at the front. *)
TakeFront_Copies ==
  /\ data_queue # <<>>
  /\ popped' = Append(popped, Head(data_queue))
  /\ UNCHANGED data_queue

TakeFront ==
  /\ data_queue # <<>>
  /\ data_queue' = Tail(data_queue)
  /\ popped' = Append(popped, Head(data_queue))

(* Mutant: closing takes effect at once, whatever is queued. *)
WaitAndPop_Abandons(w) ==
  /\ At(w, "wait")
  /\ Ready
  /\ IF closed
       THEN Goto(w, "stopped") /\ UNCHANGED <<data_queue, job, popped>>
       ELSE TakeFront /\ job' = [job EXCEPT ![w] = Head(data_queue)] /\ Goto(w, "work")
  /\ UNCHANGED <<closed, pushed, processed, accepted>>

WaitAndPop(w) ==
  /\ At(w, "wait")
  /\ Ready
  /\ IF data_queue = <<>>
       THEN Goto(w, "stopped") /\ UNCHANGED <<data_queue, job, popped>>
       ELSE TakeFront /\ job' = [job EXCEPT ![w] = Head(data_queue)] /\ Goto(w, "work")
  /\ UNCHANGED <<closed, pushed, processed, accepted>>

Process(w) ==
  /\ At(w, "work")
  /\ processed' = Append(processed, job[w])
  /\ job' = [job EXCEPT ![w] = NoJob]
  /\ Goto(w, "wait")
  /\ UNCHANGED <<queueVars, pushed, accepted, popped>>

TryPop(t) ==
  /\ At(t, "poll")
  /\ Goto(t, "done")
  /\ \/ TakeFront
     \/ data_queue = <<>> /\ UNCHANGED <<data_queue, popped>>
  /\ UNCHANGED <<closed, pushed, job, processed, accepted>>

-----------------------------------------------------------------------------
(* close *)

Close ==
  /\ At(Closer, "close")
  /\ closed' = TRUE
  /\ Goto(Closer, "notifyAll")
  /\ UNCHANGED <<data_queue, pushed, job, processed, accepted, popped>>

(* Mutant: one waiter is enough. *)
NotifyAll_One ==
  /\ At(Closer, "notifyAll")
  /\ \/ asleep = {} /\ Goto(Closer, "done")
     \/ \E w \in asleep : pc' = [pc EXCEPT ![Closer] = "done", ![w] = "wait"]
  /\ UNCHANGED <<queueVars, pushed, job, processed, accepted, popped>>

NotifyAll ==
  /\ At(Closer, "notifyAll")
  /\ pc' = [t \in Threads |-> IF t \in asleep THEN "wait"
                              ELSE IF t = Closer THEN "done" ELSE pc[t]]
  /\ UNCHANGED <<queueVars, pushed, job, processed, accepted, popped>>

(* Every thread has returned, or its push has thrown. *)
Finished ==
  /\ \A t \in Threads : pc[t] \in {"stopped", "done", "threw"}
  /\ UNCHANGED vars

Worker(w) == Sleep(w) \/ WaitAndPop(w) \/ Process(w)

(* Mutant: the notification comes before the job. *)
Producer_NotifiesFirst(p) ==
  \/ /\ At(p, "push")
     /\ pushed[p] < PerProducer
     /\ \/ asleep = {} /\ Goto(p, "notify")
        \/ \E w \in asleep : pc' = [pc EXCEPT ![p] = "notify", ![w] = "wait"]
     /\ UNCHANGED <<queueVars, pushed, job, processed, accepted, popped>>
  \/ /\ At(p, "notify")
     /\ data_queue' = Append(data_queue, <<p, pushed[p] + 1>>)
     /\ accepted' = Append(accepted, <<p, pushed[p] + 1>>)
     /\ pushed' = [pushed EXCEPT ![p] = @ + 1]
     /\ Goto(p, "push")
     /\ UNCHANGED <<closed, job, processed, popped>>
  \/ Finish(p)

Producer(p) == Push(p) \/ NotifyOne(p) \/ Finish(p)

Next ==
  \/ \E w \in Workers : Worker(w) \/ SpuriousWakeup(w)
  \/ \E p \in Producers : Producer(p)
  \/ \E t \in Pollers : TryPop(t)
  \/ Close \/ NotifyAll
  \/ Finished

Spec == Init /\ [][Next]_vars

(* The scheduler runs every thread that can run.  Nobody promises a spurious
   wakeup, a try_pop or a close. *)
FairSpec ==
  /\ Spec
  /\ \A w \in Workers : WF_vars(Worker(w))
  /\ \A p \in Producers : WF_vars(Producer(p))
  /\ WF_vars(NotifyAll)

-----------------------------------------------------------------------------
(* Properties. *)

(* Jobs leave the queue in the order in which they entered it, whoever pops
   them, and none is lost or handed out twice. *)
FirstInFirstOut == accepted = popped \o data_queue

(* No lost wakeup.  While a worker sleeps, every queued job has a thread of
   its own on the way to it: a producer about to notify or a worker about to
   test the predicate.  The queue notifies after the unlock and a woken worker
   may find its job stolen by try_pop or by a worker that never slept. *)
OnTheWay == {t \in Workers \cup Producers : pc[t] \in {"notify", "wait"}}

WakeupsCoverQueue ==
  asleep # {} => Len(data_queue) <= Cardinality(OnTheWay)

(* A worker stops only on a queue that is closed and empty, and both last: the
   jobs queued before close() are not abandoned and none arrives later. *)
StopsDrained ==
  \A w \in Workers : At(w, "stopped") => closed /\ data_queue = <<>>

(* "waiter should stop after queue is closed" (L267): once close() has
   notified, nobody sleeps. *)
NoneAsleepAfterClose ==
  closed /\ ~At(Closer, "notifyAll") => asleep = {}

(* "every job should be processed" (L245): when the workers have been joined,
   each accepted job was processed exactly once, unless try_pop took it. *)
EveryJobProcessed ==
  (Workers # {} /\ \A w \in Workers : At(w, "stopped")) =>
    /\ IsInjective(processed)
    /\ ToSet(processed) \subseteq ToSet(accepted)
    /\ Cardinality(ToSet(accepted) \ ToSet(processed)) <=
         Cardinality({t \in Pollers : At(t, "done")})

(* What makes the safety properties inductive: close() is called once, and a
   worker is busy with a job. *)
ClosedOnce == closed <=> ~At(Closer, "close")

BusyWithJob == \A w \in Workers : At(w, "work") => job[w] \in Jobs

(* A producer numbers its jobs, so no two accepted jobs are the same. *)
AcceptedOnce ==
  /\ IsInjective(accepted)
  /\ \A j \in ToSet(accepted) : j[2] <= pushed[j[1]]

(* A popped job was processed, is the job of one busy worker, or went to a
   thread that called try_pop. *)
Busy == {w \in Workers : At(w, "work")}

PolledAway == ToSet(popped) \ (ToSet(processed) \cup {job[w] : w \in Busy})

HandedOutOnce ==
  /\ IsInjective(processed)
  /\ ToSet(processed) \subseteq ToSet(popped)
  /\ \A w \in Busy :
       /\ job[w] \in ToSet(popped) \ ToSet(processed)
       /\ \A v \in Busy \ {w} : job[v] # job[w]
  /\ IsFiniteSet(PolledAway)
  /\ Cardinality(PolledAway) <= Cardinality({t \in Pollers : At(t, "done")})

IInv ==
  /\ TypeOK
  /\ ClosedOnce
  /\ BusyWithJob
  /\ FirstInFirstOut
  /\ WakeupsCoverQueue
  /\ StopsDrained
  /\ NoneAsleepAfterClose
  /\ AcceptedOnce
  /\ HandedOutOnce

(* The joins of example_producer_consumer return: every worker stops once the
   queue is closed, wherever in its loop the close finds it. *)
AllWorkersStop == closed ~> (\A w \in Workers : At(w, "stopped"))

(* A queued job does not stay queued, whether or not the queue is closed. *)
QueuedIsTaken ==
  \A j \in Jobs : j \in ToSet(data_queue) ~> j \notin ToSet(data_queue)
=============================================================================
