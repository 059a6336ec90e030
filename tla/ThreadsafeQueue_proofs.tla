----------------------- MODULE ThreadsafeQueue_proofs -----------------------
(***************************************************************************)
(* For any number of threads and jobs, threadsafe_queue loses no wakeup,   *)
(* hands its jobs out in order, and its workers stop only when it is       *)
(* drained.                                                                *)
(***************************************************************************)
EXTENDS ThreadsafeQueue, FiniteSetTheorems, SequenceTheorems, TLAPS

USE ThreadsafeQueueAssumption

(* What a pop leaves behind and hands out. *)
LEMMA TakeFrontType ==
  ASSUME TypeOK, TakeFront
  PROVE  /\ data_queue' \in Seq(Jobs) /\ popped' \in Seq(Jobs)
         /\ Head(data_queue) \in Jobs
         /\ Len(data_queue') = Len(data_queue) - 1
BY HeadTailProperties, AppendProperties DEF TypeOK, TakeFront

(* push throws and changes nothing, or queues a job and notes it. *)
LEMMA PushEffect ==
  ASSUME TypeOK, NEW p \in Producers, Push(p)
  PROVE  \/ UNCHANGED <<data_queue, accepted>>
         \/ \E j \in Jobs : /\ data_queue' = Append(data_queue, j)
                           /\ accepted' = Append(accepted, j)
<1>1. <<p, pushed[p] + 1>> \in Jobs
  BY DEF TypeOK, Push, Jobs
<1>. QED BY <1>1 DEF Push

LEMMA NextType == TypeOK /\ BusyWithJob /\ [Next]_vars => TypeOK' /\ BusyWithJob'
<1> SUFFICES ASSUME TypeOK, BusyWithJob, [Next]_vars PROVE TypeOK' /\ BusyWithJob'
  OBVIOUS
<1> USE DEF TypeOK, BusyWithJob, Goto, At, queueVars
<1>1. ASSUME NEW p \in Producers, Push(p) PROVE TypeOK' /\ BusyWithJob'
  <2>1. pushed[p] + 1 \in 1..PerProducer
    BY <1>1 DEF Push
  <2>3. pushed' \in [Producers -> 0..PerProducer]
    BY <1>1, <2>1 DEF Push
  <2>4. data_queue' \in Seq(Jobs) /\ accepted' \in Seq(Jobs)
    <3>1. CASE UNCHANGED <<data_queue, accepted>>
      BY <3>1
    <3>2. ASSUME NEW j \in Jobs, data_queue' = Append(data_queue, j), accepted' = Append(accepted, j)
          PROVE  data_queue' \in Seq(Jobs) /\ accepted' \in Seq(Jobs)
      BY <3>2, AppendProperties
    <3>. QED BY <1>1, <3>1, <3>2, PushEffect
  <2>5. /\ UNCHANGED <<closed, job, processed, popped>>
        /\ pc' = [pc EXCEPT ![p] = "threw"] \/ pc' = [pc EXCEPT ![p] = "notify"]
    BY <1>1 DEF Push
  <2>. QED BY <2>3, <2>4, <2>5 DEF Threads
<1>2. ASSUME NEW p \in Producers, NotifyOne(p) PROVE TypeOK' /\ BusyWithJob'
  BY <1>2 DEF NotifyOne, Threads, asleep
<1>3. ASSUME NEW p \in Producers, Finish(p) PROVE TypeOK' /\ BusyWithJob'
  BY <1>3 DEF Finish, Threads
<1>4. ASSUME NEW w \in Workers, Sleep(w) \/ SpuriousWakeup(w) PROVE TypeOK' /\ BusyWithJob'
  BY <1>4 DEF Sleep, SpuriousWakeup, Threads
<1>5. ASSUME NEW w \in Workers, WaitAndPop(w) PROVE TypeOK' /\ BusyWithJob'
  <2>1. CASE data_queue = <<>>
    BY <1>5, <2>1 DEF WaitAndPop, Threads
  <2>2. CASE data_queue # <<>>
    <3>1. /\ TakeFront
          /\ job' = [job EXCEPT ![w] = Head(data_queue)]
          /\ pc' = [pc EXCEPT ![w] = "work"]
          /\ UNCHANGED <<closed, pushed, processed, accepted>>
      BY <1>5, <2>2 DEF WaitAndPop
    <3>2. data_queue' \in Seq(Jobs) /\ popped' \in Seq(Jobs) /\ Head(data_queue) \in Jobs
      BY <3>1, TakeFrontType
    <3>. QED BY <3>1, <3>2 DEF Threads
  <2>. QED BY <2>1, <2>2
<1>6. ASSUME NEW w \in Workers, Process(w) PROVE TypeOK' /\ BusyWithJob'
  <2>1. processed' \in Seq(Jobs)
    BY <1>6 DEF Process
  <2>. QED BY <1>6, <2>1 DEF Process, Threads
<1>7. ASSUME NEW t \in Pollers, TryPop(t) PROVE TypeOK' /\ BusyWithJob'
  <2>1. data_queue' \in Seq(Jobs) /\ popped' \in Seq(Jobs)
    BY <1>7, TakeFrontType DEF TryPop
  <2>. QED BY <1>7, <2>1 DEF TryPop, Threads
<1>8. CASE Close
  BY <1>8 DEF Close, Threads
<1>9. CASE NotifyAll
  BY <1>9 DEF NotifyAll, Threads
<1>10. CASE Finished \/ UNCHANGED vars
  BY <1>10 DEF Finished, vars
<1>. QED
  BY <1>1, <1>2, <1>3, <1>4, <1>5, <1>6, <1>7, <1>8, <1>9, <1>10 DEF Next, Worker, Producer

(* Only the closer closes the queue, and it does so once. *)
LEMMA NextClosedOnce == TypeOK /\ ClosedOnce /\ [Next]_vars => ClosedOnce'
BY DEF TypeOK, ClosedOnce, Next, vars, queueVars, Worker, Producer, Push, NotifyOne, Finish,
       Sleep, SpuriousWakeup, WaitAndPop, Process, TryPop, Close, NotifyAll, Finished,
       Goto, At, Threads, asleep

(* A job enters the queue and the history together, and only TakeFront takes
   one out. *)
LEMMA NextFifo == TypeOK /\ FirstInFirstOut /\ [Next]_vars => FirstInFirstOut'
<1> SUFFICES ASSUME TypeOK, FirstInFirstOut, [Next]_vars PROVE FirstInFirstOut'
  OBVIOUS
<1> USE DEF FirstInFirstOut
<1>1. ASSUME NEW j \in Jobs, accepted' = Append(accepted, j), data_queue' = Append(data_queue, j),
             popped' = popped
      PROVE  FirstInFirstOut'
  <2>1. /\ Append(popped \o data_queue, j) = (popped \o data_queue) \o <<j>>
        /\ Append(data_queue, j) = data_queue \o <<j>>
    BY AppendIsConcat, ConcatProperties DEF TypeOK
  <2>2. (popped \o data_queue) \o <<j>> = popped \o (data_queue \o <<j>>)
    BY ConcatAssociative DEF TypeOK
  <2>. QED BY <1>1, <2>1, <2>2
<1>2. ASSUME TakeFront, accepted' = accepted PROVE FirstInFirstOut'
  <2>1. /\ Head(data_queue) \in Jobs /\ Tail(data_queue) \in Seq(Jobs)
        /\ data_queue = <<Head(data_queue)>> \o Tail(data_queue)
    BY <1>2 DEF TypeOK, TakeFront
  <2>2. popped' = popped \o <<Head(data_queue)>>
    BY <1>2, <2>1, AppendIsConcat DEF TypeOK, TakeFront
  <2>3. (popped \o <<Head(data_queue)>>) \o Tail(data_queue) = popped \o data_queue
    BY <2>1, ConcatAssociative DEF TypeOK
  <2>. QED BY <1>2, <2>2, <2>3 DEF TakeFront
<1>3. ASSUME NEW p \in Producers, Push(p) PROVE FirstInFirstOut'
  BY <1>1, <1>3, PushEffect DEF Push
<1>4. ASSUME NEW w \in Workers, WaitAndPop(w) PROVE FirstInFirstOut'
  BY <1>2, <1>4 DEF WaitAndPop
<1>5. ASSUME NEW t \in Pollers, TryPop(t) PROVE FirstInFirstOut'
  BY <1>2, <1>5 DEF TryPop
<1>. QED
  BY <1>3, <1>4, <1>5
  DEF Next, vars, queueVars, Worker, Producer, NotifyOne, Finish, Sleep, SpuriousWakeup,
      Process, Close, NotifyAll, Finished

(* After the close no push adds a job, so what a stopping worker saw lasts. *)
LEMMA NextStops == TypeOK /\ StopsDrained /\ [Next]_vars => StopsDrained'
<1> SUFFICES ASSUME TypeOK, StopsDrained, [Next]_vars PROVE StopsDrained'
  OBVIOUS
<1> USE DEF StopsDrained, At, Goto, TypeOK, Threads
<1>1. ASSUME NEW p \in Producers, Push(p) PROVE StopsDrained'
  BY <1>1 DEF Push
<1>2. ASSUME NEW p \in Producers, NotifyOne(p) \/ Finish(p) PROVE StopsDrained'
  BY <1>2 DEF NotifyOne, Finish, queueVars, asleep
<1>3. ASSUME NEW w \in Workers, Sleep(w) \/ SpuriousWakeup(w) \/ Process(w) PROVE StopsDrained'
  BY <1>3 DEF Sleep, SpuriousWakeup, Process, queueVars
<1>4. ASSUME NEW w \in Workers, WaitAndPop(w) PROVE StopsDrained'
  BY <1>4 DEF WaitAndPop, Ready, TakeFront
<1>5. ASSUME NEW t \in Pollers, TryPop(t) PROVE StopsDrained'
  BY <1>5 DEF TryPop, TakeFront
<1>6. CASE Close \/ NotifyAll
  BY <1>6 DEF Close, NotifyAll, queueVars, asleep
<1>7. CASE Finished \/ UNCHANGED vars
  BY <1>7 DEF Finished, vars
<1>. QED
  BY <1>1, <1>2, <1>3, <1>4, <1>5, <1>6, <1>7 DEF Next, Worker, Producer

(* Nobody falls asleep on a closed queue. *)
LEMMA NextNoneAsleep ==
  TypeOK /\ ClosedOnce /\ NoneAsleepAfterClose /\ [Next]_vars => NoneAsleepAfterClose'
<1> SUFFICES ASSUME TypeOK, ClosedOnce, NoneAsleepAfterClose, [Next]_vars
             PROVE  NoneAsleepAfterClose'
  OBVIOUS
<1> USE DEF NoneAsleepAfterClose, ClosedOnce, asleep, At, Goto, TypeOK, Threads
<1>1. ASSUME NEW p \in Producers, Producer(p) PROVE NoneAsleepAfterClose'
  BY <1>1 DEF Producer, Push, NotifyOne, Finish, queueVars
<1>2. ASSUME NEW w \in Workers, Worker(w) \/ SpuriousWakeup(w) PROVE NoneAsleepAfterClose'
  <2>1. CASE Sleep(w)
    <3>1. ~closed /\ closed' = closed
      BY <2>1 DEF Sleep, Ready, queueVars
    <3>. QED BY <3>1
  <2>2. CASE WaitAndPop(w)
    BY <2>2 DEF WaitAndPop
  <2>3. CASE Process(w) \/ SpuriousWakeup(w)
    BY <2>3 DEF Process, SpuriousWakeup, queueVars
  <2>. QED BY <1>2, <2>1, <2>2, <2>3 DEF Worker
<1>3. ASSUME NEW t \in Pollers, TryPop(t) PROVE NoneAsleepAfterClose'
  BY <1>3 DEF TryPop
<1>4. CASE Close \/ NotifyAll
  <2>1. CASE Close
    <3>1. pc'[Closer] = "notifyAll"
      BY <2>1 DEF Close
    <3>. QED BY <3>1
  <2>2. CASE NotifyAll
    <3>1. \A w \in Workers : pc'[w] # "asleep"
      BY <2>2 DEF NotifyAll
    <3>. QED BY <3>1
  <2>. QED BY <1>4, <2>1, <2>2
<1>5. CASE Finished \/ UNCHANGED vars
  <2>1. pc' = pc /\ closed' = closed
    BY <1>5 DEF Finished, vars
  <2>. QED BY <2>1
<1>. QED BY <1>1, <1>2, <1>3, <1>4, <1>5 DEF Next

LEMMA OnTheWayFinite ==
  IsFiniteSet(OnTheWay) /\ Cardinality(OnTheWay) \in Nat
<1>1. IsFiniteSet(Workers \cup Producers)
  BY FS_Union
<1>2. OnTheWay \in SUBSET (Workers \cup Producers)
  BY DEF OnTheWay
<1>. QED BY <1>1, <1>2, FS_Subset, FS_CardinalityType

(* While a worker sleeps, the threads on their way outnumber the queued jobs:
   a push adds one of each, a worker that takes a job leaves with it, a
   notification passes from the producer to the worker it wakes, and a worker
   falls asleep only when nothing is queued. *)
LEMMA NextWakeups == TypeOK /\ WakeupsCoverQueue /\ [Next]_vars => WakeupsCoverQueue'
<1> SUFFICES ASSUME TypeOK, WakeupsCoverQueue, [Next]_vars, asleep' # {}
             PROVE  Len(data_queue') <= Cardinality(OnTheWay')
  BY DEF WakeupsCoverQueue
<1> USE DEF At, Goto
<1>1. /\ IsFiniteSet(OnTheWay) /\ Cardinality(OnTheWay) \in Nat
      /\ IsFiniteSet(OnTheWay') /\ Cardinality(OnTheWay') \in Nat
  <2>1. (IsFiniteSet(OnTheWay) /\ Cardinality(OnTheWay) \in Nat)'
    BY OnTheWayFinite, PTL
  <2>. QED BY <2>1, OnTheWayFinite
<1>2. /\ Len(data_queue) \in Nat
      /\ data_queue # <<>> => Len(Tail(data_queue)) = Len(data_queue) - 1
  BY DEF TypeOK
<1>3. ASSUME NEW t, t \notin OnTheWay, OnTheWay' = OnTheWay \cup {t}
      PROVE  Cardinality(OnTheWay') = Cardinality(OnTheWay) + 1
  BY <1>1, <1>3, FS_AddElement
<1>4. ASSUME NEW t, t \in OnTheWay, OnTheWay' = OnTheWay \ {t}
      PROVE  Cardinality(OnTheWay') = Cardinality(OnTheWay) - 1
  BY <1>1, <1>4, FS_RemoveElement
<1>20. asleep # {} => Len(data_queue) <= Cardinality(OnTheWay)
  BY DEF WakeupsCoverQueue
<1>5. ASSUME NEW p \in Producers, Push(p) PROVE Len(data_queue') <= Cardinality(OnTheWay')
  <2>1. asleep # {}
    BY <1>5 DEF Push, asleep, TypeOK, Threads
  <2>2. CASE closed
    <3>1. OnTheWay' = OnTheWay
      BY <1>5, <2>2 DEF Push, OnTheWay, TypeOK, Threads
    <3>. QED BY <1>5, <2>1, <2>2, <3>1 DEF Push, WakeupsCoverQueue
  <2>3. CASE ~closed
    <3>1. p \notin OnTheWay /\ OnTheWay' = OnTheWay \cup {p}
      BY <1>5, <2>3 DEF Push, OnTheWay, TypeOK, Threads
    <3>2. Len(data_queue') = Len(data_queue) + 1
      BY <1>5, <2>3 DEF Push, TypeOK
    <3>3. Cardinality(OnTheWay') = Cardinality(OnTheWay) + 1
      BY <1>3, <3>1
    <3>. QED BY <1>1, <1>2, <1>20, <2>1, <3>2, <3>3
  <2>. QED BY <2>2, <2>3
<1>6. ASSUME NEW p \in Producers, NotifyOne(p) PROVE Len(data_queue') <= Cardinality(OnTheWay')
  <2>1. asleep # {}
    BY <1>6 DEF NotifyOne, asleep, TypeOK, Threads
  <2>2. PICK w \in asleep : pc' = [pc EXCEPT ![p] = "push", ![w] = "wait"]
    BY <1>6, <2>1 DEF NotifyOne
  <2>3. /\ p \in OnTheWay /\ w \notin OnTheWay
        /\ OnTheWay' = (OnTheWay \ {p}) \cup {w}
    BY <1>6, <2>2 DEF NotifyOne, OnTheWay, asleep, TypeOK, Threads
  <2>4. Cardinality(OnTheWay') = Cardinality(OnTheWay)
    <3>1. IsFiniteSet(OnTheWay \ {p}) /\ Cardinality(OnTheWay \ {p}) = Cardinality(OnTheWay) - 1
      BY <1>1, <2>3, FS_RemoveElement
    <3>2. Cardinality((OnTheWay \ {p}) \cup {w}) = Cardinality(OnTheWay \ {p}) + 1
      BY <2>3, <3>1, FS_AddElement
    <3>. QED BY <1>1, <2>3, <3>1, <3>2
  <2>. QED BY <1>6, <2>1, <2>4 DEF NotifyOne, queueVars, WakeupsCoverQueue
<1>7. ASSUME NEW w \in Workers, Sleep(w) PROVE Len(data_queue') <= Cardinality(OnTheWay')
  BY <1>1, <1>7 DEF Sleep, Ready, queueVars
<1>8. ASSUME NEW w \in Workers, SpuriousWakeup(w) \/ Process(w)
      PROVE  Len(data_queue') <= Cardinality(OnTheWay')
  <2>1. asleep # {} /\ data_queue' = data_queue
    BY <1>8 DEF SpuriousWakeup, Process, asleep, queueVars, TypeOK, Threads
  <2>2. w \notin OnTheWay /\ OnTheWay' = OnTheWay \cup {w}
    BY <1>8 DEF SpuriousWakeup, Process, OnTheWay, TypeOK, Threads
  <2>3. Cardinality(OnTheWay') = Cardinality(OnTheWay) + 1
    BY <1>3, <2>2
  <2>. QED BY <1>1, <1>2, <1>20, <2>1, <2>3
<1>9. ASSUME NEW w \in Workers, WaitAndPop(w) PROVE Len(data_queue') <= Cardinality(OnTheWay')
  <2>1. CASE data_queue = <<>>
    BY <1>1, <1>9, <2>1 DEF WaitAndPop
  <2>2. CASE data_queue # <<>>
    <3>1. asleep # {}
      BY <1>9, <2>2 DEF WaitAndPop, asleep, TypeOK, Threads
    <3>2. w \in OnTheWay /\ OnTheWay' = OnTheWay \ {w}
      BY <1>9, <2>2 DEF WaitAndPop, OnTheWay, TypeOK, Threads
    <3>3. Len(data_queue') = Len(data_queue) - 1
      BY <1>2, <1>9, <2>2 DEF WaitAndPop, TakeFront
    <3>4. Cardinality(OnTheWay') = Cardinality(OnTheWay) - 1
      BY <1>4, <3>2
    <3>. QED BY <1>1, <1>2, <1>20, <3>1, <3>3, <3>4
  <2>. QED BY <2>1, <2>2
<1>10. ASSUME NEW t \in Pollers, TryPop(t) PROVE Len(data_queue') <= Cardinality(OnTheWay')
  <2>1. asleep' = asleep /\ OnTheWay' = OnTheWay
    BY <1>10 DEF TryPop, asleep, OnTheWay, TypeOK, Threads
  <2>2. Len(data_queue') <= Len(data_queue)
    BY <1>2, <1>10 DEF TryPop, TakeFront
  <2>3. Len(data_queue') \in Nat
    BY <1>10, TakeFrontType DEF TryPop, TypeOK
  <2>. QED BY <1>1, <1>2, <1>20, <2>1, <2>2, <2>3
<1>11. CASE NotifyAll
  BY <1>11 DEF NotifyAll, asleep, TypeOK, Threads
<1>12. CASE Close \/ (\E p \in Producers : Finish(p)) \/ Finished \/ UNCHANGED vars
  <2>1. asleep' = asleep /\ OnTheWay' = OnTheWay /\ data_queue' = data_queue
    BY <1>12 DEF Close, Finish, Finished, vars, queueVars, asleep, OnTheWay, TypeOK, Threads
  <2>. QED BY <2>1 DEF WakeupsCoverQueue
<1>. QED
  BY <1>5, <1>6, <1>7, <1>8, <1>9, <1>10, <1>11, <1>12 DEF Next, Worker, Producer

(* Appending to a sequence. *)
LEMMA AppendedSet ==
  ASSUME NEW S, NEW s \in Seq(S), NEW e \in S
  PROVE  ToSet(Append(s, e)) = ToSet(s) \cup {e}
<1>1. /\ DOMAIN s = 1..Len(s) /\ Len(s) \in Nat
      /\ DOMAIN Append(s, e) = 1..(Len(s) + 1)
      /\ \A i \in 1..Len(s) : Append(s, e)[i] = s[i]
      /\ Append(s, e)[Len(s) + 1] = e
  OBVIOUS
<1>2. 1..(Len(s) + 1) = 1..Len(s) \cup {Len(s) + 1}
  BY <1>1
<1>. QED BY <1>1, <1>2 DEF ToSet

LEMMA AppendedOnce ==
  ASSUME NEW S, NEW s \in Seq(S), NEW e \in S, IsInjective(s), e \notin ToSet(s)
  PROVE  IsInjective(Append(s, e))
<1>1. /\ DOMAIN s = 1..Len(s) /\ Len(s) \in Nat
      /\ DOMAIN Append(s, e) = 1..(Len(s) + 1)
      /\ \A i \in 1..Len(s) : Append(s, e)[i] = s[i] /\ s[i] # e
      /\ Append(s, e)[Len(s) + 1] = e
  BY DEF ToSet
<1>2. \A i \in 1..(Len(s) + 1) : i \in 1..Len(s) \/ i = Len(s) + 1
  BY <1>1
<1>. QED BY <1>1, <1>2 DEF IsInjective

(* The job at the front of the queue was not popped before. *)
LEMMA FrontIsNew ==
  ASSUME TypeOK, FirstInFirstOut, AcceptedOnce, data_queue # <<>>
  PROVE  Head(data_queue) \notin ToSet(popped)
<1>1. /\ Len(popped) \in Nat /\ Len(data_queue) \in Nat \ {0}
      /\ DOMAIN popped = 1..Len(popped)
      /\ Head(data_queue) = data_queue[1]
  BY DEF TypeOK
<1>2. /\ DOMAIN accepted = 1..(Len(popped) + Len(data_queue))
      /\ \A i \in 1..Len(popped) : accepted[i] = popped[i]
      /\ accepted[Len(popped) + 1] = data_queue[1]
  BY <1>1 DEF TypeOK, FirstInFirstOut
<1>3. /\ Len(popped) + 1 \in DOMAIN accepted
      /\ \A i \in 1..Len(popped) : i \in DOMAIN accepted /\ i # Len(popped) + 1
  BY <1>1, <1>2
<1>. QED BY <1>1, <1>2, <1>3 DEF AcceptedOnce, IsInjective, ToSet

(* A producer counts its jobs as it pushes them. *)
LEMMA NextAcceptedOnce == TypeOK /\ AcceptedOnce /\ [Next]_vars => AcceptedOnce'
<1> SUFFICES ASSUME TypeOK, AcceptedOnce, [Next]_vars PROVE AcceptedOnce'
  OBVIOUS
<1>1. ASSUME NEW p \in Producers, Push(p) PROVE AcceptedOnce'
  <2> DEFINE j == <<p, pushed[p] + 1>>
  <2>1. j \in Jobs /\ pushed[p] \in Nat /\ pushed'= [pushed EXCEPT ![p] = pushed[p] + 1]
    BY <1>1 DEF Push, Jobs, TypeOK
  <2>2. /\ \A q \in Producers : pushed[q] \in Nat /\ pushed'[q] \in Nat /\ pushed[q] <= pushed'[q]
        /\ pushed'[p] = pushed[p] + 1
    BY <2>1 DEF TypeOK
  <2>3. \A i \in ToSet(accepted) : i[1] \in Producers /\ i[2] \in Nat /\ i[2] <= pushed[i[1]]
    <3>1. ToSet(accepted) \subseteq Jobs
      BY DEF ToSet, TypeOK
    <3>2. \A i \in Jobs : i[1] \in Producers /\ i[2] \in Nat
      BY DEF Jobs
    <3>. QED BY <3>1, <3>2 DEF AcceptedOnce
  <2>4. \A i \in ToSet(accepted) : i[2] <= pushed'[i[1]]
    BY <2>2, <2>3
  <2>5. CASE accepted' = accepted
    BY <2>4, <2>5 DEF AcceptedOnce
  <2>6. CASE accepted' = Append(accepted, j)
    <3>1. j \notin ToSet(accepted)
      BY <2>2, <2>3
    <3>2. IsInjective(accepted')
      BY <2>1, <2>6, <3>1, AppendedOnce DEF AcceptedOnce, TypeOK
    <3>3. ToSet(accepted') = ToSet(accepted) \cup {j}
      BY <2>1, <2>6, AppendedSet DEF TypeOK
    <3>4. j[2] <= pushed'[j[1]]
      BY <2>2
    <3>. QED BY <2>4, <3>2, <3>3, <3>4 DEF AcceptedOnce
  <2>. QED BY <1>1, <2>5, <2>6 DEF Push
<1>. QED
  BY <1>1 DEF AcceptedOnce, Next, vars, queueVars, Worker, Producer, NotifyOne, Finish, Sleep,
     SpuriousWakeup, WaitAndPop, Process, TryPop, Close, NotifyAll, Finished

(* A worker leaves with the job it pops and adds it to the processed ones; only
   try_pop takes a job away. *)
Polled == {t \in Pollers : At(t, "done")}

LEMMA PolledFinite == IsFiniteSet(Polled) /\ Cardinality(Polled) \in Nat
<1>1. Polled \in SUBSET Pollers
  BY DEF Polled
<1>. QED BY <1>1, FS_Subset, FS_CardinalityType

LEMMA NextHandedOut ==
  IInv /\ [Next]_vars => HandedOutOnce'
<1> SUFFICES ASSUME IInv, [Next]_vars PROVE HandedOutOnce'
  OBVIOUS
<1>0. TypeOK /\ FirstInFirstOut /\ AcceptedOnce /\ HandedOutOnce
  BY DEF IInv
<1>1. ASSUME UNCHANGED <<popped, processed, job>>, Busy' = Busy, Polled' = Polled
      PROVE  HandedOutOnce'
  BY <1>0, <1>1 DEF HandedOutOnce, PolledAway, Polled
<1>2. ASSUME NEW w \in Workers, WaitAndPop(w) PROVE HandedOutOnce'
  <2>1. CASE data_queue = <<>>
    <3>1. Busy' = Busy /\ Polled' = Polled
      BY <1>0, <1>2, <2>1 DEF WaitAndPop, TypeOK, Busy, Polled, At, Goto, Threads
    <3>. QED BY <1>1, <1>2, <2>1, <3>1 DEF WaitAndPop
  <2>2. CASE data_queue # <<>>
    <3> DEFINE j == Head(data_queue)
    <3>1. j \in Jobs /\ j \notin ToSet(popped)
      BY <1>0, <2>2, FrontIsNew DEF TypeOK
    <3>2. /\ popped' = Append(popped, j) /\ processed' = processed
          /\ job' = [job EXCEPT ![w] = j] /\ pc' = [pc EXCEPT ![w] = "work"]
          /\ pc[w] = "wait"
      BY <1>2, <2>2 DEF WaitAndPop, TakeFront, Goto, At
    <3>3. ToSet(popped') = ToSet(popped) \cup {j}
      BY <1>0, <3>1, <3>2, AppendedSet DEF TypeOK
    <3>4. /\ w \notin Busy /\ Busy' = Busy \cup {w} /\ Polled' = Polled
          /\ job'[w] = j /\ \A v \in Busy : job'[v] = job[v] /\ v # w
      BY <1>0, <3>2 DEF TypeOK, Busy, Polled, At, Threads
    <3>5. {job'[v] : v \in Busy'} = {job[v] : v \in Busy} \cup {j}
      BY <3>4
    <3>6. PolledAway' = PolledAway
      <4>1. ToSet(processed') = ToSet(processed) /\ j \notin ToSet(processed)
        BY <1>0, <3>1, <3>2 DEF HandedOutOnce
      <4>2. PolledAway' = (ToSet(popped) \cup {j}) \ (ToSet(processed) \cup ({job[v] : v \in Busy} \cup {j}))
        BY <3>3, <3>5, <4>1 DEF PolledAway
      <4>. QED BY <3>1, <4>2 DEF PolledAway
    <3>7. /\ IsInjective(processed')
          /\ ToSet(processed') \subseteq ToSet(popped')
      BY <1>0, <3>2, <3>3 DEF HandedOutOnce
    <3>8. ASSUME NEW u \in Busy'
          PROVE  /\ job'[u] \in ToSet(popped') \ ToSet(processed')
                 /\ \A v \in Busy' \ {u} : job'[v] # job'[u]
      BY <1>0, <3>1, <3>2, <3>3, <3>4 DEF HandedOutOnce
    <3>. QED BY <1>0, <3>4, <3>6, <3>7, <3>8 DEF HandedOutOnce, Polled
  <2>. QED BY <2>1, <2>2
<1>3. ASSUME NEW w \in Workers, Process(w) PROVE HandedOutOnce'
  <2>1. /\ processed' = Append(processed, job[w]) /\ popped' = popped
        /\ job' = [job EXCEPT ![w] = NoJob] /\ pc' = [pc EXCEPT ![w] = "wait"]
        /\ w \in Busy
    BY <1>3 DEF Process, Goto, At, Busy
  <2>2. job[w] \in Jobs /\ job[w] \in ToSet(popped) \ ToSet(processed)
    BY <1>0, <1>3, <2>1 DEF IInv, BusyWithJob, HandedOutOnce, Busy
  <2>3. ToSet(processed') = ToSet(processed) \cup {job[w]} /\ IsInjective(processed')
    BY <1>0, <2>1, <2>2, AppendedSet, AppendedOnce DEF TypeOK, HandedOutOnce
  <2>4. /\ Busy' = Busy \ {w} /\ Polled' = Polled
        /\ \A v \in Busy' : job'[v] = job[v]
    BY <1>0, <2>1 DEF TypeOK, Busy, Polled, At, Threads
  <2>5. {job[v] : v \in Busy} = {job'[v] : v \in Busy'} \cup {job[w]}
    BY <2>1, <2>4
  <2>6. PolledAway' = PolledAway
    <3>1. ToSet(popped') = ToSet(popped)
      BY <2>1
    <3>2. ToSet(processed) \cup {job[v] : v \in Busy} = ToSet(processed') \cup {job'[v] : v \in Busy'}
      BY <2>3, <2>5
    <3>. QED BY <3>1, <3>2 DEF PolledAway
  <2>7. ASSUME NEW u \in Busy'
        PROVE  /\ job'[u] \in ToSet(popped') \ ToSet(processed')
               /\ \A v \in Busy' \ {u} : job'[v] # job'[u]
    BY <1>0, <2>1, <2>3, <2>4 DEF HandedOutOnce
  <2>. QED BY <1>0, <2>1, <2>2, <2>3, <2>4, <2>6, <2>7 DEF HandedOutOnce, Polled
<1>4. ASSUME NEW t \in Pollers, TryPop(t) PROVE HandedOutOnce'
  <2>1. /\ UNCHANGED <<processed, job>> /\ Busy' = Busy
        /\ t \notin Polled /\ Polled' = Polled \cup {t}
    BY <1>0, <1>4 DEF TryPop, TypeOK, Busy, Polled, At, Goto, Threads
  <2>2. Cardinality(Polled') = Cardinality(Polled) + 1 /\ Cardinality(Polled) \in Nat
    BY <2>1, PolledFinite, FS_AddElement
  <2>3. IsFiniteSet(PolledAway) /\ Cardinality(PolledAway) \in Nat
        /\ Cardinality(PolledAway) <= Cardinality(Polled)
    BY <1>0, FS_CardinalityType DEF HandedOutOnce, Polled
  <2>4. CASE UNCHANGED popped
    <3>1. PolledAway' = PolledAway
      BY <2>1, <2>4 DEF PolledAway
    <3>2. Cardinality(PolledAway') <= Cardinality(Polled')
      BY <2>2, <2>3, <3>1
    <3>. QED BY <1>0, <2>1, <2>4, <3>1, <3>2 DEF HandedOutOnce, Polled
  <2>5. CASE TakeFront
    <3> DEFINE j == Head(data_queue)
    <3>1. j \in Jobs /\ j \notin ToSet(popped)
      BY <1>0, <2>5, FrontIsNew DEF TypeOK, TakeFront
    <3>2. ToSet(popped') = ToSet(popped) \cup {j}
      BY <1>0, <2>5, <3>1, AppendedSet DEF TypeOK, TakeFront
    <3>3. PolledAway' = PolledAway \cup {j} /\ j \notin PolledAway
      BY <1>0, <2>1, <3>1, <3>2 DEF PolledAway, HandedOutOnce
    <3>4. IsFiniteSet(PolledAway') /\ Cardinality(PolledAway') = Cardinality(PolledAway) + 1
      BY <2>3, <3>3, FS_AddElement
    <3>5. Cardinality(PolledAway') <= Cardinality(Polled')
      BY <2>2, <2>3, <3>4
    <3>6. /\ IsInjective(processed')
          /\ ToSet(processed') \subseteq ToSet(popped')
          /\ \A u \in Busy' : /\ job'[u] \in ToSet(popped') \ ToSet(processed')
                              /\ \A v \in Busy' \ {u} : job'[v] # job'[u]
      BY <1>0, <2>1, <3>2 DEF HandedOutOnce
    <3>. QED BY <3>4, <3>5, <3>6 DEF HandedOutOnce, Polled
  <2>. QED BY <1>4, <2>4, <2>5 DEF TryPop
<1>5. ASSUME NEW p \in Producers, Producer(p) PROVE HandedOutOnce'
  <2>1. Busy' = Busy /\ Polled' = Polled /\ UNCHANGED <<popped, processed, job>>
    BY <1>0, <1>5 DEF Producer, Push, NotifyOne, Finish, TypeOK, Busy, Polled, At, Goto,
       Threads, asleep
  <2>. QED BY <1>1, <2>1
<1>6. ASSUME NEW w \in Workers, Sleep(w) \/ SpuriousWakeup(w) PROVE HandedOutOnce'
  <2>1. Busy' = Busy /\ Polled' = Polled /\ UNCHANGED <<popped, processed, job>>
    BY <1>0, <1>6 DEF Sleep, SpuriousWakeup, TypeOK, Busy, Polled, At, Goto, Threads
  <2>. QED BY <1>1, <2>1
<1>7. CASE Close \/ NotifyAll \/ Finished \/ UNCHANGED vars
  <2>1. Busy' = Busy /\ Polled' = Polled /\ UNCHANGED <<popped, processed, job>>
    BY <1>0, <1>7 DEF Close, NotifyAll, Finished, vars, TypeOK, Busy, Polled, At, Goto, Threads,
       asleep
  <2>. QED BY <1>1, <2>1
<1>. QED BY <1>2, <1>3, <1>4, <1>5, <1>6, <1>7 DEF Next, Worker

LEMMA InitInv == Init => IInv
<1> SUFFICES ASSUME Init PROVE IInv
  OBVIOUS
<1>1. \A t \in Threads : pc[t] \in {"wait", "push", "poll", "close"}
  BY DEF Init
<1>2. pc[Closer] = "close"
  BY DEF Init, Threads
<1>3. TypeOK
  <2>1. pc \in [Threads -> {"wait", "push", "poll", "close"}]
    BY <1>1 DEF Init
  <2>2. /\ pushed \in [Producers -> 0..PerProducer]
        /\ job \in [Workers -> {NoJob}]
        /\ <<>> \in Seq(Jobs)
    BY DEF Init
  <2>. QED BY <2>1, <2>2 DEF Init, TypeOK
<1>4. asleep = {}
  BY <1>1 DEF asleep, At, Threads
<1>5. AcceptedOnce
  BY DEF Init, AcceptedOnce, IsInjective, ToSet
<1>6. Busy = {} /\ PolledAway = {}
  BY <1>1 DEF Init, Busy, PolledAway, ToSet, At, Threads
<1>7. Cardinality(PolledAway) <= Cardinality(Polled) /\ IsFiniteSet(PolledAway)
  BY <1>6, PolledFinite, FS_EmptySet
<1>8. HandedOutOnce
  BY <1>6, <1>7 DEF Init, HandedOutOnce, Polled, IsInjective, ToSet
<1>. QED
  BY <1>1, <1>2, <1>3, <1>4, <1>5, <1>8
  DEF Init, IInv, ClosedOnce, BusyWithJob, FirstInFirstOut, WakeupsCoverQueue, StopsDrained,
      NoneAsleepAfterClose, At, Threads

LEMMA InductiveInv == Spec => []IInv
<1>1. IInv /\ [Next]_vars => IInv'
  BY NextType, NextClosedOnce, NextFifo, NextStops, NextNoneAsleep, NextWakeups,
     NextAcceptedOnce, NextHandedOut DEF IInv
<1>. QED BY <1>1, InitInv, PTL DEF Spec

(* Every job that push accepted is popped once, in the order of the pushes. *)
THEOREM Fifo == Spec => []FirstInFirstOut
<1>1. IInv => FirstInFirstOut
  BY DEF IInv
<1>. QED BY <1>1, InductiveInv, PTL

(* notify_one after the unlock loses no wakeup, for any number of workers,
   producers and pollers. *)
THEOREM NoLostWakeup == Spec => []WakeupsCoverQueue
<1>1. IInv => WakeupsCoverQueue
  BY DEF IInv
<1>. QED BY <1>1, InductiveInv, PTL

(* close() drains: workers stop only when nothing is left, and none sleeps
   through the close. *)
THEOREM CloseDrains == Spec => [](StopsDrained /\ NoneAsleepAfterClose)
<1>1. IInv => StopsDrained /\ NoneAsleepAfterClose
  BY DEF IInv
<1>. QED BY <1>1, InductiveInv, PTL

(* Once the workers have returned, each accepted job was processed exactly
   once, unless a try_pop took it. *)
THEOREM EachJobOnce == Spec => []EveryJobProcessed
<1>1. IInv => EveryJobProcessed
  <2> SUFFICES ASSUME IInv, NEW u \in Workers, \A w \in Workers : At(w, "stopped")
               PROVE  /\ IsInjective(processed)
                      /\ ToSet(processed) \subseteq ToSet(accepted)
                      /\ Cardinality(ToSet(accepted) \ ToSet(processed)) <=
                           Cardinality({t \in Pollers : At(t, "done")})
    BY DEF EveryJobProcessed
  <2>1. data_queue = <<>> /\ popped \in Seq(Jobs)
    BY DEF IInv, StopsDrained, TypeOK
  <2>2. accepted = popped
    BY <2>1, ConcatEmptySeq DEF IInv, FirstInFirstOut
  <2>3. Busy = {}
    BY DEF Busy, At
  <2>4. PolledAway = ToSet(accepted) \ ToSet(processed)
    BY <2>2, <2>3 DEF PolledAway
  <2>. QED BY <2>2, <2>4 DEF IInv, HandedOutOnce
<1>. QED BY <1>1, InductiveInv, PTL
=============================================================================
