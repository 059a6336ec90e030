----------------------------- MODULE TaskManager -----------------------------
(***************************************************************************)
(* The task manager of algorithms/design/design.cpp: mp maps a task to its *)
(* user and priority, and the set st orders the tasks for execTop.  The    *)
(* caller adds only tasks that are not there and edits only those that are.*)
(***************************************************************************)
EXTENDS Integers, FiniteSets

CONSTANTS
  Users,
  Tasks,       \* the task ids, integers
  Priorities,
  Nothing      \* a task without an entry in mp

VARIABLES
  mp,     \* <<user, priority>> of each task
  st,     \* <<-priority, -task>>, the least first
  ran     \* the task that the last execTop took, and the tasks there were

vars == <<mp, st, ran>>

NotRun == [task |-> 0, among |-> {}]

Init == mp = [t \in Tasks |-> Nothing] /\ st = {} /\ ran = NotRun

Held == {t \in Tasks : mp[t] # Nothing}

add(user, t, priority) ==
  /\ t \notin Held
  /\ mp' = [mp EXCEPT ![t] = <<user, priority>>]
  /\ st' = st \union {<<-priority, -t>>}
  /\ ran' = NotRun

(* Mutant: the entry with the old priority stays in the set. *)
edit_Keeps(t, newPriority) ==
  /\ t \in Held
  /\ mp' = [mp EXCEPT ![t] = <<mp[t][1], newPriority>>]
  /\ st' = st \union {<<-newPriority, -t>>}
  /\ ran' = NotRun

edit(t, newPriority) ==
  /\ t \in Held
  /\ mp' = [mp EXCEPT ![t] = <<mp[t][1], newPriority>>]
  /\ st' = (st \ {<<-mp[t][2], -t>>}) \union {<<-newPriority, -t>>}
  /\ ran' = NotRun

rmv(t) ==
  /\ t \in Held
  /\ st' = st \ {<<-mp[t][2], -t>>}
  /\ mp' = [mp EXCEPT ![t] = Nothing]
  /\ ran' = NotRun

(* *st.begin(), the least pair. *)
First == CHOOSE e \in st : \A f \in st : e[1] < f[1] \/ (e[1] = f[1] /\ e[2] <= f[2])

execTop ==
  /\ st # {}
  /\ st' = st \ {First}
  /\ mp' = [mp EXCEPT ![-First[2]] = Nothing]
  /\ ran' = [task |-> -First[2], among |-> {<<t, mp[t]>> : t \in Held}]

Next ==
  \/ \E t \in Tasks, p \in Priorities : edit(t, p) \/ \E u \in Users : add(u, t, p)
  \/ \E t \in Tasks : rmv(t)
  \/ execTop

Spec == Init /\ [][Next]_vars

-----------------------------------------------------------------------------
(* execTop runs a task that is in the map, and one of the highest priority
   with, among those, the highest number; between calls the set lists the
   tasks of the map with their latest priorities. *)
RunsHighest ==
  /\ st = {<<-mp[t][2], -t>> : t \in Held}
  /\ ran # NotRun =>
       \E e \in ran.among :
         /\ e[1] = ran.task
         /\ \A f \in ran.among : f[2][2] < e[2][2] \/ (f[2][2] = e[2][2] /\ f[1] <= e[1])
=============================================================================
