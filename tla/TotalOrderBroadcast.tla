------------------------ MODULE TotalOrderBroadcast -------------------------
(***************************************************************************)
(* What a chat room promises: every message is put at one place of a log,  *)
(* and each session receives the messages logged from its arrival to its   *)
(* departure, in the order of the log, without a gap and without a repeat. *)
(***************************************************************************)
EXTENDS Naturals, Sequences

CONSTANTS Sessions, Messages

VARIABLES
  log,      \* the messages, in the order of the room
  members,  \* the sessions in the room
  from,     \* per session, the position of its arrival, 0 before
  until,    \* per session, the position of its departure, 0 before
  inbox     \* per session, the messages it received

vars == <<log, members, from, until, inbox>>

Init ==
  /\ log = <<>>
  /\ members = {}
  /\ from = [s \in Sessions |-> 0]
  /\ until = [s \in Sessions |-> 0]
  /\ inbox = [s \in Sessions |-> <<>>]

Publish == \E m \in Messages : log' = Append(log, m)

Join(s) ==
  /\ from[s] = 0
  /\ members' = members \cup {s}
  /\ from' = [from EXCEPT ![s] = Len(log) + 1]
  /\ UNCHANGED <<until, inbox>>

Leave(s) ==
  /\ s \in members
  /\ members' = members \ {s}
  /\ until' = [until EXCEPT ![s] = Len(log) + 1]
  /\ UNCHANGED <<from, inbox>>

Say == UNCHANGED <<members, from, until, inbox>>

(* The next message s has not received, if the room logged it while s was in. *)
Receive(s) ==
  LET next == from[s] + Len(inbox[s])
  IN /\ from[s] # 0
     /\ next \in DOMAIN log
     /\ until[s] # 0 => next < until[s]
     /\ UNCHANGED log
     /\ inbox' = [inbox EXCEPT ![s] = Append(@, log[next])]
     /\ UNCHANGED <<members, from, until>>

Next ==
  \/ \E s \in Sessions : Receive(s)
  \/ Publish /\ (Say \/ \E s \in Sessions : Join(s) \/ Leave(s))

Spec == Init /\ [][Next]_vars
=============================================================================
