-------------------------- MODULE ChatServer_proofs --------------------------
(***************************************************************************)
(* Proofs about ChatServer for every set of sessions and every bound.      *)
(***************************************************************************)
EXTENDS ChatServer, SequenceTheorems, FiniteSetTheorems, WellFoundedInduction, TLAPS

(* The message and room-handler constructors stay in their types. *)
LEMMA MessageType ==
  ASSUME NEW k \in PublicKinds \cup PrivateKinds, NEW s \in Sessions, NEW n \in 0..MaxLines
  PROVE  Message(k, s, n) \in Messages
BY DEF Message, Messages

LEMMA RoomOpType ==
  ASSUME NEW o \in {"join", "leave", "broadcast"}, NEW s \in Sessions, NEW m \in Messages
  PROVE  RoomOp(o, s, m) \in RoomOps
BY DEF RoomOp, RoomOps

(* broadcast_now keeps the log and the strands well typed. *)
LEMMA BroadcastType ==
  ASSUME TypeOK, NEW members, NEW m \in Messages, BroadcastTo(members, m)
  PROVE  log' \in Seq(Messages) /\ strandQ' \in [Sessions -> Seq(Messages)]
<1>1. log' \in Seq(Messages)
  BY DEF TypeOK, BroadcastTo
<1>2. ASSUME NEW s \in Sessions
      PROVE  (IF s \in members THEN Append(strandQ[s], m) ELSE strandQ[s]) \in Seq(Messages)
  BY DEF TypeOK
<1>. QED BY <1>1, <1>2 DEF BroadcastTo

(* stop() keeps the flags and the room's strand well typed. *)
LEMMA StopType ==
  ASSUME TypeOK, NEW s \in Sessions, NEW m \in Messages, Stop(s, m)
  PROVE  stopped' \in [Sessions -> BOOLEAN] /\ roomQ' \in Seq(RoomOps)
BY RoomOpType DEF TypeOK, Stop

LEMMA FaultType ==
  ASSUME TypeOK, NEW s \in Sessions, Fault(s)
  PROVE  faults' \in 0..MaxFaults
BY ChatServerAssumption DEF TypeOK, Fault

LEMMA HeadType ==
  ASSUME TypeOK, roomQ # <<>>
  PROVE  Head(roomQ).s \in Sessions /\ Head(roomQ).msg \in Messages /\ Tail(roomQ) \in Seq(RoomOps)
<1>1. Head(roomQ) \in RoomOps /\ Tail(roomQ) \in Seq(RoomOps)
  BY DEF TypeOK
<1>. QED BY <1>1 DEF RoomOps

LEMMA InitType == Init => TypeOK
BY ChatServerAssumption DEF Init, TypeOK, AcceptStates

(* Every handler keeps the variables in their types. *)
LEMMA NextType == TypeOK /\ WriteChain /\ [Next]_vars => TypeOK'
<1> SUFFICES ASSUME TypeOK, WriteChain, [Next]_vars PROVE TypeOK'
  OBVIOUS
<1> USE DEF sessionVars, roomVars, acceptVars
<1>1. CASE \E s \in Sessions : AcceptConnection(s)
  BY <1>1 DEF TypeOK, AcceptConnection, AcceptStates
<1>2. CASE AcceptFailed
  BY <1>2 DEF TypeOK, AcceptFailed, AcceptStates
<1>3. CASE StartJoin
  <2>1. acceptFor \in Sessions /\ 0 \in 0..MaxLines
    BY <1>3, ChatServerAssumption DEF TypeOK, StartJoin
  <2>2. RoomOp("join", acceptFor, Message("joined", acceptFor, 0)) \in RoomOps
    BY <2>1, MessageType, RoomOpType DEF PublicKinds
  <2>. QED BY <1>3, <2>1, <2>2 DEF TypeOK, StartJoin, AcceptStates
<1>4. CASE StartDeliver
  <2>1. acceptFor \in Sessions /\ 0 \in 0..MaxLines
    BY <1>4, ChatServerAssumption DEF TypeOK, StartDeliver
  <2>2. Message("connected", acceptFor, 0) \in Messages
    BY <2>1, MessageType DEF PrivateKinds
  <2>. QED BY <1>4, <2>1, <2>2 DEF TypeOK, StartDeliver, AcceptStates
<1>5. CASE StartRead
  BY <1>5 DEF TypeOK, StartRead, AcceptStates
<1>6. CASE AcceptAgain
  BY <1>6 DEF TypeOK, AcceptAgain, AcceptStates
<1>7. CASE Signal \/ CloseAcceptor \/ Idle \/ UNCHANGED vars
  BY <1>7 DEF TypeOK, Signal, CloseAcceptor, Idle, vars
<1>8. CASE RoomJoin
  <2>1. log' \in Seq(Messages) /\ strandQ' \in [Sessions -> Seq(Messages)]
    BY <1>8, HeadType, BroadcastType DEF RoomJoin
  <2>. QED BY <1>8, <2>1, HeadType DEF TypeOK, RoomJoin
<1>9. CASE RoomLeave
  <2>1. log' \in Seq(Messages) /\ strandQ' \in [Sessions -> Seq(Messages)]
    BY <1>9, HeadType, BroadcastType DEF RoomLeave, TypeOK
  <2>. QED BY <1>9, <2>1, HeadType DEF TypeOK, RoomLeave
<1>10. CASE RoomBroadcast
  <2>1. log' \in Seq(Messages) /\ strandQ' \in [Sessions -> Seq(Messages)]
    BY <1>10, HeadType, BroadcastType DEF RoomBroadcast
  <2>. QED BY <1>10, <2>1, HeadType DEF TypeOK, RoomBroadcast
<1>11. ASSUME NEW s \in Sessions, Deliver(s) PROVE TypeOK'
  <2>1. Head(strandQ[s]) \in Messages /\ Tail(strandQ[s]) \in Seq(Messages)
    BY <1>11 DEF TypeOK, Deliver
  <2>2. strandQ' \in [Sessions -> Seq(Messages)]
    BY <1>11, <2>1 DEF TypeOK, Deliver
  <2>3. outbox' \in [Sessions -> Seq(Messages)]
    <3>1. Append(outbox[s], Head(strandQ[s])) \in Seq(Messages)
      BY <2>1 DEF TypeOK
    <3>2. outbox' = outbox \/ outbox' = [outbox EXCEPT ![s] = Append(outbox[s], Head(strandQ[s]))]
      BY <1>11 DEF Deliver
    <3>. QED BY <3>1, <3>2 DEF TypeOK
  <2>4. writeOp' \in [Sessions -> {"none", "live", "dead"}]
    BY <1>11 DEF TypeOK, Deliver, WriteState
  <2>. QED BY <1>11, <2>2, <2>3, <2>4 DEF TypeOK, Deliver
<1>12. ASSUME NEW s \in Sessions, WriteDone(s) PROVE TypeOK'
  <2>1. Head(outbox[s]) \in Messages /\ Tail(outbox[s]) \in Seq(Messages)
    BY <1>12 DEF TypeOK, WriteChain, WriteDone
  <2>2. writeOp' \in [Sessions -> {"none", "live", "dead"}]
    BY <1>12 DEF TypeOK, WriteDone, WriteState
  <2>3. outbox' \in [Sessions -> Seq(Messages)] /\ written' \in [Sessions -> Seq(Messages)]
    BY <1>12, <2>1 DEF TypeOK, WriteDone
  <2>. QED BY <1>12, <2>2, <2>3 DEF TypeOK, WriteDone
<1>13. ASSUME NEW s \in Sessions PROVE name[s] \in 0..MaxLines
  BY ChatServerAssumption DEF TypeOK
<1>14. ASSUME NEW s \in Sessions, WriteFailed(s) PROVE TypeOK'
  <2>1. Message("left", s, name[s]) \in Messages
    BY <1>13, MessageType DEF PublicKinds
  <2>. QED BY <1>14, <2>1, StopType, FaultType DEF TypeOK, WriteFailed
<1>15. ASSUME NEW s \in Sessions, ReadFailed(s) PROVE TypeOK'
  <2>1. Message("left", s, name[s]) \in Messages
    BY <1>13, MessageType DEF PublicKinds
  <2>. QED BY <1>15, <2>1, StopType, FaultType DEF TypeOK, ReadFailed
<1>16. ASSUME NEW s \in Sessions, ReadLine(s)
       PROVE  /\ lines' \in 0..MaxLines /\ faults' \in 0..MaxFaults
              /\ \A q \in Sessions : name[q] \in 0..lines' /\ name[q] + 1 \in 0..lines'
              /\ lines' = lines + 1
  <2>1. lines' = lines + 1 /\ lines' \in 0..MaxLines /\ faults' \in 0..MaxFaults
    BY <1>16, ChatServerAssumption DEF TypeOK, ReadLine
  <2>2. ASSUME NEW q \in Sessions PROVE name[q] \in 0..lines' /\ name[q] + 1 \in 0..lines'
    <3>1. name[q] \in 0..lines /\ lines \in Nat
      BY ChatServerAssumption DEF TypeOK
    <3>. QED BY <2>1, <3>1
  <2>. QED BY <2>1, <2>2
<1>17. ASSUME NEW s \in Sessions, OnOversized(s) PROVE TypeOK'
  <2>1. Message("disconnected", s, name[s]) \in Messages /\ Message("tooLarge", s, name[s]) \in Messages
    BY <1>13, MessageType DEF PublicKinds, PrivateKinds
  <2>2. strandQ' \in [Sessions -> Seq(Messages)]
    BY <1>17, <2>1 DEF TypeOK, OnOversized
  <2>3. name' \in [Sessions -> 0..lines']
    BY <1>17, <1>16 DEF TypeOK, OnOversized
  <2>. QED BY <1>17, <1>16, <2>1, <2>2, <2>3, StopType DEF TypeOK, OnOversized
<1>18. ASSUME NEW s \in Sessions, OnNothing(s) PROVE TypeOK'
  <2>1. name' \in [Sessions -> 0..lines']
    BY <1>18, <1>16 DEF TypeOK, OnNothing
  <2>. QED BY <1>18, <1>16, <2>1 DEF TypeOK, OnNothing
<1>19. ASSUME NEW s \in Sessions, OnQuit(s) PROVE TypeOK'
  <2>1. Message("left", s, name[s]) \in Messages
    BY <1>13, MessageType DEF PublicKinds
  <2>2. name' \in [Sessions -> 0..lines']
    BY <1>19, <1>16 DEF TypeOK, OnQuit
  <2>. QED BY <1>19, <1>16, <2>1, <2>2, StopType DEF TypeOK, OnQuit
<1>20. ASSUME NEW s \in Sessions, OnRename(s) PROVE TypeOK'
  <2>1. name' \in [Sessions -> 0..lines']
    BY <1>20, <1>16 DEF TypeOK, OnRename
  <2>2. name'[s] \in 0..MaxLines
    BY <2>1, <1>20, <1>16, ChatServerAssumption DEF OnRename
  <2>3. RoomOp("broadcast", s, Message("renamed", s, name'[s])) \in RoomOps
    BY <2>2, MessageType, RoomOpType DEF PublicKinds
  <2>4. roomQ' \in Seq(RoomOps)
    BY <1>20, <2>3 DEF TypeOK, OnRename
  <2>. QED BY <1>20, <1>16, <2>1, <2>4 DEF TypeOK, OnRename
<1>21. ASSUME NEW s \in Sessions, OnText(s) PROVE TypeOK'
  <2>1. name' \in [Sessions -> 0..lines']
    BY <1>21, <1>16 DEF TypeOK, OnText
  <2>2. RoomOp("broadcast", s, Message("chat", s, name[s])) \in RoomOps
    BY <1>13, MessageType, RoomOpType DEF PublicKinds
  <2>3. roomQ' \in Seq(RoomOps)
    BY <1>21, <2>2 DEF TypeOK, OnText
  <2>. QED BY <1>21, <1>16, <2>1, <2>3 DEF TypeOK, OnText
<1>. QED
  BY <1>1, <1>2, <1>3, <1>4, <1>5, <1>6, <1>7, <1>8, <1>9, <1>10, <1>11, <1>12,
     <1>14, <1>15, <1>17, <1>18, <1>19, <1>20, <1>21
  DEF Next, Accept, Room, Session, OnRead

(* No handler breaks the chain of writes. *)
LEMMA NextWrite == TypeOK /\ WriteChain /\ [Next]_vars => WriteChain'
<1> SUFFICES ASSUME TypeOK, WriteChain, [Next]_vars PROVE WriteChain'
  OBVIOUS
<1> USE DEF sessionVars, roomVars, acceptVars
<1>1. CASE UNCHANGED <<outbox, writeOp, stopped>>
  BY <1>1 DEF WriteChain
<1>2. ASSUME Accept \/ Signal \/ CloseAcceptor \/ Room \/ Idle \/ UNCHANGED vars
      PROVE  UNCHANGED <<outbox, writeOp, stopped>>
  BY <1>2 DEF Accept, AcceptConnection, AcceptFailed, StartJoin, StartDeliver, StartRead,
     AcceptAgain, Signal, CloseAcceptor, Room, RoomJoin, RoomLeave, RoomBroadcast, Idle, vars
<1>3. ASSUME NEW s \in Sessions, OnNothing(s) \/ OnRename(s) \/ OnText(s)
      PROVE  UNCHANGED <<outbox, writeOp, stopped>>
  BY <1>3 DEF OnNothing, OnRename, OnText
<1>4. ASSUME NEW s \in Sessions, Deliver(s) PROVE WriteChain'
  <2>1. CASE stopped[s]
    BY <2>1, <1>4 DEF WriteChain, Deliver
  <2>2. CASE ~stopped[s]
    <3>1. outbox' = [outbox EXCEPT ![s] = Append(outbox[s], Head(strandQ[s]))]
      BY <1>4, <2>2 DEF Deliver
    <3>2. outbox[s] \in Seq(Messages) /\ Head(strandQ[s]) \in Messages
      BY <1>4 DEF TypeOK, Deliver
    <3>3. Append(outbox[s], Head(strandQ[s])) # <<>>
      BY <3>2
    <3>4. writeOp'[s] = "live" /\ \A q \in Sessions \ {s} : writeOp'[q] = writeOp[q]
      BY <1>4, <2>2 DEF Deliver, TypeOK, WriteState, WriteChain
    <3>5. outbox'[s] # <<>> /\ \A q \in Sessions \ {s} : outbox'[q] = outbox[q]
      BY <3>1, <3>3 DEF TypeOK
    <3>. QED BY <1>4, <3>4, <3>5 DEF WriteChain, Deliver
  <2>. QED BY <2>1, <2>2
<1>5. ASSUME NEW s \in Sessions, WriteDone(s) PROVE WriteChain'
  <2>1. /\ outbox'[s] = Tail(outbox[s])
        /\ writeOp'[s] = IF Tail(outbox[s]) # <<>> THEN WriteState(s) ELSE "none"
        /\ \A q \in Sessions \ {s} : outbox'[q] = outbox[q] /\ writeOp'[q] = writeOp[q]
    BY <1>5 DEF WriteDone, TypeOK
  <2>. QED BY <1>5, <2>1 DEF WriteChain, WriteDone, WriteState
<1>6. ASSUME NEW s \in Sessions, WriteFailed(s) PROVE WriteChain'
  BY <1>6 DEF WriteChain, WriteFailed, Stop, TypeOK
<1>7. ASSUME NEW s \in Sessions, ReadFailed(s) \/ OnOversized(s) \/ OnQuit(s) PROVE WriteChain'
  BY <1>7 DEF WriteChain, ReadFailed, OnOversized, OnQuit, Stop, TypeOK
<1>. QED BY <1>1, <1>2, <1>3, <1>4, <1>5, <1>6, <1>7 DEF Next, Session, OnRead

(* The types hold, and a write is under way for every queued message. *)
THEOREM TypeAndWrites == Spec => [](TypeOK /\ WriteChain)
<1>1. Init => TypeOK /\ WriteChain
  BY InitType DEF Init, WriteChain
<1>2. TypeOK /\ WriteChain /\ [Next]_vars => TypeOK' /\ WriteChain'
  BY NextType, NextWrite
<1>. QED BY <1>1, <1>2, PTL DEF Spec

-----------------------------------------------------------------------------
(* What posting a handler to the room's strand, and running the first one, do
   to what is pending there. *)
LEMMA PendingAppend ==
  ASSUME TypeOK, NEW x \in RoomOps, roomQ' = Append(roomQ, x), NEW o, NEW s
  PROVE  Pending(o, s)' <=> Pending(o, s) \/ (x.op = o /\ x.s = s)
<1>1. /\ Len(roomQ) \in Nat /\ DOMAIN roomQ = 1..Len(roomQ)
      /\ DOMAIN roomQ' = 1..(Len(roomQ) + 1)
      /\ roomQ'[Len(roomQ) + 1] = x
      /\ \A i \in 1..Len(roomQ) : roomQ'[i] = roomQ[i]
  BY DEF TypeOK
<1>. QED BY <1>1 DEF Pending

LEMMA PendingTail ==
  ASSUME TypeOK, roomQ # <<>>, roomQ' = Tail(roomQ), NEW o, NEW s
  PROVE  Pending(o, s) <=> Pending(o, s)' \/ (Head(roomQ).op = o /\ Head(roomQ).s = s)
<1>1. /\ Len(roomQ) \in Nat \ {0} /\ DOMAIN roomQ = 1..Len(roomQ)
      /\ DOMAIN roomQ' = 1..(Len(roomQ) - 1)
      /\ Head(roomQ) = roomQ[1]
      /\ \A i \in 1..(Len(roomQ) - 1) : roomQ'[i] = roomQ[i + 1]
  BY DEF TypeOK
<1>2. ASSUME NEW i \in DOMAIN roomQ, i # 1 PROVE i - 1 \in DOMAIN roomQ' /\ roomQ'[i - 1] = roomQ[i]
  BY <1>1, <1>2
<1>3. ASSUME NEW i \in DOMAIN roomQ' PROVE i + 1 \in DOMAIN roomQ /\ roomQ'[i] = roomQ[i + 1]
  BY <1>1, <1>3
<1>4. Pending(o, s) => Pending(o, s)' \/ (Head(roomQ).op = o /\ Head(roomQ).s = s)
  BY <1>1, <1>2 DEF Pending
<1>5. Pending(o, s)' => Pending(o, s)
  BY <1>3 DEF Pending
<1>6. Head(roomQ).op = o /\ Head(roomQ).s = s => Pending(o, s)
  BY <1>1 DEF Pending
<1>. QED BY <1>4, <1>5, <1>6

(* A leave at the head of the strand is the last handler of its session. *)
LEMMA LeaveAtHead ==
  ASSUME TypeOK, LeaveIsLast, roomQ # <<>>, roomQ' = Tail(roomQ),
         NEW s, Head(roomQ).op = "leave", Head(roomQ).s = s
  PROVE  ~Pending("join", s)' /\ ~Pending("leave", s)'
<1>1. /\ Len(roomQ) \in Nat \ {0} /\ DOMAIN roomQ = 1..Len(roomQ)
      /\ DOMAIN roomQ' = 1..(Len(roomQ) - 1)
      /\ Head(roomQ) = roomQ[1]
      /\ \A i \in 1..(Len(roomQ) - 1) : roomQ'[i] = roomQ[i + 1]
  BY DEF TypeOK
<1>2. ASSUME NEW i \in DOMAIN roomQ', roomQ'[i].op \in {"join", "leave"}, roomQ'[i].s = s
      PROVE  FALSE
  <2>1. i + 1 \in DOMAIN roomQ /\ 1 \in DOMAIN roomQ /\ roomQ'[i] = roomQ[i + 1] /\ i + 1 > 1
    BY <1>1, <1>2
  <2>. QED BY <2>1, <1>1, <1>2 DEF LeaveIsLast
<1>. QED BY <1>2 DEF Pending

(* The order of LeaveIsLast survives running the first handler, and posting a
   handler that is no join or leave of a session whose leave is pending. *)
LEMMA OrderTail ==
  ASSUME TypeOK, LeaveIsLast, roomQ # <<>>, roomQ' = Tail(roomQ), UNCHANGED stopped
  PROVE  LeaveIsLast'
<1>1. /\ Len(roomQ) \in Nat \ {0} /\ DOMAIN roomQ = 1..Len(roomQ)
      /\ DOMAIN roomQ' = 1..(Len(roomQ) - 1)
      /\ \A i \in 1..(Len(roomQ) - 1) : roomQ'[i] = roomQ[i + 1]
  BY DEF TypeOK
<1>2. ASSUME NEW s \in Sessions, Pending("leave", s)' PROVE stopped'[s]
  BY <1>2, PendingTail DEF LeaveIsLast
<1>3. ASSUME NEW i \in DOMAIN roomQ', NEW j \in DOMAIN roomQ', roomQ'[i].op = "leave",
             roomQ'[j].op \in {"join", "leave"}, roomQ'[i].s = roomQ'[j].s
      PROVE  j <= i
  <2>1. /\ i + 1 \in DOMAIN roomQ /\ j + 1 \in DOMAIN roomQ
        /\ roomQ'[i] = roomQ[i + 1] /\ roomQ'[j] = roomQ[j + 1]
    BY <1>1
  <2>2. j + 1 <= i + 1
    BY <2>1, <1>3 DEF LeaveIsLast
  <2>. QED BY <2>2, <1>1
<1>. QED BY <1>2, <1>3 DEF LeaveIsLast

LEMMA OrderAppend ==
  ASSUME TypeOK, LeaveIsLast, NEW x \in RoomOps, roomQ' = Append(roomQ, x),
         x.op \in {"join", "leave"} => ~Pending("leave", x.s),
         x.op = "leave" => stopped'[x.s],
         \A s \in Sessions : stopped[s] => stopped'[s]
  PROVE  LeaveIsLast'
<1>1. /\ Len(roomQ) \in Nat /\ DOMAIN roomQ = 1..Len(roomQ)
      /\ DOMAIN roomQ' = 1..(Len(roomQ) + 1)
      /\ roomQ'[Len(roomQ) + 1] = x
      /\ \A i \in 1..Len(roomQ) : roomQ'[i] = roomQ[i]
  BY DEF TypeOK
<1>2. ASSUME NEW s \in Sessions, Pending("leave", s)' PROVE stopped'[s]
  BY <1>2, PendingAppend DEF LeaveIsLast
<1>3. ASSUME NEW i \in DOMAIN roomQ', NEW j \in DOMAIN roomQ', roomQ'[i].op = "leave",
             roomQ'[j].op \in {"join", "leave"}, roomQ'[i].s = roomQ'[j].s
      PROVE  j <= i
  <2>1. CASE i = Len(roomQ) + 1
    BY <2>1, <1>1
  <2>2. CASE i # Len(roomQ) + 1 /\ j # Len(roomQ) + 1
    BY <2>2, <1>1, <1>3 DEF LeaveIsLast
  <2>3. CASE i # Len(roomQ) + 1 /\ j = Len(roomQ) + 1
    BY <2>3, <1>1, <1>3 DEF Pending
  <2>. QED BY <2>1, <2>2, <2>3
<1>. QED BY <1>2, <1>3 DEF LeaveIsLast

-----------------------------------------------------------------------------
(* A session whose join is posted or has run, or that has anything queued or
   any flag set, has been entered; entering is never undone. *)
Membership == Starting /\ BeforeJoin /\ LeaveIsLast /\ StoppedLeaves

(* The handlers that leave every variable of Membership alone. *)
LEMMA MembershipStutter ==
  ASSUME Membership,
         UNCHANGED <<readOp, acceptAt, acceptFor, stopped, sessions_, roomQ, strandQ, outbox>>
  PROVE  Membership'
BY DEF Membership, Starting, BeforeJoin, LeaveIsLast, StoppedLeaves, Entered, Pending

(* stop() called by a handler of an entered session s that changes only s's
   queues and operations. *)
LEMMA MembershipStop ==
  ASSUME TypeOK, Membership, NEW s \in Sessions, NEW m \in Messages,
         Stop(s, m), readOp[s] = "pending" \/ outbox[s] # <<>>,
         UNCHANGED <<acceptAt, acceptFor, sessions_>>,
         readOp' = readOp \/ (readOp[s] = "pending" /\ readOp' = [readOp EXCEPT ![s] = "none"]),
         \A q \in Sessions : q # s => strandQ'[q] = strandQ[q] /\ outbox'[q] = outbox[q]
  PROVE  Membership'
<1> USE DEF Membership
<1>1. /\ Entered(s)
      /\ \A q \in Sessions : Entered(q)' <=> Entered(q)
  BY DEF BeforeJoin, Entered, TypeOK
<1>2. /\ stopped'[s]
      /\ \A q \in Sessions : q # s => stopped'[q] = stopped[q]
      /\ \A q \in Sessions : stopped[q] => stopped'[q]
  BY DEF Stop, TypeOK
<1>3. Starting'
  BY DEF Starting, TypeOK
<1>4. CASE stopped[s]
  <2>1. roomQ' = roomQ /\ \A q \in Sessions : stopped'[q] = stopped[q]
    BY <1>4, <1>2 DEF Stop, TypeOK
  <2>2. \A o, q : Pending(o, q)' <=> Pending(o, q)
    BY <2>1 DEF Pending
  <2>3. BeforeJoin'
    BY <1>1, <1>2, <2>1, <2>2 DEF BeforeJoin
  <2>4. LeaveIsLast'
    BY <2>1, <2>2 DEF LeaveIsLast
  <2>5. StoppedLeaves'
    BY <2>1, <2>2 DEF StoppedLeaves
  <2>. QED BY <1>3, <2>3, <2>4, <2>5
<1>5. CASE ~stopped[s]
  <2> DEFINE x == RoomOp("leave", s, m)
  <2>1. roomQ' = Append(roomQ, x) /\ x \in RoomOps /\ x.op = "leave" /\ x.s = s
    BY <1>5, RoomOpType DEF Stop, RoomOp
  <2>2. \A o, q : Pending(o, q)' <=> Pending(o, q) \/ (o = "leave" /\ q = s)
    BY <2>1, PendingAppend
  <2>3. BeforeJoin'
    BY <1>1, <1>2, <2>2 DEF BeforeJoin
  <2>4. LeaveIsLast'
    BY <2>1, <1>2, <1>5, OrderAppend DEF LeaveIsLast
  <2>5. StoppedLeaves'
    BY <1>2, <2>2 DEF StoppedLeaves
  <2>. QED BY <1>3, <2>3, <2>4, <2>5
<1>. QED BY <1>4, <1>5

(* A broadcast posted to the room's strand is neither a join nor a leave. *)
LEMMA MembershipBroadcast ==
  ASSUME TypeOK, Membership, NEW x \in RoomOps, x.op = "broadcast", roomQ' = Append(roomQ, x),
         UNCHANGED <<readOp, acceptAt, acceptFor, stopped, sessions_, strandQ, outbox>>
  PROVE  Membership'
<1>1. \A o \in {"join", "leave"} : \A s : Pending(o, s)' <=> Pending(o, s)
  BY PendingAppend
<1>2. LeaveIsLast'
  BY OrderAppend DEF Membership
<1>. QED BY <1>1, <1>2 DEF Membership, Starting, BeforeJoin, StoppedLeaves, Entered

LEMMA NextMembership == TypeOK /\ WriteChain /\ Membership /\ [Next]_vars => Membership'
<1> SUFFICES ASSUME TypeOK, WriteChain, Membership, [Next]_vars PROVE Membership'
  OBVIOUS
<1> USE DEF sessionVars, roomVars, acceptVars, Membership
<1>1. CASE Signal \/ CloseAcceptor \/ Idle \/ UNCHANGED vars
  BY <1>1, MembershipStutter DEF Signal, CloseAcceptor, Idle, vars
<1>2. CASE AcceptFailed \/ AcceptAgain \/ \E s \in Sessions : AcceptConnection(s)
  <2>1. UNCHANGED <<readOp, stopped, sessions_, roomQ, strandQ, outbox>>
    BY <1>2 DEF AcceptFailed, AcceptAgain, AcceptConnection
  <2>2. Starting'
    BY <1>2 DEF Starting, AcceptFailed, AcceptAgain, AcceptConnection
  <2>3. \A s \in Sessions : Entered(s)' <=> Entered(s)
    BY <1>2 DEF Entered, AcceptFailed, AcceptAgain, AcceptConnection
  <2>. QED BY <2>1, <2>2, <2>3 DEF BeforeJoin, LeaveIsLast, StoppedLeaves, Pending
<1>3. CASE StartJoin
  <2> DEFINE x == RoomOp("join", acceptFor, Message("joined", acceptFor, 0))
  <2>1. acceptFor \in Sessions /\ 0 \in 0..MaxLines
    BY <1>3, ChatServerAssumption DEF TypeOK, StartJoin
  <2>2. x \in RoomOps /\ x.op = "join" /\ x.s = acceptFor
    BY <2>1, MessageType, RoomOpType DEF PublicKinds, RoomOp
  <2>3. ~Entered(acceptFor)
    BY <1>3 DEF Starting, StartJoin, Entered
  <2>4. ~stopped[acceptFor] /\ ~Pending("leave", acceptFor)
    BY <2>1, <2>3 DEF BeforeJoin
  <2>5. roomQ' = Append(roomQ, x) /\ UNCHANGED <<acceptFor, readOp, stopped, sessions_, strandQ, outbox>>
    BY <1>3 DEF StartJoin
  <2>6. \A o, s : Pending(o, s)' <=> Pending(o, s) \/ (o = "join" /\ s = acceptFor)
    BY <2>2, <2>5, PendingAppend
  <2>7. Starting'
    BY <1>3 DEF Starting, StartJoin
  <2>8. \A s \in Sessions : Entered(s)' <=> (Entered(s) \/ s = acceptFor)
    BY <1>3 DEF StartJoin, Entered
  <2>9. BeforeJoin'
    BY <2>5, <2>6, <2>8 DEF BeforeJoin
  <2>10. LeaveIsLast'
    BY <2>2, <2>4, <2>5, OrderAppend
  <2>11. StoppedLeaves'
    BY <2>4, <2>5, <2>6 DEF StoppedLeaves
  <2>. QED BY <2>7, <2>9, <2>10, <2>11
<1>4. CASE StartDeliver
  <2>1. /\ UNCHANGED <<readOp, acceptFor, stopped, sessions_, roomQ, outbox>>
        /\ \A q \in Sessions : q # acceptFor => strandQ'[q] = strandQ[q]
    BY <1>4 DEF StartDeliver, TypeOK
  <2>2. Starting' /\ \A s \in Sessions : Entered(s)' <=> Entered(s)
    BY <1>4 DEF StartDeliver, Starting, Entered
  <2>3. Entered(acceptFor)
    BY <1>4 DEF StartDeliver, Entered
  <2>. QED BY <2>1, <2>2, <2>3 DEF BeforeJoin, LeaveIsLast, StoppedLeaves, Pending
<1>5. CASE StartRead
  <2>1. UNCHANGED <<acceptFor, stopped, sessions_, roomQ, strandQ, outbox>>
    BY <1>5 DEF StartRead
  <2>2. \A s \in Sessions : Entered(s) => Entered(s)'
    BY <1>5 DEF StartRead, Entered, TypeOK
  <2>3. Starting'
    BY <1>5 DEF StartRead, Starting
  <2>. QED BY <2>1, <2>2, <2>3 DEF BeforeJoin, LeaveIsLast, StoppedLeaves, Pending
<1>6. ASSUME Room PROVE
        /\ roomQ # <<>> /\ roomQ' = Tail(roomQ)
        /\ UNCHANGED <<readOp, acceptAt, acceptFor, stopped, outbox>>
        /\ Head(roomQ).s \in Sessions
  BY <1>6, HeadType DEF Room, RoomJoin, RoomLeave, RoomBroadcast
<1>7. ASSUME Room PROVE
        /\ \A o, s : Pending(o, s) <=> Pending(o, s)' \/ (Head(roomQ).op = o /\ Head(roomQ).s = s)
        /\ LeaveIsLast' /\ Starting'
        /\ \A s \in Sessions : Entered(s)' <=> Entered(s)
  BY <1>6, <1>7, PendingTail, OrderTail DEF Starting, Entered
<1>8. CASE RoomJoin
  <2> DEFINE j == Head(roomQ).s
  <2>1. Pending("join", j) /\ Head(roomQ).op = "join" /\ sessions_' = sessions_ \cup {j}
    BY <1>8, <1>7 DEF Room, RoomJoin
  <2>2. Entered(j)
    BY <1>6, <1>8, <2>1 DEF Room, BeforeJoin
  <2>3. \A s \in Sessions : s \notin sessions_' => strandQ'[s] = strandQ[s]
    BY <1>8 DEF RoomJoin, BroadcastTo
  <2>4. BeforeJoin'
    BY <1>6, <1>7, <1>8, <2>1, <2>2, <2>3 DEF Room, BeforeJoin
  <2>5. StoppedLeaves'
    BY <1>6, <1>7, <1>8, <2>1 DEF Room, StoppedLeaves
  <2>. QED BY <1>7, <1>8, <2>4, <2>5 DEF Room
<1>9. CASE RoomLeave
  <2> DEFINE l == Head(roomQ).s
  <2>1. Head(roomQ).op = "leave" /\ sessions_' = sessions_ \ {l}
    BY <1>9 DEF RoomLeave
  <2>2. \A s \in Sessions : s \notin sessions_ => strandQ'[s] = strandQ[s]
    BY <1>9 DEF RoomLeave, BroadcastTo
  <2>3. \A s \in Sessions : s = l => ~Pending("join", s)' /\ ~Pending("leave", s)'
    BY <1>6, <1>9, <2>1, LeaveAtHead DEF Room
  <2>4. BeforeJoin'
    BY <1>6, <1>7, <1>9, <2>1, <2>2 DEF Room, BeforeJoin
  <2>5. StoppedLeaves'
    BY <1>6, <1>7, <1>9, <2>1, <2>3 DEF Room, StoppedLeaves
  <2>. QED BY <1>7, <1>9, <2>4, <2>5 DEF Room
<1>10. CASE RoomBroadcast
  <2>1. Head(roomQ).op = "broadcast" /\ sessions_' = sessions_
    BY <1>10 DEF RoomBroadcast
  <2>2. \A s \in Sessions : s \notin sessions_ => strandQ'[s] = strandQ[s]
    BY <1>10 DEF RoomBroadcast, BroadcastTo
  <2>3. BeforeJoin'
    BY <1>6, <1>7, <1>10, <2>1, <2>2 DEF Room, BeforeJoin
  <2>4. StoppedLeaves'
    BY <1>6, <1>7, <1>10, <2>1 DEF Room, StoppedLeaves
  <2>. QED BY <1>7, <1>10, <2>3, <2>4 DEF Room
<1>11. ASSUME NEW s \in Sessions, Deliver(s) PROVE Membership'
  <2>1. UNCHANGED <<readOp, acceptAt, acceptFor, stopped, sessions_, roomQ>>
    BY <1>11 DEF Deliver
  <2>2. Entered(s) /\ \A q \in Sessions : Entered(q)' <=> Entered(q)
    BY <1>11, <2>1 DEF Deliver, BeforeJoin, Entered
  <2>3. \A q \in Sessions : q # s => strandQ'[q] = strandQ[q] /\ outbox'[q] = outbox[q]
    BY <1>11 DEF Deliver, TypeOK
  <2>. QED BY <2>1, <2>2, <2>3 DEF Starting, BeforeJoin, LeaveIsLast, StoppedLeaves, Pending
<1>12. ASSUME NEW s \in Sessions, WriteDone(s) PROVE Membership'
  <2>1. UNCHANGED <<readOp, acceptAt, acceptFor, stopped, sessions_, roomQ, strandQ>>
    BY <1>12 DEF WriteDone
  <2>2. Entered(s) /\ \A q \in Sessions : Entered(q)' <=> Entered(q)
    BY <1>12, <2>1 DEF WriteDone, WriteChain, BeforeJoin, Entered
  <2>3. \A q \in Sessions : q # s => outbox'[q] = outbox[q]
    BY <1>12 DEF WriteDone, TypeOK
  <2>. QED BY <2>1, <2>2, <2>3 DEF Starting, BeforeJoin, LeaveIsLast, StoppedLeaves, Pending
<1>13. ASSUME NEW s \in Sessions, NEW k \in PublicKinds PROVE Message(k, s, name[s]) \in Messages
  <2>1. name[s] \in 0..MaxLines
    BY ChatServerAssumption DEF TypeOK
  <2>. QED BY <2>1, MessageType
<1>14. ASSUME NEW s \in Sessions, WriteFailed(s) PROVE Membership'
  BY <1>13, <1>14, MembershipStop DEF WriteFailed, WriteChain, PublicKinds
<1>15. ASSUME NEW s \in Sessions, ReadFailed(s) PROVE Membership'
  BY <1>13, <1>15, MembershipStop DEF ReadFailed, PublicKinds
<1>16. ASSUME NEW s \in Sessions, OnOversized(s) PROVE Membership'
  <2>1. \A q \in Sessions : q # s => strandQ'[q] = strandQ[q]
    BY <1>16 DEF OnOversized, TypeOK
  <2>. QED BY <1>13, <1>16, <2>1, MembershipStop DEF OnOversized, ReadLine, PublicKinds
<1>17. ASSUME NEW s \in Sessions, OnQuit(s) PROVE Membership'
  BY <1>13, <1>17, MembershipStop DEF OnQuit, ReadLine, PublicKinds
<1>18. ASSUME NEW s \in Sessions, OnNothing(s) PROVE Membership'
  BY <1>18, MembershipStutter DEF OnNothing
<1>19. ASSUME NEW s \in Sessions, OnRename(s) \/ OnText(s) PROVE Membership'
  <2>1. /\ name[s] \in 0..MaxLines
        /\ OnRename(s) => name'[s] \in 0..MaxLines
    <3>1. name[s] \in 0..lines /\ lines \in Nat /\ lines < MaxLines
      BY <1>19, ChatServerAssumption DEF TypeOK, OnRename, OnText, ReadLine
    <3>2. OnRename(s) => name'[s] = name[s] + 1
      BY DEF OnRename, TypeOK
    <3>. QED BY <3>1, <3>2, ChatServerAssumption
  <2>2. PICK k \in PublicKinds, n \in 0..MaxLines :
          roomQ' = Append(roomQ, RoomOp("broadcast", s, Message(k, s, n)))
    BY <1>19, <2>1 DEF OnRename, OnText, PublicKinds
  <2>3. /\ RoomOp("broadcast", s, Message(k, s, n)) \in RoomOps
        /\ RoomOp("broadcast", s, Message(k, s, n)).op = "broadcast"
    BY MessageType, RoomOpType DEF RoomOp
  <2>4. UNCHANGED <<readOp, acceptAt, acceptFor, stopped, sessions_, strandQ, outbox>>
    BY <1>19 DEF OnRename, OnText
  <2>. QED BY <2>2, <2>3, <2>4, MembershipBroadcast
<1>. QED
  BY <1>1, <1>2, <1>3, <1>4, <1>5, <1>8, <1>9, <1>10, <1>11, <1>12, <1>14, <1>15, <1>16,
     <1>17, <1>18, <1>19
  DEF Next, Accept, Room, Session, OnRead

LEMMA InitInv == Init => IInv
BY InitType DEF Init, IInv, WriteChain, Starting, BeforeJoin, LeaveIsLast, StoppedLeaves,
   Pending, Entered

LEMMA NextInv == IInv /\ [Next]_vars => IInv'
BY NextType, NextWrite, NextMembership DEF IInv, Membership

LEMMA Inductive == Spec => []IInv
BY InitInv, NextInv, PTL DEF Spec

(* No stopped session stays in the room: the leave that stop() posts runs after
   the join that start() posted, whatever order the failures come in. *)
THEOREM NoStoppedMember == Spec => []StoppedLeaves
<1>1. IInv => StoppedLeaves
  BY DEF IInv
<1>. QED BY <1>1, Inductive, PTL

-----------------------------------------------------------------------------
(* The story. *)
LEMMA StoryShape ==
  ASSUME TypeOK
  PROVE  /\ Story \in Seq(Messages) /\ Len(log) \in Nat /\ Len(roomQ) \in Nat
         /\ DOMAIN log = 1..Len(log) /\ DOMAIN roomQ = 1..Len(roomQ)
         /\ Len(Story) = Len(log) + Len(roomQ) /\ DOMAIN Story = 1..(Len(log) + Len(roomQ))
         /\ \A i \in 1..Len(log) : Story[i] = log[i]
         /\ \A i \in 1..Len(roomQ) : Story[Len(log) + i] = roomQ[i].msg
<1> DEFINE posted == [i \in DOMAIN roomQ |-> roomQ[i].msg]
<1>1. log \in Seq(Messages) /\ roomQ \in Seq(RoomOps)
  BY DEF TypeOK
<1>2. DOMAIN roomQ = 1..Len(roomQ) /\ Len(roomQ) \in Nat
      /\ \A i \in 1..Len(roomQ) : roomQ[i].msg \in Messages
  <2>1. \A x \in RoomOps : x.msg \in Messages
    BY DEF RoomOps
  <2>2. /\ DOMAIN roomQ = 1..Len(roomQ) /\ Len(roomQ) \in Nat
        /\ \A i \in 1..Len(roomQ) : roomQ[i] \in RoomOps
    BY <1>1
  <2>. QED BY <2>1, <2>2
<1>3. posted = [i \in 1..Len(roomQ) |-> roomQ[i].msg]
  BY <1>2
<1>4. posted \in Seq(Messages) /\ Len(posted) = Len(roomQ)
      /\ \A i \in 1..Len(roomQ) : posted[i] = roomQ[i].msg
  BY <1>2, <1>3
<1>5. Story = log \o posted
  BY DEF Story
<1> HIDE DEF posted
<1>6. /\ Len(log) \in Nat /\ DOMAIN log = 1..Len(log)
      /\ Story \in Seq(Messages) /\ Len(Story) = Len(log) + Len(roomQ)
      /\ DOMAIN Story = 1..(Len(log) + Len(roomQ))
      /\ \A i \in 1..Len(log) : Story[i] = log[i]
      /\ \A i \in 1..(Len(log) + Len(roomQ)) : i > Len(log) => Story[i] = posted[i - Len(log)]
  <2>1. /\ Story \in Seq(Messages) /\ Len(Story) = Len(log) + Len(posted)
        /\ \A i \in 1..Len(log) + Len(posted) :
             Story[i] = IF i <= Len(log) THEN log[i] ELSE posted[i - Len(log)]
    <3>1. /\ log \o posted \in Seq(Messages)
          /\ Len(log \o posted) = Len(log) + Len(posted)
          /\ \A i \in 1..Len(log) + Len(posted) :
               (log \o posted)[i] = IF i <= Len(log) THEN log[i] ELSE posted[i - Len(log)]
      BY <1>1, <1>4, ConcatProperties
    <3>. QED BY <1>5, <3>1
  <2>2. Len(log) \in Nat /\ DOMAIN log = 1..Len(log)
    BY <1>1
  <2>3. DOMAIN Story = 1..(Len(log) + Len(roomQ))
    BY <1>4, <2>1
  <2>. QED BY <1>2, <1>4, <2>1, <2>2, <2>3
<1>7. ASSUME NEW i \in 1..Len(roomQ) PROVE Story[Len(log) + i] = roomQ[i].msg
  <2>1. Len(log) + i \in 1..(Len(log) + Len(roomQ)) /\ Len(log) + i > Len(log)
        /\ (Len(log) + i) - Len(log) = i
    BY <1>2, <1>6
  <2>. QED BY <1>4, <1>6, <2>1
<1>. QED BY <1>2, <1>6, <1>7

LEMMA StoryShapeNext ==
  (TypeOK =>
     /\ Story \in Seq(Messages) /\ Len(log) \in Nat /\ Len(roomQ) \in Nat
     /\ DOMAIN log = 1..Len(log) /\ DOMAIN roomQ = 1..Len(roomQ)
     /\ Len(Story) = Len(log) + Len(roomQ) /\ DOMAIN Story = 1..(Len(log) + Len(roomQ))
     /\ \A i \in 1..Len(log) : Story[i] = log[i]
     /\ \A i \in 1..Len(roomQ) : Story[Len(log) + i] = roomQ[i].msg)'
BY StoryShape, PTL

(* Sequences with the same elements are the same. *)
LEMMA SameSeq ==
  ASSUME NEW S, NEW a \in Seq(S), NEW b \in Seq(S), Len(a) = Len(b),
         \A i \in 1..Len(a) : a[i] = b[i]
  PROVE  a = b
OBVIOUS

LEMMA AppendFacts ==
  ASSUME NEW S, NEW a \in Seq(S), NEW x \in S, NEW n \in Nat, Len(a) = n
  PROVE  /\ Append(a, x) \in Seq(S) /\ Len(Append(a, x)) = n + 1
         /\ DOMAIN a = 1..n /\ DOMAIN Append(a, x) = 1..(n + 1)
         /\ Append(a, x)[n + 1] = x
         /\ \A i \in 1..n : Append(a, x)[i] = a[i]
OBVIOUS

(* Posting a handler adds to the story, running one does not change it. *)
LEMMA StoryPosts ==
  ASSUME TypeOK, TypeOK', log' = log, NEW x \in RoomOps, roomQ' = Append(roomQ, x)
  PROVE  Story' = Append(Story, x.msg)
<1>1. x.msg \in Messages
  BY DEF RoomOps
<1>2. PICK n \in Nat : n = Len(log)
  BY StoryShape
<1>3. PICK k \in Nat : k = Len(roomQ)
  BY StoryShape
<1>4. Len(roomQ') = k + 1 /\ roomQ'[k + 1] = x /\ \A i \in 1..k : roomQ'[i] = roomQ[i]
  BY <1>3 DEF TypeOK
<1>5. /\ Story \in Seq(Messages) /\ Len(Story) = n + k
      /\ \A i \in 1..n : Story[i] = log[i]
      /\ \A i \in 1..k : Story[n + i] = roomQ[i].msg
  BY <1>2, <1>3, StoryShape
<1>6. /\ Story' \in Seq(Messages) /\ Len(Story') = n + (k + 1)
      /\ \A i \in 1..n : Story'[i] = log[i]
      /\ \A i \in 1..(k + 1) : Story'[n + i] = roomQ'[i].msg
  BY <1>2, <1>4, StoryShapeNext
<1>7. /\ Append(Story, x.msg) \in Seq(Messages) /\ Len(Append(Story, x.msg)) = n + (k + 1)
      /\ \A i \in 1..(n + k) : Append(Story, x.msg)[i] = Story[i]
      /\ Append(Story, x.msg)[(n + k) + 1] = x.msg
  BY <1>1, <1>5
<1>8. ASSUME NEW i \in 1..(n + (k + 1)) PROVE Story'[i] = Append(Story, x.msg)[i]
  <2>1. CASE i \in 1..n
    BY <1>5, <1>6, <1>7, <2>1
  <2>2. CASE i \in (n + 1)..(n + k)
    <3>1. PICK j \in 1..k : i = n + j
      <4>1. i - n \in 1..k /\ i = n + (i - n)
        BY <2>2
      <4>. QED BY <4>1
    <3>2. j \in 1..(k + 1) /\ i \in 1..(n + k)
      BY <3>1
    <3>. QED BY <1>4, <1>5, <1>6, <1>7, <3>1, <3>2
  <2>3. CASE i = n + (k + 1)
    <3>1. k + 1 \in 1..(k + 1) /\ i = (n + k) + 1
      BY <2>3
    <3>. QED BY <1>4, <1>6, <1>7, <2>3, <3>1
  <2>4. i \in 1..n \/ i \in (n + 1)..(n + k) \/ i = n + (k + 1)
    OBVIOUS
  <2>. QED BY <2>1, <2>2, <2>3, <2>4
<1>. QED BY <1>6, <1>7, <1>8, SameSeq

LEMMA StoryRuns ==
  ASSUME TypeOK, TypeOK', roomQ # <<>>, log' = Append(log, Head(roomQ).msg), roomQ' = Tail(roomQ)
  PROVE  Story' = Story
<1>2. PICK n \in Nat : n = Len(log)
  BY StoryShape
<1>3. PICK k \in Nat : k + 1 = Len(roomQ)
  <2>1. Len(roomQ) - 1 \in Nat /\ (Len(roomQ) - 1) + 1 = Len(roomQ)
    BY DEF TypeOK
  <2>. QED BY <2>1
<1>4. Len(roomQ') = k /\ Head(roomQ) = roomQ[1] /\ \A i \in 1..k : roomQ'[i] = roomQ[i + 1]
  BY <1>3 DEF TypeOK
<1>5. Len(log') = n + 1 /\ log'[n + 1] = roomQ[1].msg /\ \A i \in 1..n : log'[i] = log[i]
  BY <1>2, <1>4, HeadType DEF TypeOK
<1>6. /\ Story \in Seq(Messages) /\ Len(Story) = n + (k + 1)
      /\ \A i \in 1..n : Story[i] = log[i]
      /\ \A i \in 1..(k + 1) : Story[n + i] = roomQ[i].msg
  BY <1>2, <1>3, StoryShape
<1>7. /\ Story' \in Seq(Messages) /\ Len(Story') = (n + 1) + k
      /\ \A i \in 1..(n + 1) : Story'[i] = log'[i]
      /\ \A i \in 1..k : Story'[(n + 1) + i] = roomQ'[i].msg
  BY <1>4, <1>5, StoryShapeNext
<1>8. ASSUME NEW i \in 1..((n + 1) + k) PROVE Story'[i] = Story[i]
  <2>1. CASE i \in 1..n
    BY <1>5, <1>6, <1>7, <2>1
  <2>2. CASE i = n + 1
    <3>1. 1 \in 1..(k + 1) /\ i \in 1..(n + 1)
      BY <2>2
    <3>. QED BY <1>5, <1>6, <1>7, <2>2, <3>1
  <2>3. CASE i \in (n + 2)..((n + 1) + k)
    <3>1. PICK j \in 1..k : i = (n + 1) + j
      <4>1. i - (n + 1) \in 1..k /\ i = (n + 1) + (i - (n + 1))
        BY <2>3
      <4>. QED BY <4>1
    <3>2. j + 1 \in 1..(k + 1) /\ i = n + (j + 1)
      BY <3>1
    <3>3. Story'[i] = roomQ'[j].msg /\ roomQ'[j] = roomQ[j + 1]
      BY <1>4, <1>7, <3>1
    <3>4. Story[n + (j + 1)] = roomQ[j + 1].msg
      BY <1>6, <3>2
    <3>. QED BY <3>2, <3>3, <3>4
  <2>4. i \in 1..n \/ i = n + 1 \/ i \in (n + 2)..((n + 1) + k)
    OBVIOUS
  <2>. QED BY <2>1, <2>2, <2>3, <2>4
<1>. QED BY <1>6, <1>7, <1>8, SameSeq

-----------------------------------------------------------------------------
(* What a handler does to the room's story: nothing, it posts a handler for
   its session, or it is the handler at the front of the room's strand. *)
Departures == {"left", "disconnected"}

TellsNothing ==
  /\ UNCHANGED <<log, roomQ, sessions_, stopped, name>>
  /\ \A q \in Sessions : Entered(q)' <=> Entered(q)

Posts(s, x) ==
  /\ x.s = s /\ x.msg.from = s
  /\ roomQ' = Append(roomQ, x)
  /\ UNCHANGED <<log, sessions_>>
  /\ \A q \in Sessions : /\ q # s => stopped'[q] = stopped[q] /\ name'[q] = name[q]
                         /\ Entered(q)' <=> Entered(q) \/ q = s

PostsJoin(s, x) ==
  /\ Posts(s, x) /\ ~Entered(s)
  /\ x.op = "join" /\ x.msg.kind = "joined" /\ x.msg.name = 0
  /\ stopped'[s] = stopped[s] /\ name'[s] = name[s]

PostsLeave(s, x) ==
  /\ Posts(s, x) /\ Entered(s)
  /\ x.op = "leave" /\ x.msg.kind \in Departures /\ x.msg.name = name[s]
  /\ ~stopped[s] /\ stopped'[s] /\ name'[s] = name[s]

PostsSpeech(s, x) ==
  /\ Posts(s, x) /\ Entered(s)
  /\ x.op = "broadcast" /\ x.msg.kind \in {"renamed", "chat"} /\ x.msg.name = name'[s]
  /\ stopped'[s] = stopped[s]
  /\ name'[s] = IF x.msg.kind = "renamed" THEN name[s] + 1 ELSE name[s]

RunsFront ==
  LET front == Head(roomQ)
  IN /\ roomQ # <<>> /\ roomQ' = Tail(roomQ)
     /\ log' = IF front.op = "leave" /\ front.s \notin sessions_ THEN log
               ELSE Append(log, front.msg)
     /\ sessions_' = CASE front.op = "join"  -> sessions_ \cup {front.s}
                       [] front.op = "leave" -> sessions_ \ {front.s}
                       [] OTHER              -> sessions_
     /\ UNCHANGED <<stopped, name>>
     /\ \A q \in Sessions : Entered(q)' <=> Entered(q)

LEMMA StopPosts ==
  ASSUME TypeOK, NEW s \in Sessions, NEW k \in Departures, Stop(s, Message(k, s, name[s])),
         Entered(s), UNCHANGED <<log, sessions_, name>>,
         \A q \in Sessions : Entered(q)' <=> Entered(q)
  PROVE  TellsNothing \/ \E x \in RoomOps : PostsLeave(s, x)
<1>1. CASE stopped[s]
  <2>1. roomQ' = roomQ /\ stopped' = stopped
    BY <1>1 DEF Stop, TypeOK
  <2>. QED BY <2>1 DEF TellsNothing
<1>2. CASE ~stopped[s]
  <2> DEFINE x == RoomOp("leave", s, Message(k, s, name[s]))
  <2>1. name[s] \in 0..MaxLines /\ k \in PublicKinds \cup PrivateKinds
    BY ChatServerAssumption DEF TypeOK, Departures, PublicKinds
  <2>2. x \in RoomOps
    BY <2>1, MessageType, RoomOpType
  <2>3. /\ x.op = "leave" /\ x.s = s /\ x.msg.from = s /\ x.msg.kind = k
        /\ x.msg.name = name[s]
    BY DEF RoomOp, Message
  <2>4. roomQ' = Append(roomQ, x)
    BY <1>2 DEF Stop
  <2>5. /\ stopped'[s] /\ \A q \in Sessions : q # s => stopped'[q] = stopped[q]
    BY DEF Stop, TypeOK
  <2> HIDE DEF x
  <2>6. PostsLeave(s, x)
    BY <1>2, <2>3, <2>4, <2>5 DEF PostsLeave, Posts
  <2>. QED BY <2>2, <2>6
<1>. QED BY <1>1, <1>2

LEMMA Effects ==
  ASSUME IInv, [Next]_vars
  PROVE  \/ TellsNothing
         \/ \E s \in Sessions, x \in RoomOps :
              PostsJoin(s, x) \/ PostsLeave(s, x) \/ PostsSpeech(s, x)
         \/ RunsFront
<1> USE DEF sessionVars, roomVars, acceptVars
<1>0. TypeOK /\ WriteChain /\ Starting /\ BeforeJoin
  BY DEF IInv
<1>1. CASE Signal \/ CloseAcceptor \/ Idle \/ UNCHANGED vars
  BY <1>1 DEF Signal, CloseAcceptor, Idle, vars, TellsNothing, Entered
<1>2. CASE AcceptFailed \/ AcceptAgain \/ \E s \in Sessions : AcceptConnection(s)
  BY <1>2 DEF AcceptFailed, AcceptAgain, AcceptConnection, TellsNothing, Entered
<1>3. CASE StartJoin
  <2> DEFINE s == acceptFor
             x == RoomOp("join", s, Message("joined", s, 0))
  <2>1. s \in Sessions /\ 0 \in 0..MaxLines
    BY <1>0, <1>3, ChatServerAssumption DEF TypeOK, StartJoin
  <2>2. x \in RoomOps
    BY <2>1, MessageType, RoomOpType DEF PublicKinds
  <2>3. /\ x.op = "join" /\ x.s = s /\ x.msg.from = s /\ x.msg.kind = "joined" /\ x.msg.name = 0
    BY DEF RoomOp, Message
  <2>4. ~Entered(s)
    BY <1>0, <1>3 DEF Starting, StartJoin, Entered
  <2>5. roomQ' = Append(roomQ, x) /\ UNCHANGED <<log, sessions_, stopped, name>>
    BY <1>3 DEF StartJoin
  <2>6. \A q \in Sessions : Entered(q)' <=> Entered(q) \/ q = s
    BY <1>3 DEF StartJoin, Entered
  <2> HIDE DEF x
  <2>7. PostsJoin(s, x)
    BY <2>3, <2>4, <2>5, <2>6 DEF PostsJoin, Posts
  <2>. QED BY <2>1, <2>2, <2>7
<1>4. CASE StartDeliver \/ StartRead
  <2>1. \A q \in Sessions : Entered(q)' <=> Entered(q)
    BY <1>0, <1>4 DEF StartDeliver, StartRead, Entered, TypeOK
  <2>. QED BY <1>4, <2>1 DEF StartDeliver, StartRead, TellsNothing
<1>5. CASE Room
  <2>1. \A q \in Sessions : Entered(q)' <=> Entered(q)
    BY <1>5 DEF Room, RoomJoin, RoomLeave, RoomBroadcast, Entered
  <2>2. CASE RoomJoin
    BY <2>1, <2>2 DEF RoomJoin, BroadcastTo, RunsFront
  <2>3. CASE RoomLeave
    BY <2>1, <2>3 DEF RoomLeave, BroadcastTo, RunsFront
  <2>4. CASE RoomBroadcast
    BY <2>1, <2>4 DEF RoomBroadcast, BroadcastTo, RunsFront
  <2>. QED BY <1>5, <2>2, <2>3, <2>4 DEF Room
<1>6. ASSUME NEW s \in Sessions, Deliver(s) \/ WriteDone(s) \/ OnNothing(s) PROVE TellsNothing
  BY <1>6 DEF Deliver, WriteDone, OnNothing, TellsNothing, Entered
<1>7. ASSUME NEW s \in Sessions, readOp[s] = "pending" \/ outbox[s] # <<>> PROVE Entered(s)
  BY <1>0, <1>7 DEF BeforeJoin, Entered
<1>8. ASSUME NEW s \in Sessions, UNCHANGED <<acceptAt, acceptFor>>,
             \/ readOp' = readOp
             \/ readOp[s] = "pending" /\ readOp' = [readOp EXCEPT ![s] = "none"]
      PROVE  \A q \in Sessions : Entered(q)' <=> Entered(q)
  BY <1>0, <1>8 DEF Entered, TypeOK
<1>9. ASSUME NEW s \in Sessions, WriteFailed(s)
      PROVE  TellsNothing \/ \E x \in RoomOps : PostsLeave(s, x)
  BY <1>0, <1>7, <1>8, <1>9, StopPosts DEF WriteFailed, WriteChain, Departures
<1>10. ASSUME NEW s \in Sessions, ReadFailed(s)
       PROVE  TellsNothing \/ \E x \in RoomOps : PostsLeave(s, x)
  BY <1>0, <1>7, <1>8, <1>10, StopPosts DEF ReadFailed, Departures
<1>11. ASSUME NEW s \in Sessions, OnOversized(s)
       PROVE  TellsNothing \/ \E x \in RoomOps : PostsLeave(s, x)
  BY <1>0, <1>7, <1>8, <1>11, StopPosts DEF OnOversized, ReadLine, Departures
<1>12. ASSUME NEW s \in Sessions, OnQuit(s)
       PROVE  TellsNothing \/ \E x \in RoomOps : PostsLeave(s, x)
  BY <1>0, <1>7, <1>8, <1>12, StopPosts DEF OnQuit, ReadLine, Departures
<1>13. ASSUME NEW s \in Sessions, OnRename(s) \/ OnText(s)
       PROVE  \E x \in RoomOps : PostsSpeech(s, x)
  <2>1. /\ name[s] \in 0..MaxLines /\ name[s] + 1 \in 0..MaxLines
        /\ OnRename(s) => name'[s] = name[s] + 1
        /\ OnText(s) => name'[s] = name[s]
        /\ \A q \in Sessions : q # s => name'[q] = name[q]
    <3>1. name[s] \in 0..lines /\ lines \in Nat /\ lines < MaxLines
      BY <1>0, <1>13, ChatServerAssumption DEF TypeOK, OnRename, OnText, ReadLine
    <3>2. /\ OnRename(s) => name'[s] = name[s] + 1
          /\ OnText(s) => name'[s] = name[s]
          /\ \A q \in Sessions : q # s => name'[q] = name[q]
      BY <1>0, <1>13 DEF OnRename, OnText, TypeOK
    <3>. QED BY <3>1, <3>2, ChatServerAssumption
  <2>2. PICK k \in {"renamed", "chat"} :
          /\ roomQ' = Append(roomQ, RoomOp("broadcast", s, Message(k, s, name'[s])))
          /\ name'[s] = IF k = "renamed" THEN name[s] + 1 ELSE name[s]
    <3>1. CASE OnRename(s)
      BY <2>1, <3>1 DEF OnRename
    <3>2. CASE OnText(s)
      BY <2>1, <3>2 DEF OnText
    <3>. QED BY <1>13, <3>1, <3>2
  <2> DEFINE x == RoomOp("broadcast", s, Message(k, s, name'[s]))
  <2>3. name'[s] \in 0..MaxLines /\ k \in PublicKinds \cup PrivateKinds
    BY <2>1, <2>2 DEF PublicKinds
  <2>4. x \in RoomOps
    BY <2>3, MessageType, RoomOpType
  <2>5. /\ x.op = "broadcast" /\ x.s = s /\ x.msg.from = s /\ x.msg.kind = k
        /\ x.msg.name = name'[s]
    BY DEF RoomOp, Message
  <2>6. /\ UNCHANGED <<log, sessions_, stopped, readOp, acceptAt, acceptFor>>
        /\ readOp[s] = "pending"
    BY <1>13 DEF OnRename, OnText, ReadLine
  <2>7. Entered(s) /\ \A q \in Sessions : Entered(q)' <=> Entered(q)
    BY <1>7, <1>8, <2>6
  <2> HIDE DEF x
  <2>8. PostsSpeech(s, x)
    BY <2>1, <2>2, <2>5, <2>6, <2>7 DEF PostsSpeech, Posts, x
  <2>. QED BY <2>4, <2>8
<1>. QED
  BY <1>1, <1>2, <1>3, <1>4, <1>5, <1>6, <1>9, <1>10, <1>11, <1>12, <1>13
  DEF Next, Accept, Session, OnRead

(* A leave at the front finds its session in the room, so it is announced. *)
LEMMA FrontIsStory ==
  ASSUME TypeOK, roomQ # <<>>
  PROVE  /\ Len(log) + 1 \in DOMAIN Story /\ Story[Len(log) + 1] = Head(roomQ).msg
         /\ Head(roomQ) = roomQ[1] /\ 1 \in DOMAIN roomQ
<1>1. Len(roomQ) \in Nat \ {0} /\ Head(roomQ) = roomQ[1]
  BY DEF TypeOK
<1>2. 1 \in 1..Len(roomQ) /\ Len(log) + 1 \in 1..(Len(log) + Len(roomQ))
  BY <1>1, StoryShape
<1>. QED BY <1>1, <1>2, StoryShape

LEMMA LeavesAsMember ==
  ASSUME TypeOK, StoryInv, roomQ # <<>>, Head(roomQ).op = "leave"
  PROVE  Head(roomQ).s \in sessions_
<1> DEFINE s == Head(roomQ).s
           n == Len(log)
<1>1. s \in Sessions /\ n \in Nat /\ DOMAIN log = 1..n /\ DOMAIN Story = 1..(n + Len(roomQ))
      /\ Len(roomQ) \in Nat /\ n + 1 \in DOMAIN Story
      /\ \A i \in 1..n : Story[i] = log[i]
  BY HeadType, StoryShape, FrontIsStory
<1>2. Departure(Story[n + 1], s)
  BY FrontIsStory DEF StoryInv, WellPosted, Departure
<1>3. PICK i \in DOMAIN Story : Arrival(Story[i], s)
  BY <1>1, <1>2 DEF StoryInv, ArrivesFirst, Departure
<1>4. i <= n + 1 /\ i # n + 1
  BY <1>1, <1>2, <1>3 DEF StoryInv, ArrivesFirst, Departure, Arrival
<1>5. i \in DOMAIN log /\ Arrival(log[i], s)
  BY <1>1, <1>3, <1>4
<1>6. \A j \in DOMAIN log : ~Departure(log[j], s)
  <2>1. \A j \in 1..n : j \in DOMAIN Story /\ j # n + 1
    BY <1>1
  <2>. QED BY <1>1, <1>2, <2>1 DEF StoryInv, DepartsOnce
<1>. QED BY <1>1, <1>5, <1>6 DEF StoryInv, MembersAnnounced

(* Every handler keeps the story in order. *)
LEMMA StoryStays ==
  ASSUME TypeOK, TypeOK', StoryInv, TellsNothing
  PROVE  StoryInv'
<1>1. Story' = Story /\ log' = log /\ roomQ' = roomQ
  BY DEF TellsNothing, Story
<1>2. WellPosted'
  BY <1>1 DEF StoryInv, WellPosted
<1>3. ArrivesFirst'
  BY <1>1 DEF StoryInv, ArrivesFirst, TellsNothing
<1>4. DepartsOnce'
  BY <1>1 DEF StoryInv, DepartsOnce, TellsNothing
<1>5. MembersAnnounced'
  BY <1>1 DEF StoryInv, MembersAnnounced, TellsNothing
<1>6. NamesTold'
  BY <1>1 DEF StoryInv, NamesTold, Renames, TellsNothing
<1>. QED BY <1>2, <1>3, <1>4, <1>5, <1>6 DEF StoryInv

LEMMA FrontStory ==
  ASSUME TypeOK, TypeOK', StoryInv, RunsFront
  PROVE  StoryInv'
<1> DEFINE s == Head(roomQ).s
           m == Head(roomQ).msg
           o == Head(roomQ).op
<1>1. /\ roomQ # <<>> /\ roomQ' = Tail(roomQ) /\ log' = Append(log, m)
      /\ UNCHANGED <<stopped, name>>
      /\ \A q \in Sessions : Entered(q)' <=> Entered(q)
      /\ sessions_' = CASE o = "join"  -> sessions_ \cup {s}
                        [] o = "leave" -> sessions_ \ {s}
                        [] OTHER       -> sessions_
  BY LeavesAsMember DEF RunsFront
<1>2. Story' = Story
  BY <1>1, StoryRuns
<1>3. WellPosted'
  <2>1. \A i \in DOMAIN roomQ' : i + 1 \in DOMAIN roomQ /\ roomQ'[i] = roomQ[i + 1]
    BY <1>1 DEF TypeOK
  <2>. QED BY <2>1 DEF StoryInv, WellPosted
<1>4. ArrivesFirst'
  BY <1>1, <1>2 DEF StoryInv, ArrivesFirst
<1>5. DepartsOnce'
  BY <1>1, <1>2 DEF StoryInv, DepartsOnce
<1>6. NamesTold'
  BY <1>1, <1>2 DEF StoryInv, NamesTold, Renames
<1>7. MembersAnnounced'
  <2>1. PICK n \in Nat : n = Len(log)
    BY StoryShape
  <2>2. /\ s \in Sessions /\ DOMAIN log = 1..n /\ DOMAIN log' = 1..(n + 1)
        /\ log'[n + 1] = m /\ \A i \in 1..n : log'[i] = log[i]
    <3>1. log \in Seq(Messages) /\ m \in Messages /\ s \in Sessions
      BY <1>1, HeadType DEF TypeOK
    <3>. QED BY <1>1, <2>1, <3>1, AppendFacts
  <2>3. /\ m.from = s
        /\ o = "join" <=> m.kind = "joined"
        /\ o = "leave" <=> m.kind \in {"left", "disconnected"}
    BY <1>1, FrontIsStory DEF StoryInv, WellPosted
  <2>4. \A q \in Sessions :
          /\ (\E i \in DOMAIN log' : Arrival(log'[i], q)) <=>
               (\E i \in DOMAIN log : Arrival(log[i], q)) \/ Arrival(m, q)
          /\ (\E i \in DOMAIN log' : Departure(log'[i], q)) <=>
               (\E i \in DOMAIN log : Departure(log[i], q)) \/ Departure(m, q)
    <3>1. \A i \in 1..(n + 1) : i \in 1..n \/ i = n + 1
      OBVIOUS
    <3>2. n + 1 \in 1..(n + 1) /\ \A i \in 1..n : i \in 1..(n + 1)
      OBVIOUS
    <3>. QED BY <2>2, <3>1, <3>2
  <2>5. ASSUME o = "join" PROVE \A i \in DOMAIN log : ~Departure(log[i], s)
    <3>1. /\ n + 1 \in DOMAIN Story /\ Arrival(Story[n + 1], s)
          /\ \A i \in 1..n : Story[i] = log[i] /\ i \in DOMAIN Story /\ ~(n + 1 <= i)
      BY <1>1, <2>1, <2>3, <2>5, StoryShape, FrontIsStory DEF Arrival
    <3>. QED BY <2>2, <3>1 DEF StoryInv, ArrivesFirst, Departure
  <2>6. ASSUME NEW q \in Sessions
        PROVE  q \in sessions_' <=> /\ \E i \in DOMAIN log' : Arrival(log'[i], q)
                                    /\ ~\E i \in DOMAIN log' : Departure(log'[i], q)
    <3>1. q \in sessions_ <=> /\ \E i \in DOMAIN log : Arrival(log[i], q)
                              /\ ~\E i \in DOMAIN log : Departure(log[i], q)
      BY DEF StoryInv, MembersAnnounced
    <3>2. CASE q # s
      <4>1. ~Arrival(m, q) /\ ~Departure(m, q) /\ (q \in sessions_' <=> q \in sessions_)
        BY <1>1, <2>3, <3>2 DEF Arrival, Departure
      <4>. QED BY <2>4, <3>1, <4>1
    <3>3. CASE q = s /\ o = "join"
      <4>1. Arrival(m, q) /\ ~Departure(m, q) /\ q \in sessions_'
        BY <1>1, <2>3, <3>3 DEF Arrival, Departure
      <4>. QED BY <2>4, <2>5, <3>3, <4>1
    <3>4. CASE q = s /\ o = "leave"
      <4>1. Departure(m, q) /\ q \notin sessions_'
        BY <1>1, <2>3, <3>4 DEF Departure
      <4>. QED BY <2>4, <4>1
    <3>5. CASE q = s /\ o \notin {"join", "leave"}
      <4>1. ~Arrival(m, q) /\ ~Departure(m, q) /\ (q \in sessions_' <=> q \in sessions_)
        BY <1>1, <2>3, <3>5 DEF Arrival, Departure
      <4>. QED BY <2>4, <3>1, <4>1
    <3>. QED BY <3>2, <3>3, <3>4, <3>5
  <2>. QED BY <2>6 DEF MembersAnnounced
<1>. QED BY <1>3, <1>4, <1>5, <1>6, <1>7 DEF StoryInv

LEMMA RenamesFinite ==
  ASSUME TypeOK, NEW s, NEW n \in Nat
  PROVE  IsFiniteSet(Renames(s, n)) /\ Cardinality(Renames(s, n)) \in Nat
<1>1. IsFiniteSet(1..n)
  BY FS_Interval
<1>2. Renames(s, n) \in SUBSET (1..n)
  BY DEF Renames
<1>. QED BY <1>1, <1>2, FS_Subset, FS_CardinalityType

LEMMA PostStory ==
  ASSUME IInv, IInv', StoryInv, NEW s \in Sessions, NEW x \in RoomOps,
         PostsJoin(s, x) \/ PostsLeave(s, x) \/ PostsSpeech(s, x)
  PROVE  StoryInv'
<1> DEFINE m == x.msg
<1>1. /\ Posts(s, x) /\ m.from = s /\ m.kind \in PublicKinds
      /\ x.op = "join" <=> m.kind = "joined"
      /\ x.op = "leave" <=> m.kind \in Departures
      /\ x.op = "join" <=> PostsJoin(s, x)
      /\ x.op = "leave" <=> PostsLeave(s, x)
      /\ x.op = "broadcast" <=> PostsSpeech(s, x)
  BY DEF PostsJoin, PostsLeave, PostsSpeech, Posts, PublicKinds, Departures
<1>2. Story' = Append(Story, m)
  BY <1>1, StoryPosts DEF IInv, Posts
<1>3. PICK n \in Nat : n = Len(Story)
  BY StoryShape DEF IInv
<1>4. /\ Story \in Seq(Messages) /\ m \in Messages /\ DOMAIN Story = 1..n
  BY <1>3, StoryShape DEF IInv, RoomOps
<1>5. /\ DOMAIN Story' = 1..(n + 1) /\ Len(Story') = n + 1 /\ Story'[n + 1] = m
      /\ \A i \in 1..n : Story'[i] = Story[i]
  BY <1>2, <1>3, <1>4
<1>6. /\ \A i \in 1..(n + 1) : i \in 1..n \/ i = n + 1
      /\ \A i \in 1..n : i \in 1..(n + 1) /\ i # n + 1 /\ i <= n + 1
      /\ n + 1 \in 1..(n + 1) /\ n + 1 <= n + 1
  OBVIOUS
<1>7. /\ UNCHANGED <<log, sessions_>>
      /\ \A q \in Sessions : /\ q # s => stopped'[q] = stopped[q] /\ name'[q] = name[q]
                             /\ Entered(q)' <=> Entered(q) \/ q = s
  BY <1>1 DEF Posts
<1>8. WellPosted'
  <2>1. /\ DOMAIN roomQ' = 1..(Len(roomQ) + 1) /\ roomQ'[Len(roomQ) + 1] = x
        /\ \A i \in 1..Len(roomQ) : roomQ'[i] = roomQ[i]
        /\ Len(roomQ) \in Nat /\ DOMAIN roomQ = 1..Len(roomQ)
    <3>1. roomQ \in Seq(RoomOps) /\ Len(roomQ) \in Nat /\ roomQ' = Append(roomQ, x)
      BY <1>1 DEF Posts, IInv, TypeOK
    <3>. QED BY <3>1, AppendFacts
  <2>2. \A i \in DOMAIN roomQ' : i \in DOMAIN roomQ \/ i = Len(roomQ) + 1
    BY <2>1
  <2>3. x.s = s
    BY <1>1 DEF Posts
  <2>. QED BY <1>1, <2>1, <2>2, <2>3 DEF StoryInv, WellPosted, Departures
<1>9. ArrivesFirst'
  <2>1. ASSUME NEW q \in Sessions, NEW i \in 1..(n + 1), NEW j \in 1..(n + 1),
               Arrival(Story'[i], q), Story'[j].from = q
        PROVE  i <= j
    <3>1. CASE i \in 1..n /\ j \in 1..n
      BY <1>4, <1>5, <2>1, <3>1 DEF StoryInv, ArrivesFirst
    <3>2. CASE j = n + 1
      BY <3>2
    <3>3. CASE i = n + 1 /\ j \in 1..n
      <4>1. q = s /\ PostsJoin(s, x) /\ Story[j].from = s
        BY <1>1, <1>5, <2>1, <3>3 DEF Arrival
      <4>. QED BY <1>4, <3>3, <4>1 DEF StoryInv, ArrivesFirst, PostsJoin
    <3>. QED BY <1>6, <3>1, <3>2, <3>3
  <2>2. ASSUME NEW q \in Sessions
        PROVE  /\ Entered(q)' <=> \E i \in 1..(n + 1) : Story'[i].from = q
               /\ Entered(q)' => \E i \in 1..(n + 1) : Arrival(Story'[i], q)
    <3>1. /\ (\E i \in 1..(n + 1) : Story'[i].from = q) <=>
               (\E i \in 1..n : Story[i].from = q) \/ q = s
          /\ (\E i \in 1..(n + 1) : Arrival(Story'[i], q)) <=>
               (\E i \in 1..n : Arrival(Story[i], q)) \/ Arrival(m, q)
      BY <1>1, <1>5, <1>6
    <3>2. /\ Entered(q) <=> \E i \in 1..n : Story[i].from = q
          /\ Entered(q) => \E i \in 1..n : Arrival(Story[i], q)
      BY <1>4 DEF StoryInv, ArrivesFirst
    <3>3. q = s => Entered(s) \/ Arrival(m, s)
      BY <1>1 DEF PostsLeave, PostsSpeech, Arrival, PostsJoin
    <3>. QED BY <1>7, <3>1, <3>2, <3>3
  <2>. QED BY <1>5, <2>1, <2>2 DEF ArrivesFirst
<1>10. DepartsOnce'
  <2>1. \A q \in Sessions : stopped[q] <=> \E i \in 1..n : Departure(Story[i], q)
    BY <1>4 DEF StoryInv, DepartsOnce
  <2>2. \A q \in Sessions : (\E i \in 1..(n + 1) : Departure(Story'[i], q)) <=>
                              (\E i \in 1..n : Departure(Story[i], q)) \/ Departure(m, q)
    BY <1>5, <1>6
  <2>3. \A q \in Sessions : Departure(m, q) => q = s /\ ~stopped[s] /\ stopped'[s]
    BY <1>1 DEF Departure, Departures, PostsLeave
  <2>4. \A q \in Sessions : stopped'[q] <=> stopped[q] \/ Departure(m, q)
    BY <1>1, <1>7, <2>3 DEF PostsJoin, PostsSpeech, PostsLeave, Departure, Departures
  <2>5. ASSUME NEW q \in Sessions, NEW i \in 1..(n + 1), NEW j \in 1..(n + 1),
               Departure(Story'[i], q), Departure(Story'[j], q)
        PROVE  i = j
    <3>1. CASE i \in 1..n /\ j \in 1..n
      BY <1>4, <1>5, <2>5, <3>1 DEF StoryInv, DepartsOnce
    <3>2. CASE i = n + 1 /\ j \in 1..n
      BY <1>5, <2>1, <2>3, <2>5, <3>2
    <3>3. CASE i \in 1..n /\ j = n + 1
      BY <1>5, <2>1, <2>3, <2>5, <3>3
    <3>. QED BY <1>6, <3>1, <3>2, <3>3
  <2>. QED BY <1>5, <2>1, <2>2, <2>4, <2>5 DEF DepartsOnce
<1>11. MembersAnnounced'
  BY <1>7 DEF StoryInv, MembersAnnounced
<1>12. NamesTold'
  <2> DEFINE Later(q, i) == {j \in 1..i : Story'[j].kind = "renamed" /\ Story'[j].from = q}
  <2>1. \A q \in Sessions, i \in 1..n : Later(q, i) = Renames(q, i)
    <3>1. \A i \in 1..n : \A j \in 1..i : j \in 1..n
      OBVIOUS
    <3>. QED BY <1>5, <3>1 DEF Renames
  <2>2. ASSUME NEW q \in Sessions
        PROVE  /\ IsFiniteSet(Renames(q, n)) /\ name[q] \in Nat
               /\ name[q] = Cardinality(Renames(q, n)) /\ n + 1 \notin Renames(q, n)
    <3>1. n + 1 \notin Renames(q, n)
      BY DEF Renames
    <3>2. name[q] = Cardinality(Renames(q, n))
      BY <1>3 DEF StoryInv, NamesTold
    <3>. QED BY <3>1, <3>2, RenamesFinite DEF IInv
  <2>3. ASSUME NEW q \in Sessions
        PROVE  Later(q, n + 1) =
                 IF m.kind = "renamed" /\ q = s THEN Renames(q, n) \cup {n + 1} ELSE Renames(q, n)
    BY <1>1, <1>5, <1>6 DEF Renames
  <2> HIDE DEF Later
  <2>4. ASSUME NEW q \in Sessions
        PROVE  Cardinality(Later(q, n + 1)) =
                 IF m.kind = "renamed" /\ q = s THEN name[q] + 1 ELSE name[q]
    <3>1. CASE m.kind = "renamed" /\ q = s
      <4>1. Cardinality(Renames(q, n) \cup {n + 1}) = Cardinality(Renames(q, n)) + 1
        BY <2>2, FS_AddElement
      <4>. QED BY <2>2, <2>3, <3>1, <4>1
    <3>2. CASE ~(m.kind = "renamed" /\ q = s)
      BY <2>2, <2>3, <3>2
    <3>. QED BY <3>1, <3>2
  <2>5. ASSUME NEW q \in Sessions PROVE name'[q] = Cardinality(Later(q, n + 1))
    <3>1. q = s => name'[q] = IF m.kind = "renamed" THEN name[q] + 1 ELSE name[q]
      BY <1>1 DEF PostsJoin, PostsLeave, PostsSpeech, Departures
    <3>. QED BY <1>7, <2>4, <3>1
  <2>6. m.name = name'[s]
    <3>1. CASE PostsJoin(s, x)
      <4>1. Renames(s, n) = {}
        BY <1>4, <3>1 DEF PostsJoin, StoryInv, ArrivesFirst, Renames
      <4>. QED BY <2>2, <3>1, <4>1, FS_EmptySet DEF PostsJoin
    <3>2. CASE PostsLeave(s, x) \/ PostsSpeech(s, x)
      BY <3>2 DEF PostsLeave, PostsSpeech
    <3>. QED BY <3>1, <3>2
  <2>7. \A i \in 1..n : Story[i].from \in Sessions
    <3>1. \A i \in 1..n : Story[i] \in Messages
      BY <1>4
    <3>2. \A msg \in Messages : msg.from \in Sessions
      BY DEF Messages
    <3>. QED BY <3>1, <3>2
  <2>8. ASSUME NEW i \in 1..n
        PROVE  Story'[i].name = Cardinality(Later(Story'[i].from, i))
    <3>1. Story[i].name = Cardinality(Renames(Story[i].from, i))
      BY <1>4 DEF StoryInv, NamesTold
    <3>. QED BY <1>5, <2>1, <2>7, <3>1
  <2>9. Story'[n + 1].name = Cardinality(Later(Story'[n + 1].from, n + 1))
    BY <1>1, <1>5, <2>5, <2>6
  <2>10. \A i \in DOMAIN Story' : Story'[i].name = Cardinality(Later(Story'[i].from, i))
    BY <1>5, <1>6, <2>8, <2>9
  <2>11. \A q \in Sessions : name'[q] = Cardinality(Later(q, Len(Story')))
    BY <1>5, <2>5
  <2>. QED BY <2>10, <2>11 DEF NamesTold, Renames, Later
<1>. QED BY <1>8, <1>9, <1>10, <1>11, <1>12 DEF StoryInv

LEMMA InitStory == Init => StoryInv
<1> SUFFICES ASSUME Init PROVE StoryInv
  OBVIOUS
<1>1. TypeOK
  BY InitType
<1>2. log = <<>> /\ roomQ = <<>> /\ sessions_ = {}
  BY DEF Init
<1>3. DOMAIN log = {} /\ DOMAIN roomQ = {}
  BY <1>2
<1>4. DOMAIN Story = {} /\ Len(Story) = 0
  <2>1. Len(log) = 0 /\ Len(roomQ) = 0
    BY <1>2
  <2>. QED BY <1>1, <2>1, StoryShape
<1>5. \A s \in Sessions : ~Entered(s) /\ ~stopped[s] /\ name[s] = 0
  BY DEF Init, Entered
<1>6. WellPosted
  BY <1>3 DEF WellPosted
<1>7. ArrivesFirst /\ DepartsOnce
  BY <1>4, <1>5 DEF ArrivesFirst, DepartsOnce
<1>8. MembersAnnounced
  BY <1>2, <1>3 DEF MembersAnnounced
<1>9. NamesTold
  <2>1. \A s \in Sessions : Renames(s, 0) = {}
    BY DEF Renames
  <2>. QED BY <1>4, <1>5, <2>1, FS_EmptySet DEF NamesTold
<1>. QED BY <1>6, <1>7, <1>8, <1>9 DEF StoryInv

LEMMA NextStory == IInv /\ StoryInv /\ [Next]_vars => StoryInv'
<1> SUFFICES ASSUME IInv, StoryInv, [Next]_vars PROVE StoryInv'
  OBVIOUS
<1>1. IInv'
  BY NextInv
<1>2. TypeOK /\ TypeOK'
  BY <1>1 DEF IInv
<1>3. CASE TellsNothing
  BY <1>2, <1>3, StoryStays
<1>4. ASSUME NEW s \in Sessions, NEW x \in RoomOps,
             PostsJoin(s, x) \/ PostsLeave(s, x) \/ PostsSpeech(s, x)
      PROVE  StoryInv'
  BY <1>1, <1>4, PostStory
<1>5. CASE RunsFront
  BY <1>2, <1>5, FrontStory
<1>. QED BY <1>3, <1>4, <1>5, Effects

LEMMA StoryHolds == Spec => [](IInv /\ StoryInv)
<1>1. Init => IInv /\ StoryInv
  BY InitInv, InitStory
<1>2. (IInv /\ StoryInv) /\ [Next]_vars => (IInv /\ StoryInv)'
  BY NextInv, NextStory
<1>. QED BY <1>1, <1>2, PTL DEF Spec

(* Nobody speaks under a name the room was not told of: the log is the front of
   the story, and the story's messages count their own renames. *)
THEOREM NamesKnown == Spec => []NameAnnounced
<1>1. IInv /\ StoryInv => NameAnnounced
  <2> SUFFICES ASSUME IInv, StoryInv, NEW i \in DOMAIN log
               PROVE  log[i].name = Cardinality({j \in 1..i : log[j].kind = "renamed"
                                                             /\ log[j].from = log[i].from})
    BY DEF NameAnnounced
  <2>1. /\ i \in DOMAIN Story /\ Story[i] = log[i]
        /\ \A j \in 1..i : Story[j] = log[j]
    <3>1. PICK n \in Nat : n = Len(log)
      BY StoryShape DEF IInv
    <3>2. i \in 1..n /\ \A j \in 1..i : j \in 1..n
      BY <3>1, StoryShape DEF IInv
    <3>3. \A j \in 1..n : Story[j] = log[j] /\ j \in DOMAIN Story
      BY <3>1, StoryShape DEF IInv
    <3>. QED BY <3>2, <3>3
  <2>2. Story[i].name = Cardinality(Renames(Story[i].from, i))
    BY <2>1 DEF StoryInv, NamesTold
  <2>3. Renames(log[i].from, i) = {j \in 1..i : log[j].kind = "renamed" /\ log[j].from = log[i].from}
    BY <2>1 DEF Renames
  <2>. QED BY <2>1, <2>2, <2>3
<1>. QED BY <1>1, StoryHolds, PTL

-----------------------------------------------------------------------------
(* The positions of a session's arrival and departure in the log. *)
LEMMA JoinedIs ==
  ASSUME TypeOK, NEW s
  PROVE  /\ \A i \in DOMAIN log :
              Arrival(log[i], s) /\ (\A j \in DOMAIN log : Arrival(log[j], s) => j = i)
                => JoinedAt(s) = i
         /\ (\A j \in DOMAIN log : ~Arrival(log[j], s)) => JoinedAt(s) = 0
<1>1. DOMAIN log = 1..Len(log) /\ Len(log) \in Nat
  BY StoryShape
<1> DEFINE found == {i \in 1..Len(log) : Arrival(log[i], s)}
<1>2. JoinedAt(s) = IF found # {} THEN Min(found) ELSE 0
  BY DEF JoinedAt, SelectInSeq, Arrival
<1>3. \A i \in Nat : found = {i} => Min(found) = i
  BY DEF Min
<1>. QED BY <1>1, <1>2, <1>3

LEMMA GoneIs ==
  ASSUME TypeOK, NEW s
  PROVE  /\ \A i \in DOMAIN log :
              Departure(log[i], s) /\ (\A j \in DOMAIN log : Departure(log[j], s) => j = i)
                => GoneAt(s) = i
         /\ (\A j \in DOMAIN log : ~Departure(log[j], s)) => GoneAt(s) = 0
<1>1. DOMAIN log = 1..Len(log) /\ Len(log) \in Nat
  BY StoryShape
<1> DEFINE found == {i \in 1..Len(log) : Departure(log[i], s)}
<1>2. GoneAt(s) = IF found # {} THEN Min(found) ELSE 0
  BY DEF GoneAt, SelectInSeq, Departure
<1>3. \A i \in Nat : found = {i} => Min(found) = i
  BY DEF Min
<1>. QED BY <1>1, <1>2, <1>3

(* What the story says of a session, read off the log and the room's strand. *)
LEMMA LogOfSession ==
  ASSUME IInv, StoryInv, NEW s \in Sessions
  PROVE  /\ \A i, j \in DOMAIN log : Arrival(log[i], s) /\ log[j].from = s => i <= j
         /\ \A i, j \in DOMAIN log : Departure(log[i], s) /\ Departure(log[j], s) => i = j
         /\ \A j \in DOMAIN log : log[j].from = s => \E i \in DOMAIN log : Arrival(log[i], s)
         /\ (\E i \in DOMAIN log : Departure(log[i], s)) <=> stopped[s] /\ ~Pending("leave", s)
<1>1. PICK n \in Nat : n = Len(log)
  BY StoryShape DEF IInv
<1>2. PICK k \in Nat : k = Len(roomQ)
  BY StoryShape DEF IInv
<1>3. /\ DOMAIN log = 1..n /\ DOMAIN roomQ = 1..k /\ DOMAIN Story = 1..(n + k)
      /\ \A i \in 1..n : Story[i] = log[i]
      /\ \A i \in 1..k : Story[n + i] = roomQ[i].msg
  BY <1>1, <1>2, StoryShape DEF IInv
<1>4. /\ \A i \in 1..n : i \in 1..(n + k)
      /\ \A i \in 1..k : n + i \in 1..(n + k) /\ n + i \notin 1..n
      /\ \A i \in 1..(n + k) : i \in 1..n \/ \E j \in 1..k : i = n + j
  <2>1. \A i \in 1..(n + k) : i \in 1..n \/ (i - n \in 1..k /\ i = n + (i - n))
    OBVIOUS
  <2>. QED BY <2>1
<1>5. /\ \A i, j \in 1..(n + k) : Arrival(Story[i], s) /\ Story[j].from = s => i <= j
      /\ \A i, j \in 1..(n + k) : Departure(Story[i], s) /\ Departure(Story[j], s) => i = j
      /\ \A j \in 1..(n + k) : Story[j].from = s => \E i \in 1..(n + k) : Arrival(Story[i], s)
      /\ stopped[s] <=> \E i \in 1..(n + k) : Departure(Story[i], s)
  BY <1>3 DEF StoryInv, ArrivesFirst, DepartsOnce
<1>6. ASSUME NEW j \in 1..n, log[j].from = s PROVE \E i \in 1..n : Arrival(log[i], s)
  <2>1. Story[j].from = s /\ j \in 1..(n + k)
    BY <1>3, <1>4, <1>6
  <2>2. PICK i \in 1..(n + k) : Arrival(Story[i], s)
    BY <1>5, <2>1
  <2>3. i <= j
    BY <1>5, <2>1, <2>2
  <2>4. i \in 1..n
    BY <2>3
  <2>. QED BY <1>3, <2>2, <2>4
<1>7. Pending("leave", s) <=> \E i \in 1..k : Departure(Story[n + i], s)
  <2>1. \A i \in 1..k : roomQ[i].op = "leave" /\ roomQ[i].s = s <=> Departure(roomQ[i].msg, s)
    BY <1>3 DEF StoryInv, WellPosted, Departure
  <2>. QED BY <1>3, <2>1 DEF Pending
<1>8. (\E i \in 1..n : Departure(log[i], s)) <=> stopped[s] /\ ~Pending("leave", s)
  <2>1. (\E i \in 1..n : Departure(log[i], s)) <=> \E i \in 1..n : Departure(Story[i], s)
    BY <1>3
  <2>. QED BY <1>4, <1>5, <1>7, <2>1
<1>9. /\ \A i, j \in 1..n : Arrival(log[i], s) /\ log[j].from = s => i <= j
      /\ \A i, j \in 1..n : Departure(log[i], s) /\ Departure(log[j], s) => i = j
  BY <1>3, <1>4, <1>5
<1>. QED BY <1>3, <1>6, <1>8, <1>9

(* The room hears of each departure once, after the arrival, and of none before
   the session has stopped. *)
THEOREM DeparturesTold == Spec => []DepartureAnnounced
<1>1. IInv /\ StoryInv => DepartureAnnounced
  <2> SUFFICES ASSUME IInv, StoryInv, NEW s \in Sessions
               PROVE  LET departures == {i \in DOMAIN log : Departure(log[i], s)}
                      IN IF stopped[s] /\ ~Pending("leave", s)
                           THEN /\ Cardinality(departures) = 1
                                /\ 0 < JoinedAt(s) /\ JoinedAt(s) < GoneAt(s)
                           ELSE departures = {}
    BY DEF DepartureAnnounced, Departure
  <2> DEFINE departures == {i \in DOMAIN log : Departure(log[i], s)}
  <2>1. CASE stopped[s] /\ ~Pending("leave", s)
    <3>1. PICK g \in DOMAIN log : Departure(log[g], s)
      BY <2>1, LogOfSession
    <3>2. PICK a \in DOMAIN log : Arrival(log[a], s)
      BY <3>1, LogOfSession DEF Departure
    <3>3. /\ \A i \in DOMAIN log : Departure(log[i], s) => i = g
          /\ \A i \in DOMAIN log : Arrival(log[i], s) => i <= a /\ a <= i
          /\ a <= g /\ a # g
      BY <3>1, <3>2, LogOfSession DEF Departure, Arrival
    <3>4. a \in Nat /\ g \in Nat /\ 0 < a /\ DOMAIN log \in SUBSET Nat
      BY StoryShape DEF IInv
    <3>5. JoinedAt(s) = a
      <4>1. \A i \in DOMAIN log : Arrival(log[i], s) => i = a
        BY <3>3, <3>4
      <4>. QED BY <3>2, <4>1, JoinedIs DEF IInv
    <3>6. GoneAt(s) = g
      BY <3>1, <3>3, GoneIs DEF IInv
    <3>7. departures = {g}
      BY <3>1, <3>3
    <3>8. Cardinality(departures) = 1
      BY <3>7, FS_Singleton
    <3>. QED BY <2>1, <3>3, <3>4, <3>5, <3>6, <3>8
  <2>2. CASE ~(stopped[s] /\ ~Pending("leave", s))
    <3>1. departures = {}
      BY <2>2, LogOfSession
    <3>. QED BY <2>2, <3>1
  <2>. QED BY <2>1, <2>2
<1>. QED BY <1>1, StoryHolds, PTL

-----------------------------------------------------------------------------
(* The public messages of a sequence.  f is the function that the definition of
   Public builds: f[i] is what is public in the first i messages. *)
LEMMA SetInduction ==
  ASSUME NEW T \in SUBSET Nat, 0 \in T, \A n \in T : n + 1 \in T
  PROVE  T = Nat
<1> DEFINE M == Nat \ T
           R == {ss \in Nat \X Nat : ss[1] < ss[2]}
<1>1. SUFFICES ASSUME M # {} PROVE FALSE
  OBVIOUS
<1>2. IsWellFoundedOn(R, Nat)
  BY NatLessThanWellFounded DEF OpToRel
<1>3. M \subseteq Nat
  OBVIOUS
<1>8. \A x, y \in Nat : x < y => <<x, y>> \in R
  OBVIOUS
<1> HIDE DEF M, R
<1>4. PICK x \in M : \A y \in M : ~ (<<y, x>> \in R)
  BY <1>1, <1>2, <1>3, WFMin
<1>5. x # 0 /\ x \in Nat
  BY <1>3, <1>4 DEF M
<1>6. x - 1 \in Nat /\ x - 1 < x /\ (x - 1) + 1 = x
  BY <1>5
<1>7. x - 1 \in T
  BY <1>4, <1>5, <1>6, <1>8 DEF M
<1>. QED BY <1>4, <1>6, <1>7 DEF M

Counts(f, q, n) ==
  f = [i \in 0..n |->
         IF i = 0 THEN <<>>
         ELSE IF q[i].kind \in PublicKinds THEN Append(f[i - 1], q[i]) ELSE f[i - 1]]

LEMMA CountsIs ==
  ASSUME NEW f, NEW q, NEW n \in Nat, Counts(f, q, n)
  PROVE  /\ f[0] = <<>>
         /\ \A i \in 0..n : i + 1 <= n =>
              f[i + 1] = IF q[i + 1].kind \in PublicKinds THEN Append(f[i], q[i + 1]) ELSE f[i]
<1>1. f[0] = <<>>
  BY DEF Counts
<1>2. ASSUME NEW i \in 0..n, i + 1 <= n
      PROVE  f[i + 1] = IF q[i + 1].kind \in PublicKinds THEN Append(f[i], q[i + 1]) ELSE f[i]
  <2>1. i + 1 \in 0..n /\ i + 1 # 0 /\ (i + 1) - 1 = i
    BY <1>2
  <2>. QED BY <2>1 DEF Counts
<1>. QED BY <1>1, <1>2

LEMMA CountsAgree ==
  ASSUME NEW f, NEW g, NEW q, NEW r, NEW n \in Nat, NEW k \in Nat, NEW l \in Nat,
         Counts(f, q, k), Counts(g, r, l), n <= k, n <= l, \A i \in 1..n : q[i] = r[i]
  PROVE  f[n] = g[n]
<1> DEFINE T == {i \in Nat : i <= n => f[i] = g[i]}
<1>1. 0 \in T
  BY CountsIs
<1>2. ASSUME NEW i \in T PROVE i + 1 \in T
  <2>1. CASE i + 1 <= n
    <3>1. i + 1 \in 1..n /\ i \in 0..k /\ i \in 0..l /\ i + 1 <= k /\ i + 1 <= l /\ i <= n
      BY <2>1
    <3>2. q[i + 1] = r[i + 1] /\ f[i] = g[i]
      BY <1>2, <3>1
    <3>3. /\ f[i + 1] = IF q[i + 1].kind \in PublicKinds THEN Append(f[i], q[i + 1]) ELSE f[i]
          /\ g[i + 1] = IF r[i + 1].kind \in PublicKinds THEN Append(g[i], r[i + 1]) ELSE g[i]
      BY <3>1, CountsIs
    <3>. QED BY <3>2, <3>3
  <2>2. CASE ~(i + 1 <= n)
    BY <2>2
  <2>. QED BY <2>1, <2>2
<1> HIDE DEF T
<1>3. T \in SUBSET Nat
  BY DEF T
<1>4. T = Nat
  BY <1>1, <1>2, <1>3, SetInduction
<1>. QED BY <1>4 DEF T

LEMMA CountsExists ==
  ASSUME NEW q \in Seq(Messages), NEW n \in Nat, n <= Len(q)
  PROVE  \E f \in [0..n -> Seq(Messages)] : Counts(f, q, n)
<1> DEFINE T == {i \in Nat : i <= Len(q) => \E f \in [0..i -> Seq(Messages)] : Counts(f, q, i)}
<1>1. 0 \in T
  <2> DEFINE f == [i \in 0..0 |-> <<>>]
  <2>1. f \in [0..0 -> Seq(Messages)]
    OBVIOUS
  <2>2. f = [i \in 0..0 |->
               IF i = 0 THEN <<>>
               ELSE IF q[i].kind \in PublicKinds THEN Append(f[i - 1], q[i]) ELSE f[i - 1]]
    OBVIOUS
  <2>. QED BY <2>1, <2>2 DEF Counts
<1>2. ASSUME NEW i \in T PROVE i + 1 \in T
  <2>1. CASE i + 1 <= Len(q)
    <3>1. i \in Nat /\ i <= Len(q) /\ i + 1 \in 1..Len(q) /\ q[i + 1] \in Messages
      BY <2>1
    <3>2. PICK f \in [0..i -> Seq(Messages)] : Counts(f, q, i)
      BY <1>2, <3>1
    <3> DEFINE last == IF q[i + 1].kind \in PublicKinds THEN Append(f[i], q[i + 1]) ELSE f[i]
               g    == [j \in 0..(i + 1) |-> IF j = i + 1 THEN last ELSE f[j]]
    <3>3. last \in Seq(Messages)
      <4>1. f[i] \in Seq(Messages)
        BY <3>1, <3>2
      <4>. QED BY <3>1, <4>1
    <3>4. \A j \in 0..(i + 1) : j = i + 1 \/ j \in 0..i
      BY <3>1
    <3>5. g \in [0..(i + 1) -> Seq(Messages)]
      BY <3>2, <3>3, <3>4
    <3>6. ASSUME NEW j \in 0..(i + 1)
          PROVE  g[j] = IF j = 0 THEN <<>>
                        ELSE IF q[j].kind \in PublicKinds THEN Append(g[j - 1], q[j]) ELSE g[j - 1]
      <4>1. CASE j = i + 1
        <5>1. j # 0 /\ j - 1 = i /\ i # i + 1 /\ i \in 0..(i + 1)
          BY <3>1, <4>1
        <5>2. g[i] = f[i] /\ g[j] = last
          BY <4>1, <5>1
        <5>. QED BY <4>1, <5>1, <5>2
      <4>2. CASE j \in 0..i
        <5>1. j # i + 1 /\ (j # 0 => j - 1 \in 0..(i + 1) /\ j - 1 # i + 1)
          BY <3>1, <4>2
        <5>2. g[j] = f[j] /\ (j # 0 => g[j - 1] = f[j - 1])
          BY <5>1
        <5>3. f[j] = IF j = 0 THEN <<>>
                     ELSE IF q[j].kind \in PublicKinds THEN Append(f[j - 1], q[j]) ELSE f[j - 1]
          BY <3>2, <4>2 DEF Counts
        <5>. QED BY <5>2, <5>3
      <4>. QED BY <3>4, <4>1, <4>2
    <3>7. DOMAIN g = 0..(i + 1) /\ g = [j \in 0..(i + 1) |-> g[j]]
      OBVIOUS
    <3> HIDE DEF g, last
    <3>8. Counts(g, q, i + 1)
      BY <3>6, <3>7 DEF Counts
    <3>. QED BY <3>1, <3>5, <3>8
  <2>2. CASE ~(i + 1 <= Len(q))
    BY <2>2
  <2>. QED BY <2>1, <2>2
<1> HIDE DEF T
<1>3. T \in SUBSET Nat
  BY DEF T
<1>4. T = Nat
  BY <1>1, <1>2, <1>3, SetInduction
<1>. QED BY <1>4 DEF T

(* The definition of Public takes the value of any such function. *)
LEMMA PublicIs ==
  ASSUME NEW q \in Seq(Messages), NEW r, NEW n \in Nat, NEW f, Counts(f, r, n),
         Len(q) <= n, \A i \in 1..Len(q) : q[i] = r[i]
  PROVE  Public(q) = f[Len(q)] /\ Public(q) \in Seq(Messages)
<1>1. PICK k \in Nat : k = Len(q)
  OBVIOUS
<1> DEFINE g == CHOOSE h : Counts(h, q, k)
<1>2. PICK h \in [0..k -> Seq(Messages)] : Counts(h, q, k)
  BY <1>1, CountsExists
<1>3. Counts(g, q, k)
  BY <1>2
<1>4. Public(q) = g[k]
  BY <1>1 DEF Public, Counts
<1> HIDE DEF g
<1>5. g[k] = f[k]
  <2>1. \A i \in 1..k : q[i] = r[i]
    BY <1>1
  <2>2. k <= k /\ k <= n
    BY <1>1
  <2>. QED BY <1>3, <2>1, <2>2, CountsAgree
<1>6. g[k] = h[k] /\ h[k] \in Seq(Messages)
  <2>1. g[k] = h[k]
    <3>1. k <= k /\ \A i \in 1..k : q[i] = q[i]
      OBVIOUS
    <3>. QED BY <1>2, <1>3, <3>1, CountsAgree
  <2>2. k \in 0..k
    OBVIOUS
  <2>. QED BY <1>2, <2>1, <2>2
<1>. QED BY <1>1, <1>4, <1>5, <1>6

LEMMA PublicType ==
  ASSUME NEW q \in Seq(Messages)
  PROVE  Public(q) \in Seq(Messages)
<1>1. PICK k \in Nat : k = Len(q)
  OBVIOUS
<1>2. PICK f : Counts(f, q, k)
  BY <1>1, CountsExists
<1>. QED BY <1>1, <1>2, PublicIs

LEMMA PublicEmpty == Public(<<>>) = <<>>
<1>1. PICK q \in Seq(Messages) : q = <<>>
  <2>1. <<>> \in Seq(Messages)
    OBVIOUS
  <2>. QED BY <2>1
<1>2. Len(q) = 0
  BY <1>1
<1>3. PICK f : Counts(f, q, 0)
  <2>1. 0 \in Nat /\ 0 <= Len(q)
    BY <1>2
  <2>. QED BY <2>1, CountsExists
<1>4. f[0] = <<>>
  BY <1>3, CountsIs
<1>5. Public(q) = f[0]
  <2>1. 0 \in Nat /\ Len(q) <= 0 /\ \A i \in 1..Len(q) : q[i] = q[i]
    BY <1>2
  <2>. QED BY <1>2, <1>3, <2>1, PublicIs
<1>. QED BY <1>1, <1>4, <1>5

LEMMA PublicAppend ==
  ASSUME NEW q \in Seq(Messages), NEW m \in Messages
  PROVE  Public(Append(q, m)) =
           IF m.kind \in PublicKinds THEN Append(Public(q), m) ELSE Public(q)
<1> DEFINE r == Append(q, m)
<1>1. PICK k \in Nat : k = Len(q)
  OBVIOUS
<1>2. /\ r \in Seq(Messages) /\ Len(r) = k + 1 /\ r[k + 1] = m
      /\ \A i \in 1..k : r[i] = q[i]
  BY <1>1, AppendFacts
<1> HIDE DEF r
<1>3. PICK f : Counts(f, r, k + 1)
  BY <1>2, CountsExists
<1>4. Public(r) = f[k + 1]
  <2>1. \A i \in 1..Len(r) : r[i] = r[i]
    OBVIOUS
  <2>. QED BY <1>2, <1>3, <2>1, PublicIs
<1>5. Public(q) = f[k]
  <2>1. \A i \in 1..Len(q) : q[i] = r[i]
    BY <1>1, <1>2
  <2>2. k + 1 \in Nat /\ Len(q) <= k + 1
    BY <1>1
  <2>3. Public(q) = f[Len(q)]
    BY <1>3, <2>1, <2>2, PublicIs
  <2>. QED BY <1>1, <2>3
<1>6. f[k + 1] = IF m.kind \in PublicKinds THEN Append(f[k], m) ELSE f[k]
  <2>1. k + 1 \in Nat /\ k \in 0..(k + 1) /\ k + 1 <= k + 1
    OBVIOUS
  <2>. QED BY <1>2, <1>3, <2>1, CountsIs
<1>. QED BY <1>4, <1>5, <1>6 DEF r

LEMMA PublicPrefix ==
  ASSUME NEW a \in Seq(Messages), NEW b \in Seq(Messages)
  PROVE  /\ Len(Public(a)) <= Len(Public(a \o b))
         /\ \A i \in 1..Len(Public(a)) : Public(a \o b)[i] = Public(a)[i]
<1> DEFINE c == a \o b
<1>1. PICK k \in Nat : k = Len(a)
  OBVIOUS
<1>2. PICK l \in Nat : l = Len(b)
  OBVIOUS
<1>3. c \in Seq(Messages) /\ Len(c) = k + l /\ \A i \in 1..k : c[i] = a[i]
  <2>1. /\ a \o b \in Seq(Messages) /\ Len(a \o b) = Len(a) + Len(b)
        /\ \A i \in 1..Len(a) + Len(b) : (a \o b)[i] = IF i <= Len(a) THEN a[i] ELSE b[i - Len(a)]
    BY ConcatProperties
  <2>. QED BY <1>1, <1>2, <2>1
<1> HIDE DEF c
<1>4. PICK f \in [0..(k + l) -> Seq(Messages)] : Counts(f, c, k + l)
  <2>1. k + l \in Nat /\ k + l <= Len(c)
    BY <1>3
  <2>. QED BY <1>3, <2>1, CountsExists
<1>5. Public(c) = f[k + l]
  <2>1. k + l \in Nat /\ Len(c) <= k + l /\ \A i \in 1..Len(c) : c[i] = c[i]
    BY <1>3
  <2>2. Public(c) = f[Len(c)]
    BY <1>3, <1>4, <2>1, PublicIs
  <2>. QED BY <1>3, <2>2
<1>6. Public(a) = f[k]
  <2>1. \A i \in 1..Len(a) : a[i] = c[i]
    BY <1>1, <1>3
  <2>2. k + l \in Nat /\ Len(a) <= k + l
    BY <1>1
  <2>3. Public(a) = f[Len(a)]
    BY <1>4, <2>1, <2>2, PublicIs
  <2>. QED BY <1>1, <2>3
<1> DEFINE Begins(s, t) == Len(s) <= Len(t) /\ \A i \in 1..Len(s) : t[i] = s[i]
           T    == {j \in Nat : j <= l => Begins(f[k], f[k + j])}
<1>7. 0 \in T
  <2>1. k + 0 = k /\ k \in 0..(k + l)
    OBVIOUS
  <2>2. f[k] \in Seq(Messages)
    BY <1>4, <2>1
  <2>. QED BY <2>1, <2>2
<1>8. ASSUME NEW j \in T PROVE j + 1 \in T
  <2>1. CASE j + 1 <= l
    <3>1. /\ j <= l /\ k \in 0..(k + l) /\ k + j \in 0..(k + l)
          /\ (k + j) + 1 <= k + l /\ (k + j) + 1 = k + (j + 1)
          /\ (k + j) + 1 \in 1..(k + l)
      BY <2>1
    <3>2. Begins(f[k], f[k + j]) /\ f[k] \in Seq(Messages) /\ f[k + j] \in Seq(Messages)
      BY <1>4, <1>8, <3>1
    <3>3. c[(k + j) + 1] \in Messages
      BY <1>3, <3>1
    <3>4. \/ f[(k + j) + 1] = f[k + j]
          \/ f[(k + j) + 1] = Append(f[k + j], c[(k + j) + 1])
      <4>1. k + l \in Nat
        OBVIOUS
      <4>2. f[(k + j) + 1] = IF c[(k + j) + 1].kind \in PublicKinds
                               THEN Append(f[k + j], c[(k + j) + 1]) ELSE f[k + j]
        BY <1>4, <3>1, <4>1, CountsIs
      <4>. QED BY <4>2
    <3>5. ASSUME NEW u \in Seq(Messages), NEW v \in Seq(Messages), NEW m \in Messages, Begins(u, v)
          PROVE  Begins(u, Append(v, m))
      <4>1. PICK n \in Nat : n = Len(v)
        OBVIOUS
      <4>2. Len(Append(v, m)) = n + 1 /\ \A i \in 1..n : Append(v, m)[i] = v[i]
        BY <4>1, AppendFacts
      <4>. QED BY <3>5, <4>1, <4>2
    <3>6. Begins(f[k], f[(k + j) + 1])
      <4>1. Begins(f[k], Append(f[k + j], c[(k + j) + 1]))
        <5> HIDE DEF Begins
        <5>. QED BY <3>2, <3>3, <3>5
      <4>. QED BY <3>2, <3>4, <4>1
    <3>. QED BY <3>1, <3>6
  <2>2. CASE ~(j + 1 <= l)
    BY <2>2
  <2>. QED BY <2>1, <2>2
<1> HIDE DEF T
<1>9. T \in SUBSET Nat
  BY DEF T
<1>10. T = Nat
  BY <1>7, <1>8, <1>9, SetInduction
<1>11. Begins(f[k], f[k + l])
  <2>1. l \in T /\ l <= l
    BY <1>10
  <2>. QED BY <2>1 DEF T
<1>. QED BY <1>5, <1>6, <1>11 DEF c

-----------------------------------------------------------------------------
(* Where a session arrives and departs, and how the log moves that. *)
LEMMA Positions ==
  ASSUME IInv, StoryInv, NEW s \in Sessions
  PROVE  /\ JoinedAt(s) \in Nat /\ GoneAt(s) \in Nat
         /\ JoinedAt(s) # 0 => JoinedAt(s) \in DOMAIN log /\ Arrival(log[JoinedAt(s)], s)
         /\ GoneAt(s) # 0 => /\ GoneAt(s) \in DOMAIN log /\ Departure(log[GoneAt(s)], s)
                             /\ 0 < JoinedAt(s) /\ JoinedAt(s) < GoneAt(s)
         /\ \A i \in DOMAIN log : /\ Arrival(log[i], s) => JoinedAt(s) = i
                                  /\ Departure(log[i], s) => GoneAt(s) = i
         /\ s \in sessions_ <=> JoinedAt(s) # 0 /\ GoneAt(s) = 0
         /\ GoneAt(s) # 0 => stopped[s]
<1>1. DOMAIN log \in SUBSET (Nat \ {0})
  BY StoryShape DEF IInv
<1>2. ASSUME NEW i \in DOMAIN log, Arrival(log[i], s) PROVE JoinedAt(s) = i
  <2>1. \A j \in DOMAIN log : Arrival(log[j], s) => j <= i /\ i <= j
    BY <1>2, LogOfSession DEF Arrival
  <2>2. \A j \in DOMAIN log : Arrival(log[j], s) => j = i
    BY <1>1, <2>1
  <2>. QED BY <1>2, <2>2, JoinedIs DEF IInv
<1>3. ASSUME NEW i \in DOMAIN log, Departure(log[i], s) PROVE GoneAt(s) = i
  <2>1. \A j \in DOMAIN log : Departure(log[j], s) => j = i
    BY <1>3, LogOfSession
  <2>. QED BY <1>3, <2>1, GoneIs DEF IInv
<1>4. (\A i \in DOMAIN log : ~Arrival(log[i], s)) => JoinedAt(s) = 0
  BY JoinedIs DEF IInv
<1>5. (\A i \in DOMAIN log : ~Departure(log[i], s)) => GoneAt(s) = 0
  BY GoneIs DEF IInv
<1>6. ASSUME NEW i \in DOMAIN log, Departure(log[i], s)
      PROVE  \E j \in DOMAIN log : Arrival(log[j], s) /\ j < i
  <2>1. PICK j \in DOMAIN log : Arrival(log[j], s)
    BY <1>6, LogOfSession DEF Departure
  <2>2. j <= i /\ j # i
    BY <1>6, <2>1, LogOfSession DEF Departure, Arrival
  <2>. QED BY <1>1, <2>1, <2>2
<1>7. GoneAt(s) # 0 => stopped[s]
  BY <1>5, LogOfSession
<1>8. /\ s \in sessions_ <=> /\ \E i \in DOMAIN log : Arrival(log[i], s)
                             /\ ~\E i \in DOMAIN log : Departure(log[i], s)
  BY DEF StoryInv, MembersAnnounced
<1>9. JoinedAt(s) # 0 <=> \E i \in DOMAIN log : Arrival(log[i], s)
  BY <1>1, <1>2, <1>4
<1>10. GoneAt(s) # 0 <=> \E i \in DOMAIN log : Departure(log[i], s)
  BY <1>1, <1>3, <1>5
<1>11. /\ JoinedAt(s) # 0 => JoinedAt(s) \in DOMAIN log /\ Arrival(log[JoinedAt(s)], s)
       /\ GoneAt(s) # 0 => GoneAt(s) \in DOMAIN log /\ Departure(log[GoneAt(s)], s)
  BY <1>2, <1>3, <1>9, <1>10
<1>12. GoneAt(s) # 0 => 0 < JoinedAt(s) /\ JoinedAt(s) < GoneAt(s)
  <2>1. ASSUME GoneAt(s) # 0
        PROVE  \E j \in DOMAIN log : Arrival(log[j], s) /\ j < GoneAt(s)
    BY <1>6, <1>11, <2>1
  <2>. QED BY <1>1, <1>2, <2>1
<1>13. JoinedAt(s) \in Nat /\ GoneAt(s) \in Nat
  BY <1>1, <1>11
<1>. QED BY <1>2, <1>3, <1>7, <1>8, <1>9, <1>10, <1>11, <1>12, <1>13

LEMMA PositionsNext ==
  (IInv /\ StoryInv =>
     \A s \in Sessions :
       /\ JoinedAt(s) \in Nat /\ GoneAt(s) \in Nat
       /\ JoinedAt(s) # 0 => JoinedAt(s) \in DOMAIN log /\ Arrival(log[JoinedAt(s)], s)
       /\ GoneAt(s) # 0 => /\ GoneAt(s) \in DOMAIN log /\ Departure(log[GoneAt(s)], s)
                           /\ 0 < JoinedAt(s) /\ JoinedAt(s) < GoneAt(s)
       /\ \A i \in DOMAIN log : /\ Arrival(log[i], s) => JoinedAt(s) = i
                                /\ Departure(log[i], s) => GoneAt(s) = i
       /\ s \in sessions_ <=> JoinedAt(s) # 0 /\ GoneAt(s) = 0
       /\ GoneAt(s) # 0 => stopped[s])'
<1>1. IInv /\ StoryInv =>
     \A s \in Sessions :
       /\ JoinedAt(s) \in Nat /\ GoneAt(s) \in Nat
       /\ JoinedAt(s) # 0 => JoinedAt(s) \in DOMAIN log /\ Arrival(log[JoinedAt(s)], s)
       /\ GoneAt(s) # 0 => /\ GoneAt(s) \in DOMAIN log /\ Departure(log[GoneAt(s)], s)
                           /\ 0 < JoinedAt(s) /\ JoinedAt(s) < GoneAt(s)
       /\ \A i \in DOMAIN log : /\ Arrival(log[i], s) => JoinedAt(s) = i
                                /\ Departure(log[i], s) => GoneAt(s) = i
       /\ s \in sessions_ <=> JoinedAt(s) # 0 /\ GoneAt(s) = 0
       /\ GoneAt(s) # 0 => stopped[s]
  BY Positions
<1>. QED BY <1>1, PTL

(* When m is added to the log it can only be the arrival or departure of a
   session that had none. *)
LEMMA PositionsMove ==
  ASSUME IInv, StoryInv, IInv', StoryInv', NEW n \in Nat, n = Len(log), NEW m \in Messages,
         log' = Append(log, m), NEW s \in Sessions
  PROVE  /\ JoinedAt(s)' = IF JoinedAt(s) # 0 THEN JoinedAt(s)
                           ELSE IF Arrival(m, s) THEN n + 1 ELSE 0
         /\ GoneAt(s)'   = IF GoneAt(s) # 0 THEN GoneAt(s)
                           ELSE IF Departure(m, s) THEN n + 1 ELSE 0
<1>1. /\ DOMAIN log = 1..n /\ DOMAIN log' = 1..(n + 1) /\ log'[n + 1] = m
      /\ \A i \in 1..n : log'[i] = log[i]
  <2>1. log \in Seq(Messages)
    BY DEF IInv, TypeOK
  <2>. QED BY <2>1, AppendFacts
<1>2. \A i \in 1..(n + 1) : i \in 1..n \/ i = n + 1
  OBVIOUS
<1>3. n + 1 \in 1..(n + 1) /\ \A i \in 1..n : i \in 1..(n + 1)
  OBVIOUS
<1> DEFINE j == JoinedAt(s)
           g == GoneAt(s)
<1>4. PICK jj \in Nat : jj = JoinedAt(s)'
  BY PositionsNext
<1>5. PICK gg \in Nat : gg = GoneAt(s)'
  BY PositionsNext
<1>6. /\ jj # 0 => jj \in 1..(n + 1) /\ Arrival(log'[jj], s)
      /\ gg # 0 => gg \in 1..(n + 1) /\ Departure(log'[gg], s)
      /\ \A i \in 1..(n + 1) : /\ Arrival(log'[i], s) => jj = i
                               /\ Departure(log'[i], s) => gg = i
  <2>1. /\ JoinedAt(s)' # 0 => JoinedAt(s)' \in DOMAIN log' /\ Arrival(log'[JoinedAt(s)'], s)
        /\ GoneAt(s)' # 0 => GoneAt(s)' \in DOMAIN log' /\ Departure(log'[GoneAt(s)'], s)
        /\ \A i \in DOMAIN log' : /\ Arrival(log'[i], s) => JoinedAt(s)' = i
                                  /\ Departure(log'[i], s) => GoneAt(s)' = i
    BY PositionsNext
  <2>. QED BY <1>1, <1>4, <1>5, <2>1
<1>7. /\ j \in Nat /\ g \in Nat
      /\ j # 0 => j \in 1..n /\ Arrival(log[j], s)
      /\ g # 0 => g \in 1..n /\ Departure(log[g], s)
      /\ \A i \in 1..n : (Arrival(log[i], s) => j = i) /\ (Departure(log[i], s) => g = i)
  BY <1>1, Positions
<1> HIDE DEF j, g
<1>8. jj = IF j # 0 THEN j ELSE IF Arrival(m, s) THEN n + 1 ELSE 0
  <2>1. CASE j # 0
    BY <1>1, <1>3, <1>6, <1>7, <2>1
  <2>2. CASE j = 0
    <3>1. \A i \in 1..n : ~Arrival(log[i], s)
      BY <1>7, <2>2
    <3>. QED BY <1>1, <1>2, <1>3, <1>6, <2>2, <3>1
  <2>. QED BY <2>1, <2>2
<1>9. gg = IF g # 0 THEN g ELSE IF Departure(m, s) THEN n + 1 ELSE 0
  <2>1. CASE g # 0
    BY <1>1, <1>3, <1>6, <1>7, <2>1
  <2>2. CASE g = 0
    <3>1. \A i \in 1..n : ~Departure(log[i], s)
      BY <1>7, <2>2
    <3>. QED BY <1>1, <1>2, <1>3, <1>6, <2>2, <3>1
  <2>. QED BY <2>1, <2>2
<1>. QED BY <1>4, <1>5, <1>8, <1>9 DEF j, g

-----------------------------------------------------------------------------
(* What a handler does to the messages a session was handed. *)
LEMMA MoveHead ==
  ASSUME NEW S, NEW a \in Seq(S), NEW b \in Seq(S), b # <<>>
  PROVE  Append(a, Head(b)) \o Tail(b) = a \o b
<1>1. PICK n \in Nat : n = Len(a)
  OBVIOUS
<1>2. PICK k \in Nat : k + 1 = Len(b)
  <2>1. Len(b) - 1 \in Nat /\ (Len(b) - 1) + 1 = Len(b)
    OBVIOUS
  <2>. QED BY <2>1
<1> DEFINE c == Append(a, Head(b))
           d == Tail(b)
<1>3. /\ c \in Seq(S) /\ Len(c) = n + 1 /\ c[n + 1] = b[1] /\ \A i \in 1..n : c[i] = a[i]
      /\ d \in Seq(S) /\ Len(d) = k /\ \A i \in 1..k : d[i] = b[i + 1]
  <2>1. Head(b) = b[1] /\ Head(b) \in S /\ d \in Seq(S) /\ Len(d) = k
        /\ \A i \in 1..k : d[i] = b[i + 1]
    BY <1>2
  <2>. QED BY <1>1, <2>1, AppendFacts
<1> HIDE DEF c, d
<1>4. /\ c \o d \in Seq(S) /\ Len(c \o d) = (n + 1) + k
      /\ \A i \in 1..((n + 1) + k) : (c \o d)[i] = IF i <= n + 1 THEN c[i] ELSE d[i - (n + 1)]
  <2>1. /\ c \o d \in Seq(S) /\ Len(c \o d) = Len(c) + Len(d)
        /\ \A i \in 1..Len(c) + Len(d) : (c \o d)[i] = IF i <= Len(c) THEN c[i] ELSE d[i - Len(c)]
    BY <1>3, ConcatProperties
  <2>. QED BY <1>3, <2>1
<1>5. /\ a \o b \in Seq(S) /\ Len(a \o b) = n + (k + 1)
      /\ \A i \in 1..(n + (k + 1)) : (a \o b)[i] = IF i <= n THEN a[i] ELSE b[i - n]
  <2>1. /\ a \o b \in Seq(S) /\ Len(a \o b) = Len(a) + Len(b)
        /\ \A i \in 1..Len(a) + Len(b) : (a \o b)[i] = IF i <= Len(a) THEN a[i] ELSE b[i - Len(a)]
    BY ConcatProperties
  <2>. QED BY <1>1, <1>2, <2>1
<1>6. ASSUME NEW i \in 1..((n + 1) + k) PROVE (c \o d)[i] = (a \o b)[i]
  <2>1. CASE i \in 1..n
    BY <1>3, <1>4, <1>5, <2>1
  <2>2. CASE i = n + 1
    <3>1. i - n = 1 /\ i <= n + 1 /\ ~(i <= n) /\ i \in 1..(n + (k + 1))
      BY <2>2
    <3>. QED BY <1>3, <1>4, <1>5, <2>2, <3>1
  <2>3. CASE i \in (n + 2)..((n + 1) + k)
    <3>1. /\ ~(i <= n + 1) /\ ~(i <= n) /\ i \in 1..(n + (k + 1))
          /\ i - (n + 1) \in 1..k /\ (i - (n + 1)) + 1 = i - n
      BY <2>3
    <3>. QED BY <1>3, <1>4, <1>5, <3>1
  <2>4. i \in 1..n \/ i = n + 1 \/ i \in (n + 2)..((n + 1) + k)
    OBVIOUS
  <2>. QED BY <2>1, <2>2, <2>3, <2>4
<1>7. c \o d = a \o b
  <2>1. Len(c \o d) = Len(a \o b) /\ \A i \in 1..Len(c \o d) : (c \o d)[i] = (a \o b)[i]
    BY <1>4, <1>5, <1>6
  <2>. QED BY <1>4, <1>5, <2>1, SameSeq
<1>. QED BY <1>7 DEF c, d

LEMMA ConcatAppend ==
  ASSUME NEW S, NEW a \in Seq(S), NEW b \in Seq(S), NEW x \in S
  PROVE  a \o Append(b, x) = Append(a \o b, x)
BY AppendIsConcat, ConcatAssociative

Keeps ==
  /\ UNCHANGED <<log, sessions_>>
  /\ \A s \in Sessions :
       /\ stopped[s] => stopped'[s]
       /\ stopped'[s] => written'[s] \o outbox'[s] = written[s] \o outbox[s]
       /\ ~stopped'[s] => Public(written'[s] \o outbox'[s] \o strandQ'[s])
                            = Public(written[s] \o outbox[s] \o strandQ[s])

Broadcasts ==
  LET front == Head(roomQ)
  IN /\ RunsFront
     /\ log' = Append(log, front.msg)
     /\ UNCHANGED <<outbox, written>>
     /\ strandQ' = [s \in Sessions |-> IF s \in sessions_' THEN Append(strandQ[s], front.msg)
                                                            ELSE strandQ[s]]

LEMMA ViewEffects ==
  ASSUME IInv, IInv', StoryInv, [Next]_vars
  PROVE  Keeps \/ Broadcasts
<1> USE DEF sessionVars, roomVars, acceptVars
<1>0. TypeOK /\ WriteChain /\ Starting /\ BeforeJoin
  BY DEF IInv
<1>1. \A s \in Sessions : /\ written[s] \in Seq(Messages) /\ outbox[s] \in Seq(Messages)
                          /\ strandQ[s] \in Seq(Messages)
                          /\ written[s] \o outbox[s] \in Seq(Messages)
                          /\ written[s] \o outbox[s] \o strandQ[s] \in Seq(Messages)
  <2>1. \A s \in Sessions : /\ written[s] \in Seq(Messages) /\ outbox[s] \in Seq(Messages)
                            /\ strandQ[s] \in Seq(Messages)
    BY <1>0 DEF TypeOK
  <2>2. \A a, b \in Seq(Messages) : a \o b \in Seq(Messages)
    BY ConcatProperties
  <2>. QED BY <2>1, <2>2
<1>13. \A a, b \in Seq(Messages), x \in Messages : a \o Append(b, x) = Append(a \o b, x)
  BY ConcatAppend
<1>14. \A a, b \in Seq(Messages) : b # <<>> => Append(a, Head(b)) \o Tail(b) = a \o b
  BY MoveHead
<1>2. ASSUME UNCHANGED <<log, sessions_, written, outbox, strandQ>>,
             \A s \in Sessions : stopped[s] => stopped'[s]
      PROVE  Keeps
  BY <1>2 DEF Keeps
<1>3. ASSUME NEW s \in Sessions, NEW k \in Departures, Stop(s, Message(k, s, name[s]))
      PROVE  stopped'[s] /\ \A q \in Sessions : q # s => stopped'[q] = stopped[q]
  BY <1>0, <1>3 DEF TypeOK, Stop
<1>4. CASE Signal \/ CloseAcceptor \/ Idle \/ UNCHANGED vars
  BY <1>2, <1>4 DEF Signal, CloseAcceptor, Idle, vars
<1>5. CASE AcceptFailed \/ AcceptAgain \/ StartJoin \/ StartRead
           \/ \E s \in Sessions : AcceptConnection(s)
  BY <1>2, <1>5 DEF AcceptFailed, AcceptAgain, StartJoin, StartRead, AcceptConnection
<1>6. CASE StartDeliver
  <2> DEFINE m == Message("connected", acceptFor, 0)
  <2>1. m \in Messages /\ m.kind \notin PublicKinds /\ acceptFor \in Sessions
    <3>1. acceptFor \in Sessions /\ 0 \in 0..MaxLines
      BY <1>0, <1>6, ChatServerAssumption DEF TypeOK, StartDeliver
    <3>2. m.kind \notin PublicKinds
      BY DEF Message, PublicKinds
    <3>. QED BY <3>1, <3>2, MessageType DEF PrivateKinds
  <2>2. strandQ' = [strandQ EXCEPT ![acceptFor] = Append(@, m)]
        /\ UNCHANGED <<log, sessions_, stopped, written, outbox>>
    BY <1>6 DEF StartDeliver
  <2> HIDE DEF m
  <2>3. ASSUME NEW s \in Sessions
        PROVE  Public(written[s] \o outbox[s] \o strandQ'[s])
                 = Public(written[s] \o outbox[s] \o strandQ[s])
    <3>1. CASE s = acceptFor
      <4>1. strandQ'[s] = Append(strandQ[s], m)
        BY <1>0, <2>2, <3>1 DEF TypeOK
      <4>2. written[s] \o outbox[s] \o strandQ'[s]
              = Append(written[s] \o outbox[s] \o strandQ[s], m)
        <5>1. written[s] \o outbox[s] \o Append(strandQ[s], m)
                = Append(written[s] \o outbox[s] \o strandQ[s], m)
          BY <1>1, <1>13, <2>1, Zenon
        <5>. QED BY <4>1, <5>1
      <4>. QED BY <1>1, <2>1, <4>2, PublicAppend
    <3>2. CASE s # acceptFor
      <4>1. strandQ'[s] = strandQ[s]
        BY <1>0, <2>2, <3>2 DEF TypeOK
      <4>. QED BY <4>1
    <3>. QED BY <3>1, <3>2
  <2>. QED BY <2>2, <2>3 DEF Keeps
<1>7. CASE Room
  <2>1. \A q \in Sessions : Entered(q)' <=> Entered(q)
    BY <1>7 DEF Room, RoomJoin, RoomLeave, RoomBroadcast, Entered
  <2>2. CASE RoomJoin
    BY <2>1, <2>2 DEF RoomJoin, BroadcastTo, RunsFront, Broadcasts
  <2>3. CASE RoomLeave
    BY <1>0, <2>1, <2>3, LeavesAsMember DEF RoomLeave, BroadcastTo, RunsFront, Broadcasts
  <2>4. CASE RoomBroadcast
    BY <2>1, <2>4 DEF RoomBroadcast, BroadcastTo, RunsFront, Broadcasts
  <2>. QED BY <1>7, <2>2, <2>3, <2>4 DEF Room
<1>8. ASSUME NEW s \in Sessions, Deliver(s) PROVE Keeps
  <2>1. strandQ[s] # <<>> /\ strandQ' = [strandQ EXCEPT ![s] = Tail(@)]
        /\ UNCHANGED <<log, sessions_, stopped, written>>
    BY <1>8 DEF Deliver
  <2>2. CASE stopped[s]
    <3>1. outbox' = outbox /\ \A q \in Sessions : q # s => strandQ'[q] = strandQ[q]
      BY <1>0, <1>8, <2>1, <2>2 DEF Deliver, TypeOK
    <3>. QED BY <2>1, <2>2, <3>1 DEF Keeps
  <2>3. CASE ~stopped[s]
    <3>1. outbox' = [outbox EXCEPT ![s] = Append(@, Head(strandQ[s]))]
      BY <1>8, <2>3 DEF Deliver
    <3>2. /\ \A q \in Sessions : q # s => strandQ'[q] = strandQ[q] /\ outbox'[q] = outbox[q]
          /\ strandQ'[s] = Tail(strandQ[s])
          /\ outbox'[s] = Append(outbox[s], Head(strandQ[s]))
      BY <1>0, <2>1, <3>1 DEF TypeOK
    <3>3. Head(strandQ[s]) \in Messages
      BY <1>1, <2>1
    <3>4. written[s] \o outbox'[s] \o strandQ'[s] = written[s] \o outbox[s] \o strandQ[s]
      <4>1. written[s] \o outbox'[s] = Append(written[s] \o outbox[s], Head(strandQ[s]))
        <5>1. written[s] \o Append(outbox[s], Head(strandQ[s]))
                = Append(written[s] \o outbox[s], Head(strandQ[s]))
          BY <1>1, <1>13, <3>3, Zenon
        <5>. QED BY <3>2, <5>1
      <4>. QED BY <1>1, <1>14, <2>1, <3>2, <4>1
    <3>5. \A q \in Sessions :
            /\ stopped[q] => written[q] \o outbox'[q] = written[q] \o outbox[q]
            /\ written[q] \o outbox'[q] \o strandQ'[q] = written[q] \o outbox[q] \o strandQ[q]
      BY <2>3, <3>2, <3>4
    <3>. QED BY <2>1, <3>5 DEF Keeps
  <2>. QED BY <2>2, <2>3
<1>9. ASSUME NEW s \in Sessions, WriteDone(s) PROVE Keeps
  <2>1. /\ outbox[s] # <<>>
        /\ written' = [written EXCEPT ![s] = Append(@, Head(outbox[s]))]
        /\ outbox' = [outbox EXCEPT ![s] = Tail(@)]
        /\ UNCHANGED <<log, sessions_, stopped, strandQ>>
    BY <1>0, <1>9 DEF WriteDone, WriteChain
  <2>2. /\ \A q \in Sessions : q # s => written'[q] = written[q] /\ outbox'[q] = outbox[q]
        /\ written'[s] = Append(written[s], Head(outbox[s]))
        /\ outbox'[s] = Tail(outbox[s])
    BY <1>0, <2>1 DEF TypeOK
  <2>3. written'[s] \o outbox'[s] = written[s] \o outbox[s]
    BY <1>1, <1>14, <2>1, <2>2
  <2>4. \A q \in Sessions : written'[q] \o outbox'[q] = written[q] \o outbox[q]
    BY <2>2, <2>3
  <2>. QED BY <2>1, <2>4 DEF Keeps
<1>10. ASSUME NEW s \in Sessions, WriteFailed(s) \/ ReadFailed(s) \/ OnQuit(s) PROVE Keeps
  <2>1. UNCHANGED <<log, sessions_, strandQ, outbox, written>> /\ Stop(s, Message("left", s, name[s]))
    BY <1>10 DEF WriteFailed, ReadFailed, OnQuit
  <2>. QED BY <1>2, <1>3, <2>1 DEF Departures
<1>11. ASSUME NEW s \in Sessions, OnOversized(s) PROVE Keeps
  <2>1. /\ UNCHANGED <<log, sessions_, outbox, written>>
        /\ Stop(s, Message("disconnected", s, name[s]))
    BY <1>11 DEF OnOversized
  <2>2. \A q \in Sessions : q # s => strandQ'[q] = strandQ[q]
    BY <1>0, <1>11 DEF OnOversized, TypeOK
  <2>3. stopped'[s] /\ \A q \in Sessions : q # s => stopped'[q] = stopped[q]
    BY <1>3, <2>1 DEF Departures
  <2>. QED BY <2>1, <2>2, <2>3 DEF Keeps
<1>12. ASSUME NEW s \in Sessions, OnNothing(s) \/ OnRename(s) \/ OnText(s) PROVE Keeps
  BY <1>2, <1>12 DEF OnNothing, OnRename, OnText
<1>. QED BY <1>4, <1>5, <1>6, <1>7, <1>8, <1>9, <1>10, <1>11, <1>12
        DEF Next, Accept, Session, OnRead

(* A session that runs took an interval of the log, because what it was handed
   is one and what it took is the beginning of that. *)
LEMMA RunningView ==
  ASSUME IInv, StoryInv, MemberView, StrangersView, NEW s \in Sessions, ~stopped[s]
  PROVE  TookInterval(s)
<1> DEFINE seen == Public(Taken(s))
           given == Public(Handed(s))
<1>1. PICK n \in Nat : n = Len(log)
  BY StoryShape DEF IInv
<1>2. log \in Seq(Messages) /\ DOMAIN log = 1..n
  BY <1>1 DEF IInv, TypeOK
<1>3. Taken(s) \in Seq(Messages) /\ strandQ[s] \in Seq(Messages) /\ Handed(s) = Taken(s) \o strandQ[s]
  <2>1. written[s] \in Seq(Messages) /\ outbox[s] \in Seq(Messages) /\ strandQ[s] \in Seq(Messages)
    BY DEF IInv, TypeOK
  <2>. QED BY <2>1, ConcatProperties DEF Taken, Handed
<1>4. /\ seen \in Seq(Messages) /\ Len(seen) <= Len(given)
      /\ \A i \in 1..Len(seen) : given[i] = seen[i]
  <2>1. /\ Len(Public(Taken(s))) <= Len(Public(Taken(s) \o strandQ[s]))
        /\ \A i \in 1..Len(Public(Taken(s))) :
             Public(Taken(s) \o strandQ[s])[i] = Public(Taken(s))[i]
    BY <1>3, PublicPrefix
  <2>2. Public(Taken(s)) \in Seq(Messages)
    BY <1>3, PublicType
  <2>. QED BY <1>3, <2>1, <2>2
<1> HIDE DEF seen, given
<1>5. PICK j \in Nat : j = JoinedAt(s)
  BY Positions
<1>6. GoneAt(s) = 0 /\ (s \in sessions_ <=> j # 0) /\ (j # 0 => j \in 1..n)
  BY <1>2, <1>5, Positions
<1>7. CASE s \in sessions_
  <2>1. given = SubSeq(log, j, n)
    BY <1>1, <1>5, <1>7 DEF MemberView, Handed, given
  <2>2. j \in 1..n /\ \A i \in j..n : log[i] \in Messages
    BY <1>2, <1>6, <1>7
  <2>3. Len(given) = (n - j) + 1 /\ \A i \in 1..((n - j) + 1) : given[i] = log[j + i - 1]
    BY <2>1, <2>2, SubSeqProperties
  <2>4. PICK l \in Nat : l = Len(seen)
    BY <1>4
  <2>5. l <= (n - j) + 1 /\ j + l <= n + 1 /\ \A i \in 1..l : i \in 1..((n - j) + 1)
    BY <1>4, <2>2, <2>3, <2>4
  <2>6. \A i \in 1..l : seen[i] = log[j + i - 1]
    BY <1>4, <2>3, <2>4, <2>5
  <2>. QED BY <1>1, <1>5, <1>6, <1>7, <2>4, <2>5, <2>6 DEF TookInterval, seen
<1>8. CASE s \notin sessions_
  <2>1. given = <<>>
    BY <1>8 DEF StrangersView, given
  <2>2. seen = <<>> /\ Len(seen) = 0
    BY <1>4, <2>1
  <2>. QED BY <1>1, <1>5, <1>6, <1>8, <2>2 DEF TookInterval, seen
<1>. QED BY <1>7, <1>8

LEMMA RunningViewNext ==
  (IInv /\ StoryInv /\ MemberView /\ StrangersView =>
     \A s \in Sessions : ~stopped[s] => TookInterval(s))'
<1>1. IInv /\ StoryInv /\ MemberView /\ StrangersView =>
        \A s \in Sessions : ~stopped[s] => TookInterval(s)
  BY RunningView
<1>. QED BY <1>1, PTL

LEMMA KeepsView ==
  ASSUME IInv, StoryInv, ViewInv, IInv', StoryInv', Keeps
  PROVE  ViewInv'
<1>1. \A s \in Sessions : JoinedAt(s)' = JoinedAt(s) /\ GoneAt(s)' = GoneAt(s)
  BY DEF Keeps, JoinedAt, GoneAt, SelectInSeq
<1>2. log' = log /\ sessions_' = sessions_
  BY DEF Keeps
<1>3. MemberView'
  <2> SUFFICES ASSUME NEW s \in Sessions, s \in sessions_', ~stopped'[s]
               PROVE  Public(written'[s] \o outbox'[s] \o strandQ'[s])
                        = SubSeq(log', JoinedAt(s)', Len(log'))
    BY <1>2 DEF MemberView, IInv, TypeOK
  <2>1. s \in sessions_ /\ ~stopped[s]
    BY <1>2 DEF Keeps
  <2>2. Public(written[s] \o outbox[s] \o strandQ[s]) = SubSeq(log, JoinedAt(s), Len(log))
    BY <2>1 DEF ViewInv, MemberView
  <2>. QED BY <1>1, <1>2, <2>2 DEF Keeps
<1>4. StrangersView'
  BY <1>2 DEF ViewInv, StrangersView, Handed, Keeps
<1>5. ASSUME NEW s \in Sessions PROVE TookInterval(s)'
  <2>1. CASE ~stopped'[s]
    BY <1>3, <1>4, <2>1, RunningViewNext
  <2>2. CASE stopped'[s]
    <3>1. Taken(s)' = Taken(s)
      BY <2>2 DEF Keeps, Taken
    <3>. QED BY <1>1, <1>2, <3>1 DEF ViewInv, TakenFromLog, TookInterval
  <2>. QED BY <2>1, <2>2
<1>. QED BY <1>3, <1>4, <1>5 DEF ViewInv, TakenFromLog

LEMMA BroadcastView ==
  ASSUME IInv, StoryInv, ViewInv, IInv', StoryInv', Broadcasts
  PROVE  ViewInv'
<1> DEFINE f == Head(roomQ)
           m == f.msg
<1>1. PICK n \in Nat : n = Len(log)
  BY StoryShape DEF IInv
<1>2. /\ f \in RoomOps /\ m \in Messages /\ m.from = f.s /\ m.kind \in PublicKinds
      /\ f.op = "join" <=> m.kind = "joined"
      /\ f.op = "leave" <=> m.kind \in {"left", "disconnected"}
      /\ roomQ # <<>> /\ roomQ' = Tail(roomQ)
      /\ UNCHANGED <<stopped, outbox, written>>
      /\ log' = Append(log, m)
      /\ strandQ' = [s \in Sessions |-> IF s \in sessions_' THEN Append(strandQ[s], m)
                                                             ELSE strandQ[s]]
      /\ sessions_' = CASE f.op = "join"  -> sessions_ \cup {f.s}
                        [] f.op = "leave" -> sessions_ \ {f.s}
                        [] OTHER          -> sessions_
  <2>1. f \in RoomOps /\ m \in Messages /\ f = roomQ[1] /\ 1 \in DOMAIN roomQ
    BY HeadType, FrontIsStory DEF Broadcasts, RunsFront, IInv
  <2>. QED BY <2>1 DEF Broadcasts, RunsFront, StoryInv, WellPosted
<1> HIDE DEF f
<1>3. log \in Seq(Messages) /\ DOMAIN log = 1..n
      /\ log' \in Seq(Messages) /\ DOMAIN log' = 1..(n + 1) /\ Len(log') = n + 1
      /\ log'[n + 1] = m /\ \A i \in 1..n : log'[i] = log[i]
  <2>1. log \in Seq(Messages)
    BY DEF IInv, TypeOK
  <2>. QED BY <1>1, <1>2, <2>1, AppendFacts
<1>4. \A s \in Sessions :
        /\ JoinedAt(s)' = IF JoinedAt(s) # 0 THEN JoinedAt(s)
                          ELSE IF Arrival(m, s) THEN n + 1 ELSE 0
        /\ GoneAt(s)'   = IF GoneAt(s) # 0 THEN GoneAt(s)
                          ELSE IF Departure(m, s) THEN n + 1 ELSE 0
  BY <1>1, <1>2, PositionsMove
<1>5. \A s \in Sessions :
        /\ Handed(s) \in Seq(Messages)
        /\ s \in sessions_' => Handed(s)' = Append(Handed(s), m)
        /\ s \notin sessions_' => Handed(s)' = Handed(s)
        /\ Taken(s)' = Taken(s)
  <2>1. ASSUME NEW s \in Sessions
        PROVE  /\ written[s] \in Seq(Messages) /\ outbox[s] \in Seq(Messages)
               /\ strandQ[s] \in Seq(Messages)
    BY DEF IInv, TypeOK
  <2>2. \A a, b \in Seq(Messages) : a \o b \in Seq(Messages) /\ a \o Append(b, m) = Append(a \o b, m)
    BY <1>2, ConcatProperties, ConcatAppend
  <2>3. ASSUME NEW s \in Sessions
        PROVE  /\ written[s] \o outbox[s] \in Seq(Messages)
               /\ written[s] \o outbox[s] \o strandQ[s] \in Seq(Messages)
               /\ written[s] \o outbox[s] \o Append(strandQ[s], m)
                    = Append(written[s] \o outbox[s] \o strandQ[s], m)
    BY <2>1, <2>2, Zenon
  <2>. QED BY <1>2, <2>3 DEF Handed, Taken
<1>6. MemberView'
  <2> SUFFICES ASSUME NEW s \in Sessions, s \in sessions_', ~stopped'[s]
               PROVE  Public(Handed(s)') = SubSeq(log', JoinedAt(s)', n + 1)
    <3>1. Len(log') = n + 1 /\ sessions_' \in SUBSET Sessions
      BY <1>3 DEF IInv, TypeOK
    <3>. QED BY <3>1 DEF MemberView, Handed
  <2>1. Public(Handed(s)') = Append(Public(Handed(s)), m)
    BY <1>2, <1>5, PublicAppend
  <2>2. CASE s \in sessions_
    <3>1. PICK j \in 1..n : j = JoinedAt(s)
      BY <1>3, <2>2, Positions
    <3>2. JoinedAt(s)' = j
      BY <1>4, <3>1
    <3>3. Public(Handed(s)) = SubSeq(log, j, n)
      BY <1>1, <1>2, <2>2, <3>1 DEF ViewInv, MemberView, Handed
    <3>4. SubSeq(log', j, n + 1) = Append(SubSeq(log, j, n), m)
      <4>1. /\ \A i \in j..n : log[i] \in Messages
            /\ \A i \in j..(n + 1) : log'[i] \in Messages
        BY <1>3
      <4> DEFINE a == SubSeq(log, j, n)
                 b == SubSeq(log', j, n + 1)
      <4>2. PICK k \in Nat : k = (n - j) + 1
        OBVIOUS
      <4>3. a \in Seq(Messages) /\ Len(a) = k /\ \A i \in 1..k : a[i] = log[j + i - 1]
        BY <4>1, <4>2, SubSeqProperties
      <4>4. b \in Seq(Messages) /\ Len(b) = k + 1 /\ \A i \in 1..(k + 1) : b[i] = log'[j + i - 1]
        <5>1. n + 1 \in Int /\ j \in Int /\ j <= n + 1 /\ ((n + 1) - j) + 1 = k + 1
          BY <4>2
        <5>. QED BY <4>1, <5>1, SubSeqProperties
      <4> HIDE DEF a, b
      <4>5. /\ Append(a, m) \in Seq(Messages) /\ Len(Append(a, m)) = k + 1
            /\ Append(a, m)[k + 1] = m /\ \A i \in 1..k : Append(a, m)[i] = a[i]
        BY <1>2, <4>3, AppendFacts
      <4>6. ASSUME NEW i \in 1..(k + 1) PROVE b[i] = Append(a, m)[i]
        <5>1. CASE i \in 1..k
          <6>1. j + i - 1 \in 1..n
            BY <4>2, <5>1
          <6>. QED BY <1>3, <4>3, <4>4, <4>5, <5>1, <6>1
        <5>2. CASE i = k + 1
          <6>1. j + i - 1 = n + 1
            BY <4>2, <5>2
          <6>2. b[i] = log'[n + 1]
            BY <4>4, <6>1
          <6>. QED BY <1>3, <4>5, <5>2, <6>2
        <5>3. i \in 1..k \/ i = k + 1
          BY <4>2
        <5>. QED BY <5>1, <5>2, <5>3
      <4>7. b = Append(a, m)
        BY <4>4, <4>5, <4>6, SameSeq
      <4>. QED BY <4>7 DEF a, b
    <3>. QED BY <2>1, <3>2, <3>3, <3>4
  <2>3. CASE s \notin sessions_
    <3>1. f.op = "join" /\ f.s = s
      BY <1>2, <2>3
    <3>2. Arrival(m, s)
      BY <1>2, <3>1 DEF Arrival
    <3>3. ~stopped[s] /\ GoneAt(s) = 0
      BY <1>2, Positions
    <3>4. JoinedAt(s) = 0
      BY <2>3, <3>3, Positions
    <3>5. JoinedAt(s)' = n + 1
      BY <1>4, <3>2, <3>4
    <3>6. Public(Handed(s)) = <<>>
      BY <2>3, <3>3 DEF ViewInv, StrangersView
    <3>7. SubSeq(log', n + 1, n + 1) = Append(<<>>, m)
      <4>1. \A i \in (n + 1)..(n + 1) : log'[i] \in Messages /\ i = n + 1
        BY <1>2, <1>3
      <4>2. n + 1 \in Int /\ n + 1 <= n + 1 /\ ((n + 1) - (n + 1)) + 1 = 1 /\ (n + 1) + 1 - 1 = n + 1
        OBVIOUS
      <4>3. /\ SubSeq(log', n + 1, n + 1) \in Seq(Messages)
            /\ Len(SubSeq(log', n + 1, n + 1)) = 1
            /\ \A i \in 1..1 : SubSeq(log', n + 1, n + 1)[i] = log'[(n + 1) + i - 1]
        BY <4>1, <4>2, SubSeqProperties
      <4>4. SubSeq(log', n + 1, n + 1)[1] = m
        BY <1>3, <4>2, <4>3
      <4>5. Append(<<>>, m) \in Seq(Messages) /\ Len(Append(<<>>, m)) = 1 /\ Append(<<>>, m)[1] = m
        BY <1>2
      <4>6. \A i \in 1..1 : SubSeq(log', n + 1, n + 1)[i] = Append(<<>>, m)[i]
        BY <4>4, <4>5
      <4>. QED BY <4>3, <4>5, <4>6, SameSeq
    <3>. QED BY <2>1, <3>5, <3>6, <3>7
  <2>. QED BY <2>2, <2>3
<1>7. StrangersView'
  <2> SUFFICES ASSUME NEW s \in Sessions, s \notin sessions_', ~stopped'[s]
               PROVE  Public(Handed(s)') = <<>>
    BY DEF StrangersView, Handed
  <2>1. ~stopped[s] /\ Handed(s)' = Handed(s)
    BY <1>2, <1>5
  <2>2. GoneAt(s)' = 0
    BY <2>1, <1>2, PositionsNext
  <2>3. ~Departure(m, s)
    BY <1>4, <2>2
  <2>4. s \notin sessions_
    BY <1>2, <2>3 DEF Departure
  <2>. QED BY <2>1, <2>4 DEF ViewInv, StrangersView
<1>8. ASSUME NEW s \in Sessions PROVE TookInterval(s)'
  <2>1. CASE ~stopped'[s]
    BY <1>6, <1>7, <2>1, RunningViewNext
  <2>2. CASE stopped'[s]
    <3> DEFINE seen == Public(Taken(s))
    <3>1. Public(Taken(s))' = seen
      BY <1>5
    <3>2. PICK j \in Nat : j = JoinedAt(s)
      BY Positions
    <3>3. PICK g \in Nat : g = GoneAt(s)
      BY Positions
    <3>4. PICK l \in Nat : l = Len(seen)
      <4>1. Taken(s) \in Seq(Messages)
        <5>1. written[s] \in Seq(Messages) /\ outbox[s] \in Seq(Messages)
          BY DEF IInv, TypeOK
        <5>. QED BY <5>1, ConcatProperties DEF Taken
      <4>2. seen \in Seq(Messages)
        BY <4>1, PublicType
      <4>. QED BY <4>2
    <3>5. /\ j = 0 => seen = <<>> /\ l = 0
          /\ j + l <= IF g = 0 THEN n + 1 ELSE g
          /\ \A k \in 1..l : seen[k] = log[j + k - 1]
      BY <1>1, <3>2, <3>3, <3>4 DEF ViewInv, TakenFromLog, TookInterval
    <3> HIDE DEF seen
    <3>6. /\ g # 0 => g \in 1..n /\ 0 < j /\ j < g
          /\ j # 0 => j \in 1..n
      BY <1>3, <3>2, <3>3, Positions
    <3>7. PICK jj \in Nat : jj = JoinedAt(s)'
      BY PositionsNext
    <3>8. PICK gg \in Nat : gg = GoneAt(s)'
      BY PositionsNext
    <3>9. /\ jj = IF j # 0 THEN j ELSE IF Arrival(m, s) THEN n + 1 ELSE 0
          /\ gg = IF g # 0 THEN g ELSE IF Departure(m, s) THEN n + 1 ELSE 0
          /\ gg # 0 => jj < gg
      <4>1. GoneAt(s)' # 0 => JoinedAt(s)' < GoneAt(s)'
        BY PositionsNext
      <4>. QED BY <1>4, <3>2, <3>3, <3>7, <3>8, <4>1
    <3>10. jj = 0 => seen = <<>>
      BY <3>5, <3>9
    <3>11. jj + l <= IF gg = 0 THEN (n + 1) + 1 ELSE gg
      BY <3>5, <3>6, <3>9
    <3>12. \A k \in 1..l : seen[k] = log'[jj + k - 1]
      <4>1. CASE j = 0
        <5>1. l = 0
          BY <3>5, <4>1
        <5>. QED BY <5>1
      <4>2. CASE j # 0
        <5>1. jj = j /\ \A k \in 1..l : j + k - 1 \in 1..n
          BY <3>5, <3>6, <3>9, <4>2
        <5>. QED BY <1>3, <3>5, <5>1
      <4>. QED BY <4>1, <4>2
    <3>. QED BY <1>3, <3>1, <3>4, <3>7, <3>8, <3>10, <3>11, <3>12 DEF TookInterval
  <2>. QED BY <2>1, <2>2
<1>. QED BY <1>6, <1>7, <1>8 DEF ViewInv, TakenFromLog

LEMMA NoneFound ==
  ASSUME log = <<>>, NEW s
  PROVE  JoinedAt(s) = 0 /\ GoneAt(s) = 0
BY DEF JoinedAt, GoneAt, SelectInSeq

LEMMA InitView == Init => ViewInv
<1> SUFFICES ASSUME Init PROVE ViewInv
  OBVIOUS
<1>1. log = <<>> /\ sessions_ = {} /\ Len(log) = 0
  BY DEF Init
<1>2. ASSUME NEW s \in Sessions
      PROVE  Public(Taken(s)) = <<>> /\ Public(Handed(s)) = <<>>
  <2>1. written[s] = <<>> /\ outbox[s] = <<>> /\ strandQ[s] = <<>>
    BY DEF Init
  <2>2. <<>> \o <<>> = <<>>
    OBVIOUS
  <2>. QED BY <2>1, <2>2, PublicEmpty DEF Taken, Handed
<1>3. MemberView /\ StrangersView
  BY <1>1, <1>2 DEF MemberView, StrangersView
<1>4. ASSUME NEW s \in Sessions PROVE TookInterval(s)
  <2>1. JoinedAt(s) = 0 /\ GoneAt(s) = 0 /\ Len(<<>>) = 0
    BY <1>1, NoneFound
  <2>. QED BY <1>1, <1>2, <2>1 DEF TookInterval
<1>. QED BY <1>3, <1>4 DEF ViewInv, TakenFromLog

LEMMA NextView == (IInv /\ StoryInv /\ ViewInv) /\ [Next]_vars => ViewInv'
<1> SUFFICES ASSUME IInv, StoryInv, ViewInv, [Next]_vars PROVE ViewInv'
  OBVIOUS
<1>1. IInv' /\ StoryInv'
  BY NextInv, NextStory
<1>2. Keeps \/ Broadcasts
  BY <1>1, ViewEffects
<1>. QED BY <1>1, <1>2, KeepsView, BroadcastView

LEMMA ViewHolds == Spec => [](IInv /\ StoryInv /\ ViewInv)
<1>1. Init => IInv /\ StoryInv /\ ViewInv
  BY InitInv, InitStory, InitView
<1>2. (IInv /\ StoryInv /\ ViewInv) /\ [Next]_vars => (IInv /\ StoryInv /\ ViewInv)'
  BY NextInv, NextStory, NextView
<1>. QED BY <1>1, <1>2, PTL DEF Spec

(* A member that runs has been handed the log since its own arrival: no message
   is missing, repeated or out of order, wherever the handlers have got to. *)
THEOREM MembersSeeTheLog == Spec => []MemberView
<1>1. ViewInv => MemberView
  BY DEF ViewInv
<1>. QED BY <1>1, ViewHolds, PTL

-----------------------------------------------------------------------------
(* The server implements the total order broadcast. *)
LEMMA Receives ==
  ASSUME IInv, StoryInv, ViewInv, NEW s \in Sessions, WriteDone(s)
  PROVE  Room_!Receive(s) \/ UNCHANGED Room_!vars
<1> DEFINE h == Head(outbox[s])
           got == Public(written[s])
           seen == Public(Taken(s))
<1>1. /\ written[s] \in Seq(Messages) /\ outbox[s] \in Seq(Messages) /\ outbox[s] # <<>>
      /\ written \in [Sessions -> Seq(Messages)]
  BY DEF IInv, TypeOK, WriteDone, WriteChain
<1>2. /\ h \in Messages /\ Tail(outbox[s]) \in Seq(Messages)
      /\ Append(written[s], h) \in Seq(Messages)
  BY <1>1
<1>3. /\ written' = [written EXCEPT ![s] = Append(written[s], h)]
      /\ UNCHANGED <<log, sessions_>>
  BY DEF WriteDone, roomVars
<1>4. \A q \in Sessions : JoinedAt(q)' = JoinedAt(q) /\ GoneAt(q)' = GoneAt(q)
  BY <1>3 DEF JoinedAt, GoneAt, SelectInSeq
<1>5. /\ written'[s] = Append(written[s], h)
      /\ \A q \in Sessions : q # s => written'[q] = written[q]
  BY <1>1, <1>3
<1>6. Taken(s) = Append(written[s], h) \o Tail(outbox[s])
  BY <1>1, MoveHead DEF Taken
<1>7. Public(Append(written[s], h)) = IF h.kind \in PublicKinds THEN Append(got, h) ELSE got
  BY <1>1, <1>2, PublicAppend
<1>8. CASE h.kind \notin PublicKinds
  <2>1. \A q \in Sessions : Public(written'[q]) = Public(written[q])
    BY <1>5, <1>7, <1>8
  <2>. QED BY <1>3, <1>4, <2>1 DEF Room_!vars
<1>9. CASE h.kind \in PublicKinds
  <2>1. got \in Seq(Messages)
    BY <1>1, PublicType
  <2>2. PICK l \in Nat : l = Len(got)
    BY <2>1
  <2>3. seen \in Seq(Messages)
    <3>1. Taken(s) \in Seq(Messages)
      BY <1>1, ConcatProperties DEF Taken
    <3>. QED BY <3>1, PublicType
  <2>4. PICK t \in Nat : t = Len(seen)
    BY <2>3
  <2>5. l + 1 <= t /\ seen[l + 1] = h
    <3>1. /\ Len(Append(got, h)) = l + 1 /\ Append(got, h)[l + 1] = h
      BY <1>2, <2>1, <2>2, AppendFacts
    <3>2. /\ Len(Public(Append(written[s], h))) <= Len(Public(Append(written[s], h) \o Tail(outbox[s])))
          /\ \A i \in 1..Len(Public(Append(written[s], h))) :
               Public(Append(written[s], h) \o Tail(outbox[s]))[i] = Public(Append(written[s], h))[i]
      BY <1>2, PublicPrefix
    <3>3. /\ Len(Append(got, h)) <= Len(seen)
          /\ \A i \in 1..Len(Append(got, h)) : seen[i] = Append(got, h)[i]
      BY <1>6, <1>7, <1>9, <3>2
    <3>4. l + 1 \in 1..(l + 1)
      OBVIOUS
    <3>. QED BY <2>4, <3>1, <3>3, <3>4
  <2> HIDE DEF h, seen, got
  <2>6. PICK j \in Nat : j = JoinedAt(s)
    BY Positions
  <2>7. PICK g \in Nat : g = GoneAt(s)
    BY Positions
  <2>8. PICK n \in Nat : n = Len(log)
    BY StoryShape DEF IInv
  <2>9. /\ DOMAIN log = 1..n
        /\ g # 0 => g \in 1..n
    <3>1. DOMAIN log = 1..n
      BY <2>8, StoryShape DEF IInv
    <3>. QED BY <2>7, <3>1, Positions
  <2>10. /\ j = 0 => t = 0
         /\ j + t <= IF g = 0 THEN n + 1 ELSE g
         /\ \A k \in 1..t : seen[k] = log[j + k - 1]
    BY <2>4, <2>6, <2>7, <2>8 DEF ViewInv, TakenFromLog, TookInterval, seen
  <2>11. /\ j # 0 /\ j + l \in 1..n
         /\ g # 0 => j + l < g
         /\ log[j + l] = h
    <3>1. l + 1 \in 1..t /\ j + (l + 1) - 1 = j + l
      BY <2>5
    <3>2. log[j + l] = h
      BY <2>5, <2>10, <3>1
    <3>3. j # 0
      BY <2>5, <2>10
    <3>4. CASE g = 0
      BY <2>5, <2>10, <3>2, <3>3, <3>4
    <3>5. CASE g # 0
      BY <2>5, <2>9, <2>10, <3>2, <3>3, <3>5
    <3>. QED BY <3>4, <3>5
  <2>12. [q \in Sessions |-> Public(written[q])]'
           = [[q \in Sessions |-> Public(written[q])] EXCEPT ![s] = Append(@, h)]
    <3>1. \A q \in Sessions : Public(written'[q]) = IF q = s THEN Append(got, h) ELSE Public(written[q])
      BY <1>5, <1>7, <1>9
    <3>. QED BY <3>1 DEF got
  <2>13. UNCHANGED <<log, sessions_, [q \in Sessions |-> JoinedAt(q)], [q \in Sessions |-> GoneAt(q)]>>
    BY <1>3, <1>4
  <2>14. Room_!Receive(s)
    BY <2>2, <2>6, <2>7, <2>9, <2>11, <2>12, <2>13 DEF Room_!Receive, got
  <2>. QED BY <2>14
<1>. QED BY <1>8, <1>9

LEMMA Publishes ==
  ASSUME IInv, StoryInv, IInv', StoryInv', Broadcasts
  PROVE  Room_!Publish /\ (Room_!Say \/ \E s \in Sessions : Room_!Join(s) \/ Room_!Leave(s))
<1> DEFINE f == Head(roomQ)
           m == f.msg
<1>1. PICK n \in Nat : n = Len(log)
  BY StoryShape DEF IInv
<1>2. /\ f \in RoomOps /\ m \in Messages /\ f.s \in Sessions /\ m.from = f.s
      /\ f.op \in {"join", "leave", "broadcast"}
      /\ f.op = "join" <=> m.kind = "joined"
      /\ f.op = "leave" <=> m.kind \in {"left", "disconnected"}
      /\ UNCHANGED written
      /\ log' = Append(log, m)
      /\ sessions_' = CASE f.op = "join"  -> sessions_ \cup {f.s}
                        [] f.op = "leave" -> sessions_ \ {f.s}
                        [] OTHER          -> sessions_
  <2>1. /\ f \in RoomOps /\ m \in Messages /\ f.s \in Sessions
        /\ f = roomQ[1] /\ 1 \in DOMAIN roomQ
    BY HeadType, FrontIsStory DEF Broadcasts, RunsFront, IInv
  <2>2. f.op \in {"join", "leave", "broadcast"}
    BY <2>1 DEF RoomOps
  <2>. QED BY <2>1, <2>2 DEF Broadcasts, RunsFront, StoryInv, WellPosted
<1> HIDE DEF f
<1>3. /\ DOMAIN log = 1..n /\ DOMAIN log' = 1..(n + 1) /\ log'[n + 1] = m
      /\ n + 1 \in 1..(n + 1) /\ n + 1 \notin 1..n
  <2>1. log \in Seq(Messages)
    BY DEF IInv, TypeOK
  <2>. QED BY <1>1, <1>2, <2>1, AppendFacts
<1>4. ASSUME NEW s \in Sessions
      PROVE  /\ JoinedAt(s)' = IF Arrival(m, s) THEN n + 1 ELSE JoinedAt(s)
             /\ GoneAt(s)'   = IF Departure(m, s) THEN n + 1 ELSE GoneAt(s)
             /\ Arrival(m, s) => JoinedAt(s) = 0
  <2>1. /\ JoinedAt(s)' = IF JoinedAt(s) # 0 THEN JoinedAt(s)
                          ELSE IF Arrival(m, s) THEN n + 1 ELSE 0
        /\ GoneAt(s)'   = IF GoneAt(s) # 0 THEN GoneAt(s)
                          ELSE IF Departure(m, s) THEN n + 1 ELSE 0
    BY <1>1, <1>2, PositionsMove
  <2>2. /\ JoinedAt(s) # 0 => JoinedAt(s) \in 1..n
        /\ GoneAt(s) # 0 => GoneAt(s) \in 1..n
    BY <1>3, Positions
  <2>3. /\ Arrival(m, s) => JoinedAt(s)' = n + 1
        /\ Departure(m, s) => GoneAt(s)' = n + 1
    BY <1>3, PositionsNext
  <2>. QED BY <1>3, <2>1, <2>2, <2>3
<1>5. Room_!Publish
  BY <1>2 DEF Room_!Publish
<1>6. UNCHANGED [s \in Sessions |-> Public(written[s])]
  BY <1>2
<1>7. CASE f.op = "join"
  <2>1. /\ \A s \in Sessions : Arrival(m, s) <=> s = f.s
        /\ \A s \in Sessions : ~Departure(m, s)
    BY <1>2, <1>7 DEF Arrival, Departure
  <2>2. /\ [s \in Sessions |-> JoinedAt(s)]'
             = [[s \in Sessions |-> JoinedAt(s)] EXCEPT ![f.s] = n + 1]
        /\ UNCHANGED [s \in Sessions |-> GoneAt(s)]
    <3>1. \A s \in Sessions : /\ JoinedAt(s)' = IF s = f.s THEN n + 1 ELSE JoinedAt(s)
                              /\ GoneAt(s)' = GoneAt(s)
      BY <1>4, <2>1
    <3>. QED BY <3>1
  <2>3. JoinedAt(f.s) = 0 /\ sessions_' = sessions_ \cup {f.s}
    BY <1>2, <1>4, <1>7, <2>1
  <2>4. Room_!Join(f.s)
    BY <1>1, <1>2, <1>6, <2>2, <2>3 DEF Room_!Join
  <2>. QED BY <1>2, <1>5, <2>4
<1>8. CASE f.op = "leave"
  <2>1. /\ \A s \in Sessions : Departure(m, s) <=> s = f.s
        /\ \A s \in Sessions : ~Arrival(m, s)
    BY <1>2, <1>8 DEF Arrival, Departure
  <2>2. /\ [s \in Sessions |-> GoneAt(s)]'
             = [[s \in Sessions |-> GoneAt(s)] EXCEPT ![f.s] = n + 1]
        /\ UNCHANGED [s \in Sessions |-> JoinedAt(s)]
    <3>1. \A s \in Sessions : /\ GoneAt(s)' = IF s = f.s THEN n + 1 ELSE GoneAt(s)
                              /\ JoinedAt(s)' = JoinedAt(s)
      BY <1>4, <2>1
    <3>. QED BY <3>1
  <2>3. f.s \in sessions_ /\ sessions_' = sessions_ \ {f.s}
    <3>1. f.s \in sessions_
      BY <1>8, LeavesAsMember DEF f, Broadcasts, RunsFront, IInv
    <3>. QED BY <1>2, <1>8, <3>1
  <2>4. Room_!Leave(f.s)
    BY <1>1, <1>2, <1>6, <2>2, <2>3 DEF Room_!Leave
  <2>. QED BY <1>2, <1>5, <2>4
<1>9. CASE f.op = "broadcast"
  <2>1. \A s \in Sessions : ~Arrival(m, s) /\ ~Departure(m, s)
    BY <1>2, <1>9 DEF Arrival, Departure
  <2>2. \A s \in Sessions : JoinedAt(s)' = JoinedAt(s) /\ GoneAt(s)' = GoneAt(s)
    BY <1>4, <2>1
  <2>3. sessions_' = sessions_
    BY <1>2, <1>9
  <2>. QED BY <1>5, <1>6, <2>2, <2>3 DEF Room_!Say
<1>. QED BY <1>2, <1>7, <1>8, <1>9

LEMMA WrittenByWrites ==
  ASSUME [Next]_vars
  PROVE  written' = written \/ \E s \in Sessions : WriteDone(s)
BY DEF Next, Accept, Room, Session, OnRead, Idle, vars, sessionVars, roomVars, acceptVars,
       AcceptConnection, AcceptFailed, StartJoin, StartDeliver, StartRead, AcceptAgain, Signal,
       CloseAcceptor, RoomJoin, RoomLeave, RoomBroadcast, Deliver, WriteFailed, ReadFailed,
       OnOversized, OnNothing, OnQuit, OnRename, OnText

LEMMA InitRoom == Init => Room_!Init
<1> SUFFICES ASSUME Init PROVE Room_!Init
  OBVIOUS
<1>1. log = <<>> /\ sessions_ = {}
  BY DEF Init
<1>2. \A s \in Sessions : JoinedAt(s) = 0 /\ GoneAt(s) = 0
  BY <1>1, NoneFound
<1>3. \A s \in Sessions : Public(written[s]) = <<>>
  BY PublicEmpty DEF Init
<1>. QED BY <1>1, <1>2, <1>3 DEF Room_!Init

LEMMA NextRoom == (IInv /\ StoryInv /\ ViewInv) /\ [Next]_vars => [Room_!Next]_(Room_!vars)
<1> SUFFICES ASSUME IInv, StoryInv, ViewInv, [Next]_vars PROVE [Room_!Next]_(Room_!vars)
  OBVIOUS
<1>1. IInv' /\ StoryInv'
  BY NextInv, NextStory
<1>2. CASE \E s \in Sessions : WriteDone(s)
  BY <1>2, Receives DEF Room_!Next
<1>3. CASE Keeps /\ written' = written
  <2>1. \A s \in Sessions : JoinedAt(s)' = JoinedAt(s) /\ GoneAt(s)' = GoneAt(s)
    BY <1>3 DEF Keeps, JoinedAt, GoneAt, SelectInSeq
  <2>. QED BY <1>3, <2>1 DEF Keeps, Room_!vars
<1>4. CASE Broadcasts
  BY <1>1, <1>4, Publishes DEF Room_!Next
<1>. QED BY <1>1, <1>2, <1>3, <1>4, ViewEffects, WrittenByWrites

(* The server, with what each session has written to its socket as the inbox, is
   a total order broadcast. *)
THEOREM TotalOrder == Spec => ImplementsBroadcast
<1>1. (IInv /\ StoryInv /\ ViewInv) /\ [Next]_vars => [Room_!Next]_(Room_!vars)
  BY NextRoom
<1>. QED BY <1>1, InitRoom, ViewHolds, PTL DEF Spec, ImplementsBroadcast, Room_!Spec
=============================================================================
