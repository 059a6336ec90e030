----------------------------- MODULE ChatServer -----------------------------
(***************************************************************************)
(* The TCP chat server of runboost/chat_server.cpp: one acceptor, one      *)
(* chat_room and a chat_session per accepted connection, all driven by the *)
(* handlers of a boost::asio io_context that several threads run.          *)
(*                                                                         *)
(* A strand runs its handlers one at a time, in the order they were posted *)
(* to it.  roomQ is the strand of the room, strandQ[s] the handlers that   *)
(* deliver() has posted to the strand of session s.  The completions of a  *)
(* session's read and of its write are bound to that strand too; they run  *)
(* at some moment after the operation was started, so each is an action    *)
(* enabled while the operation is outstanding rather than a queue entry.   *)
(* A handler touches the state of its own strand and posts to others, so   *)
(* it is one atomic step, except start(): it runs in the accept handler,   *)
(* outside the session's strand, and is three steps (acceptAt).            *)
(***************************************************************************)
EXTENDS Naturals, Sequences, FiniteSets, SequencesExt

CONSTANTS
  Sessions,   \* the connections that clients may open
  NoSession,  \* stands for "the accept handler is working for no session"
  MaxLines,   \* bound: lines the clients send, all together
  MaxFaults,  \* bound: clients that go away or connections that break
  MaxEvents,  \* bound: lines and faults together
  CtrlC       \* whether the user may press Ctrl-C

ASSUME ChatServerAssumption ==
  /\ NoSession \notin Sessions
  /\ MaxLines \in Nat /\ MaxFaults \in Nat /\ MaxEvents \in Nat
  /\ CtrlC \in BOOLEAN

VARIABLES
  acceptor,   \* "open" or "closed": acceptor_.is_open()
  signal,     \* "armed", "posted" (stop() has posted the close) or "handled"
  acceptAt,   \* the accept operation: outstanding, where its handler is, or done
  acceptFor,  \* the session the accept handler is starting
  sessions_,  \* the room's set of sessions
  roomQ,      \* the handlers posted to the room's strand
  log,        \* history: every message broadcast_now was called with
  strandQ,    \* per session, the messages deliver() has posted to its strand
  outbox,     \* per session, outbox_
  readOp,     \* per session, the async_read_until: "unstarted", "none", "pending"
  writeOp,    \* per session, the async_write: "none", "live" or "dead"
  stopped,    \* per session, stopped_
  name,       \* per session, name_: 0 for the guest name, n for the n-th rename
  lines,      \* how many lines the clients have sent
  faults,     \* how many connections have ended from outside
  written     \* history: the messages written to the socket, in order

roomVars    == <<sessions_, roomQ, log>>
acceptVars  == <<acceptor, signal, acceptAt, acceptFor>>
sessionVars == <<strandQ, outbox, readOp, writeOp, stopped, name, lines, faults, written>>
vars        == <<acceptVars, roomVars, sessionVars>>

-----------------------------------------------------------------------------
(* Messages.  The texts are abstracted to who speaks under which name. *)

PublicKinds  == {"joined", "renamed", "chat", "left", "disconnected"}
PrivateKinds == {"connected", "tooLarge"}

Messages == [kind : PublicKinds \cup PrivateKinds, from : Sessions, name : 0..MaxLines]

Message(k, s, n) == [kind |-> k, from |-> s, name |-> n]

RoomOps == [op : {"join", "leave", "broadcast"}, s : Sessions, msg : Messages]

RoomOp(o, s, m) == [op |-> o, s |-> s, msg |-> m]

AcceptStates == {"pending", "join", "deliver", "read", "again", "done"}

TypeOK ==
  /\ acceptor \in {"open", "closed"}
  /\ signal \in {"armed", "posted", "handled"}
  /\ acceptAt \in AcceptStates
  /\ acceptFor \in Sessions \cup {NoSession}
  /\ acceptAt \in {"join", "deliver", "read"} => acceptFor \in Sessions
  /\ sessions_ \in SUBSET Sessions
  /\ roomQ \in Seq(RoomOps)
  /\ log \in Seq(Messages)
  /\ strandQ \in [Sessions -> Seq(Messages)]
  /\ outbox \in [Sessions -> Seq(Messages)]
  /\ readOp \in [Sessions -> {"unstarted", "none", "pending"}]
  /\ writeOp \in [Sessions -> {"none", "live", "dead"}]
  /\ stopped \in [Sessions -> BOOLEAN]
  /\ name \in [Sessions -> 0..lines]
  /\ lines \in 0..MaxLines
  /\ faults \in 0..MaxFaults
  /\ written \in [Sessions -> Seq(Messages)]

Init ==
  /\ acceptor = "open"
  /\ signal = "armed"
  /\ acceptAt = "pending"
  /\ acceptFor = NoSession
  /\ sessions_ = {}
  /\ roomQ = <<>>
  /\ log = <<>>
  /\ strandQ = [s \in Sessions |-> <<>>]
  /\ outbox = [s \in Sessions |-> <<>>]
  /\ readOp = [s \in Sessions |-> "unstarted"]
  /\ writeOp = [s \in Sessions |-> "none"]
  /\ stopped = [s \in Sessions |-> FALSE]
  /\ name = [s \in Sessions |-> 0]
  /\ lines = 0
  /\ faults = 0
  /\ written = [s \in Sessions |-> <<>>]

-----------------------------------------------------------------------------
(* The acceptor. *)

(* async_accept completes with a connection: make_shared<chat_session>.  Once
   the acceptor is closed the handler may still run with a connection that was
   accepted before the close. *)
AcceptConnection(s) ==
  /\ acceptAt = "pending"
  /\ readOp[s] = "unstarted"
  /\ acceptAt' = "join"
  /\ acceptFor' = s
  /\ UNCHANGED <<acceptor, signal, roomVars, sessionVars>>

(* async_accept completes with an error, or is cancelled by the close. *)
AcceptFailed ==
  /\ acceptAt = "pending"
  /\ acceptAt' = "again"
  /\ UNCHANGED <<acceptor, signal, acceptFor, roomVars, sessionVars>>

(* chat_session::start, first call: room_.join posts to the room's strand. *)
StartJoin ==
  /\ acceptAt = "join"
  /\ acceptAt' = "deliver"
  /\ roomQ' = Append(roomQ, RoomOp("join", acceptFor, Message("joined", acceptFor, 0)))
  /\ UNCHANGED <<acceptor, signal, acceptFor, sessions_, log, sessionVars>>

(* chat_session::start, second call: deliver("connected as ..."). *)
StartDeliver ==
  /\ acceptAt = "deliver"
  /\ acceptAt' = "read"
  /\ strandQ' = [strandQ EXCEPT ![acceptFor] = Append(@, Message("connected", acceptFor, 0))]
  /\ UNCHANGED <<acceptor, signal, acceptFor, roomVars,
                 outbox, readOp, writeOp, stopped, name, lines, faults, written>>

(* chat_session::start, third call: do_read. *)
StartRead ==
  /\ acceptAt = "read"
  /\ acceptAt' = "again"
  /\ readOp' = [readOp EXCEPT ![acceptFor] = "pending"]
  /\ UNCHANGED <<acceptor, signal, acceptFor, roomVars,
                 strandQ, outbox, writeOp, stopped, name, lines, faults, written>>

(* Mutant: accept again without asking is_open. *)
AcceptAgain_Always ==
  /\ acceptAt = "again"
  /\ acceptAt' = "pending" /\ acceptFor' = NoSession
  /\ UNCHANGED <<acceptor, signal, roomVars, sessionVars>>

(* The end of the accept handler: do_accept again while the acceptor is open. *)
AcceptAgain ==
  /\ acceptAt = "again"
  /\ acceptAt' = IF acceptor = "open" THEN "pending" ELSE "done"
  /\ acceptFor' = NoSession
  /\ UNCHANGED <<acceptor, signal, roomVars, sessionVars>>

(* SIGINT or SIGTERM: the handler of signals.async_wait calls stop(), which
   posts the close.  The wait is not renewed. *)
Signal ==
  /\ CtrlC
  /\ signal = "armed"
  /\ signal' = "posted"
  /\ UNCHANGED <<acceptor, acceptAt, acceptFor, roomVars, sessionVars>>

CloseAcceptor ==
  /\ signal = "posted"
  /\ signal' = "handled"
  /\ acceptor' = "closed"
  /\ UNCHANGED <<acceptAt, acceptFor, roomVars, sessionVars>>

-----------------------------------------------------------------------------
(* The room: the handler at the front of its strand. *)

(* broadcast_now: one deliver() per member.  Each post goes to a strand of its
   own, so the loop is one step. *)
BroadcastTo(members, m) ==
  /\ log' = Append(log, m)
  /\ strandQ' = [s \in Sessions |->
                   IF s \in members THEN Append(strandQ[s], m) ELSE strandQ[s]]

(* Mutant: the join is announced before the session is inserted. *)
RoomJoin_AnnouncesFirst ==
  /\ roomQ # <<>> /\ Head(roomQ).op = "join"
  /\ sessions_' = sessions_ \cup {Head(roomQ).s}
  /\ BroadcastTo(sessions_, Head(roomQ).msg)
  /\ roomQ' = Tail(roomQ)
  /\ UNCHANGED <<acceptVars, outbox, readOp, writeOp, stopped, name, lines, faults, written>>

RoomJoin ==
  /\ roomQ # <<>>
  /\ Head(roomQ).op = "join"
  /\ sessions_' = sessions_ \cup {Head(roomQ).s}
  /\ BroadcastTo(sessions_', Head(roomQ).msg)
  /\ roomQ' = Tail(roomQ)
  /\ UNCHANGED <<acceptVars, outbox, readOp, writeOp, stopped, name, lines, faults, written>>

(* Mutant: membership is looked up after the erase. *)
RoomLeave_ErasesFirst ==
  /\ roomQ # <<>> /\ Head(roomQ).op = "leave"
  /\ sessions_' = sessions_ \ {Head(roomQ).s}
  /\ IF Head(roomQ).s \in sessions_'
       THEN BroadcastTo(sessions_', Head(roomQ).msg) ELSE UNCHANGED <<log, strandQ>>
  /\ roomQ' = Tail(roomQ)
  /\ UNCHANGED <<acceptVars, outbox, readOp, writeOp, stopped, name, lines, faults, written>>

(* A session announces that it left only if the erase removed it. *)
RoomLeave ==
  /\ roomQ # <<>>
  /\ Head(roomQ).op = "leave"
  /\ sessions_' = sessions_ \ {Head(roomQ).s}
  /\ IF Head(roomQ).s \in sessions_
       THEN BroadcastTo(sessions_', Head(roomQ).msg)
       ELSE UNCHANGED <<log, strandQ>>
  /\ roomQ' = Tail(roomQ)
  /\ UNCHANGED <<acceptVars, outbox, readOp, writeOp, stopped, name, lines, faults, written>>

RoomBroadcast ==
  /\ roomQ # <<>>
  /\ Head(roomQ).op = "broadcast"
  /\ BroadcastTo(sessions_, Head(roomQ).msg)
  /\ roomQ' = Tail(roomQ)
  /\ UNCHANGED <<acceptVars, sessions_, outbox, readOp, writeOp, stopped, name, lines, faults, written>>

-----------------------------------------------------------------------------
(* A session: the handlers of its strand. *)

(* do_write on a socket that stop() has closed can only fail. *)
WriteState(s) == IF stopped[s] THEN "dead" ELSE "live"

(* Mutant: stop() that does not leave the room. *)
Stop_Stays(s, announcement) == stopped' = [stopped EXCEPT ![s] = TRUE] /\ UNCHANGED roomQ

(* stop(): once per session, leave the room and close the socket. *)
Stop(s, announcement) ==
  /\ stopped' = [stopped EXCEPT ![s] = TRUE]
  /\ roomQ' = IF stopped[s] THEN roomQ
                            ELSE Append(roomQ, RoomOp("leave", s, announcement))

(* Mutant: push_front for push_back. *)
Deliver_PushesFront(s) ==
  /\ strandQ[s] # <<>>
  /\ strandQ' = [strandQ EXCEPT ![s] = Tail(@)]
  /\ outbox' = IF stopped[s] THEN outbox
                 ELSE [outbox EXCEPT ![s] = <<Head(strandQ[s])>> \o @]
  /\ writeOp' = IF ~stopped[s] /\ outbox[s] = <<>>
                  THEN [writeOp EXCEPT ![s] = WriteState(s)] ELSE writeOp
  /\ UNCHANGED <<acceptVars, roomVars, readOp, stopped, name, lines, faults, written>>

(* The handler deliver() posted: dropped once stopped, else queued, and a
   write is started unless one is in progress. *)
Deliver(s) ==
  /\ strandQ[s] # <<>>
  /\ strandQ' = [strandQ EXCEPT ![s] = Tail(@)]
  /\ IF stopped[s]
       THEN UNCHANGED <<outbox, writeOp>>
       ELSE /\ outbox' = [outbox EXCEPT ![s] = Append(@, Head(strandQ[s]))]
            /\ writeOp' = IF outbox[s] = <<>>
                            THEN [writeOp EXCEPT ![s] = WriteState(s)] ELSE writeOp
  /\ UNCHANGED <<acceptVars, roomVars, readOp, stopped, name, lines, faults, written>>

(* Mutant: the next queued message is not started. *)
WriteDone_StopsAfterOne(s) ==
  /\ writeOp[s] = "live"
  /\ written' = [written EXCEPT ![s] = Append(@, Head(outbox[s]))]
  /\ outbox' = [outbox EXCEPT ![s] = Tail(@)]
  /\ writeOp' = [writeOp EXCEPT ![s] = "none"]
  /\ UNCHANGED <<acceptVars, roomVars, strandQ, readOp, stopped, name, lines, faults>>

(* The write completes: pop_front, and start the next write if any is queued. *)
WriteDone(s) ==
  /\ writeOp[s] = "live"
  /\ written' = [written EXCEPT ![s] = Append(@, Head(outbox[s]))]
  /\ outbox' = [outbox EXCEPT ![s] = Tail(@)]
  /\ writeOp' = [writeOp EXCEPT ![s] = IF Tail(outbox[s]) # <<>> THEN WriteState(s) ELSE "none"]
  /\ UNCHANGED <<acceptVars, roomVars, strandQ, readOp, stopped, name, lines, faults>>

(* An operation on an open socket fails by a fault of the connection, one on a
   closed socket always does. *)
Fault(s) == /\ ~stopped[s] => faults < MaxFaults /\ lines + faults < MaxEvents
            /\ faults' = IF stopped[s] THEN faults ELSE faults + 1

(* The write fails, because the peer is gone or the socket was closed. *)
WriteFailed(s) ==
  /\ writeOp[s] # "none"
  /\ Fault(s)
  /\ writeOp' = [writeOp EXCEPT ![s] = "none"]
  /\ Stop(s, Message("left", s, name[s]))
  /\ UNCHANGED <<acceptVars, sessions_, log, strandQ, outbox, readOp, name, lines, written>>

(* The read fails: end of file, a reset, or the socket was closed. *)
ReadFailed(s) ==
  /\ readOp[s] = "pending"
  /\ Fault(s)
  /\ readOp' = [readOp EXCEPT ![s] = "none"]
  /\ Stop(s, Message("left", s, name[s]))
  /\ UNCHANGED <<acceptVars, sessions_, log, strandQ, outbox, writeOp, name, lines, written>>

(* The read completes with a line.  on_read does not look at stopped_: lines
   that reached input_ before the socket was closed are still handled. *)
ReadLine(s) ==
  /\ readOp[s] = "pending"
  /\ lines < MaxLines /\ lines + faults < MaxEvents
  /\ lines' = lines + 1
  /\ UNCHANGED faults

(* A line longer than max_line_size: deliver() posts the notice, stop() acts now. *)
OnOversized(s) ==
  /\ ReadLine(s)
  /\ readOp' = [readOp EXCEPT ![s] = "none"]
  /\ strandQ' = [strandQ EXCEPT ![s] = Append(@, Message("tooLarge", s, name[s]))]
  /\ Stop(s, Message("disconnected", s, name[s]))
  /\ UNCHANGED <<acceptVars, sessions_, log, outbox, writeOp, name, written>>

(* An empty line, or "/name" with nothing but blanks: only do_read. *)
OnNothing(s) ==
  /\ ReadLine(s)
  /\ UNCHANGED <<acceptVars, roomVars, strandQ, outbox, readOp, writeOp, stopped, name, written>>

OnQuit(s) ==
  /\ ReadLine(s)
  /\ readOp' = [readOp EXCEPT ![s] = "none"]
  /\ Stop(s, Message("left", s, name[s]))
  /\ UNCHANGED <<acceptVars, sessions_, log, strandQ, outbox, writeOp, name, written>>

(* Mutant: the new name is not announced. *)
OnRename_Silent(s) ==
  /\ ReadLine(s)
  /\ name' = [name EXCEPT ![s] = @ + 1]
  /\ UNCHANGED <<acceptVars, roomVars, strandQ, outbox, readOp, writeOp, stopped, written>>

OnRename(s) ==
  /\ ReadLine(s)
  /\ name' = [name EXCEPT ![s] = @ + 1]
  /\ roomQ' = Append(roomQ, RoomOp("broadcast", s, Message("renamed", s, name'[s])))
  /\ UNCHANGED <<acceptVars, sessions_, log, strandQ, outbox, readOp, writeOp, stopped, written>>

OnText(s) ==
  /\ ReadLine(s)
  /\ roomQ' = Append(roomQ, RoomOp("broadcast", s, Message("chat", s, name[s])))
  /\ UNCHANGED <<acceptVars, sessions_, log, strandQ, outbox, readOp, writeOp, stopped, name, written>>

-----------------------------------------------------------------------------
Accept ==
  \/ \E s \in Sessions : AcceptConnection(s)
  \/ AcceptFailed \/ StartJoin \/ StartDeliver \/ StartRead \/ AcceptAgain

Room == RoomJoin \/ RoomLeave \/ RoomBroadcast

OnRead(s) ==
  \/ ReadFailed(s) \/ OnOversized(s) \/ OnNothing(s) \/ OnQuit(s) \/ OnRename(s) \/ OnText(s)

Session(s) == Deliver(s) \/ WriteDone(s) \/ WriteFailed(s) \/ OnRead(s)

(* Every queued handler has run and every operation that can complete by itself
   has; the accept and the reads that are left wait for a client. *)
Quiet ==
  /\ acceptAt = "done" \/ (acceptAt = "pending" /\ acceptor = "open")
  /\ signal # "posted"
  /\ roomQ = <<>>
  /\ \A s \in Sessions : strandQ[s] = <<>> /\ writeOp[s] = "none"
                         /\ (readOp[s] = "pending" => ~stopped[s])

(* io_context::run returns when nothing is outstanding, and the program ends. *)
Terminated ==
  /\ Quiet
  /\ acceptAt = "done" /\ signal = "handled"
  /\ \A s \in Sessions : readOp[s] # "pending"

(* The server waits for clients, or has ended. *)
Idle == Quiet /\ UNCHANGED vars

Next ==
  \/ Accept \/ Signal \/ CloseAcceptor \/ Room \/ Idle
  \/ \E s \in Sessions : Session(s)

Spec == Init /\ [][Next]_vars

(* The io_context's threads run every handler that is ready, so queued handlers
   and the rest of the accept handler are not delayed for ever, and closing an
   acceptor or a socket makes its outstanding operations complete.  A write
   completes or fails, because the peer reads, closes, or TCP gives up.  Nothing
   makes a client connect, send a line or go away, and nobody has to press
   Ctrl-C. *)
Fairness ==
  /\ WF_vars(StartJoin) /\ WF_vars(StartDeliver) /\ WF_vars(StartRead) /\ WF_vars(AcceptAgain)
  /\ WF_vars(acceptor = "closed" /\ AcceptFailed)
  /\ WF_vars(CloseAcceptor)
  /\ WF_vars(Room)
  /\ \A s \in Sessions : /\ WF_vars(Deliver(s))
                         /\ WF_vars(WriteDone(s) \/ WriteFailed(s))
                         /\ WF_vars(stopped[s] /\ ReadFailed(s))

FairSpec == Spec /\ Fairness

-----------------------------------------------------------------------------
(* Properties. *)

(* The messages of a sequence that went through the room. *)
Public(seq) ==
  LET upTo[i \in 0..Len(seq)] ==
        IF i = 0 THEN <<>>
        ELSE IF seq[i].kind \in PublicKinds THEN Append(upTo[i - 1], seq[i]) ELSE upTo[i - 1]
  IN upTo[Len(seq)]

(* The positions of the log at which s was announced as joined, as gone. *)
JoinedAt(s) == SelectInSeq(log, LAMBDA m : m.kind = "joined" /\ m.from = s)
GoneAt(s)   == SelectInSeq(log, LAMBDA m : m.kind \in {"left", "disconnected"} /\ m.from = s)

Pending(o, s) == \E i \in DOMAIN roomQ : roomQ[i].op = o /\ roomQ[i].s = s

(* do_write always has a front to write, and deliver()'s test of the outbox is
   a sound test of "a write is in progress": while a session is not stopped, a
   queued message always has a write working towards it.  (deliver L65-69,
   do_write L152-155.) *)
WriteChain ==
  \A s \in Sessions :
    /\ writeOp[s] # "none" => outbox[s] # <<>>
    /\ ~stopped[s] /\ outbox[s] # <<>> => writeOp[s] = "live"

(* A member that is not stopped has been handed, once each and in the room's
   order, every message broadcast since its own arrival: what was written, what
   is queued and what is posted add up to the log from its join on. *)
MemberView ==
  \A s \in sessions_ :
    ~stopped[s] => Public(written[s] \o outbox[s] \o strandQ[s])
                     = SubSeq(log, JoinedAt(s), Len(log))

(* No stopped session stays in the room: its leave is queued on the room's
   strand, or it is out and no join of it can still put it back.  (start L54
   posts the join before anything can stop the session, stop L159-165.) *)
StoppedLeaves ==
  \A s \in Sessions :
    stopped[s] /\ ~Pending("leave", s) => s \notin sessions_ /\ ~Pending("join", s)

(* The room is told of every departure exactly once, after the arrival, and of
   no departure of a session that is still running.  (stop L159-165, leave
   L188-194: whichever of a failed read, a failed write and "/quit" comes
   first.) *)
DepartureAnnounced ==
  \A s \in Sessions :
    LET departures == {i \in DOMAIN log : log[i].kind \in {"left", "disconnected"} /\ log[i].from = s}
    IN IF stopped[s] /\ ~Pending("leave", s)
         THEN Cardinality(departures) = 1 /\ 0 < JoinedAt(s) /\ JoinedAt(s) < GoneAt(s)
         ELSE departures = {}

(* Nobody speaks under a name the room was not told of first: a message that
   carries the n-th name of a session follows the announcement of that name and
   precedes the announcement of the next one. *)
NameAnnounced ==
  \A i \in DOMAIN log :
    log[i].name = Cardinality({j \in 1..i : log[j].kind = "renamed" /\ log[j].from = log[i].from})

(* What keeps StoppedLeaves inductive: the accept handler starts a session that
   has no read yet, a session whose join has not been posted has done nothing,
   and on the room's strand nothing of a session follows its leave. *)
Starting ==
  acceptAt \in {"join", "deliver", "read"} => readOp[acceptFor] = "unstarted"

Entered(s) ==
  readOp[s] # "unstarted" \/ (acceptFor = s /\ acceptAt \in {"deliver", "read"})

BeforeJoin ==
  \A s \in Sessions :
    ~Entered(s) => /\ ~stopped[s] /\ s \notin sessions_
                   /\ ~Pending("join", s) /\ ~Pending("leave", s)
                   /\ strandQ[s] = <<>> /\ outbox[s] = <<>>

LeaveIsLast ==
  /\ \A s \in Sessions : Pending("leave", s) => stopped[s]
  /\ \A i, j \in DOMAIN roomQ :
       /\ roomQ[i].op = "leave"
       /\ roomQ[j].op \in {"join", "leave"}
       /\ roomQ[i].s = roomQ[j].s
       => j <= i

IInv == TypeOK /\ WriteChain /\ Starting /\ BeforeJoin /\ LeaveIsLast /\ StoppedLeaves

(* The story the room tells: what it has announced and what is posted to it, in
   order.  Running a handler of the room does not change it, so what holds of
   the story when a session posts holds of the log. *)
Story == log \o [i \in DOMAIN roomQ |-> roomQ[i].msg]

Arrival(m, s)   == m.kind = "joined" /\ m.from = s
Departure(m, s) == m.kind \in {"left", "disconnected"} /\ m.from = s

WellPosted ==
  \A i \in DOMAIN roomQ :
    LET o == roomQ[i].op
        m == roomQ[i].msg
    IN /\ m.from = roomQ[i].s
       /\ m.kind \in PublicKinds
       /\ o = "join" <=> m.kind = "joined"
       /\ o = "leave" <=> m.kind \in {"left", "disconnected"}

(* The story of a session starts with its arrival, which is its only one ... *)
ArrivesFirst ==
  /\ \A s \in Sessions, i, j \in DOMAIN Story :
       Arrival(Story[i], s) /\ Story[j].from = s => i <= j
  /\ \A s \in Sessions :
       Entered(s) <=> \E i \in DOMAIN Story : Story[i].from = s
  /\ \A s \in Sessions :
       Entered(s) => \E i \in DOMAIN Story : Arrival(Story[i], s)

(* ... it departs once, when it stops ... *)
DepartsOnce ==
  /\ \A s \in Sessions, i, j \in DOMAIN Story :
       Departure(Story[i], s) /\ Departure(Story[j], s) => i = j
  /\ \A s \in Sessions :
       stopped[s] <=> \E i \in DOMAIN Story : Departure(Story[i], s)

(* ... the room has the sessions whose arrival it has announced and whose
   departure it has not ... *)
MembersAnnounced ==
  \A s \in Sessions :
    s \in sessions_ <=> /\ \E i \in DOMAIN log : Arrival(log[i], s)
                        /\ ~\E i \in DOMAIN log : Departure(log[i], s)

(* ... and each message carries the name that was announced last. *)
Renames(s, n) == {j \in 1..n : Story[j].kind = "renamed" /\ Story[j].from = s}

NamesTold ==
  /\ \A i \in DOMAIN Story : Story[i].name = Cardinality(Renames(Story[i].from, i))
  /\ \A s \in Sessions : name[s] = Cardinality(Renames(s, Len(Story)))

StoryInv == WellPosted /\ ArrivesFirst /\ DepartsOnce /\ MembersAnnounced /\ NamesTold

(* What a session was handed, and what of it has left its strand. *)
Handed(s) == written[s] \o outbox[s] \o strandQ[s]
Taken(s)  == written[s] \o outbox[s]

(* A session that is not in the room was handed nothing, and what any session
   took is an interval of the log from its arrival, even after it stopped. *)
StrangersView ==
  \A s \in Sessions : ~stopped[s] /\ s \notin sessions_ => Public(Handed(s)) = <<>>

TookInterval(s) ==
  LET seen == Public(Taken(s))
  IN /\ JoinedAt(s) = 0 => seen = <<>>
     /\ JoinedAt(s) + Len(seen) <= IF GoneAt(s) = 0 THEN Len(log) + 1 ELSE GoneAt(s)
     /\ \A k \in 1..Len(seen) : seen[k] = log[JoinedAt(s) + k - 1]

TakenFromLog == \A s \in Sessions : TookInterval(s)

ViewInv == MemberView /\ StrangersView /\ TakenFromLog

(* Everything handed to a session is written, unless the session stops. *)
EventuallyWritten ==
  \A s \in Sessions :
    (strandQ[s] # <<>> \/ outbox[s] # <<>>)
      ~> (stopped[s] \/ (strandQ[s] = <<>> /\ outbox[s] = <<>>))

(* After Ctrl-C the server ends, unless a client is still connected. *)
Connected(s) == readOp[s] = "pending" /\ ~stopped[s]

ShutdownWhenAlone ==
  signal # "armed" ~> (Terminated \/ \E s \in Sessions : Connected(s))

(* "signal_set for Ctrl-C shutdown" (runboost/README.md:8): Ctrl-C ends the
   server.  stop() only closes the acceptor, so a connected client that stays
   idle keeps the server running. *)
CtrlCShutsDown == signal # "armed" ~> Terminated

(* "message too large; closing connection" (chat_server.cpp:106): a client that
   is disconnected for an oversized line has been sent that notice. *)
OversizedNoticeSent ==
  \A s \in Sessions :
    /\ \E i \in DOMAIN log : log[i].kind = "disconnected" /\ log[i].from = s
    /\ strandQ[s] = <<>> /\ writeOp[s] = "none"
    => \E i \in DOMAIN written[s] : written[s][i].kind = "tooLarge"

(* The abstract room: a total order broadcast. *)
Room_ == INSTANCE TotalOrderBroadcast
  WITH members <- sessions_,
       from  <- [s \in Sessions |-> JoinedAt(s)],
       until <- [s \in Sessions |-> GoneAt(s)],
       inbox <- [s \in Sessions |-> Public(written[s])]

ImplementsBroadcast == Room_!Spec
=============================================================================
