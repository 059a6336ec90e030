----------------------------- MODULE ChatClient -----------------------------
(***************************************************************************)
(* The chat client of runboost/chat_client.cpp.  The main thread runs the  *)
(* io_context, whose handlers are all bound to one strand; a second thread *)
(* reads the lines the user types and posts them to that strand; the main  *)
(* thread joins it, or lets it go, when the io_context stops.              *)
(*                                                                         *)
(* Line 0 is the "/name" message, which a client with an empty name does   *)
(* not send, and line n is the n-th line that was typed.                   *)
(***************************************************************************)
EXTENDS Naturals, Sequences

CONSTANTS
  MaxLines,    \* bound: how many lines the user types
  MaxReceived  \* bound: how many lines the server sends

ASSUME ChatClientAssumption == MaxLines \in Nat /\ MaxReceived \in Nat

VARIABLES
  name_,     \* was the client given a name? (never changes)
  phase,     \* the resolve and the connect: outstanding, or how they ended
  posted,    \* the handlers posted to the strand
  outbox_,
  writing,   \* how many async_writes are outstanding
  reading,   \* is an async_read_until outstanding?
  closed_,
  close_after_write_,
  stopped,   \* io_.stop() was called: no handler runs any more
  signal,    \* is the signal_set still waiting?
  input,     \* the input thread: reading, about to set input_done, done
  typed,     \* how many lines were typed
  quit,      \* requested_quit
  main,      \* the main thread: in io.run(), or returned
  received,  \* how many lines of the server were shown
  sent,      \* history: the lines written to the socket
  broken     \* history: the client was ended by an error, a signal or the server

strandVars == <<name_, phase, outbox_, writing, reading, closed_, close_after_write_, stopped,
                received, sent, broken>>
inputVars  == <<input, typed, quit>>
vars       == <<strandVars, inputVars, posted, signal, main>>

Lines == 0..MaxLines

Handlers == [op : {"write", "write_and_close", "close"}, line : Lines]

TypeOK ==
  /\ name_ \in BOOLEAN
  /\ phase \in {"resolving", "connecting", "connected", "failed"}
  /\ posted \in Seq(Handlers)
  /\ outbox_ \in Seq(Lines)
  /\ writing \in 0..1
  /\ reading \in BOOLEAN
  /\ closed_ \in BOOLEAN /\ close_after_write_ \in BOOLEAN /\ stopped \in BOOLEAN
  /\ signal \in BOOLEAN
  /\ input \in {"reading", "finishing", "done"}
  /\ typed \in 0..MaxLines
  /\ quit \in BOOLEAN
  /\ main \in {"running", "returned"}
  /\ received \in 0..MaxReceived
  /\ sent \in Seq(Lines)
  /\ broken \in BOOLEAN

Init ==
  /\ name_ \in BOOLEAN
  /\ phase = "resolving"
  /\ posted = <<>> /\ outbox_ = <<>>
  /\ writing = 0 /\ reading = FALSE
  /\ closed_ = FALSE /\ close_after_write_ = FALSE /\ stopped = FALSE
  /\ signal = TRUE
  /\ input = "reading" /\ typed = 0 /\ quit = FALSE
  /\ main = "running"
  /\ received = 0 /\ sent = <<>> /\ broken = FALSE

Post(op, line) == posted' = Append(posted, [op |-> op, line |-> line])

connected_ == phase = "connected"

-----------------------------------------------------------------------------
(* The strand.  Handlers run one at a time while the io_context is not stopped. *)

Resolved ==
  /\ phase = "resolving"
  /\ phase' = "connecting"
  /\ UNCHANGED <<name_, outbox_, writing, reading, closed_, close_after_write_, stopped, received,
                 sent, broken>>

(* Resolving or connecting fails: the io_context is stopped, nothing is closed. *)
CannotConnect ==
  /\ phase \in {"resolving", "connecting"}
  /\ phase' = "failed"
  /\ stopped' = TRUE
  /\ broken' = TRUE
  /\ UNCHANGED <<name_, outbox_, writing, reading, closed_, close_after_write_, received, sent>>

(* Mutant: the name goes behind what was typed before the connection. *)
OnConnect_NameLast ==
  /\ phase = "connecting"
  /\ phase' = "connected"
  /\ outbox_' = IF name_ THEN Append(outbox_, 0) ELSE outbox_
  /\ reading' = TRUE
  /\ writing' = IF outbox_' = <<>> THEN writing ELSE writing + 1
  /\ UNCHANGED <<name_, closed_, close_after_write_, stopped, received, sent, broken>>

(* The name goes before the lines that were typed in the meantime. *)
OnConnect ==
  /\ phase = "connecting"
  /\ phase' = "connected"
  /\ outbox_' = IF name_ THEN <<0>> \o outbox_ ELSE outbox_
  /\ reading' = TRUE
  /\ writing' = IF outbox_' = <<>> THEN writing ELSE writing + 1
  /\ UNCHANGED <<name_, closed_, close_after_write_, stopped, received, sent, broken>>

(* close_now: the socket is closed and the io_context stopped, whatever is
   still in the outbox. *)
CloseNow ==
  /\ closed_' = TRUE
  /\ stopped' = TRUE

(* enqueue_write *)
EnqueueWrite(line) ==
  IF closed_
    THEN UNCHANGED <<outbox_, writing>>
    ELSE /\ outbox_' = Append(outbox_, line)
         /\ writing' = IF connected_ /\ outbox_ = <<>> THEN writing + 1 ELSE writing

PostedWrite(h) ==
  /\ h.op \in {"write", "write_and_close"}
  /\ close_after_write_' = (close_after_write_ \/ h.op = "write_and_close")
  /\ EnqueueWrite(h.line)
  /\ UNCHANGED <<name_, phase, reading, closed_, stopped, received, sent, broken>>

PostedClose(h) ==
  /\ h.op = "close"
  /\ CloseNow
  /\ UNCHANGED <<name_, phase, outbox_, writing, reading, close_after_write_, received, sent, broken>>

RunPosted ==
  /\ posted # <<>>
  /\ posted' = Tail(posted)
  /\ PostedWrite(Head(posted)) \/ PostedClose(Head(posted))

(* A line of the server is shown and the next read starts. *)
ReadDone ==
  /\ reading
  /\ received < MaxReceived
  /\ received' = received + 1
  /\ UNCHANGED <<name_, phase, outbox_, writing, reading, closed_, close_after_write_, stopped, sent,
                 broken>>

(* The server closed the connection, or it broke. *)
ReadFailed ==
  /\ reading
  /\ reading' = FALSE
  /\ CloseNow
  /\ broken' = TRUE
  /\ UNCHANGED <<name_, phase, outbox_, writing, close_after_write_, received, sent>>

(* Mutant: the client closes once it was asked to, whatever is queued. *)
WriteDone_ClosesAtOnce ==
  /\ writing > 0
  /\ sent' = Append(sent, Head(outbox_))
  /\ outbox_' = Tail(outbox_)
  /\ IF close_after_write_ THEN writing' = writing - 1 /\ CloseNow
     ELSE /\ writing' = IF outbox_' = <<>> THEN writing - 1 ELSE writing
          /\ UNCHANGED <<closed_, stopped>>
  /\ UNCHANGED <<name_, phase, reading, close_after_write_, received, broken>>

(* Mutant: the chain ends without looking at close_after_write_. *)
WriteDone_StaysOpen ==
  /\ writing > 0
  /\ sent' = Append(sent, Head(outbox_))
  /\ outbox_' = Tail(outbox_)
  /\ writing' = IF outbox_' = <<>> THEN writing - 1 ELSE writing
  /\ UNCHANGED <<name_, phase, reading, closed_, stopped, close_after_write_, received, broken>>

WriteDone ==
  /\ writing > 0
  /\ sent' = Append(sent, Head(outbox_))
  /\ outbox_' = Tail(outbox_)
  /\ writing' = IF outbox_' = <<>> THEN writing - 1 ELSE writing
  /\ IF outbox_' = <<>> /\ close_after_write_ THEN CloseNow ELSE UNCHANGED <<closed_, stopped>>
  /\ UNCHANGED <<name_, phase, reading, close_after_write_, received, broken>>

WriteFailed ==
  /\ writing > 0
  /\ writing' = writing - 1
  /\ CloseNow
  /\ broken' = TRUE
  /\ UNCHANGED <<name_, phase, outbox_, reading, close_after_write_, received, sent>>

(* What is ready, or becomes ready whatever the server does. *)
Outgoing ==
  /\ ~stopped
  /\ \/ RunPosted
     \/ /\ Resolved \/ CannotConnect \/ OnConnect \/ WriteDone \/ WriteFailed
        /\ UNCHANGED posted
  /\ UNCHANGED <<inputVars, signal, main>>

Incoming ==
  /\ ~stopped
  /\ ReadDone \/ ReadFailed
  /\ UNCHANGED <<posted, inputVars, signal, main>>

(* Ctrl-C: the handler of the signal_set posts a close to the strand. *)
Interrupt ==
  /\ ~stopped
  /\ signal
  /\ signal' = FALSE
  /\ Post("close", 0)
  /\ broken' = TRUE
  /\ UNCHANGED <<name_, phase, outbox_, writing, reading, closed_, close_after_write_, stopped,
                 received, sent, inputVars, main>>

-----------------------------------------------------------------------------
(* The input thread.  What it does once main has returned is not modelled: the
   process ends, and the io_context it posts to is gone. *)

Type ==
  /\ input = "reading" /\ typed < MaxLines
  /\ typed' = typed + 1
  /\ Post("write", typed')
  /\ UNCHANGED <<input, quit>>

TypeQuit ==
  /\ input = "reading" /\ typed < MaxLines
  /\ typed' = typed + 1
  /\ Post("write_and_close", typed')
  /\ quit' = TRUE
  /\ input' = "finishing"

EndOfInput ==
  /\ input = "reading"
  /\ Post("close", 0)
  /\ input' = "finishing"
  /\ UNCHANGED <<typed, quit>>

InputDone ==
  /\ input = "finishing"
  /\ input' = "done"
  /\ UNCHANGED <<typed, quit, posted>>

InputThread ==
  /\ main = "running"
  /\ Type \/ TypeQuit \/ EndOfInput \/ InputDone
  /\ UNCHANGED <<strandVars, signal, main>>

(* io.run() returns because the io_context was stopped: the wait for a signal
   and the reads keep it busy otherwise.  A thread that is done is joined, one
   that is not is detached, and main returns either way. *)
Return ==
  /\ stopped
  /\ main = "running"
  /\ main' = "returned"
  /\ UNCHANGED <<strandVars, inputVars, posted, signal>>

Ended == main = "returned" /\ UNCHANGED vars

Next == Outgoing \/ Incoming \/ Interrupt \/ InputThread \/ Return \/ Ended

Spec == Init /\ [][Next]_vars

(* The main thread runs the handlers that are ready; resolving, connecting and
   writing complete or fail.  The user and the server may be silent. *)
FairSpec ==
  /\ Spec
  /\ WF_vars(Outgoing)
  /\ WF_vars(Return)

-----------------------------------------------------------------------------
(* Properties. *)

(* The first line of a client, with or without a name. *)
First == IF name_ THEN 0 ELSE 1

(* While the client is connected, a write is outstanding exactly when the
   outbox is not empty, and never two; before that none is. *)
WriteChain ==
  ~stopped => writing = IF connected_ /\ outbox_ # <<>> THEN 1 ELSE 0

(* The server gets the name first and then the lines in the order in which they
   were typed, none twice and none left out, although they are posted by
   another thread while the connection may not be there yet; one write at a
   time sends them. *)
SentInOrder ==
  /\ TypeOK
  /\ WriteChain
  /\ \A i \in 1..Len(sent) : sent[i] = First + i - 1

(* A client that ends by "/quit", and not by an error, a signal or the server,
   has sent every line that was typed before, also the ones that were typed
   before it was connected. *)
QuitSendsAll ==
  stopped /\ quit /\ ~broken => First + Len(sent) = typed + 1

(* "/quit", the end of the input and Ctrl-C all end the client, whether it is
   still connecting, writing or idle. *)
Terminates == (input # "reading" \/ ~signal) ~> main = "returned"
=============================================================================
