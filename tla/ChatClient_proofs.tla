-------------------------- MODULE ChatClient_proofs --------------------------
(***************************************************************************)
(* For any number of typed and received lines, the server gets the name    *)
(* and the lines in order, and a client that ends by "/quit" has sent all. *)
(***************************************************************************)
EXTENDS ChatClient, SequenceTheorems, TLAPS

USE ChatClientAssumption DEF ChatClientAssumption

-----------------------------------------------------------------------------
(* The inductive invariant. *)

(* The number of the next line to enter the outbox.  The name is put in front
   of the outbox by OnConnect. *)
Base == IF connected_ THEN First ELSE 1
NextLine == Base + Len(sent) + Len(outbox_)

Order ==
  /\ \A i \in 1..Len(sent) : sent[i] = First + i - 1
  /\ \A i \in 1..Len(outbox_) : outbox_[i] = Base + Len(sent) + i - 1
  /\ ~connected_ => sent = <<>>

Writes(h) == h.op # "close"

(* The handlers p hold the lines n to t, in that order. *)
LinesPosted(p, n, t) ==
  /\ n <= t + 1
  /\ \A i \in 1..Len(p) : Writes(p[i]) => p[i].line \in n..t
  /\ \A i, j \in 1..Len(p) : i < j /\ Writes(p[i]) /\ Writes(p[j]) => p[i].line < p[j].line
  /\ \A l \in n..t : \E i \in 1..Len(p) : Writes(p[i]) /\ p[i].line = l

(* Why a handler that ends the client is there. *)
Reasons(p) ==
  \A i \in 1..Len(p) :
    /\ p[i].op = "write_and_close" => quit /\ p[i].line = typed
    /\ p[i].op = "close" => broken \/ (~quit /\ input # "reading")

(* Why the client has ended, or is about to. *)
Endings ==
  /\ quit => input # "reading"
  /\ closed_ => stopped
  /\ close_after_write_ => quit /\ NextLine = typed + 1
  /\ stopped /\ ~broken =>
       \/ ~quit /\ input # "reading"
       \/ quit /\ outbox_ = <<>> /\ close_after_write_ /\ connected_

IInv ==
  /\ TypeOK /\ WriteChain
  /\ Order /\ LinesPosted(posted, NextLine, typed)
  /\ Reasons(posted) /\ Endings

(* The type invariant in two parts, which different provers take. *)
Flags ==
  /\ name_ \in BOOLEAN /\ reading \in BOOLEAN
  /\ closed_ \in BOOLEAN /\ close_after_write_ \in BOOLEAN /\ stopped \in BOOLEAN
  /\ signal \in BOOLEAN /\ quit \in BOOLEAN /\ broken \in BOOLEAN

Data ==
  /\ phase \in {"resolving", "connecting", "connected", "failed"}
  /\ posted \in Seq(Handlers) /\ outbox_ \in Seq(Lines) /\ sent \in Seq(Lines)
  /\ writing \in 0..1 /\ typed \in 0..MaxLines /\ received \in 0..MaxReceived
  /\ input \in {"reading", "finishing", "done"}
  /\ main \in {"running", "returned"}

LEMMA TypeParts == (TypeOK <=> Flags /\ Data) /\ (TypeOK' <=> Flags' /\ Data')
BY Zenon DEF TypeOK, Flags, Data

LEMMA Numbers ==
  ASSUME TypeOK
  PROVE  /\ First \in 0..1 /\ Base \in 0..1 /\ NextLine \in Nat /\ typed \in Nat
         /\ Len(sent) \in Nat /\ Len(outbox_) \in Nat /\ Len(posted) \in Nat
         /\ \A i \in 1..Len(posted) : posted[i] \in Handlers /\ posted[i].line \in Nat
<1>1. Len(sent) \in Nat /\ Len(outbox_) \in Nat /\ Len(posted) \in Nat /\ typed \in Nat
  BY DEF TypeOK
<1>2. First \in 0..1 /\ Base \in 0..1
  BY DEF First, Base
<1>3. \A i \in 1..Len(posted) : posted[i] \in Handlers
  BY DEF TypeOK
<1>4. \A h \in Handlers : h.line \in Nat
  BY DEF Handlers, Lines
<1>. QED BY <1>1, <1>2, <1>3, <1>4 DEF NextLine

-----------------------------------------------------------------------------
(* The handlers on the strand. *)

LEMMA PostLines ==
  ASSUME NEW p \in Seq(Handlers), NEW n \in Nat, NEW t \in Nat, LinesPosted(p, n, t), NEW h \in Handlers
  PROVE  /\ Append(p, h) \in Seq(Handlers) /\ Len(Append(p, h)) = Len(p) + 1
         /\ \A i \in 1..Len(p) : Append(p, h)[i] = p[i]
         /\ Append(p, h)[Len(p) + 1] = h
         /\ Writes(h) /\ h.line = t + 1 => LinesPosted(Append(p, h), n, t + 1)
         /\ ~ Writes(h) => LinesPosted(Append(p, h), n, t)
<1> DEFINE q == Append(p, h)
<1>1. /\ q \in Seq(Handlers) /\ Len(q) = Len(p) + 1 /\ q[Len(p) + 1] = h
      /\ \A i \in 1..Len(p) : q[i] = p[i]
  BY AppendProperties
<1>2. Len(p) \in Nat /\ \A i \in 1..(Len(p) + 1) : i \in 1..Len(p) \/ i = Len(p) + 1
  OBVIOUS
<1>3. \A i \in 1..Len(p) : p[i].line \in Nat
  <2>1. \A i \in 1..Len(p) : p[i] \in Handlers
    OBVIOUS
  <2>. QED BY <2>1 DEF Handlers, Lines
<1>. HIDE DEF q
<1>4. ASSUME Writes(h), h.line = t + 1 PROVE LinesPosted(q, n, t + 1)
  <2>1. \A i \in 1..(Len(p) + 1) : Writes(q[i]) => q[i].line \in n..(t + 1)
    BY <1>1, <1>2, <1>4 DEF LinesPosted
  <2>2. \A i, j \in 1..(Len(p) + 1) : i < j /\ Writes(q[i]) /\ Writes(q[j]) => q[i].line < q[j].line
    <3> SUFFICES ASSUME NEW i \in 1..(Len(p) + 1), NEW j \in 1..(Len(p) + 1), i < j, Writes(q[i]), Writes(q[j])
                 PROVE  q[i].line < q[j].line
      OBVIOUS
    <3>1. i \in 1..Len(p) /\ p[i].line \in n..t /\ q[i] = p[i]
      BY <1>1, <1>2 DEF LinesPosted
    <3>2. CASE j = Len(p) + 1
      BY <1>1, <1>4, <3>1, <3>2
    <3>3. CASE j \in 1..Len(p)
      BY <1>1, <3>1, <3>3 DEF LinesPosted
    <3>. QED BY <1>2, <3>2, <3>3
  <2>3. ASSUME NEW l \in n..(t + 1) PROVE \E i \in 1..(Len(p) + 1) : Writes(q[i]) /\ q[i].line = l
    <3>1. CASE l = t + 1
      <4>1. Len(p) + 1 \in 1..(Len(p) + 1)
        BY <1>2
      <4>. QED BY <1>1, <1>4, <3>1, <4>1
    <3>2. CASE l \in n..t
      <4>1. PICK i \in 1..Len(p) : Writes(p[i]) /\ p[i].line = l
        BY <3>2 DEF LinesPosted
      <4>2. i \in 1..(Len(p) + 1) /\ q[i] = p[i]
        BY <1>1, <1>2
      <4>. QED BY <4>1, <4>2
    <3>. QED BY <3>1, <3>2
  <2>4. n <= (t + 1) + 1
    BY DEF LinesPosted
  <2>. QED BY <1>1, <2>1, <2>2, <2>3, <2>4 DEF LinesPosted
<1>5. ASSUME ~ Writes(h) PROVE LinesPosted(q, n, t)
  <2>1. \A i \in 1..(Len(p) + 1) : Writes(q[i]) => i \in 1..Len(p) /\ q[i] = p[i]
    BY <1>1, <1>2, <1>5
  <2>2. \A i \in 1..Len(p) : i \in 1..(Len(p) + 1) /\ q[i] = p[i]
    BY <1>1, <1>2
  <2>. QED BY <1>1, <2>1, <2>2 DEF LinesPosted
<1>. QED BY <1>1, <1>4, <1>5 DEF q

(* The first handler is the one of the next line, or ends the client. *)
LEMMA TakeLine ==
  ASSUME NEW p \in Seq(Handlers), p # <<>>, NEW n \in Nat, NEW t \in Nat, LinesPosted(p, n, t)
  PROVE  /\ Head(p) = p[1] /\ Head(p) \in Handlers /\ Tail(p) \in Seq(Handlers) /\ Len(Tail(p)) = Len(p) - 1
         /\ 1 \in 1..Len(p)
         /\ \A i \in 1..Len(Tail(p)) : Tail(p)[i] = p[i + 1] /\ i + 1 \in 1..Len(p)
         /\ Writes(Head(p)) => Head(p).line = n /\ LinesPosted(Tail(p), n + 1, t)
         /\ ~ Writes(Head(p)) => LinesPosted(Tail(p), n, t)
<1> DEFINE q == Tail(p)
<1>1. /\ Head(p) = p[1] /\ Head(p) \in Handlers /\ q \in Seq(Handlers) /\ Len(q) = Len(p) - 1
      /\ \A i \in 1..Len(q) : q[i] = p[i + 1]
  BY HeadTailProperties
<1>2. Len(p) \in Nat \ {0}
  BY EmptySeq
<1>3. \A i \in 1..Len(q) : i + 1 \in 1..Len(p)
  BY <1>1, <1>2
<1>4. \A i \in 1..Len(p) : p[i].line \in Nat /\ (i # 1 => i - 1 \in 1..Len(q) /\ q[i - 1] = p[i])
  <2>1. \A i \in 1..Len(p) : p[i] \in Handlers
    OBVIOUS
  <2>. QED BY <1>1, <1>2, <2>1 DEF Handlers, Lines
<1>. HIDE DEF q
<1>5. ASSUME Writes(p[1]) PROVE p[1].line = n
  <2>1. p[1].line \in n..t
    BY <1>2, <1>5 DEF LinesPosted
  <2>2. PICK i \in 1..Len(p) : Writes(p[i]) /\ p[i].line = n
    <3>1. n \in n..t
      BY <2>1
    <3>. QED BY <3>1 DEF LinesPosted
  <2>3. CASE i # 1
    <3>1. p[1].line < p[i].line
      BY <1>2, <1>5, <2>2, <2>3 DEF LinesPosted
    <3>. QED BY <1>2, <1>4, <2>1, <2>2, <3>1
  <2>. QED BY <2>2, <2>3
<1>6. \A i, j \in 1..Len(q) : i < j /\ Writes(q[i]) /\ Writes(q[j]) => q[i].line < q[j].line
  <2> SUFFICES ASSUME NEW i \in 1..Len(q), NEW j \in 1..Len(q), i < j, Writes(q[i]), Writes(q[j])
               PROVE  q[i].line < q[j].line
    OBVIOUS
  <2>1. q[i] = p[i + 1] /\ q[j] = p[j + 1] /\ i + 1 < j + 1 /\ i + 1 \in 1..Len(p) /\ j + 1 \in 1..Len(p)
    BY <1>1, <1>3
  <2>. HIDE DEF Writes
  <2>. QED BY <2>1 DEF LinesPosted
<1>7. ASSUME NEW l \in n..t, Writes(p[1]) => l # n PROVE \E i \in 1..Len(q) : Writes(q[i]) /\ q[i].line = l
  <2>1. PICK i \in 1..Len(p) : Writes(p[i]) /\ p[i].line = l
    BY DEF LinesPosted
  <2>2. i # 1
    BY <1>5, <1>7, <2>1
  <2>. QED BY <1>4, <2>1, <2>2
<1>8. ASSUME Writes(p[1]) PROVE LinesPosted(q, n + 1, t)
  <2>1. p[1].line = n /\ n <= t
    BY <1>2, <1>5, <1>8 DEF LinesPosted
  <2>2. ASSUME NEW i \in 1..Len(q), Writes(q[i]) PROVE q[i].line \in (n + 1)..t
    <3>1. q[i] = p[i + 1] /\ i + 1 \in 1..Len(p) /\ 1 < i + 1 /\ 1 \in 1..Len(p)
      BY <1>1, <1>2, <1>3
    <3>2. p[1].line < p[i + 1].line /\ p[i + 1].line \in n..t
      BY <1>8, <2>2, <3>1 DEF LinesPosted
    <3>. QED BY <1>4, <2>1, <3>1, <3>2
  <2>3. \A l \in (n + 1)..t : \E i \in 1..Len(q) : Writes(q[i]) /\ q[i].line = l
    BY <1>7
  <2>4. n + 1 <= t + 1
    BY <2>1
  <2>. QED BY <1>6, <2>2, <2>3, <2>4 DEF LinesPosted
<1>9. ASSUME ~ Writes(p[1]) PROVE LinesPosted(q, n, t)
  <2>1. \A i \in 1..Len(q) : Writes(q[i]) => q[i].line \in n..t
    BY <1>1, <1>3 DEF LinesPosted
  <2>2. \A l \in n..t : \E i \in 1..Len(q) : Writes(q[i]) /\ q[i].line = l
    BY <1>7, <1>9
  <2>. QED BY <1>6, <2>1, <2>2 DEF LinesPosted
<1>. QED BY <1>1, <1>2, <1>3, <1>5, <1>8, <1>9 DEF q

-----------------------------------------------------------------------------
(* One lemma per step. *)

LEMMA InitInv == Init => IInv
<1> SUFFICES ASSUME Init PROVE IInv
  OBVIOUS
<1>1. TypeOK
  <2>1. Flags
    BY Zenon DEF Init, Flags
  <2>2. Data
    BY DEF Init, Data
  <2>. QED BY <2>1, <2>2, TypeParts
<1>2. ~ connected_ /\ posted = <<>> /\ outbox_ = <<>> /\ sent = <<>> /\ typed = 0 /\ ~ quit /\ ~ stopped
      /\ writing = 0 /\ ~ closed_ /\ ~ close_after_write_
  BY DEF Init, connected_
<1>3. NextLine = 1 /\ WriteChain /\ Order
  BY <1>2 DEF NextLine, Base, WriteChain, Order
<1>4. LinesPosted(posted, NextLine, typed) /\ Reasons(posted)
  BY <1>2, <1>3 DEF LinesPosted, Reasons
<1>5. Endings
  BY <1>2 DEF Endings
<1>. QED BY <1>1, <1>3, <1>4, <1>5 DEF IInv

(* A step that moves no line and posts nothing. *)
LEMMA Steady ==
  ASSUME IInv, UNCHANGED <<name_, sent, outbox_, posted, inputVars>>, connected_' = connected_, broken => broken'
  PROVE  NextLine' = NextLine /\ Order' /\ LinesPosted(posted, NextLine, typed)' /\ Reasons(posted)'
<1>1. Base' = Base /\ First' = First /\ NextLine' = NextLine
  BY DEF Base, First, NextLine
<1>2. typed' = typed /\ quit' = quit /\ input' = input
  BY DEF inputVars
<1>3. Order'
  BY <1>1 DEF IInv, Order
<1>4. LinesPosted(posted, NextLine, typed)'
  BY <1>1, <1>2 DEF IInv, LinesPosted
<1>5. Reasons(posted)'
  BY <1>2 DEF IInv, Reasons
<1>. QED BY <1>1, <1>3, <1>4, <1>5

(* Resolving and connecting, reading, a write that fails, and the end of main. *)
LEMMA SteadyInv ==
  ASSUME IInv,
         \/ /\ ~ stopped
            /\ Resolved \/ CannotConnect \/ ReadDone \/ ReadFailed \/ WriteFailed
            /\ UNCHANGED <<posted, inputVars, signal, main>>
         \/ Return \/ UNCHANGED vars
  PROVE  IInv'
<1>1. UNCHANGED <<name_, sent, outbox_, close_after_write_, posted, inputVars>> /\ connected_' = connected_ /\ (broken => broken')
  BY DEF Resolved, CannotConnect, ReadDone, ReadFailed, WriteFailed, Return, vars, strandVars, connected_, CloseNow
<1>2. NextLine' = NextLine /\ Order' /\ LinesPosted(posted, NextLine, typed)' /\ Reasons(posted)'
  BY <1>1, Steady
<1>3. TypeOK'
  <2>0. Flags /\ Data
    BY TypeParts DEF IInv
  <2>1. Flags'
    BY <2>0, Zenon DEF Flags, Resolved, CannotConnect, ReadDone, ReadFailed, WriteFailed, Return, vars, strandVars,
                     inputVars, CloseNow
  <2>2. Data'
    BY <2>0 DEF Data, Resolved, CannotConnect, ReadDone, ReadFailed, WriteFailed, Return, vars, strandVars,
                     inputVars, CloseNow
  <2>. QED BY <2>1, <2>2, TypeParts
<1>4. WriteChain'
  BY <1>1 DEF IInv, WriteChain, Resolved, CannotConnect, ReadDone, ReadFailed, WriteFailed, Return, vars,
              strandVars, CloseNow
<1>5. (closed_' => stopped') /\ (stopped' /\ ~broken' => stopped /\ ~broken)
  BY <1>1 DEF IInv, Endings, Resolved, CannotConnect, ReadDone, ReadFailed, WriteFailed, Return, vars,
              strandVars, CloseNow
<1>6. Endings'
  BY <1>1, <1>2, <1>5 DEF IInv, Endings, inputVars
<1>. QED BY <1>2, <1>3, <1>4, <1>6 DEF IInv

LEMMA ConnectInv ==
  ASSUME IInv, ~ stopped, OnConnect, UNCHANGED <<posted, inputVars, signal, main>> PROVE IInv'
<1>1. /\ ~ connected_ /\ connected_' /\ sent = <<>> /\ writing = 0 /\ Base = 1 /\ Base' = First /\ First' = First
      /\ \A i \in 1..Len(outbox_) : outbox_[i] = i
  <2>1. ~ connected_ /\ connected_' /\ name_' = name_ /\ sent' = sent
    BY DEF OnConnect, connected_
  <2>2. sent = <<>> /\ Len(sent) = 0 /\ writing = 0
    BY <2>1 DEF IInv, Order, WriteChain
  <2>3. Base = 1 /\ Base' = First /\ First' = First
    BY <2>1 DEF Base, First
  <2>. QED BY <2>1, <2>2, <2>3 DEF IInv, Order
<1>2. /\ outbox_ \in Seq(Lines) /\ Len(outbox_) \in Nat /\ 0 \in Lines
      /\ UNCHANGED <<name_, sent, closed_, close_after_write_, stopped, received, broken>>
  BY DEF IInv, TypeOK, OnConnect, Lines
<1>3. outbox_' \in Seq(Lines) /\ Len(outbox_') = Len(outbox_) + 1 - First /\ (First = 0 \/ First = 1)
      /\ \A i \in 1..Len(outbox_') : outbox_'[i] = First + i - 1
  <2>1. CASE name_
    <3>1. outbox_' = <<0>> \o outbox_ /\ First = 0
      BY <2>1 DEF OnConnect, First
    <3>2. <<0>> \in Seq(Lines) /\ Len(<<0>>) = 1 /\ <<0>>[1] = 0
      BY <1>2
    <3>3. /\ outbox_' \in Seq(Lines) /\ Len(outbox_') = 1 + Len(outbox_)
          /\ \A i \in 1..(1 + Len(outbox_)) : outbox_'[i] = IF i <= 1 THEN <<0>>[i] ELSE outbox_[i - 1]
      BY <1>2, <3>1, <3>2, ConcatProperties
    <3>4. \A i \in 1..Len(outbox_') : outbox_'[i] = i - 1
      <4> SUFFICES ASSUME NEW i \in 1..Len(outbox_') PROVE outbox_'[i] = i - 1
        OBVIOUS
      <4>1. CASE i = 1
        BY <1>2, <3>2, <3>3, <4>1
      <4>2. CASE i > 1
        <5>1. i - 1 \in 1..Len(outbox_)
          BY <1>2, <3>3, <4>2
        <5>. QED BY <1>1, <1>2, <3>3, <4>2, <5>1
      <4>. QED BY <1>2, <3>3, <4>1, <4>2
    <3>. QED BY <1>2, <3>1, <3>3, <3>4
  <2>2. CASE ~ name_
    BY <1>1, <1>2, <2>2 DEF OnConnect, First
  <2>. QED BY <2>1, <2>2
<1>4. NextLine' = NextLine
  BY <1>1, <1>2, <1>3 DEF NextLine
<1>5. TypeOK' /\ WriteChain'
  <2>0. Flags /\ Data
    BY TypeParts DEF IInv
  <2>1. Flags'
    BY <2>0, Zenon DEF Flags, OnConnect, inputVars
  <2>2. Data'
    BY <1>1, <1>3, <2>0 DEF Data, OnConnect, inputVars
  <2>3. WriteChain'
    BY <1>1 DEF WriteChain, OnConnect
  <2>. QED BY <2>1, <2>2, <2>3, TypeParts
<1>6. Order'
  BY <1>1, <1>2, <1>3 DEF Order
<1>7. LinesPosted(posted, NextLine, typed)' /\ Reasons(posted)'
  BY <1>2, <1>4 DEF IInv, LinesPosted, Reasons, inputVars
<1>8. Endings'
  BY <1>2, <1>4 DEF IInv, Endings, inputVars
<1>. QED BY <1>5, <1>6, <1>7, <1>8 DEF IInv

LEMMA WriteDoneInv ==
  ASSUME IInv, ~ stopped, WriteDone, UNCHANGED <<posted, inputVars, signal, main>> PROVE IInv'
<1>1. connected_ /\ connected_' /\ writing = 1 /\ outbox_ # <<>> /\ Base = First /\ Base' = First /\ First' = First
  BY DEF IInv, WriteChain, WriteDone, TypeOK, connected_, Base, First
<1>2. /\ sent' = Append(sent, Head(outbox_)) /\ outbox_' = Tail(outbox_)
      /\ UNCHANGED <<name_, phase, reading, close_after_write_, received, broken>>
  BY DEF WriteDone
<1>3. /\ Head(outbox_) = outbox_[1] /\ Head(outbox_) \in Lines /\ outbox_' \in Seq(Lines)
      /\ Len(outbox_') = Len(outbox_) - 1 /\ Len(outbox_) \in Nat \ {0}
      /\ \A i \in 1..(Len(outbox_) - 1) : outbox_'[i] = outbox_[i + 1]
  BY <1>1, <1>2, HeadTailProperties, EmptySeq DEF IInv, TypeOK
<1>4. /\ sent' \in Seq(Lines) /\ Len(sent') = Len(sent) + 1 /\ Len(sent) \in Nat
      /\ \A i \in 1..Len(sent) : sent'[i] = sent[i]
      /\ sent'[Len(sent) + 1] = outbox_[1]
  BY <1>2, <1>3, AppendProperties DEF IInv, TypeOK
<1>5. First \in 0..1
  BY DEF First
<1>6. NextLine' = NextLine
  BY <1>1, <1>3, <1>4, <1>5 DEF NextLine
<1>7. Order'
  <2>1. outbox_[1] = First + Len(sent)
    BY <1>1, <1>3, <1>4, <1>5 DEF IInv, Order
  <2>2. \A i \in 1..Len(sent') : sent'[i] = First + i - 1
    BY <1>4, <1>5, <2>1 DEF IInv, Order
  <2>3. ASSUME NEW i \in 1..Len(outbox_') PROVE outbox_'[i] = First + Len(sent') + i - 1
    <3>1. i + 1 \in 1..Len(outbox_) /\ outbox_'[i] = outbox_[i + 1]
      BY <1>3
    <3>2. outbox_[i + 1] = First + Len(sent) + (i + 1) - 1
      BY <1>1, <3>1 DEF IInv, Order
    <3>. QED BY <1>4, <1>5, <3>1, <3>2
  <2>. QED BY <1>1, <2>2, <2>3 DEF Order
<1>8. TypeOK' /\ WriteChain'
  <2>0. Flags /\ Data
    BY TypeParts DEF IInv
  <2>1. Flags'
    BY <2>0, Zenon DEF Flags, WriteDone, CloseNow, inputVars
  <2>2. Data'
    BY <1>1, <1>3, <1>4, <2>0 DEF Data, WriteDone, inputVars
  <2>3. WriteChain'
    BY <1>1, <1>2 DEF WriteChain, WriteDone
  <2>. QED BY <2>1, <2>2, <2>3, TypeParts
<1>9. LinesPosted(posted, NextLine, typed)' /\ Reasons(posted)'
  BY <1>2, <1>6 DEF IInv, LinesPosted, Reasons, inputVars
<1>10. Endings'
  <2>1. closed_' => stopped'
    BY DEF IInv, Endings, WriteDone, CloseNow
  <2>2. stopped' => outbox_' = <<>> /\ close_after_write_
    BY DEF WriteDone, CloseNow
  <2>. QED BY <1>1, <1>2, <1>6, <2>1, <2>2 DEF IInv, Endings, inputVars
<1>. QED BY <1>7, <1>8, <1>9, <1>10 DEF IInv

LEMMA HandlerTypes ==
  ASSUME NEW h \in Handlers
  PROVE  /\ h.line \in Lines /\ h.line \in Nat
         /\ h.op \in {"write", "write_and_close", "close"}
         /\ Writes(h) <=> h.op \in {"write", "write_and_close"}
BY DEF Handlers, Lines, Writes

(* What the handlers behind the first one say of the end. *)
LEMMA TakeReasons ==
  ASSUME IInv, posted # <<>>, UNCHANGED inputVars, broken => broken', posted' = Tail(posted)
  PROVE  Reasons(posted)'
<1>1. \A i \in 1..Len(posted') : posted'[i] = posted[i + 1] /\ i + 1 \in 1..Len(posted)
  BY TakeLine, Numbers DEF IInv, TypeOK
<1>. QED BY <1>1 DEF IInv, Reasons, inputVars

LEMMA RunWriteInv ==
  ASSUME IInv, ~ stopped, posted # <<>>, posted' = Tail(posted), PostedWrite(Head(posted)),
         UNCHANGED <<inputVars, signal, main>>
  PROVE  IInv'
<1> DEFINE h == Head(posted)
<1>1. /\ h = posted[1] /\ 1 \in 1..Len(posted) /\ h \in Handlers /\ posted' \in Seq(Handlers)
      /\ Writes(h) => h.line = NextLine /\ LinesPosted(posted', NextLine + 1, typed)
  BY TakeLine, Numbers DEF IInv, TypeOK
<1>2. Writes(h) /\ ~ closed_
  BY DEF PostedWrite, Writes, IInv, Endings
<1>3. /\ outbox_' = Append(outbox_, h.line)
      /\ writing' = IF connected_ /\ outbox_ = <<>> THEN writing + 1 ELSE writing
      /\ close_after_write_' = (close_after_write_ \/ h.op = "write_and_close")
      /\ UNCHANGED <<name_, phase, reading, closed_, stopped, received, sent, broken>>
  BY <1>2 DEF PostedWrite, EnqueueWrite
<1>4. h.line = NextLine /\ NextLine \in Nat /\ h.line \in Lines /\ LinesPosted(posted', NextLine + 1, typed)
  BY <1>1, <1>2, HandlerTypes
<1>5. /\ outbox_' \in Seq(Lines) /\ Len(outbox_') = Len(outbox_) + 1 /\ outbox_' # <<>>
      /\ outbox_'[Len(outbox_) + 1] = NextLine
      /\ \A i \in 1..Len(outbox_) : outbox_'[i] = outbox_[i]
  BY <1>3, <1>4, AppendProperties DEF IInv, TypeOK
<1>6. connected_' = connected_ /\ Base' = Base /\ First' = First /\ Base \in 0..1 /\ First \in 0..1
      /\ Len(sent) \in Nat /\ Len(outbox_) \in Nat /\ typed \in Nat
  BY <1>3, Numbers DEF connected_, Base, First, IInv
<1>7. NextLine' = NextLine + 1
  BY <1>3, <1>5, <1>6 DEF NextLine
<1>8. TypeOK' /\ WriteChain'
  <2>0. Flags /\ Data
    BY TypeParts DEF IInv
  <2>1. Flags'
    BY <1>3, <2>0, Zenon DEF Flags, inputVars
  <2>3. WriteChain'
    BY <1>3, <1>5, <1>6 DEF IInv, WriteChain
  <2>2. Data'
    <3>1. writing' \in 0..1
      BY <1>3, <2>0 DEF Data, IInv, WriteChain
    <3>. QED BY <1>1, <1>3, <1>5, <2>0, <3>1 DEF Data, inputVars
  <2>. QED BY <2>1, <2>2, <2>3, TypeParts
<1>9. Order'
  <2>1. ASSUME NEW i \in 1..Len(outbox_') PROVE outbox_'[i] = Base + Len(sent) + i - 1
    <3>1. CASE i = Len(outbox_) + 1
      BY <1>5, <1>6, <3>1 DEF NextLine
    <3>2. CASE i \in 1..Len(outbox_)
      BY <1>5, <3>2 DEF IInv, Order
    <3>. QED BY <1>5, <1>6, <3>1, <3>2
  <2>. QED BY <1>3, <1>6, <2>1 DEF IInv, Order
<1>10. LinesPosted(posted, NextLine, typed)'
  BY <1>4, <1>7 DEF inputVars
<1>11. Reasons(posted)'
  BY <1>3, TakeReasons
<1>12. Endings'
  <2>1. NextLine <= typed
    BY <1>1, <1>2, <1>4, <1>6 DEF IInv, LinesPosted
  <2>2. ~ close_after_write_
    BY <1>4, <1>6, <2>1 DEF IInv, Endings
  <2>3. h.op = "write_and_close" => quit /\ NextLine = typed
    BY <1>1, <1>4 DEF IInv, Reasons
  <2>. QED BY <1>2, <1>3, <1>7, <2>2, <2>3 DEF IInv, Endings, inputVars
<1>. QED BY <1>8, <1>9, <1>10, <1>11, <1>12 DEF IInv

LEMMA RunCloseInv ==
  ASSUME IInv, ~ stopped, posted # <<>>, posted' = Tail(posted), PostedClose(Head(posted)),
         UNCHANGED <<inputVars, signal, main>>
  PROVE  IInv'
<1> DEFINE h == Head(posted)
<1>1. /\ h = posted[1] /\ 1 \in 1..Len(posted) /\ posted' \in Seq(Handlers)
      /\ ~ Writes(h) => LinesPosted(posted', NextLine, typed)
  BY TakeLine, Numbers DEF IInv, TypeOK
<1>2. h.op = "close" /\ closed_' /\ stopped' /\ closed_' = TRUE /\ stopped' = TRUE
      /\ UNCHANGED <<name_, phase, outbox_, writing, reading, close_after_write_, received, sent, broken>>
  BY DEF PostedClose, CloseNow
<1>3. Base' = Base /\ First' = First /\ connected_' = connected_ /\ NextLine' = NextLine
  BY <1>2 DEF Base, First, NextLine, connected_
<1>4. TypeOK' /\ WriteChain'
  <2>0. Flags /\ Data
    BY TypeParts DEF IInv
  <2>1. Flags'
    BY <1>2, <2>0, Zenon DEF Flags, inputVars
  <2>2. Data'
    BY <1>1, <1>2, <2>0 DEF Data, inputVars
  <2>. QED BY <1>2, <2>1, <2>2, TypeParts DEF WriteChain
<1>5. Order'
  BY <1>2, <1>3 DEF IInv, Order
<1>6. LinesPosted(posted, NextLine, typed)' /\ Reasons(posted)'
  BY <1>1, <1>2, <1>3, TakeReasons DEF Writes, inputVars
<1>7. Endings'
  <2>1. broken \/ (~quit /\ input # "reading")
    BY <1>1, <1>2 DEF IInv, Reasons
  <2>. QED BY <1>2, <1>3, <2>1 DEF IInv, Endings, inputVars
<1>. QED BY <1>4, <1>5, <1>6, <1>7 DEF IInv

(* Ctrl-C and the input thread post a handler behind the others. *)
LEMMA PostInv ==
  ASSUME IInv,
         UNCHANGED <<name_, phase, outbox_, writing, reading, closed_, close_after_write_, stopped, received, sent, main>>,
         \/ Interrupt
         \/ (Type \/ TypeQuit \/ EndOfInput) /\ UNCHANGED <<broken, signal>>
  PROVE  IInv'
<1>1. Base' = Base /\ First' = First /\ connected_' = connected_ /\ NextLine' = NextLine
      /\ NextLine \in Nat /\ typed \in Nat
  BY Numbers DEF Base, First, NextLine, connected_, IInv
<1>2. PICK h \in Handlers :
      /\ posted' = Append(posted, h)
      /\ h.op = "close" => typed' = typed /\ (broken' \/ (~quit' /\ input' # "reading"))
      /\ h.op # "close" => h.line = typed + 1 /\ typed' = typed + 1
      /\ h.op = "write_and_close" => quit'
  <2>1. CASE Interrupt
    <3> DEFINE h == [op |-> "close", line |-> 0]
    <3>1. h \in Handlers /\ h.op = "close" /\ posted' = Append(posted, h) /\ typed' = typed /\ broken'
      BY <2>1 DEF Interrupt, Post, Handlers, Lines, inputVars
    <3>. QED BY <3>1
  <2>2. CASE Type
    <3> DEFINE h == [op |-> "write", line |-> typed + 1]
    <3>1. /\ h \in Handlers /\ h.op = "write" /\ h.line = typed + 1
          /\ posted' = Append(posted, h) /\ typed' = typed + 1
      BY <2>2 DEF Type, Post, Handlers, Lines, IInv, TypeOK
    <3>. QED BY <3>1
  <2>3. CASE TypeQuit
    <3> DEFINE h == [op |-> "write_and_close", line |-> typed + 1]
    <3>1. /\ h \in Handlers /\ h.op = "write_and_close" /\ h.line = typed + 1
          /\ posted' = Append(posted, h) /\ typed' = typed + 1
      BY <2>3 DEF TypeQuit, Post, Handlers, Lines, IInv, TypeOK
    <3>2. quit'
      BY <2>3 DEF TypeQuit
    <3>. HIDE DEF h
    <3>. QED BY <3>1, <3>2
  <2>4. CASE EndOfInput
    <3> DEFINE h == [op |-> "close", line |-> 0]
    <3>1. h \in Handlers /\ h.op = "close" /\ posted' = Append(posted, h) /\ typed' = typed
      BY <2>4 DEF EndOfInput, Post, Handlers, Lines
    <3>2. ~quit' /\ input' # "reading"
      BY <2>4 DEF EndOfInput, IInv, Endings
    <3>. HIDE DEF h
    <3>. QED BY <3>1, <3>2
  <2>. QED BY <2>1, <2>2, <2>3, <2>4
<1>3. /\ broken => broken'
      /\ ~(UNCHANGED inputVars /\ broken') => input = "reading" /\ ~quit /\ UNCHANGED broken
      /\ quit' => input' # "reading"
  BY DEF Interrupt, Type, TypeQuit, EndOfInput, inputVars, IInv, Endings
<1>4. /\ posted' \in Seq(Handlers) /\ Len(posted') = Len(posted) + 1 /\ Len(posted) \in Nat
      /\ posted'[Len(posted) + 1] = h /\ \A i \in 1..Len(posted) : posted'[i] = posted[i]
      /\ LinesPosted(posted', NextLine, typed')
  <2>1. posted \in Seq(Handlers) /\ LinesPosted(posted, NextLine, typed)
    BY DEF IInv, TypeOK
  <2>2. Writes(h) <=> h.op # "close"
    BY DEF Writes
  <2>. HIDE DEF Writes, LinesPosted
  <2>3. /\ posted' \in Seq(Handlers) /\ Len(posted') = Len(posted) + 1 /\ Len(posted) \in Nat
        /\ posted'[Len(posted) + 1] = h /\ \A i \in 1..Len(posted) : posted'[i] = posted[i]
    BY <1>1, <1>2, <2>1, PostLines
  <2>4. CASE Writes(h)
    BY <1>1, <1>2, <2>1, <2>2, <2>3, <2>4, PostLines
  <2>5. CASE ~ Writes(h)
    BY <1>1, <1>2, <2>1, <2>2, <2>3, <2>5, PostLines
  <2>. QED BY <2>3, <2>4, <2>5
<1>5. TypeOK' /\ WriteChain'
  <2>0. Flags /\ Data
    BY TypeParts DEF IInv
  <2>1. Flags'
    BY <2>0, Zenon DEF Flags, Interrupt, Type, TypeQuit, EndOfInput, inputVars
  <2>2. Data'
    BY <1>4, <2>0 DEF Data, Interrupt, Type, TypeQuit, EndOfInput, inputVars
  <2>. QED BY <1>1, <2>1, <2>2, TypeParts DEF WriteChain, IInv
<1>6. Order'
  BY <1>1 DEF IInv, Order
<1>7. Reasons(posted)'
  <2> SUFFICES ASSUME NEW i \in 1..Len(posted')
               PROVE  /\ posted'[i].op = "write_and_close" => quit' /\ posted'[i].line = typed'
                      /\ posted'[i].op = "close" => broken' \/ (~quit' /\ input' # "reading")
    BY DEF Reasons
  <2>1. CASE i = Len(posted) + 1
    BY <1>2, <1>4, <2>1
  <2>2. CASE i \in 1..Len(posted)
    <3>1. CASE UNCHANGED inputVars
      BY <1>3, <1>4, <2>2, <3>1 DEF IInv, Reasons, inputVars
    <3>2. CASE input = "reading" /\ ~quit
      BY <1>3, <1>4, <2>2, <3>2 DEF IInv, Reasons
    <3>. QED BY <1>3, <3>1, <3>2
  <2>. QED BY <1>4, <2>1, <2>2
<1>8. Endings'
  <2>1. CASE UNCHANGED inputVars /\ broken'
    BY <1>1, <2>1 DEF IInv, Endings, inputVars
  <2>2. CASE input = "reading" /\ ~quit /\ UNCHANGED broken
    BY <1>3, <2>2 DEF IInv, Endings
  <2>. QED BY <1>3, <2>1, <2>2
<1>. QED BY <1>1, <1>4, <1>5, <1>6, <1>7, <1>8 DEF IInv

LEMMA InputDoneInv ==
  ASSUME IInv, InputDone, UNCHANGED <<strandVars, signal, main>> PROVE IInv'
<1>1. input = "finishing" /\ input' = "done" /\ UNCHANGED <<typed, quit, posted>>
      /\ UNCHANGED <<name_, phase, outbox_, writing, reading, closed_, close_after_write_, stopped, received, sent, broken>>
  BY DEF InputDone, strandVars
<1>2. Base' = Base /\ First' = First /\ connected_' = connected_ /\ NextLine' = NextLine
  BY <1>1 DEF Base, First, NextLine, connected_
<1>3. TypeOK' /\ WriteChain'
  <2>0. Flags /\ Data
    BY TypeParts DEF IInv
  <2>1. Flags'
    BY <1>1, <2>0, Zenon DEF Flags
  <2>2. Data'
    BY <1>1, <2>0 DEF Data
  <2>. QED BY <1>1, <1>2, <2>1, <2>2, TypeParts DEF WriteChain, IInv
<1>4. Order' /\ LinesPosted(posted, NextLine, typed)'
  BY <1>1, <1>2 DEF IInv, Order, LinesPosted
<1>5. Reasons(posted)' /\ Endings'
  BY <1>1, <1>2 DEF IInv, Reasons, Endings
<1>. QED BY <1>3, <1>4, <1>5 DEF IInv

LEMMA NextInv == IInv /\ [Next]_vars => IInv'
<1> SUFFICES ASSUME IInv, [Next]_vars PROVE IInv'
  OBVIOUS
<1>1. CASE Outgoing
  <2>1. CASE RunPosted
    BY <1>1, <2>1, RunWriteInv, RunCloseInv DEF Outgoing, RunPosted
  <2>2. CASE (Resolved \/ CannotConnect \/ WriteFailed) /\ UNCHANGED posted
    BY <1>1, <2>2, SteadyInv DEF Outgoing
  <2>3. CASE OnConnect /\ UNCHANGED posted
    BY <1>1, <2>3, ConnectInv DEF Outgoing
  <2>4. CASE WriteDone /\ UNCHANGED posted
    BY <1>1, <2>4, WriteDoneInv DEF Outgoing
  <2>. QED BY <1>1, <2>1, <2>2, <2>3, <2>4 DEF Outgoing
<1>2. CASE Incoming
  BY <1>2, SteadyInv DEF Incoming
<1>3. CASE Interrupt
  <2>1. UNCHANGED <<name_, phase, outbox_, writing, reading, closed_, close_after_write_, stopped, received, sent, main>>
    BY <1>3 DEF Interrupt
  <2>. QED BY <1>3, <2>1, PostInv
<1>4. CASE InputThread
  <2>1. CASE InputDone
    BY <1>4, <2>1, InputDoneInv DEF InputThread
  <2>2. CASE Type \/ TypeQuit \/ EndOfInput
    BY <1>4, <2>2, PostInv DEF InputThread, strandVars
  <2>. QED BY <1>4, <2>1, <2>2 DEF InputThread
<1>5. CASE Return \/ Ended \/ UNCHANGED vars
  BY <1>5, SteadyInv DEF Ended
<1>. QED BY <1>1, <1>2, <1>3, <1>4, <1>5 DEF Next

-----------------------------------------------------------------------------
LEMMA Invariant == Spec => []IInv
<1>1. Init => IInv
  BY InitInv
<1>2. IInv /\ [Next]_vars => IInv'
  BY NextInv
<1>. QED BY <1>1, <1>2, PTL DEF Spec

(* The name and the lines reach the socket once each and in the order in which
   they were typed, whether they were typed before the connection was there or
   not, and one async_write at a time is outstanding while the outbox holds any:
   on_connect puts the name in front and starts the chain, enqueue_write starts
   it only when it does not run. *)
THEOREM LinesInOrder == Spec => []SentInOrder
<1>1. IInv => SentInOrder
  BY DEF IInv, SentInOrder, Order
<1>. QED BY <1>1, Invariant, PTL

(* close_after_write_ is set by the handler of the last line that was typed, and
   the chain of writes closes the client only once the outbox is empty: a client
   that "/quit" ends has sent everything, on any schedule of the input thread. *)
THEOREM QuitSends == Spec => []QuitSendsAll
<1>1. IInv => QuitSendsAll
  <2> SUFFICES ASSUME IInv, stopped, quit, ~broken PROVE First + Len(sent) = typed + 1
    BY DEF QuitSendsAll
  <2>1. outbox_ = <<>> /\ connected_ /\ NextLine = typed + 1
    BY DEF IInv, Endings
  <2>2. Len(outbox_) = 0 /\ Len(sent) \in Nat /\ First \in 0..1
    BY <2>1, Numbers DEF IInv
  <2>. QED BY <2>1, <2>2 DEF NextLine, Base
<1>. QED BY <1>1, Invariant, PTL
=============================================================================
