---------------------------- MODULE SenderProofs ----------------------------
(***************************************************************************)
(* For every set of interfaces, endpoints and payloads, the senders keep   *)
(* their type invariant, lend the kernel the front item's buffer only, and *)
(* emit what they were given in order.  One lemma per operation says that  *)
(* it keeps the three together; RouterProofs uses them as well, for the    *)
(* senders of a running router.                                            *)
(***************************************************************************)
EXTENDS Sender, FifoLemmas

\* The inductive invariant of the senders.  Each part needs the others: the lent
\* item is the front's (LentBufferIsFront), so what is appended to the wire is the
\* item that Unsent then leaves out (SentInOrder), and it is an item at all.
SenderInv == SenderTypeOK /\ LentBufferIsFront /\ SentInOrder

\* The same for a single sender.
OneSenderInv(s) ==
  /\ sending[s] = "idle" <=> queue[s] = << >>
  /\ sending[s] # "idle" => lent[s] = Head(queue[s])
  /\ promised[s] = wire[s] \o Unsent(s)

\* The invariant holds of all senders when it holds of each.
LEMMA SenderInvPointwise ==
  SenderInv <=> SenderTypeOK /\ \A s \in InterfaceAddresses : OneSenderInv(s)
BY DEF SenderInv, OneSenderInv, LentBufferIsFront, SentInOrder

\* What the type invariant says of one sender.
LEMMA SenderTypes ==
  ASSUME SenderTypeOK, NEW s \in InterfaceAddresses
  PROVE  /\ queue[s] \in Seq(QueueItem)
         /\ sending[s] \in SendStates
         /\ lent[s] \in QueueItem \cup {NoItem}
         /\ wire[s] \in Seq(QueueItem)
         /\ promised[s] \in Seq(QueueItem)
BY DEF SenderTypeOK

\* Concatenation of queues of items is associative.
LEMMA ItemsAssociative ==
  \A a, b, c \in Seq(QueueItem) : (a \o b) \o c = a \o (b \o c)
<1> DEFINE P(S) == \A a, b, c \in Seq(S) : (a \o b) \o c = a \o (b \o c)
<1>1. \A S : P(S)
  BY ConcatAssociative
<1> HIDE DEF P
<1>2. P(QueueItem)
  BY <1>1
<1>. QED  BY <1>2 DEF P

\* Without senders' work to do, there is nothing to send.
LEMMA SenderInitInv ==
  SenderInit => SenderInv
<1> SUFFICES ASSUME SenderInit PROVE SenderInv
  OBVIOUS
<1>1. SenderTypeOK
  BY EmptySeq DEF SenderInit, SenderTypeOK, LoopStates, SendStates
<1>2. ASSUME NEW s \in InterfaceAddresses PROVE OneSenderInv(s)
  <2>1. queue[s] = << >> /\ sending[s] = "idle" /\ wire[s] = << >> /\ promised[s] = << >>
    BY DEF SenderInit
  <2>2. << >> \o << >> = << >>
    BY EmptySeq, ConcatEmptySeq
  <2>. QED  BY <2>1, <2>2 DEF OneSenderInv, Unsent
<1>. QED  BY <1>1, <1>2, SenderInvPointwise

\* Sender::send, called for some of the senders, keeps the invariant.
LEMMA SendKeepsInv ==
  ASSUME SenderInv, NEW copies \in [InterfaceAddresses -> Seq(QueueItem)], Send(copies)
  PROVE  SenderInv'
<1>1. SenderTypeOK /\ \A s \in InterfaceAddresses : OneSenderInv(s)
  BY SenderInvPointwise
<1>2. ASSUME NEW s \in InterfaceAddresses
      PROVE  /\ queue'[s] = queue[s] \o copies[s]
             /\ sending'[s] = IF SendNow(s, copies[s]) THEN "pending" ELSE sending[s]
             /\ lent'[s] = IF SendNow(s, copies[s]) THEN Head(queue'[s]) ELSE lent[s]
             /\ wire'[s] = wire[s]
             /\ promised'[s] = promised[s] \o copies[s]
             /\ copies[s] \in Seq(QueueItem)
  BY DEF Send, Enqueue, Lend
<1>3. ASSUME NEW s \in InterfaceAddresses
      PROVE  /\ queue'[s] \in Seq(QueueItem)
             /\ promised'[s] \in Seq(QueueItem)
             /\ sending'[s] \in SendStates
             /\ lent'[s] \in QueueItem \cup {NoItem}
  <2>1. queue'[s] \in Seq(QueueItem) /\ promised'[s] \in Seq(QueueItem)
    BY <1>1, <1>2, SenderTypes, ConcatProperties
  <2>2. SendNow(s, copies[s]) => queue'[s] # << >>
    BY <1>1, <1>2, SenderTypes, ConcatEqualIffEmpty DEF SendNow
  <2>3. SendNow(s, copies[s]) => Head(queue'[s]) \in QueueItem
    BY <2>1, <2>2, HeadThenTail
  <2>. QED  BY <1>1, <1>2, <2>1, <2>3, SenderTypes DEF SendStates
<1>4. SenderTypeOK'
  <2>1. /\ queue' = [s \in InterfaceAddresses |-> queue'[s]]
        /\ sending' = [s \in InterfaceAddresses |-> sending'[s]]
        /\ lent' = [s \in InterfaceAddresses |-> lent'[s]]
        /\ promised' = [s \in InterfaceAddresses |-> promised'[s]]
    BY DEF Send
  <2>. QED  BY <1>1, <1>3, <2>1 DEF SenderTypeOK, Send
<1>5. ASSUME NEW s \in InterfaceAddresses PROVE OneSenderInv(s)'
  <2>. /\ queue[s] \in Seq(QueueItem) /\ wire[s] \in Seq(QueueItem)
       /\ promised[s] \in Seq(QueueItem) /\ copies[s] \in Seq(QueueItem)
    BY <1>1, <1>2, SenderTypes
  <2>1. CASE copies[s] = << >>
    <3>1. queue'[s] = queue[s] /\ promised'[s] = promised[s] /\ wire'[s] = wire[s]
      BY <1>2, <2>1, ConcatEmptySeq
    <3>2. sending'[s] = sending[s] /\ lent'[s] = lent[s]
      BY <1>2, <2>1 DEF SendNow
    <3>. QED  BY <1>1, <3>1, <3>2 DEF OneSenderInv, Unsent
  <2>2. CASE copies[s] # << >> /\ queue[s] = << >>
    <3>1. sending[s] = "idle" /\ Unsent(s) = << >> /\ promised[s] = wire[s]
      BY <1>1, <2>2, ConcatEmptySeq DEF OneSenderInv, Unsent
    <3>2. queue'[s] = copies[s] /\ sending'[s] = "pending" /\ lent'[s] = Head(queue'[s])
      BY <1>2, <2>2, ConcatEmptySeq DEF SendNow
    <3>. QED  BY <1>2, <2>2, <3>1, <3>2 DEF OneSenderInv, Unsent
  <2>3. CASE copies[s] # << >> /\ queue[s] # << >>
    <3>1. /\ sending'[s] = sending[s] /\ sending[s] # "idle"
          /\ lent'[s] = lent[s] /\ lent[s] = Head(queue[s])
      BY <1>1, <1>2, <2>3 DEF OneSenderInv, SendNow
    <3>2. /\ queue[s] \o copies[s] # << >>
          /\ Head(queue[s] \o copies[s]) = Head(queue[s])
          /\ Tail(queue[s] \o copies[s]) = Tail(queue[s]) \o copies[s]
      BY <2>3, AddBehindHead
    <3>3. Unsent(s)' = Unsent(s) \o copies[s]
      BY <1>2, <3>1, <3>2 DEF Unsent
    <3>4. Unsent(s) \in Seq(QueueItem)
      BY <2>3, HeadThenTail DEF Unsent
    <3>5. promised[s] = wire[s] \o Unsent(s)
      BY <1>1 DEF OneSenderInv
    <3>6. (wire[s] \o Unsent(s)) \o copies[s] = wire[s] \o (Unsent(s) \o copies[s])
      BY <3>4, ItemsAssociative
    <3>. QED  BY <1>2, <3>1, <3>2, <3>3, <3>5, <3>6 DEF OneSenderInv
  <2>. QED  BY <2>1, <2>2, <2>3
<1>6. (\A s \in InterfaceAddresses : OneSenderInv(s))'
  BY <1>5
<1>. QED  BY <1>4, <1>6 DEF SenderInv, OneSenderInv, LentBufferIsFront, SentInOrder

\* What an operation that changes one sender's state must establish.
LEMMA OtherSendersKept ==
  ASSUME SenderInv, NEW s \in InterfaceAddresses, SenderTypeOK', OneSenderInv(s)',
         \A t \in InterfaceAddresses \ {s} :
           /\ queue'[t] = queue[t] /\ sending'[t] = sending[t] /\ lent'[t] = lent[t]
           /\ wire'[t] = wire[t] /\ promised'[t] = promised[t]
  PROVE  SenderInv'
<1>1. \A t \in InterfaceAddresses : OneSenderInv(t)
  BY SenderInvPointwise
<1>2. ASSUME NEW t \in InterfaceAddresses \ {s} PROVE OneSenderInv(t)'
  BY <1>1 DEF OneSenderInv, Unsent
<1>3. \A t \in InterfaceAddresses : OneSenderInv(t)'
  BY <1>2
<1>. QED  BY <1>3 DEF SenderInv, OneSenderInv, LentBufferIsFront, SentInOrder

\* The kernel sends the lent item: that is the first of those not sent yet.
LEMMA KernelSendKeepsInv ==
  ASSUME SenderInv, NEW s \in InterfaceAddresses, KernelSend(s)
  PROVE  SenderInv'
<1>1. SenderTypeOK /\ OneSenderInv(s) /\ sending[s] = "pending"
  BY SenderInvPointwise DEF KernelSend
<1>2. /\ queue[s] \in Seq(QueueItem) /\ queue[s] # << >>
      /\ lent[s] = Head(queue[s]) /\ promised[s] = wire[s] \o queue[s]
  BY <1>1, SenderTypes DEF OneSenderInv, Unsent
<1>3. lent[s] \in QueueItem /\ wire[s] \in Seq(QueueItem)
  BY <1>1, <1>2, SenderTypes, HeadThenTail
<1>4. /\ wire' = [wire EXCEPT ![s] = Append(wire[s], lent[s])]
      /\ sending' = [sending EXCEPT ![s] = "sent"]
      /\ UNCHANGED <<ioService, queue, lent, promised>>
  BY DEF KernelSend
<1>5. Append(wire[s], lent[s]) \in Seq(QueueItem)
  BY <1>3, AppendProperties
<1>6. SenderTypeOK'
  BY <1>1, <1>4, <1>5 DEF SenderTypeOK, SendStates
<1>7. wire'[s] = Append(wire[s], lent[s]) /\ sending'[s] = "sent"
  BY <1>1, <1>4 DEF SenderTypeOK
<1>8. Append(wire[s], lent[s]) \o Tail(queue[s]) = promised[s]
  BY <1>2, <1>3, MoveHead
<1>9. OneSenderInv(s)'
  BY <1>2, <1>4, <1>7, <1>8 DEF OneSenderInv, Unsent
<1>. QED  BY <1>4, <1>6, <1>9, OtherSendersKept

LEMMA KernelSendFailsKeepsInv ==
  ASSUME SenderInv, NEW s \in InterfaceAddresses, KernelSendFails(s)
  PROVE  SenderInv'
<1>1. SenderTypeOK /\ OneSenderInv(s) /\ sending[s] = "pending"
  BY SenderInvPointwise DEF KernelSendFails
<1>2. /\ sending' = [sending EXCEPT ![s] = "failed"]
      /\ UNCHANGED <<ioService, queue, lent, wire, promised>>
  BY DEF KernelSendFails
<1>3. SenderTypeOK'
  BY <1>1, <1>2 DEF SenderTypeOK, SendStates
<1>4. sending'[s] = "failed"
  BY <1>1, <1>2 DEF SenderTypeOK
<1>5. OneSenderInv(s)'
  BY <1>1, <1>2, <1>4 DEF OneSenderInv, Unsent
<1>. QED  BY <1>2, <1>3, <1>5, OtherSendersKept

\* endSend pops the item that was sent, and lends the next one, if there is one.
LEMMA EndSendKeepsInv ==
  ASSUME SenderInv, NEW s \in InterfaceAddresses, EndSend(s)
  PROVE  SenderInv'
<1> DEFINE rest == Tail(queue[s])
<1>1. SenderTypeOK /\ OneSenderInv(s) /\ sending[s] = "sent"
  BY SenderInvPointwise DEF EndSend
<1>2. queue[s] \in Seq(QueueItem) /\ queue[s] # << >> /\ promised[s] = wire[s] \o rest
  BY <1>1, SenderTypes DEF OneSenderInv, Unsent
<1>3. rest \in Seq(QueueItem)
  BY <1>2, HeadThenTail
<1>4. rest # << >> => Head(rest) \in QueueItem
  BY <1>3, HeadThenTail
<1>5. /\ queue' = [queue EXCEPT ![s] = rest]
      /\ sending' = [sending EXCEPT ![s] = IF rest # << >> THEN "pending" ELSE "idle"]
      /\ lent' = [lent EXCEPT ![s] = IF rest # << >> THEN Head(rest) ELSE NoItem]
      /\ UNCHANGED <<ioService, wire, promised>>
  BY DEF EndSend, BeginsNext, Lend
<1>6. /\ queue'[s] = rest
      /\ sending'[s] = IF rest # << >> THEN "pending" ELSE "idle"
      /\ lent'[s] = IF rest # << >> THEN Head(rest) ELSE NoItem
  BY <1>1, <1>5 DEF SenderTypeOK
<1> HIDE DEF rest
<1>7. SenderTypeOK'
  BY <1>1, <1>3, <1>4, <1>5 DEF SenderTypeOK, SendStates
<1>8. OneSenderInv(s)'
  <2>1. wire'[s] = wire[s] /\ promised'[s] = promised[s]
    BY <1>5
  <2>2. Unsent(s)' = rest
    BY <1>6 DEF Unsent
  <2>. QED  BY <1>2, <1>6, <2>1, <2>2 DEF OneSenderInv
<1>. QED  BY <1>5, <1>7, <1>8, OtherSendersKept

\* The loop's end leaves the senders as they are.
LEMMA SendersUnchangedKeepsInv ==
  ASSUME SenderInv, ioService' \in LoopStates, UNCHANGED <<queue, sending, lent, wire, promised>>
  PROVE  SenderInv'
BY DEF SenderInv, SenderTypeOK, LentBufferIsFront, SentInOrder, Unsent

\* One handler's copies of a datagram for one sender.
LEMMA RepeatIsSequence ==
  ASSUME NEW item \in QueueItem, NEW n \in Nat
  PROVE  Repeat(item, n) \in Seq(QueueItem)
BY DEF Repeat

\* Every step of the senders, under whatever calls of send(), keeps the invariant.
LEMMA SenderNextKeepsInv ==
  SenderInv /\ [SenderNext]_senderVars => SenderInv'
<1> SUFFICES ASSUME SenderInv, [SenderNext]_senderVars PROVE SenderInv'
  OBVIOUS
<1>1. CASE AnySend
  <2>1. PICK p \in Payloads, e \in Endpoints, n \in [InterfaceAddresses -> 0..MaxCopies] :
          Send([s \in InterfaceAddresses |-> Repeat([payload |-> p, endpoint |-> e], n[s])])
    BY <1>1 DEF AnySend
  <2>2. [payload |-> p, endpoint |-> e] \in QueueItem
    BY DEF QueueItem
  <2>3. \A s \in InterfaceAddresses : n[s] \in Nat
    BY DEF MaxCopies
  <2>4. [s \in InterfaceAddresses |-> Repeat([payload |-> p, endpoint |-> e], n[s])]
          \in [InterfaceAddresses -> Seq(QueueItem)]
    BY <2>2, <2>3, RepeatIsSequence
  <2>. QED  BY <2>1, <2>4, SendKeepsInv
<1>2. ASSUME NEW s \in InterfaceAddresses, KernelSend(s) PROVE SenderInv'
  BY <1>2, KernelSendKeepsInv
<1>3. ASSUME NEW s \in InterfaceAddresses, KernelSendFails(s) PROVE SenderInv'
  BY <1>3, KernelSendFailsKeepsInv
<1>4. ASSUME NEW s \in InterfaceAddresses, EndSend(s) PROVE SenderInv'
  BY <1>4, EndSendKeepsInv
<1>5. ASSUME NEW s \in InterfaceAddresses, EndSendThrows(s) PROVE SenderInv'
  BY <1>5, SendersUnchangedKeepsInv DEF EndSendThrows, LoopStates
<1>6. CASE UNCHANGED senderVars
  <2>1. ioService \in LoopStates
    BY DEF SenderInv, SenderTypeOK
  <2>. QED  BY <1>6, <2>1, SendersUnchangedKeepsInv DEF senderVars
<1>. QED  BY <1>1, <1>2, <1>3, <1>4, <1>5, <1>6 DEF SenderNext

\* Type correctness of the senders, for all their interfaces and datagrams.
THEOREM SenderTypeCorrect == SenderSpec => []SenderTypeOK
<1>1. SenderInit => SenderInv
  BY SenderInitInv
<1>2. SenderInv /\ [SenderNext]_senderVars => SenderInv'
  BY SenderNextKeepsInv
<1>3. SenderInv => SenderTypeOK
  BY DEF SenderInv
<1>. QED  BY <1>1, <1>2, <1>3, PTL DEF SenderSpec

\* The kernel is only ever lent the buffer of the queue's front item, and an
\* operation is outstanding exactly while items wait (sender.cc:56-99).
THEOREM LentBufferAlwaysFront == SenderSpec => []LentBufferIsFront
<1>1. SenderInit => SenderInv
  BY SenderInitInv
<1>2. SenderInv /\ [SenderNext]_senderVars => SenderInv'
  BY SenderNextKeepsInv
<1>3. SenderInv => LentBufferIsFront
  BY DEF SenderInv
<1>. QED  BY <1>1, <1>2, <1>3, PTL DEF SenderSpec

\* Senders emit what send() was given, in order and without loss (sender.cc:56-99).
THEOREM AlwaysSentInOrder == SenderSpec => []SentInOrder
<1>1. SenderInit => SenderInv
  BY SenderInitInv
<1>2. SenderInv /\ [SenderNext]_senderVars => SenderInv'
  BY SenderNextKeepsInv
<1>3. SenderInv => SentInOrder
  BY DEF SenderInv
<1>. QED  BY <1>1, <1>2, <1>3, PTL DEF SenderSpec
=============================================================================
