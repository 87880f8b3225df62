------------------------------- MODULE Sender -------------------------------
(***************************************************************************)
(* The senders of mcv4fwdd (sender.h, sender.cc): one Sender object per    *)
(* outgoing interface.  A sender keeps a FIFO of datagrams (m_queue) and   *)
(* hands at most one of them, the front, to the kernel with async_send_to. *)
(* The kernel reads the front item's buffer later, and the completion      *)
(* handler endSend runs later still; in between, other handlers of the     *)
(* single-threaded event loop may call send() again.                       *)
(*                                                                         *)
(* The senders of the daemon are modelled together, as functions of the    *)
(* interface address that identifies them, because one received datagram   *)
(* is passed to several senders within one handler.                        *)
(*                                                                         *)
(* A datagram that the kernel truncates only causes a warning (sender.cc,  *)
(* lines 78-83) and is modelled as sent.                                   *)
(***************************************************************************)
EXTENDS Naturals, Sequences

CONSTANTS
  InterfaceAddresses, \* addresses of the local interfaces; each may have a Sender
  Endpoints,          \* multicast endpoints (group and port) of the services
  Payloads,           \* datagram contents; each stands for one datagram on the network
  NoItem              \* no queue item is lent to the kernel

\* Sender::QueueItem: an own copy of the data, and the endpoint to send it to.
QueueItem == [payload : Payloads, endpoint : Endpoints]

ASSUME NoItemAssumption == NoItem \notin QueueItem

VARIABLES
  ioService, \* the event loop: "running", or how Application::run left it
  queue,     \* m_queue of each sender
  sending,   \* the async_send_to operation of each sender
  lent,      \* the item whose buffer that operation was given
  wire,      \* what the kernel has put on each interface's network
  promised   \* history: everything send() was ever given

senderVars == <<ioService, queue, sending, lent, wire, promised>>

LoopStates == {"running", "stopped", "crashed", "aborted"}

\* "sent" and "failed": the completion handler endSend is ready to run.
SendStates == {"idle", "pending", "sent", "failed"}

SenderInit ==
  /\ ioService = "running"
  /\ queue = [s \in InterfaceAddresses |-> << >>]
  /\ sending = [s \in InterfaceAddresses |-> "idle"]
  /\ lent = [s \in InterfaceAddresses |-> NoItem]
  /\ wire = [s \in InterfaceAddresses |-> << >>]
  /\ promised = [s \in InterfaceAddresses |-> << >>]

(***************************************************************************)
(* Operations.                                                             *)
(***************************************************************************)

\* Mutant of SendNow: every call begins a send.
SendNowAlways(s, items) == items # << >>

\* sendNow of Sender::send: the first item given to an empty queue begins a send.
SendNow(s, items) == queue[s] = << >> /\ items # << >>

\* Mutant of Enqueue: new items overtake those waiting behind the front.
EnqueueBehindFront(s, items) ==
  IF queue[s] = << >> THEN items ELSE <<Head(queue[s])>> \o items \o Tail(queue[s])

\* m_queue.emplace: the queue keeps its own copy of the data.
Enqueue(s, items) == queue[s] \o items

\* Mutants of Lend: the operation is given no buffer, or that of the last item.
LendNothing(items) == NoItem
LendBack(items) == items[Len(items)]

\* beginSend lends the kernel the buffer of m_queue.front().
Lend(items) == Head(items)

\* The calls of Sender::send made by one handler: copies[s] is what sender s is
\* given.  They end with beginSend for the senders that were idle.
Send(copies) ==
  /\ queue' = [s \in InterfaceAddresses |-> Enqueue(s, copies[s])]
  /\ sending' = [s \in InterfaceAddresses |->
                   IF SendNow(s, copies[s]) THEN "pending" ELSE sending[s]]
  /\ lent' = [s \in InterfaceAddresses |->
                IF SendNow(s, copies[s]) THEN Lend(Enqueue(s, copies[s])) ELSE lent[s]]
  /\ promised' = [s \in InterfaceAddresses |-> promised[s] \o copies[s]]
  /\ UNCHANGED <<ioService, wire>>

\* The kernel performs the send: it reads the buffer that was lent to it.
KernelSend(s) ==
  /\ ioService = "running"
  /\ sending[s] = "pending"
  /\ wire' = [wire EXCEPT ![s] = Append(@, lent[s])]
  /\ sending' = [sending EXCEPT ![s] = "sent"]
  /\ UNCHANGED <<ioService, queue, lent, promised>>

\* The kernel refuses the send (interface down, no route, no buffers).
KernelSendFails(s) ==
  /\ ioService = "running"
  /\ sending[s] = "pending"
  /\ sending' = [sending EXCEPT ![s] = "failed"]
  /\ UNCHANGED <<ioService, queue, lent, wire, promised>>

\* Mutant of BeginsNext: a single remaining item is left waiting.
BeginsNextIfMany(rest) == Len(rest) > 1

\* endSend's test, after the pop, whether to begin another send.
BeginsNext(rest) == rest # << >>

\* Sender::endSend without error: pop the front; if items remain, begin the next.
EndSend(s) ==
  LET rest == Tail(queue[s])
  IN  /\ ioService = "running"
      /\ sending[s] = "sent"
      /\ queue' = [queue EXCEPT ![s] = rest]
      /\ sending' = [sending EXCEPT ![s] = IF BeginsNext(rest) THEN "pending" ELSE "idle"]
      /\ lent' = [lent EXCEPT ![s] = IF BeginsNext(rest) THEN Lend(rest) ELSE NoItem]
      /\ UNCHANGED <<ioService, wire, promised>>

\* Sender::endSend with an error throws std::runtime_error before the pop;
\* Application::run catches it outside the event loop, and the process ends.
EndSendThrows(s) ==
  /\ ioService = "running"
  /\ sending[s] = "failed"
  /\ ioService' = "crashed"
  /\ UNCHANGED <<queue, sending, lent, wire, promised>>

(***************************************************************************)
(* The senders alone, under arbitrary calls of send().                     *)
(***************************************************************************)

\* n copies of one item, as the rules of one forwarder make.
Repeat(item, n) == [k \in 1..n |-> item]

\* Bound: the copies of one datagram given to one sender.
MaxCopies == 2

\* Bound: a payload stands for one datagram, so it is sent at most once.
IsFresh(p) ==
  \A s \in InterfaceAddresses : \A k \in DOMAIN promised[s] : promised[s][k].payload # p

\* One handler gives a datagram to some senders, to some of them repeatedly.
AnySend ==
  \E p \in Payloads, e \in Endpoints, n \in [InterfaceAddresses -> 0..MaxCopies] :
    /\ ioService = "running"
    /\ IsFresh(p)
    /\ Send([s \in InterfaceAddresses |-> Repeat([payload |-> p, endpoint |-> e], n[s])])

SenderNext ==
  \/ AnySend
  \/ \E s \in InterfaceAddresses :
       \/ KernelSend(s)
       \/ KernelSendFails(s)
       \/ EndSend(s)
       \/ EndSendThrows(s)

\* The event loop runs every ready handler, in the order of its queue.
SenderFairness ==
  \A s \in InterfaceAddresses :
    /\ WF_senderVars(KernelSend(s) \/ KernelSendFails(s))
    /\ WF_senderVars(EndSend(s) \/ EndSendThrows(s))

SenderSpec == SenderInit /\ [][SenderNext]_senderVars /\ SenderFairness

(***************************************************************************)
(* Properties.                                                             *)
(***************************************************************************)

\* Type correctness of the senders' state; in particular the kernel only ever puts
\* real datagrams on a wire, never what an operation without a buffer would read.
SenderTypeOK ==
  /\ ioService \in LoopStates
  /\ queue \in [InterfaceAddresses -> Seq(QueueItem)]
  /\ sending \in [InterfaceAddresses -> SendStates]
  /\ lent \in [InterfaceAddresses -> QueueItem \cup {NoItem}]
  /\ wire \in [InterfaceAddresses -> Seq(QueueItem)]
  /\ promised \in [InterfaceAddresses -> Seq(QueueItem)]

\* A send operation is outstanding exactly while the queue is not empty, and the
\* buffer it was lent is that of the front item, which endSend alone removes:
\* the kernel never reads a freed buffer, no queued item waits without an
\* operation that will get to it, and beginSend's assertion holds (sender.cc:58).
LentBufferIsFront ==
  \A s \in InterfaceAddresses :
    /\ sending[s] = "idle" <=> queue[s] = << >>
    /\ sending[s] # "idle" => lent[s] = Head(queue[s])

\* The items that the kernel has yet to take from sender s.
Unsent(s) == IF sending[s] = "sent" THEN Tail(queue[s]) ELSE queue[s]

\* Each sender emits what send() was given: in that order, nothing lost, nothing
\* twice, nothing with another datagram's contents (sender.cc:70-99).
SentInOrder ==
  \A s \in InterfaceAddresses : promised[s] = wire[s] \o Unsent(s)

\* While the event loop runs, no sender is stuck with items it never sends
\* (sender.cc:84-88: endSend begins the next item).
EverythingIsSent ==
  \A s \in InterfaceAddresses : []<>(wire[s] = promised[s] \/ ioService # "running")
=============================================================================
