------------------------------- MODULE Router -------------------------------
(***************************************************************************)
(* The data plane of mcv4fwdd: Router (router.h, router.cc), its           *)
(* forwarders (forwarder.h, forwarder.cc), which are receivers             *)
(* (receiver.h, receiver.cc), and the senders they share (Sender.tla).     *)
(*                                                                         *)
(* There is one forwarder per multicast endpoint.  Its socket is bound to  *)
(* the endpoint's port on the wildcard address and joins the group on the  *)
(* from-interface of each of its rules.  It owns ONE buffer: it asks the   *)
(* kernel to receive into it, and asks again only after endReceive has     *)
(* passed copies of the datagram to the senders.                           *)
(*                                                                         *)
(* All handlers run on one thread, one at a time, in any order in which    *)
(* their operations complete; the kernel works at any time.                *)
(***************************************************************************)
EXTENDS Sender, FiniteSets

CONSTANTS
  Addresses,        \* IPv4 addresses, those of the local interfaces included
  Destinations,     \* endpoints datagrams are sent to, on the networks we are attached to
  PortOf,           \* the port of each destination
  NotMulticast,     \* the endpoints whose address is not a multicast group
  HostMemberships,  \* <<destination, interface>> this host accepts without our help
  MaxMemberships,   \* the system's IP_MAX_MEMBERSHIPS
  SocketBufferSize, \* datagrams a socket's receive buffer holds before the kernel drops
  NoDatagram        \* the content of a buffer nothing was received into yet

\* A datagram as it reaches this host on one of its interfaces.
Datagram ==
  [source : Addresses, destination : Destinations, interface : InterfaceAddresses,
   length : {0, 1}, payload : Payloads]

\* An entry of m_sourceNetworksToSenders; a network is the set of its addresses.
Rule == [network : SUBSET Addresses, sender : InterfaceAddresses]

ASSUME RouterAssumption ==
  /\ InterfaceAddresses \subseteq Addresses
  /\ Endpoints \subseteq Destinations
  /\ NotMulticast \subseteq Endpoints
  /\ SocketBufferSize \in Nat
  /\ MaxMemberships \in Nat
  /\ NoDatagram \notin Datagram

VARIABLES
  forwarders,   \* m_forwarders: the endpoints that have a forwarder
  senders,      \* m_senders: the interface addresses that have a sender
  rules,        \* m_sourceNetworksToSenders of each forwarder
  joined,       \* the interfaces on which each forwarder's socket joined its group
  started,      \* Router::start was called
  receiver,     \* the async_receive_from operation of each forwarder
  buffer,       \* m_buffer and m_senderEndpoint of each forwarder
  socketBuffer, \* the kernel's receive buffer of each forwarder's socket
  fresh,        \* the payloads that have not been on the network yet
  delivered,    \* history: the datagrams each socket accepted
  handled       \* history: the datagrams each endReceive worked on

routingVars == <<forwarders, senders, rules, joined, started>>
receiverVars == <<receiver, buffer, handled>>
socketVars == <<socketBuffer, delivered>>
vars == <<senderVars, routingVars, receiverVars, socketVars, fresh>>

\* "received" and "failed": the completion handler endReceive is ready to run.
ReceiveStates == {"idle", "receiving", "received", "failed"}

\* The state of a Router that was just constructed, in a process just started.
RouterInit ==
  /\ SenderInit
  /\ forwarders = {}
  /\ senders = {}
  /\ rules = [e \in Endpoints |-> << >>]
  /\ joined = [e \in Endpoints |-> {}]
  /\ started = FALSE
  /\ receiver = [e \in Endpoints |-> "idle"]
  /\ buffer = [e \in Endpoints |-> NoDatagram]
  /\ socketBuffer = [e \in Endpoints |-> << >>]
  /\ delivered = [e \in Endpoints |-> << >>]
  /\ handled = [e \in Endpoints |-> << >>]

\* The Router object is destroyed, and with it its sockets, buffers and queues.
DestroyRouter ==
  /\ forwarders' = {}
  /\ senders' = {}
  /\ rules' = [e \in Endpoints |-> << >>]
  /\ joined' = [e \in Endpoints |-> {}]
  /\ started' = FALSE
  /\ receiver' = [e \in Endpoints |-> "idle"]
  /\ buffer' = [e \in Endpoints |-> NoDatagram]
  /\ socketBuffer' = [e \in Endpoints |-> << >>]
  /\ delivered' = [e \in Endpoints |-> << >>]
  /\ handled' = [e \in Endpoints |-> << >>]
  /\ queue' = [s \in InterfaceAddresses |-> << >>]
  /\ sending' = [s \in InterfaceAddresses |-> "idle"]
  /\ lent' = [s \in InterfaceAddresses |-> NoItem]
  /\ wire' = [s \in InterfaceAddresses |-> << >>]
  /\ promised' = [s \in InterfaceAddresses |-> << >>]

(***************************************************************************)
(* Configuration: Router::addRule and Router::start.                       *)
(***************************************************************************)

\* The kernel refuses to join: not a group, joined there already, too many.
JoinFails(e, from) ==
  \/ e \in NotMulticast
  \/ from \in joined[e]
  \/ Cardinality(joined[e]) >= MaxMemberships

\* Mutant of SendersWith: the new sender takes the place of the others.
OnlySender(to) == {to}

\* addRule creates the sender of an interface when its first rule needs it.
SendersWith(to) == senders \cup {to}

\* The forwarder of e joins on from, and forwards from each network to the
\* sender of to, in the order of the networks.
AddRule(e, from, networks, to) ==
  /\ ~JoinFails(e, from)
  /\ forwarders' = forwarders \cup {e}
  /\ joined' = [joined EXCEPT ![e] = @ \cup {from}]
  /\ senders' = SendersWith(to)
  /\ rules' = [rules EXCEPT ![e] =
                 @ \o [k \in DOMAIN networks |-> [network |-> networks[k], sender |-> to]]]
  /\ UNCHANGED <<started, receiverVars, socketVars, fresh, senderVars>>

\* addRule throws because the kernel refuses the join; the forwarder stays.
AddRuleRefused(e, from) ==
  /\ JoinFails(e, from)
  /\ forwarders' = forwarders \cup {e}
  /\ UNCHANGED <<senders, rules, joined, started, receiverVars, socketVars, fresh, senderVars>>

\* addRule throws because a system call fails: opening or binding the
\* forwarder's socket, the join, or setting up the sender's socket.
AddRuleThrows(e, from, to) ==
  /\ \/ e \notin forwarders /\ UNCHANGED <<forwarders, joined>>
     \/ forwarders' = forwarders \cup {e} /\ UNCHANGED joined
     \/ /\ ~JoinFails(e, from)
        /\ to \notin senders
        /\ forwarders' = forwarders \cup {e}
        /\ joined' = [joined EXCEPT ![e] = @ \cup {from}]
  /\ UNCHANGED <<senders, rules, started, receiverVars, socketVars, fresh, senderVars>>

\* Every forwarder asks for its first datagram.
Start ==
  /\ started' = TRUE
  /\ receiver' = [e \in Endpoints |-> IF e \in forwarders THEN "receiving" ELSE receiver[e]]
  /\ UNCHANGED <<forwarders, senders, rules, joined, buffer, handled, socketVars, fresh, senderVars>>

(***************************************************************************)
(* The network and the kernel's side of receiving.                         *)
(***************************************************************************)

\* The host takes d from the wire: its group was joined on that interface.
HostAccepts(d) ==
  \/ <<d.destination, d.interface>> \in HostMemberships
  \/ /\ d.destination \in forwarders
     /\ d.interface \in joined[d.destination]

\* The sockets that d is given to: every socket bound to its port, whatever the
\* group (bound to the wildcard address), that has room for it.
Recipients(d) ==
  {e \in forwarders : /\ HostAccepts(d)
                      /\ PortOf[e] = PortOf[d.destination]
                      /\ Len(socketBuffer[e]) < SocketBufferSize}

Deliver(d) ==
  LET to == Recipients(d)
      add(f) == [e \in Endpoints |-> IF e \in to THEN Append(f[e], d) ELSE f[e]]
  IN  /\ socketBuffer' = add(socketBuffer)
      /\ delivered' = add(delivered)

\* A datagram of another host, or of another process on this host, arrives.
Arrive(d) ==
  /\ d.payload \in fresh
  /\ fresh' = fresh \ {d.payload}
  /\ Deliver(d)
  /\ UNCHANGED <<routingVars, receiverVars, senderVars>>

\* The kernel completes a receive: it overwrites the forwarder's buffer.
KernelReceive(e) ==
  /\ ioService = "running"
  /\ receiver[e] = "receiving"
  /\ socketBuffer[e] # << >>
  /\ receiver' = [receiver EXCEPT ![e] = "received"]
  /\ buffer' = [buffer EXCEPT ![e] = Head(socketBuffer[e])]
  /\ socketBuffer' = [socketBuffer EXCEPT ![e] = Tail(@)]
  /\ UNCHANGED <<handled, delivered, fresh, routingVars, senderVars>>

KernelReceiveFails(e) ==
  /\ ioService = "running"
  /\ receiver[e] = "receiving"
  /\ receiver' = [receiver EXCEPT ![e] = "failed"]
  /\ UNCHANGED <<buffer, handled, socketVars, fresh, routingVars, senderVars>>

(***************************************************************************)
(* Receiving and forwarding: Receiver::endReceive, Forwarder::handlePacket.*)
(***************************************************************************)

\* Mutant of Matching: stop at the first rule that accepts the source.
MatchingFirst(e, d, s) ==
  {k \in DOMAIN rules[e] : /\ rules[e][k].sender = s
                           /\ d.source \in rules[e][k].network
                           /\ \A j \in 1..(k - 1) : d.source \notin rules[e][j].network}

\* Mutant of Matching: the source of the datagram is not looked at.
MatchingAll(e, d, s) == {k \in DOMAIN rules[e] : rules[e][k].sender = s}

\* The rules of e that accept the source of d and forward to sender s.
Matching(e, d, s) ==
  {k \in DOMAIN rules[e] : /\ rules[e][k].sender = s
                           /\ d.source \in rules[e][k].network}

\* What handlePacket gives to sender s: one copy per matching rule, addressed
\* to the forwarder's own endpoint.
Copies(e, d, s) ==
  [n \in 1..Cardinality(Matching(e, d, s)) |-> [payload |-> d.payload, endpoint |-> e]]

\* Mutant of Received: the next receive is begun before the packet is handled,
\* so that a waiting datagram overwrites the buffer that handlePacket reads.
ReceivedAfterRearm(e) == IF socketBuffer[e] # << >> THEN Head(socketBuffer[e]) ELSE buffer[e]

\* What endReceive passes to handlePacket: the content of the forwarder's buffer.
Received(e) == buffer[e]

\* Mutant of Rearmed: an empty datagram returns early, before beginReceive.
RearmedIfNotEmpty(d) == IF d.length > 0 THEN "receiving" ELSE "idle"

\* The receive operation that endReceive leaves: it always ends with beginReceive.
Rearmed(d) == "receiving"

\* endReceive without error; an empty datagram is not forwarded.
EndReceive(e) ==
  LET d == Received(e)
  IN  /\ ioService = "running"
      /\ receiver[e] = "received"
      /\ Send([s \in InterfaceAddresses |-> IF d.length > 0 THEN Copies(e, d, s) ELSE << >>])
      /\ handled' = [handled EXCEPT ![e] = Append(@, d)]
      /\ receiver' = [receiver EXCEPT ![e] = Rearmed(d)]
      /\ UNCHANGED <<buffer, socketVars, fresh, routingVars>>

\* endReceive with an error throws std::runtime_error, as endSend does.
EndReceiveThrows(e) ==
  /\ ioService = "running"
  /\ receiver[e] = "failed"
  /\ ioService' = "crashed"
  /\ UNCHANGED <<queue, sending, lent, wire, promised, receiverVars, socketVars, fresh, routingVars>>

(***************************************************************************)
(* Sending, with what the senders' socket options mean for the receivers.  *)
(***************************************************************************)

\* Mutant of EnableLoopback: the default of IP_MULTICAST_LOOP is left in place.
EnableLoopbackDefault == TRUE

\* The Sender constructor sets multicast::enable_loopback(false).
EnableLoopback == FALSE

\* The kernel puts the lent item on the wire; with loopback, the host also hears
\* it on the outgoing interface, from that interface's address.
Transmit(s) ==
  /\ KernelSend(s)
  /\ IF EnableLoopback
     THEN Deliver([source |-> s, destination |-> lent[s].endpoint, interface |-> s,
                   length |-> 1, payload |-> lent[s].payload])
     ELSE UNCHANGED socketVars
  /\ UNCHANGED <<receiverVars, fresh, routingVars>>

TransmitFails(s) == KernelSendFails(s) /\ UNCHANGED <<receiverVars, socketVars, fresh, routingVars>>

Sent(s) == EndSend(s) /\ UNCHANGED <<receiverVars, socketVars, fresh, routingVars>>

SentThrows(s) == EndSendThrows(s) /\ UNCHANGED <<receiverVars, socketVars, fresh, routingVars>>

(***************************************************************************)
(* The router on its own: any rules, then start, then any traffic.         *)
(***************************************************************************)
CONSTANTS
  CandidateRules, \* the calls of addRule considered: [endpoint, from, networks, to]
  Traffic         \* the datagrams considered

ASSUME TrafficAssumption ==
  /\ CandidateRules \subseteq [endpoint : Endpoints, from : InterfaceAddresses,
                               networks : Seq(SUBSET Addresses), to : InterfaceAddresses]
  /\ Traffic \subseteq Datagram

Init == RouterInit /\ fresh = Payloads

\* Application::setupRouter adds all rules and calls start once.
Configure ==
  /\ ioService = "running"
  /\ ~started
  /\ \/ \E r \in CandidateRules : AddRule(r.endpoint, r.from, r.networks, r.to)
     \/ Start

\* A datagram comes in from the networks, at any time.
Arrival == \E d \in Traffic : Arrive(d)

\* What the event loop and the kernel do for a router with outstanding operations.
Forwarding ==
  \/ \E e \in Endpoints : KernelReceive(e) \/ EndReceive(e) \/ EndReceiveThrows(e)
  \/ \E s \in InterfaceAddresses : Transmit(s) \/ Sent(s) \/ SentThrows(s)

\* The kernel completes an operation with an error.
ForwardingFault ==
  \/ \E e \in Endpoints : KernelReceiveFails(e)
  \/ \E s \in InterfaceAddresses : TransmitFails(s)

Next == Configure \/ Arrival \/ Forwarding \/ ForwardingFault

\* The kernel completes what it can; the event loop runs every ready handler.
ForwardingFairness ==
  /\ \A e \in Endpoints :
       /\ WF_vars(KernelReceive(e))
       /\ WF_vars(EndReceive(e) \/ EndReceiveThrows(e))
  /\ \A s \in InterfaceAddresses :
       /\ WF_vars(Transmit(s) \/ TransmitFails(s))
       /\ WF_vars(Sent(s) \/ SentThrows(s))

Spec == Init /\ [][Next]_vars /\ WF_vars(Configure) /\ ForwardingFairness

(***************************************************************************)
(* Properties.                                                             *)
(***************************************************************************)

\* Type correctness of the data plane.
TypeOK ==
  /\ SenderTypeOK
  /\ forwarders \subseteq Endpoints
  /\ senders \subseteq InterfaceAddresses
  /\ rules \in [Endpoints -> Seq(Rule)]
  /\ joined \in [Endpoints -> SUBSET InterfaceAddresses]
  /\ started \in BOOLEAN
  /\ receiver \in [Endpoints -> ReceiveStates]
  /\ buffer \in [Endpoints -> Datagram \cup {NoDatagram}]
  /\ socketBuffer \in [Endpoints -> Seq(Datagram)]
  /\ fresh \subseteq Payloads
  /\ delivered \in [Endpoints -> Seq(Datagram)]
  /\ handled \in [Endpoints -> Seq(Datagram)]

\* A started forwarder always has exactly one receive operation outstanding, so
\* it never goes deaf; any other has none.  The invariant is kept by every path
\* through endReceive, the one of empty datagrams included (receiver.cc:45-60).
NeverDeaf ==
  \A e \in Endpoints : receiver[e] # "idle" <=> (started /\ e \in forwarders)

\* The datagram received into the buffer of e that endReceive has yet to handle.
InBuffer(e) == IF receiver[e] = "received" THEN <<buffer[e]>> ELSE << >>

\* Each datagram that the socket of e accepted is handled once, in the order of
\* arrival, from a buffer that nothing overwrote in between (receiver.cc:39-60).
HandledInOrder ==
  \A e \in Endpoints : delivered[e] = handled[e] \o InBuffer(e) \o socketBuffer[e]

\* No forwarder hears a datagram twice; in particular it never hears its own
\* output, which rules in both directions would forward for ever (sender.cc:50).
NoEcho ==
  \A e \in Endpoints : \A i, j \in DOMAIN delivered[e] :
    delivered[e][i].payload = delivered[e][j].payload => i = j

\* Where a history of datagrams, one of each endpoint, has the one that item copies.
Occurrences(history, item) ==
  {k \in DOMAIN history[item.endpoint] : history[item.endpoint][k].payload = item.payload}

\* Seen from the networks alone: what leaves for a service arrived for that service,
\* and leaves an interface in the order of arrival.  The forwarders of all services
\* share the queue of a sender, and rules that overlap put several copies in it
\* (forwarder.cc:46-53, sender.cc:92-99).
ServiceOrder ==
  \A s \in InterfaceAddresses : \A i, j \in DOMAIN wire[s] :
    i <= j /\ wire[s][i].endpoint = wire[s][j].endpoint
      => \E a \in Occurrences(delivered, wire[s][i]),
            b \in Occurrences(delivered, wire[s][j]) : a <= b

\* Every rule that can match forwards to a sender that the router owns, and
\* every sender with something to send is one of them (router.cc:47-60).
OwnedSenders ==
  /\ \A e \in Endpoints : \A k \in DOMAIN rules[e] : rules[e][k].sender \in senders
  /\ \A s \in InterfaceAddresses : promised[s] # << >> => s \in senders

\* The data plane implements the abstract relay: what was accepted is forwarded
\* in order, once per matching rule, and emitted in order, without loss.
Abstract ==
  INSTANCE Relay WITH Rules <- Rule, Datagrams <- Datagram,
                      alive <- (ioService = "running"), inbox <- delivered,
                      forwarded <- handled, outbox <- promised, emitted <- wire
ImplementsRelay == Abstract!Spec

\* While the event loop runs, a started router eventually has forwarded and sent
\* all it accepted: no lost wake-up between receivers, queues and senders.
EverythingIsForwarded ==
  []<>(\/ ioService # "running"
       \/ /\ \A e \in forwarders : handled[e] = delivered[e]
          /\ \A s \in InterfaceAddresses : wire[s] = promised[s])

\* "One receiver per multicast endpoint" (receiver.h:28): the receiver of an
\* endpoint handles that endpoint's datagrams, not those of another one.  The code
\* binds to the port alone (receiver.cc:36) and hears every group joined on it.
HandlesOwnEndpoint ==
  \A e \in Endpoints : \A k \in DOMAIN handled[e] : handled[e][k].destination = e
=============================================================================
