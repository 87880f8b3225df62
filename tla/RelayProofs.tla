----------------------------- MODULE RelayProofs -----------------------------
(***************************************************************************)
(* The data plane implements the abstract relay (Relay.tla), for every     *)
(* value of the constants.  Adding a rule configures the relay, an arrival *)
(* is accepted by it, endReceive forwards, the kernel's send emits, and an *)
(* exception that ends the loop is the relay's death; every other step is  *)
(* a stutter.  RouterInv supplies what the mapping needs: the buffer holds *)
(* the first datagram not handled yet, and the lent item is the first one  *)
(* promised and not sent.                                                  *)
(***************************************************************************)
EXTENDS RouterProofs

\* The first item after a log is the head of what remains.
LEMMA NextAfterLog ==
  ASSUME NEW S, NEW log \in Seq(S), NEW q \in Seq(S), q # << >>
  PROVE  Len(log) < Len(log \o q) /\ (log \o q)[Len(log) + 1] = Head(q)
<1>1. Len(log) \in Nat /\ Len(q) \in Nat /\ Len(q) > 0
  BY LenProperties, EmptySeq
<1>2. /\ Len(log \o q) = Len(log) + Len(q)
      /\ \A i \in 1..Len(log) + Len(q) : (log \o q)[i] = IF i <= Len(log) THEN log[i] ELSE q[i - Len(log)]
  BY ConcatProperties
<1>3. (log \o q)[Len(log) + 1] = q[1]
  BY <1>1, <1>2
<1>. QED  BY <1>1, <1>2, <1>3

\* So it is for items, queues of which are promised.
LEMMA NextItem ==
  \A log, q \in Seq(QueueItem) :
    q # << >> => Len(log) < Len(log \o q) /\ (log \o q)[Len(log) + 1] = Head(q)
<1> DEFINE P(S) == \A log, q \in Seq(S) :
                     q # << >> => Len(log) < Len(log \o q) /\ (log \o q)[Len(log) + 1] = Head(q)
<1>1. \A S : P(S)
  BY NextAfterLog
<1> HIDE DEF P
<1>2. P(QueueItem)
  BY <1>1
<1>. QED  BY <1>2 DEF P

\* The first item after a log is the one in hand.
LEMMA InHandAfterLog ==
  ASSUME NEW S, NEW log \in Seq(S), NEW x \in S, NEW q \in Seq(S)
  PROVE  /\ Len(log) < Len((log \o <<x>>) \o q)
         /\ ((log \o <<x>>) \o q)[Len(log) + 1] = x
<1>1. /\ <<x>> \in Seq(S) /\ Len(<<x>>) = 1 /\ <<x>>[1] = x
      /\ Len(log) \in Nat /\ Len(q) \in Nat
  BY LenProperties
<1>2. /\ log \o <<x>> \in Seq(S)
      /\ Len(log \o <<x>>) = Len(log) + 1
      /\ (log \o <<x>>)[Len(log) + 1] = x
  BY <1>1, ConcatProperties
<1>3. /\ Len((log \o <<x>>) \o q) = Len(log) + 1 + Len(q)
      /\ ((log \o <<x>>) \o q)[Len(log) + 1] = (log \o <<x>>)[Len(log) + 1]
  BY <1>1, <1>2, ConcatProperties
<1>. QED  BY <1>1, <1>2, <1>3

\* So it is for datagrams.
LEMMA DatagramInHand ==
  \A log, q \in Seq(Datagram) : \A d \in Datagram :
    /\ Len(log) < Len((log \o <<d>>) \o q)
    /\ ((log \o <<d>>) \o q)[Len(log) + 1] = d
<1> DEFINE P(S) == \A log, q \in Seq(S) : \A d \in S :
                     /\ Len(log) < Len((log \o <<d>>) \o q)
                     /\ ((log \o <<d>>) \o q)[Len(log) + 1] = d
<1>1. \A S : P(S)
  BY InHandAfterLog
<1> HIDE DEF P
<1>2. P(Datagram)
  BY <1>1
<1>. QED  BY <1>2 DEF P

\* The relay counts as the router does.
LEMMA SameCardinality ==
  ASSUME NEW S
  PROVE  Abstract!Cardinality(S) = Cardinality(S)
BY DEF Abstract!Cardinality, Cardinality

\* handlePacket's copies of a datagram are what the relay promises for it.
LEMMA CopiesArePromise ==
  ASSUME NEW e, NEW d, NEW s
  PROVE  (IF d.length > 0 THEN Copies(e, d, s) ELSE << >>) = Abstract!Promise(e, d, s)
<1> DEFINE accepting == {k \in DOMAIN rules[e] : /\ rules[e][k].sender = s
                                               /\ d.source \in rules[e][k].network
                                               /\ d.length > 0}
<1>1. Abstract!Promise(e, d, s)
        = [n \in 1..Cardinality(accepting) |-> [payload |-> d.payload, endpoint |-> e]]
  BY SameCardinality DEF Abstract!Promise
<1>2. CASE d.length > 0
  <2>1. Matching(e, d, s) = accepting
    BY <1>2 DEF Matching
  <2>. QED  BY <1>1, <1>2, <2>1 DEF Copies
<1>3. CASE ~(d.length > 0)
  <2>1. accepting = {}
    BY <1>3
  <2>2. Cardinality(accepting) = 0
    BY <2>1, FS_EmptySet
  <2> HIDE DEF accepting
  <2>. QED  BY <1>1, <1>3, <2>2
<1>. QED  BY <1>2, <1>3

\* A list is a prefix of the list that additions make of it.
LEMMA PrefixKept ==
  ASSUME NEW S, NEW list \in Seq(S), NEW added \in Seq(S)
  PROVE  /\ list \o added \in Seq(S)
         /\ Len(list) <= Len(list \o added)
         /\ SubSeq(list \o added, 1, Len(list)) = list
<1>1. /\ list \o added \in Seq(S)
      /\ Len(list \o added) = Len(list) + Len(added)
      /\ \A i \in 1..Len(list) + Len(added) :
           (list \o added)[i] = IF i <= Len(list) THEN list[i] ELSE added[i - Len(list)]
  BY ConcatProperties
<1>2. Len(list) \in Nat /\ Len(added) \in Nat
  BY LenProperties
<1> DEFINE prefix == SubSeq(list \o added, 1, Len(list))
<1>3. \A i \in 1..Len(list) : (list \o added)[i] \in S /\ (list \o added)[i] = list[i]
  BY <1>1, <1>2, ElementOfSeq
<1>4. /\ prefix \in Seq(S)
      /\ Len(prefix) = Len(list)
      /\ \A i \in 1..Len(list) : prefix[i] = (list \o added)[i]
  BY <1>2, <1>3, SubSeqProperties
<1>5. prefix = list
  BY <1>3, <1>4, SeqEqual
<1>. QED  BY <1>1, <1>2, <1>5

LEMMA InitImplementsRelay ==
  Init => Abstract!Init
BY DEF Init, RouterInit, SenderInit, Abstract!Init

\* Steps that the relay does not see.
LEMMA StutterImplementsRelay ==
  ASSUME UNCHANGED <<ioService, rules, delivered, handled, promised, wire>>
  PROVE  UNCHANGED Abstract!relayVars
BY DEF Abstract!relayVars

LEMMA AddRuleImplementsRelay ==
  ASSUME RouterInv, ~started, NEW e \in Endpoints, NEW from \in InterfaceAddresses,
         NEW networks \in Seq(SUBSET Addresses), NEW to \in InterfaceAddresses,
         AddRule(e, from, networks, to)
  PROVE  Abstract!Configure
<1> DEFINE added == [k \in DOMAIN networks |-> [network |-> networks[k], sender |-> to]]
<1>1. /\ rules' = [rules EXCEPT ![e] = @ \o added]
      /\ UNCHANGED <<started, receiverVars, socketVars, fresh, senderVars>>
  BY DEF AddRule
<1>2. added \in Seq(Rule)
  <2>1. \A k \in DOMAIN networks : networks[k] \in SUBSET Addresses
    BY ElementOfSeq, LenProperties
  <2>2. DOMAIN networks = 1..Len(networks) /\ Len(networks) \in Nat
    BY LenProperties
  <2>. QED  BY <2>1, <2>2 DEF Rule
<1> HIDE DEF added
<1>3. rules \in [Endpoints -> Seq(Rule)] /\ \A f \in Endpoints : handled[f] = << >>
  BY DEF RouterInv, ForwarderInv, RouterTypes, OneForwarderInv
<1>4. /\ rules[e] \o added \in Seq(Rule)
      /\ Len(rules[e]) <= Len(rules[e] \o added)
      /\ SubSeq(rules[e] \o added, 1, Len(rules[e])) = rules[e]
  BY <1>2, <1>3, PrefixKept
<1>5. rules' \in [Endpoints -> Seq(Rule)]
  BY <1>1, <1>3, <1>4
<1>6. ASSUME NEW f \in Endpoints
      PROVE  Len(rules[f]) <= Len(rules'[f]) /\ SubSeq(rules'[f], 1, Len(rules[f])) = rules[f]
  <2>1. CASE f = e
    BY <1>1, <1>3, <1>4, <2>1
  <2>2. CASE f # e
    <3>1. rules'[f] = rules[f] /\ rules[f] \in Seq(Rule)
      BY <1>1, <1>3, <2>2
    <3>. QED  BY <3>1, SubSeqFull, LenProperties
  <2>. QED  BY <2>1, <2>2
<1>7. UNCHANGED <<ioService, delivered, handled, promised, wire>>
  BY <1>1 DEF receiverVars, socketVars, senderVars
<1>. QED  BY <1>3, <1>5, <1>6, <1>7 DEF Abstract!Configure

LEMMA ArriveImplementsRelay ==
  ASSUME NEW d \in Datagram, Arrive(d)
  PROVE  Abstract!Accept
<1>1. Recipients(d) \in SUBSET Endpoints \/ Recipients(d) \cap Endpoints \in SUBSET Endpoints
  OBVIOUS
<1>2. delivered' = [e \in Endpoints |-> IF e \in Recipients(d) \cap Endpoints
                                        THEN Append(delivered[e], d) ELSE delivered[e]]
  BY DEF Arrive, Deliver
<1>3. UNCHANGED <<ioService, rules, handled, promised, wire>>
  BY DEF Arrive, routingVars, receiverVars, senderVars
<1>. QED  BY <1>2, <1>3 DEF Abstract!Accept

\* endReceive forwards the first datagram that the relay has not forwarded.
LEMMA EndReceiveImplementsRelay ==
  ASSUME RouterInv, NEW e \in Endpoints, EndReceive(e)
  PROVE  Abstract!Forward(e)
<1> DEFINE d == buffer[e]
<1>1. /\ ioService = "running" /\ receiver[e] = "received"
      /\ handled' = [handled EXCEPT ![e] = Append(@, d)]
      /\ promised' = [s \in InterfaceAddresses |->
                        promised[s] \o (IF d.length > 0 THEN Copies(e, d, s) ELSE << >>)]
      /\ UNCHANGED <<ioService, wire, delivered, rules>>
  BY DEF EndReceive, Received, Send, socketVars, routingVars
<1>2. /\ RouterTypes /\ OneForwarderInv(e)
  BY DEF RouterInv, ForwarderInv
<1>3. /\ d \in Datagram /\ handled[e] \in Seq(Datagram) /\ socketBuffer[e] \in Seq(Datagram)
      /\ delivered[e] = (handled[e] \o <<d>>) \o socketBuffer[e]
  BY <1>1, <1>2 DEF OneForwarderInv, RouterTypes, InBuffer
<1>4. Len(handled[e]) < Len(delivered[e]) /\ delivered[e][Len(handled[e]) + 1] = d
  <2> HIDE DEF d
  <2>1. /\ Len(handled[e]) < Len((handled[e] \o <<d>>) \o socketBuffer[e])
        /\ ((handled[e] \o <<d>>) \o socketBuffer[e])[Len(handled[e]) + 1] = d
    BY <1>3, DatagramInHand
  <2>. QED  BY <1>3, <2>1
<1>5. \A s \in InterfaceAddresses :
        (IF d.length > 0 THEN Copies(e, d, s) ELSE << >>) = Abstract!Promise(e, d, s)
  BY CopiesArePromise
<1> HIDE DEF d
<1>6. promised' = [s \in InterfaceAddresses |-> promised[s] \o Abstract!Promise(e, d, s)]
  BY <1>1, <1>5
<1>. QED  BY <1>1, <1>4, <1>6 DEF Abstract!Forward

\* The kernel's send emits the first item that the relay has not emitted.
LEMMA TransmitImplementsRelay ==
  ASSUME RouterInv, NEW s \in InterfaceAddresses, Transmit(s)
  PROVE  Abstract!Emit(s)
<1>1. /\ ioService = "running" /\ sending[s] = "pending"
      /\ wire' = [wire EXCEPT ![s] = Append(@, lent[s])]
      /\ UNCHANGED <<ioService, rules, delivered, handled, promised>>
  BY DEF Transmit, KernelSend, EnableLoopback, socketVars, receiverVars, routingVars
<1>2. SenderTypeOK /\ OneSenderInv(s)
  BY SenderInvPointwise DEF RouterInv
<1>3. /\ wire[s] \in Seq(QueueItem) /\ queue[s] \in Seq(QueueItem) /\ queue[s] # << >>
      /\ promised[s] = wire[s] \o queue[s] /\ lent[s] = Head(queue[s])
  BY <1>1, <1>2, SenderTypes DEF OneSenderInv, Unsent
<1>4. Len(wire[s]) < Len(promised[s]) /\ promised[s][Len(wire[s]) + 1] = lent[s]
  BY <1>3, NextItem
<1>. QED  BY <1>1, <1>4 DEF Abstract!Emit

\* Every step of the router is a step of the relay, or a stutter.
LEMMA NextImplementsRelay ==
  RouterInv /\ [Next]_vars => [Abstract!Next]_Abstract!relayVars
<1> SUFFICES ASSUME RouterInv, [Next]_vars PROVE [Abstract!Next]_Abstract!relayVars
  OBVIOUS
<1>1. CASE Configure
  <2>1. ~started
    BY <1>1 DEF Configure
  <2>2. ASSUME NEW r \in CandidateRules, AddRule(r.endpoint, r.from, r.networks, r.to)
        PROVE  Abstract!Next
    <3>1. /\ r.endpoint \in Endpoints /\ r.from \in InterfaceAddresses
          /\ r.networks \in Seq(SUBSET Addresses) /\ r.to \in InterfaceAddresses
      BY TrafficAssumption
    <3>. QED  BY <2>1, <2>2, <3>1, AddRuleImplementsRelay DEF Abstract!Next
  <2>3. CASE Start
    BY <2>3, StutterImplementsRelay DEF Start, socketVars, senderVars
  <2>. QED  BY <1>1, <2>2, <2>3 DEF Configure
<1>2. CASE Arrival
  BY <1>2, TrafficAssumption, ArriveImplementsRelay DEF Arrival, Abstract!Next
<1>3. CASE Forwarding
  <2>1. ASSUME NEW e \in Endpoints, KernelReceive(e)
        PROVE  UNCHANGED Abstract!relayVars
    BY <2>1, StutterImplementsRelay DEF KernelReceive, routingVars, senderVars
  <2>2. ASSUME NEW e \in Endpoints, EndReceive(e) PROVE Abstract!Next
    BY <2>2, EndReceiveImplementsRelay DEF Abstract!Next
  <2>3. ASSUME NEW e \in Endpoints, EndReceiveThrows(e) PROVE Abstract!Next
    BY <2>3 DEF EndReceiveThrows, Abstract!Next, Abstract!Die, receiverVars, socketVars, routingVars
  <2>4. ASSUME NEW s \in InterfaceAddresses, Transmit(s) PROVE Abstract!Next
    BY <2>4, TransmitImplementsRelay DEF Abstract!Next
  <2>5. ASSUME NEW s \in InterfaceAddresses, Sent(s) PROVE UNCHANGED Abstract!relayVars
    BY <2>5, StutterImplementsRelay DEF Sent, EndSend, receiverVars, socketVars, routingVars
  <2>6. ASSUME NEW s \in InterfaceAddresses, SentThrows(s) PROVE Abstract!Next
    BY <2>6 DEF SentThrows, EndSendThrows, Abstract!Next, Abstract!Die,
                receiverVars, socketVars, routingVars
  <2>. QED  BY <1>3, <2>1, <2>2, <2>3, <2>4, <2>5, <2>6 DEF Forwarding
<1>4. CASE ForwardingFault
  <2>1. ASSUME NEW e \in Endpoints, KernelReceiveFails(e) PROVE UNCHANGED Abstract!relayVars
    BY <2>1, StutterImplementsRelay DEF KernelReceiveFails, socketVars, routingVars, senderVars
  <2>2. ASSUME NEW s \in InterfaceAddresses, TransmitFails(s) PROVE UNCHANGED Abstract!relayVars
    BY <2>2, StutterImplementsRelay
       DEF TransmitFails, KernelSendFails, receiverVars, socketVars, routingVars
  <2>. QED  BY <1>4, <2>1, <2>2 DEF ForwardingFault
<1>5. CASE UNCHANGED vars
  BY <1>5, StutterImplementsRelay DEF vars, senderVars, receiverVars, socketVars, routingVars
<1>. QED  BY <1>1, <1>2, <1>3, <1>4, <1>5 DEF Next

\* The data plane implements the relay: what sockets accepted is forwarded in
\* order, once per matching rule, and emitted in order (forwarder.cc, sender.cc).
THEOREM RouterImplementsRelay == Spec => ImplementsRelay
<1>1. Init => Abstract!Init
  BY InitImplementsRelay
<1>2. RouterInv /\ [Next]_vars => [Abstract!Next]_Abstract!relayVars
  BY NextImplementsRelay
<1>3. Spec => []RouterInv
  BY RouterInvariant
<1>4. Spec => Init /\ [][Next]_vars
  BY PTL DEF Spec
<1>. QED  BY <1>1, <1>2, <1>3, <1>4, PTL DEF ImplementsRelay, Abstract!Spec
=============================================================================
