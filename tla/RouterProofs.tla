---------------------------- MODULE RouterProofs ----------------------------
(***************************************************************************)
(* For every set of interfaces, endpoints, rules, datagrams and networks,  *)
(* a router keeps its type invariant, is never deaf, handles each datagram *)
(* once and in order, keeps the order of each service, and hears none of   *)
(* its own output.                                                         *)
(*                                                                         *)
(* The inductive invariant RouterInv joins these with SenderInv and with   *)
(* what else they need: a completed receive left a datagram in the buffer, *)
(* nothing is handled before start, and what was delivered is not fresh.   *)
(***************************************************************************)
EXTENDS Router, SenderProofs, FiniteSetTheorems

\* What TypeOK says besides SenderTypeOK.
RouterTypes ==
  /\ forwarders \subseteq Endpoints
  /\ senders \subseteq InterfaceAddresses
  /\ rules \in [Endpoints -> Seq(Rule)]
  /\ joined \in [Endpoints -> SUBSET InterfaceAddresses]
  /\ started \in BOOLEAN
  /\ receiver \in [Endpoints -> ReceiveStates]
  /\ buffer \in [Endpoints -> Datagram \cup {NoDatagram}]
  /\ socketBuffer \in [Endpoints -> Seq(Datagram)]
  /\ fresh \subseteq Payloads
  /\ delivered \in [Endpoints -> Seq(Datagram)]
  /\ handled \in [Endpoints -> Seq(Datagram)]

LEMMA TypeOKSplit == TypeOK <=> SenderTypeOK /\ RouterTypes
BY DEF TypeOK, RouterTypes

\* The invariant of one forwarder: NeverDeaf, HandledInOrder, and a buffer that
\* holds a datagram when there is one to handle; before start nothing was handled.
OneForwarderInv(e) ==
  /\ receiver[e] # "idle" <=> started /\ e \in forwarders
  /\ receiver[e] = "received" => buffer[e] \in Datagram
  /\ ~started => handled[e] = << >>
  /\ delivered[e] = handled[e] \o InBuffer(e) \o socketBuffer[e]

\* AppendToBoth, for queues of datagrams.
LEMMA DatagramsAppended ==
  \A log, q \in Seq(Datagram) : \A d \in Datagram : Append(log \o q, d) = log \o Append(q, d)
<1> DEFINE P(S) == \A log, q \in Seq(S) : \A d \in S : Append(log \o q, d) = log \o Append(q, d)
<1>1. \A S : P(S)
  BY AppendToBoth
<1> HIDE DEF P
<1>2. P(Datagram)
  BY <1>1
<1>. QED  BY <1>2 DEF P

\* What waits in a buffer is a sequence of at most one datagram.
LEMMA InBufferType ==
  ASSUME NEW e \in Endpoints, OneForwarderInv(e)
  PROVE  InBuffer(e) \in Seq(Datagram)
<1>1. CASE receiver[e] = "received"
  <2>1. buffer[e] \in Datagram
    BY <1>1 DEF OneForwarderInv
  <2>. QED  BY <1>1, <2>1 DEF InBuffer
<1>2. CASE receiver[e] # "received"
  BY <1>2, EmptySeq DEF InBuffer
<1>. QED  BY <1>1, <1>2

\* What was delivered was on the network, and was delivered once.
OneHistoryInv(e) ==
  /\ \A i \in DOMAIN delivered[e] : delivered[e][i].payload \notin fresh
  /\ \A i, j \in DOMAIN delivered[e] :
       delivered[e][i].payload = delivered[e][j].payload => i = j

\* The part of the invariant that concerns forwarders and rules.
ForwarderInv ==
  /\ RouterTypes
  /\ \A e \in Endpoints : OneForwarderInv(e) /\ OneHistoryInv(e)
  /\ OwnedSenders

\* The inductive invariant of the router.
RouterInv == SenderInv /\ ForwarderInv

\* The invariant implies what is to be shown.
LEMMA RouterInvImplies ==
  RouterInv => TypeOK /\ NeverDeaf /\ HandledInOrder /\ NoEcho /\ OwnedSenders
                      /\ LentBufferIsFront /\ SentInOrder
BY TypeOKSplit
   DEF RouterInv, SenderInv, ForwarderInv, OneForwarderInv, OneHistoryInv,
       NeverDeaf, HandledInOrder, NoEcho

LEMMA ForwarderInitInv ==
  RouterInit /\ fresh = Payloads => RouterInv
<1> SUFFICES ASSUME RouterInit, fresh = Payloads PROVE RouterInv
  OBVIOUS
<1>1. SenderInv
  BY SenderInitInv DEF RouterInit
<1>2. RouterTypes
  BY EmptySeq DEF RouterInit, RouterTypes, ReceiveStates
<1>3. << >> \o << >> \o << >> = << >>
  BY EmptySeq, ConcatEmptySeq
<1>4. \A e \in Endpoints : OneForwarderInv(e) /\ OneHistoryInv(e)
  BY <1>3 DEF RouterInit, OneForwarderInv, OneHistoryInv, InBuffer
<1>5. OwnedSenders
  BY DEF RouterInit, SenderInit, OwnedSenders
<1>. QED  BY <1>1, <1>2, <1>4, <1>5 DEF RouterInv, ForwarderInv

\* Steps that change neither forwarders, nor rules, nor promises.
LEMMA ForwardersUnchanged ==
  ASSUME ForwarderInv, UNCHANGED <<routingVars, receiverVars, socketVars, fresh, promised>>
  PROVE  ForwarderInv'
<1>1. RouterTypes'
  BY DEF ForwarderInv, RouterTypes, routingVars, receiverVars, socketVars
<1>2. \A e \in Endpoints : OneForwarderInv(e)' /\ OneHistoryInv(e)'
  BY DEF ForwarderInv, OneForwarderInv, OneHistoryInv, InBuffer,
         routingVars, receiverVars, socketVars
<1>3. OwnedSenders'
  BY DEF ForwarderInv, OwnedSenders, routingVars
<1>. QED  BY <1>1, <1>2, <1>3 DEF ForwarderInv

\* The senders' own steps.
LEMMA SenderStepsKeepInv ==
  ASSUME RouterInv, NEW s \in InterfaceAddresses,
         Transmit(s) \/ TransmitFails(s) \/ Sent(s) \/ SentThrows(s)
  PROVE  RouterInv'
<1>1. SenderInv'
  <2>1. CASE Transmit(s)
    BY <2>1, KernelSendKeepsInv DEF RouterInv, Transmit
  <2>2. CASE TransmitFails(s)
    BY <2>2, KernelSendFailsKeepsInv DEF RouterInv, TransmitFails
  <2>3. CASE Sent(s)
    BY <2>3, EndSendKeepsInv DEF RouterInv, Sent
  <2>4. CASE SentThrows(s)
    BY <2>4, SendersUnchangedKeepsInv DEF RouterInv, SentThrows, EndSendThrows, LoopStates
  <2>. QED  BY <2>1, <2>2, <2>3, <2>4
<1>2. UNCHANGED <<routingVars, receiverVars, socketVars, fresh, promised>>
  BY DEF Transmit, EnableLoopback, TransmitFails, Sent, SentThrows, KernelSend,
         KernelSendFails, EndSend, EndSendThrows
<1>. QED  BY <1>1, <1>2, ForwardersUnchanged DEF RouterInv

\* A receive that failed ends the loop.
LEMMA EndReceiveThrowsKeepsInv ==
  ASSUME RouterInv, NEW e \in Endpoints, EndReceiveThrows(e)
  PROVE  RouterInv'
<1>1. SenderInv'
  BY SendersUnchangedKeepsInv DEF RouterInv, EndReceiveThrows, LoopStates
<1>2. ForwarderInv'
  BY ForwardersUnchanged DEF RouterInv, EndReceiveThrows
<1>. QED  BY <1>1, <1>2 DEF RouterInv

\* Nothing happens.
LEMMA StutteringKeepsInv ==
  ASSUME RouterInv, UNCHANGED vars
  PROVE  RouterInv'
<1>1. SenderInv'
  BY SendersUnchangedKeepsInv DEF RouterInv, SenderInv, SenderTypeOK, vars, senderVars
<1>2. ForwarderInv'
  BY ForwardersUnchanged DEF RouterInv, vars, senderVars
<1>. QED  BY <1>1, <1>2 DEF RouterInv

\* Router::addRule: the rules that are added forward to a sender that exists.
LEMMA AddRuleKeepsInv ==
  ASSUME RouterInv, ~started, NEW e \in Endpoints, NEW from \in InterfaceAddresses,
         NEW networks \in Seq(SUBSET Addresses), NEW to \in InterfaceAddresses,
         AddRule(e, from, networks, to)
  PROVE  RouterInv'
<1> DEFINE added == [k \in DOMAIN networks |-> [network |-> networks[k], sender |-> to]]
<1>1. /\ forwarders' = forwarders \cup {e}
      /\ joined' = [joined EXCEPT ![e] = @ \cup {from}]
      /\ senders' = senders \cup {to}
      /\ rules' = [rules EXCEPT ![e] = @ \o added]
      /\ UNCHANGED <<started, receiverVars, socketVars, fresh, senderVars>>
  BY DEF AddRule, SendersWith
<1>2. added \in Seq(Rule) /\ \A k \in DOMAIN added : added[k].sender = to
  <2>1. \A k \in DOMAIN networks : networks[k] \in SUBSET Addresses
    BY ElementOfSeq, LenProperties
  <2>2. DOMAIN networks = 1..Len(networks) /\ Len(networks) \in Nat
    BY LenProperties
  <2>. QED  BY <2>1, <2>2 DEF Rule
<1> HIDE DEF added
<1>3. RouterTypes /\ rules[e] \in Seq(Rule)
  BY DEF RouterInv, ForwarderInv, RouterTypes
<1>4. /\ rules'[e] = rules[e] \o added /\ rules'[e] \in Seq(Rule)
      /\ \A f \in Endpoints \ {e} : rules'[f] = rules[f]
  BY <1>1, <1>2, <1>3, ConcatProperties DEF RouterTypes
<1>5. SenderInv'
  BY <1>1, SendersUnchangedKeepsInv DEF RouterInv, SenderInv, SenderTypeOK, senderVars
<1>6. RouterTypes'
  BY <1>1, <1>3, <1>4 DEF RouterTypes, receiverVars, socketVars
<1>7. ASSUME NEW f \in Endpoints PROVE OneForwarderInv(f)' /\ OneHistoryInv(f)'
  BY <1>1 DEF RouterInv, ForwarderInv, OneForwarderInv, OneHistoryInv, InBuffer,
              receiverVars, socketVars
<1>8. OwnedSenders'
  <2>1. ASSUME NEW f \in Endpoints, NEW k \in DOMAIN rules'[f]
        PROVE  rules'[f][k].sender \in senders'
    <3>1. CASE f # e
      BY <1>1, <1>4, <2>1, <3>1 DEF RouterInv, ForwarderInv, OwnedSenders
    <3>2. CASE f = e
      <4>1. k \in 1..Len(rules[e]) + Len(added)
        BY <1>2, <1>3, <1>4, <2>1, <3>2, ConcatProperties, LenProperties
      <4>2. rules'[e][k] = IF k <= Len(rules[e]) THEN rules[e][k] ELSE added[k - Len(rules[e])]
        BY <1>2, <1>3, <1>4, <4>1, ConcatProperties
      <4>3. Len(rules[e]) \in Nat /\ DOMAIN rules[e] = 1..Len(rules[e])
            /\ Len(added) \in Nat /\ DOMAIN added = 1..Len(added)
        BY <1>2, <1>3, LenProperties
      <4>4. CASE k <= Len(rules[e])
        BY <1>1, <3>2, <4>1, <4>2, <4>3, <4>4 DEF RouterInv, ForwarderInv, OwnedSenders
      <4>5. CASE ~(k <= Len(rules[e]))
        BY <1>1, <1>2, <3>2, <4>1, <4>2, <4>3, <4>5
      <4>. QED  BY <4>4, <4>5
    <3>. QED  BY <3>1, <3>2
  <2>2. ASSUME NEW s \in InterfaceAddresses, promised'[s] # << >> PROVE s \in senders'
    BY <1>1, <2>2 DEF RouterInv, ForwarderInv, OwnedSenders, senderVars
  <2>. QED  BY <2>1, <2>2 DEF OwnedSenders
<1>. QED  BY <1>5, <1>6, <1>7, <1>8 DEF RouterInv, ForwarderInv

\* Router::start: before it, no receive operation is outstanding (NeverDeaf).
LEMMA StartKeepsInv ==
  ASSUME RouterInv, ~started, Start
  PROVE  RouterInv'
<1>1. RouterTypes /\ \A e \in Endpoints : OneForwarderInv(e) /\ OneHistoryInv(e)
  BY DEF RouterInv, ForwarderInv
<1>2. /\ started' = TRUE
      /\ receiver' = [e \in Endpoints |-> IF e \in forwarders THEN "receiving" ELSE receiver[e]]
      /\ UNCHANGED <<forwarders, senders, rules, joined, buffer, handled, socketVars, fresh, senderVars>>
  BY DEF Start
<1>3. SenderInv'
  BY <1>2, SendersUnchangedKeepsInv DEF RouterInv, SenderInv, SenderTypeOK, senderVars
<1>4. RouterTypes'
  BY <1>1, <1>2 DEF RouterTypes, ReceiveStates, socketVars
<1>5. ASSUME NEW e \in Endpoints PROVE OneForwarderInv(e)' /\ OneHistoryInv(e)'
  <2>1. receiver[e] = "idle" /\ InBuffer(e) = << >>
    BY <1>1 DEF OneForwarderInv, InBuffer
  <2>2. receiver'[e] = (IF e \in forwarders THEN "receiving" ELSE "idle") /\ InBuffer(e)' = << >>
    BY <1>2, <2>1 DEF InBuffer
  <2>. QED  BY <1>1, <1>2, <2>1, <2>2 DEF OneForwarderInv, OneHistoryInv, socketVars
<1>6. OwnedSenders'
  BY <1>2 DEF RouterInv, ForwarderInv, OwnedSenders, senderVars
<1>. QED  BY <1>3, <1>4, <1>5, <1>6 DEF RouterInv, ForwarderInv

\* The kernel appends an accepted datagram to a socket's queue and to the history.
LEMMA ArriveKeepsInv ==
  ASSUME RouterInv, NEW d \in Datagram, Arrive(d)
  PROVE  RouterInv'
<1>1. RouterTypes /\ \A e \in Endpoints : OneForwarderInv(e) /\ OneHistoryInv(e)
  BY DEF RouterInv, ForwarderInv
<1>2. d.payload \in fresh /\ fresh' = fresh \ {d.payload}
      /\ UNCHANGED <<routingVars, receiverVars, senderVars>>
  BY DEF Arrive
<1>3. /\ socketBuffer' = [e \in Endpoints |-> IF e \in Recipients(d)
                                              THEN Append(socketBuffer[e], d) ELSE socketBuffer[e]]
      /\ delivered' = [e \in Endpoints |-> IF e \in Recipients(d)
                                           THEN Append(delivered[e], d) ELSE delivered[e]]
  BY DEF Arrive, Deliver
<1>4. SenderInv'
  BY <1>2, SendersUnchangedKeepsInv DEF RouterInv, SenderInv, SenderTypeOK, senderVars
<1>5. RouterTypes'
  <2>1. \A q \in Seq(Datagram) : Append(q, d) \in Seq(Datagram)
    BY AppendProperties
  <2>. QED  BY <1>1, <1>2, <1>3, <2>1 DEF RouterTypes, routingVars, receiverVars
<1>6. ASSUME NEW e \in Endpoints PROVE OneForwarderInv(e)' /\ OneHistoryInv(e)'
  <2>1. /\ handled[e] \in Seq(Datagram) /\ socketBuffer[e] \in Seq(Datagram)
        /\ delivered[e] \in Seq(Datagram)
    BY <1>1 DEF RouterTypes
  <2>2. CASE e \notin Recipients(d)
    BY <1>1, <1>2, <1>3, <2>2 DEF OneForwarderInv, OneHistoryInv, InBuffer, routingVars, receiverVars
  <2>3. CASE e \in Recipients(d)
    <3>1. socketBuffer'[e] = Append(socketBuffer[e], d) /\ delivered'[e] = Append(delivered[e], d)
      BY <1>3, <2>3
    <3>2. InBuffer(e) \in Seq(Datagram) /\ InBuffer(e)' = InBuffer(e)
      BY <1>1, <1>2, InBufferType DEF InBuffer, receiverVars
    <3>3. delivered[e] = (handled[e] \o InBuffer(e)) \o socketBuffer[e]
      BY <1>1 DEF OneForwarderInv
    <3>4. handled[e] \o InBuffer(e) \in Seq(Datagram)
      BY <2>1, <3>2, ConcatProperties
    <3>5. Append(delivered[e], d) = (handled[e] \o InBuffer(e)) \o Append(socketBuffer[e], d)
      <4> DEFINE taken == handled[e] \o InBuffer(e)
      <4>1. taken \in Seq(Datagram) /\ delivered[e] = taken \o socketBuffer[e]
        BY <3>3, <3>4
      <4> HIDE DEF taken
      <4>2. Append(taken \o socketBuffer[e], d) = taken \o Append(socketBuffer[e], d)
        BY <2>1, <4>1, DatagramsAppended
      <4>3. Append(delivered[e], d) = taken \o Append(socketBuffer[e], d)
        BY <4>1, <4>2
      <4>. QED  BY <4>3 DEF taken
    <3>6. OneForwarderInv(e)'
      BY <1>1, <1>2, <3>1, <3>2, <3>5 DEF OneForwarderInv, routingVars, receiverVars
    <3>7. /\ DOMAIN delivered[e] = 1..Len(delivered[e]) /\ Len(delivered[e]) \in Nat
          /\ DOMAIN delivered'[e] = 1..(Len(delivered[e]) + 1)
          /\ \A i \in 1..Len(delivered[e]) : delivered'[e][i] = delivered[e][i]
          /\ delivered'[e][Len(delivered[e]) + 1] = d
      BY <2>1, <3>1, AppendProperties, LenProperties
    <3>8. ASSUME NEW i \in DOMAIN delivered'[e]
          PROVE  \/ i \in DOMAIN delivered[e] /\ delivered'[e][i] = delivered[e][i]
                 \/ i = Len(delivered[e]) + 1 /\ delivered'[e][i] = d
      BY <3>7
    <3>9. \A i \in DOMAIN delivered[e] : delivered[e][i].payload # d.payload
      BY <1>1, <1>2 DEF OneHistoryInv
    <3>10. OneHistoryInv(e)'
      <4>1. \A i \in DOMAIN delivered'[e] : delivered'[e][i].payload \notin fresh'
        BY <1>1, <1>2, <3>8 DEF OneHistoryInv
      <4>2. ASSUME NEW i \in DOMAIN delivered'[e], NEW j \in DOMAIN delivered'[e],
                   delivered'[e][i].payload = delivered'[e][j].payload
            PROVE  i = j
        BY <1>1, <3>8, <3>9, <4>2 DEF OneHistoryInv
      <4>. QED  BY <4>1, <4>2 DEF OneHistoryInv
    <3>. QED  BY <3>6, <3>10
  <2>. QED  BY <2>2, <2>3
<1>7. OwnedSenders'
  BY <1>2 DEF RouterInv, ForwarderInv, OwnedSenders, routingVars, senderVars
<1>. QED  BY <1>4, <1>5, <1>6, <1>7 DEF RouterInv, ForwarderInv

\* TakeHead and PutDown, for queues of datagrams.
LEMMA DatagramTaken ==
  \A log, q \in Seq(Datagram) :
    q # << >> => (log \o <<Head(q)>>) \o Tail(q) = (log \o << >>) \o q
<1> DEFINE P(S) == \A log, q \in Seq(S) :
                     q # << >> => (log \o <<Head(q)>>) \o Tail(q) = (log \o << >>) \o q
<1>1. \A S : P(S)
  BY TakeHead
<1> HIDE DEF P
<1>2. P(Datagram)
  BY <1>1
<1>. QED  BY <1>2 DEF P

LEMMA DatagramPutDown ==
  \A log \in Seq(Datagram) : \A d \in Datagram :
    Append(log, d) \in Seq(Datagram) /\ Append(log, d) \o << >> = log \o <<d>>
<1> DEFINE P(S) == \A log \in Seq(S) : \A d \in S :
                     Append(log, d) \in Seq(S) /\ Append(log, d) \o << >> = log \o <<d>>
<1>1. \A S : P(S)
  BY PutDown
<1> HIDE DEF P
<1>2. P(Datagram)
  BY <1>1
<1>. QED  BY <1>2 DEF P

\* The kernel moves the first waiting datagram into the forwarder's buffer.
LEMMA KernelReceiveKeepsInv ==
  ASSUME RouterInv, NEW e \in Endpoints, KernelReceive(e)
  PROVE  RouterInv'
<1>1. RouterTypes /\ \A f \in Endpoints : OneForwarderInv(f) /\ OneHistoryInv(f)
  BY DEF RouterInv, ForwarderInv
<1>2. /\ receiver[e] = "receiving" /\ socketBuffer[e] # << >>
      /\ receiver' = [receiver EXCEPT ![e] = "received"]
      /\ buffer' = [buffer EXCEPT ![e] = Head(socketBuffer[e])]
      /\ socketBuffer' = [socketBuffer EXCEPT ![e] = Tail(@)]
      /\ UNCHANGED <<handled, delivered, fresh, routingVars, senderVars>>
  BY DEF KernelReceive
<1>3. /\ handled[e] \in Seq(Datagram) /\ socketBuffer[e] \in Seq(Datagram)
      /\ Head(socketBuffer[e]) \in Datagram /\ Tail(socketBuffer[e]) \in Seq(Datagram)
  BY <1>1, <1>2, HeadThenTail DEF RouterTypes
<1>4. SenderInv'
  BY <1>2, SendersUnchangedKeepsInv DEF RouterInv, SenderInv, SenderTypeOK, senderVars
<1>5. RouterTypes'
  BY <1>1, <1>2, <1>3 DEF RouterTypes, ReceiveStates, routingVars
<1>6. /\ receiver'[e] = "received" /\ buffer'[e] = Head(socketBuffer[e])
      /\ socketBuffer'[e] = Tail(socketBuffer[e])
  BY <1>1, <1>2 DEF RouterTypes
<1>7. OneForwarderInv(e)'
  <2>1. delivered[e] = (handled[e] \o << >>) \o socketBuffer[e]
    BY <1>1, <1>2 DEF OneForwarderInv, InBuffer
  <2>2. delivered[e] = (handled[e] \o <<Head(socketBuffer[e])>>) \o Tail(socketBuffer[e])
    BY <1>2, <1>3, <2>1, DatagramTaken
  <2>3. InBuffer(e)' = <<Head(socketBuffer[e])>>
    BY <1>6 DEF InBuffer
  <2>4. started /\ e \in forwarders
    BY <1>1, <1>2 DEF OneForwarderInv
  <2>. QED  BY <1>2, <1>3, <1>6, <2>2, <2>3, <2>4 DEF OneForwarderInv, routingVars
<1>8. ASSUME NEW f \in Endpoints \ {e} PROVE OneForwarderInv(f)'
  BY <1>1, <1>2 DEF OneForwarderInv, InBuffer, routingVars, RouterTypes
<1>9. \A f \in Endpoints : OneHistoryInv(f)'
  BY <1>1, <1>2 DEF OneHistoryInv
<1>10. OwnedSenders'
  BY <1>2 DEF RouterInv, ForwarderInv, OwnedSenders, routingVars, senderVars
<1>. QED  BY <1>4, <1>5, <1>7, <1>8, <1>9, <1>10 DEF RouterInv, ForwarderInv

LEMMA KernelReceiveFailsKeepsInv ==
  ASSUME RouterInv, NEW e \in Endpoints, KernelReceiveFails(e)
  PROVE  RouterInv'
<1>1. RouterTypes /\ \A f \in Endpoints : OneForwarderInv(f) /\ OneHistoryInv(f)
  BY DEF RouterInv, ForwarderInv
<1>2. /\ receiver[e] = "receiving"
      /\ receiver' = [receiver EXCEPT ![e] = "failed"]
      /\ UNCHANGED <<buffer, handled, socketVars, fresh, routingVars, senderVars>>
  BY DEF KernelReceiveFails
<1>3. SenderInv'
  BY <1>2, SendersUnchangedKeepsInv DEF RouterInv, SenderInv, SenderTypeOK, senderVars
<1>4. RouterTypes'
  BY <1>1, <1>2 DEF RouterTypes, ReceiveStates, routingVars, socketVars
<1>5. ASSUME NEW f \in Endpoints PROVE OneForwarderInv(f)' /\ OneHistoryInv(f)'
  BY <1>1, <1>2 DEF OneForwarderInv, OneHistoryInv, InBuffer, routingVars, socketVars, RouterTypes
<1>6. OwnedSenders'
  BY <1>2 DEF RouterInv, ForwarderInv, OwnedSenders, routingVars, senderVars
<1>. QED  BY <1>3, <1>4, <1>5, <1>6 DEF RouterInv, ForwarderInv

\* What handlePacket gives to a sender is a sequence of items, and it is empty
\* unless a rule names that sender.
LEMMA CopiesProperties ==
  ASSUME RouterTypes, NEW e \in Endpoints, NEW d \in Datagram, NEW s \in InterfaceAddresses
  PROVE  /\ Copies(e, d, s) \in Seq(QueueItem)
         /\ Copies(e, d, s) # << >> => \E k \in DOMAIN rules[e] : rules[e][k].sender = s
<1>1. DOMAIN rules[e] = 1..Len(rules[e]) /\ Len(rules[e]) \in Nat
  BY LenProperties DEF RouterTypes
<1>2. IsFiniteSet(1..Len(rules[e]))
  <2>1. 1 \in Int /\ Len(rules[e]) \in Int
    BY <1>1
  <2>. QED  BY <2>1, FS_Interval, Zenon
<1>3. IsFiniteSet(Matching(e, d, s))
  BY <1>1, <1>2, FS_Subset DEF Matching
<1>4. Cardinality(Matching(e, d, s)) \in Nat
  BY <1>3, FS_CardinalityType
<1>5. [payload |-> d.payload, endpoint |-> e] \in QueueItem
  BY DEF Datagram, QueueItem
<1>6. Copies(e, d, s) \in Seq(QueueItem)
  BY <1>4, <1>5 DEF Copies
<1>7. Matching(e, d, s) = {} => Copies(e, d, s) = << >>
  BY FS_EmptySet DEF Copies
<1>8. Matching(e, d, s) # {} => \E k \in DOMAIN rules[e] : rules[e][k].sender = s
  BY DEF Matching
<1>. QED  BY <1>6, <1>7, <1>8

\* A copy is made by a rule of the endpoint that accepts the source.
LEMMA CopyHasRule ==
  ASSUME RouterTypes, NEW e \in Endpoints, NEW d \in Datagram, NEW s \in InterfaceAddresses,
         NEW n \in DOMAIN Copies(e, d, s)
  PROVE  /\ Copies(e, d, s)[n].payload = d.payload /\ Copies(e, d, s)[n].endpoint = e
         /\ \E k \in DOMAIN rules[e] : rules[e][k].sender = s /\ d.source \in rules[e][k].network
<1>1. DOMAIN Copies(e, d, s) = 1..Cardinality(Matching(e, d, s))
  BY DEF Copies
<1>2. Copies(e, d, s)[n] = [payload |-> d.payload, endpoint |-> e]
  BY <1>1 DEF Copies
<1>3. Matching(e, d, s) # {}
  <2>1. Matching(e, d, s) = {} => Cardinality(Matching(e, d, s)) = 0
    BY FS_EmptySet
  <2>2. Cardinality(Matching(e, d, s)) # 0
    BY <1>1
  <2>. QED  BY <2>1, <2>2
<1>. QED  BY <1>2, <1>3 DEF Matching

\* endReceive passes on the datagram in the buffer and begins to receive again.
LEMMA EndReceiveKeepsInv ==
  ASSUME RouterInv, NEW e \in Endpoints, EndReceive(e)
  PROVE  RouterInv'
<1> DEFINE d == buffer[e]
           copies == [s \in InterfaceAddresses |-> IF d.length > 0 THEN Copies(e, d, s) ELSE << >>]
<1>1. RouterTypes /\ \A f \in Endpoints : OneForwarderInv(f) /\ OneHistoryInv(f)
  BY DEF RouterInv, ForwarderInv
<1>2. /\ receiver[e] = "received" /\ Send(copies)
      /\ handled' = [handled EXCEPT ![e] = Append(@, d)]
      /\ receiver' = [receiver EXCEPT ![e] = "receiving"]
      /\ UNCHANGED <<buffer, socketVars, fresh, routingVars>>
  BY DEF EndReceive, Received, Rearmed
<1>3. d \in Datagram /\ handled[e] \in Seq(Datagram)
  BY <1>1, <1>2 DEF OneForwarderInv, RouterTypes
<1>4. ASSUME NEW s \in InterfaceAddresses
      PROVE  /\ copies[s] \in Seq(QueueItem)
             /\ copies[s] # << >> => \E k \in DOMAIN rules[e] : rules[e][k].sender = s
  BY <1>1, <1>3, CopiesProperties, EmptySeq
<1>5. copies \in [InterfaceAddresses -> Seq(QueueItem)]
  BY <1>4
<1>6. promised' = [s \in InterfaceAddresses |-> promised[s] \o copies[s]]
  BY <1>2 DEF Send
<1> HIDE DEF copies
<1>7. SenderInv'
  BY <1>2, <1>5, SendKeepsInv DEF RouterInv
<1>8. Append(handled[e], d) \in Seq(Datagram) /\ Append(handled[e], d) \o << >> = handled[e] \o <<d>>
  BY <1>3, DatagramPutDown
<1>9. RouterTypes'
  BY <1>1, <1>2, <1>8 DEF RouterTypes, ReceiveStates, routingVars, socketVars
<1>10. OneForwarderInv(e)'
  <2>1. receiver'[e] = "receiving" /\ handled'[e] = Append(handled[e], d)
    BY <1>1, <1>2 DEF RouterTypes
  <2>2. delivered[e] = (handled[e] \o <<d>>) \o socketBuffer[e]
    BY <1>1, <1>2 DEF OneForwarderInv, InBuffer
  <2>3. InBuffer(e)' = << >> /\ started /\ e \in forwarders
    BY <1>1, <1>2, <2>1 DEF InBuffer, OneForwarderInv
  <2>4. delivered[e] = (Append(handled[e], d) \o << >>) \o socketBuffer[e]
    BY <1>8, <2>2
  <2>. QED  BY <1>2, <2>1, <2>3, <2>4 DEF OneForwarderInv, routingVars, socketVars
<1>11. ASSUME NEW f \in Endpoints \ {e} PROVE OneForwarderInv(f)'
  BY <1>1, <1>2 DEF OneForwarderInv, InBuffer, routingVars, socketVars, RouterTypes
<1>12. \A f \in Endpoints : OneHistoryInv(f)'
  BY <1>1, <1>2 DEF OneHistoryInv, socketVars
<1>13. OwnedSenders'
  <2>1. OwnedSenders /\ rules' = rules /\ senders' = senders
    BY <1>2 DEF RouterInv, ForwarderInv, routingVars
  <2>2. ASSUME NEW s \in InterfaceAddresses, promised'[s] # << >> PROVE s \in senders
    <3>1. promised[s] \in Seq(QueueItem) /\ promised'[s] = promised[s] \o copies[s]
      BY <1>6, SenderTypes DEF RouterInv, SenderInv
    <3>2. promised[s] # << >> \/ copies[s] # << >>
      BY <2>2, <3>1, ConcatEmptySeq
    <3>. QED  BY <1>4, <2>1, <3>2 DEF OwnedSenders
  <2>. QED  BY <2>1, <2>2 DEF OwnedSenders
<1>. QED  BY <1>7, <1>9, <1>10, <1>11, <1>12, <1>13 DEF RouterInv, ForwarderInv

\* Every step of the router, whatever arrives and fails, keeps the invariant.
LEMMA RouterNextKeepsInv ==
  RouterInv /\ [Next]_vars => RouterInv'
<1> SUFFICES ASSUME RouterInv, [Next]_vars PROVE RouterInv'
  OBVIOUS
<1> USE TrafficAssumption
<1>1. CASE Configure
  <2>1. ~started
    BY <1>1 DEF Configure
  <2>2. ASSUME NEW r \in CandidateRules, AddRule(r.endpoint, r.from, r.networks, r.to)
        PROVE  RouterInv'
    <3>1. /\ r.endpoint \in Endpoints /\ r.from \in InterfaceAddresses
          /\ r.networks \in Seq(SUBSET Addresses) /\ r.to \in InterfaceAddresses
      OBVIOUS
    <3>. QED  BY <2>1, <2>2, <3>1, AddRuleKeepsInv
  <2>3. CASE Start
    BY <2>1, <2>3, StartKeepsInv
  <2>. QED  BY <1>1, <2>2, <2>3 DEF Configure
<1>2. CASE Arrival
  BY <1>2, ArriveKeepsInv DEF Arrival
<1>3. CASE Forwarding
  BY <1>3, KernelReceiveKeepsInv, EndReceiveKeepsInv, EndReceiveThrowsKeepsInv, SenderStepsKeepInv
     DEF Forwarding
<1>4. CASE ForwardingFault
  BY <1>4, KernelReceiveFailsKeepsInv, SenderStepsKeepInv DEF ForwardingFault
<1>5. CASE UNCHANGED vars
  BY <1>5, StutteringKeepsInv
<1>. QED  BY <1>1, <1>2, <1>3, <1>4, <1>5 DEF Next

\* The inductive invariant holds in every behaviour.
THEOREM RouterInvariant == Spec => []RouterInv
<1>1. Init => RouterInv
  BY ForwarderInitInv DEF Init
<1>2. RouterInv /\ [Next]_vars => RouterInv'
  BY RouterNextKeepsInv
<1>. QED  BY <1>1, <1>2, PTL DEF Spec

\* Type correctness of the data plane.
THEOREM RouterTypeCorrect == Spec => []TypeOK
BY RouterInvariant, RouterInvImplies, PTL

\* Each started forwarder has one receive operation outstanding (receiver.cc:45-60).
THEOREM RouterNeverDeaf == Spec => []NeverDeaf
BY RouterInvariant, RouterInvImplies, PTL

\* Accepted datagrams are handled once, in order, unspoilt (receiver.cc:39-60).
THEOREM RouterHandlesInOrder == Spec => []HandledInOrder
BY RouterInvariant, RouterInvImplies, PTL

\* No forwarder hears a datagram twice or hears its own output (sender.cc:50).
THEOREM RouterHearsNoEcho == Spec => []NoEcho
BY RouterInvariant, RouterInvImplies, PTL

\* Rules and promises name senders that the router owns (router.cc:47-60).
THEOREM RouterOwnsSenders == Spec => []OwnedSenders
BY RouterInvariant, RouterInvImplies, PTL

\* In a running router, too, the senders keep to their queues (sender.cc:56-99).
THEOREM RouterSendersInOrder == Spec => [](LentBufferIsFront /\ SentInOrder)
BY RouterInvariant, RouterInvImplies, PTL

(***************************************************************************)
(* The order of each service.  Up to the queues it is an invariant of      *)
(* endReceive alone: an item promised to a sender is a copy of a datagram  *)
(* that was handled, and of two items of one service the first is a copy   *)
(* of the one that was handled first, or of the same one.  What is on the  *)
(* wire was promised in that order (SentInOrder), and what was handled     *)
(* arrived in that order (HandledInOrder).                                 *)
(***************************************************************************)

\* ServiceOrder, between endReceive and the queues.
PromisedInServiceOrder ==
  \A s \in InterfaceAddresses : \A i, j \in DOMAIN promised[s] :
    i <= j /\ promised[s][i].endpoint = promised[s][j].endpoint
      => \E a \in Occurrences(handled, promised[s][i]),
            b \in Occurrences(handled, promised[s][j]) : a <= b

\* PositionsOfConcat, for items and for datagrams.
LEMMA ItemPositions ==
  \A log, q \in Seq(QueueItem) :
    /\ \A k \in DOMAIN log : k \in DOMAIN (log \o q) /\ (log \o q)[k] = log[k]
    /\ \A k \in DOMAIN (log \o q) :
         \/ k \in DOMAIN log
         \/ k > Len(log) /\ \E n \in DOMAIN q : (log \o q)[k] = q[n]
    /\ \A k \in DOMAIN (log \o q) : k \in Nat
    /\ \A k \in DOMAIN log : k <= Len(log)
<1> DEFINE P(S) ==
      \A log, q \in Seq(S) :
        /\ \A k \in DOMAIN log : k \in DOMAIN (log \o q) /\ (log \o q)[k] = log[k]
        /\ \A k \in DOMAIN (log \o q) :
             \/ k \in DOMAIN log
             \/ k > Len(log) /\ \E n \in DOMAIN q : (log \o q)[k] = q[n]
        /\ \A k \in DOMAIN (log \o q) : k \in Nat
        /\ \A k \in DOMAIN log : k <= Len(log)
<1>1. \A S : P(S)
  BY PositionsOfConcat
<1> HIDE DEF P
<1>2. P(QueueItem)
  BY <1>1
<1>. QED  BY <1>2 DEF P

LEMMA DatagramPrefix ==
  \A log, q \in Seq(Datagram) :
    \A k \in DOMAIN log : k \in DOMAIN (log \o q) /\ (log \o q)[k] = log[k]
<1> DEFINE P(S) ==
      \A log, q \in Seq(S) :
        \A k \in DOMAIN log : k \in DOMAIN (log \o q) /\ (log \o q)[k] = log[k]
<1>1. \A S : P(S)
  BY PositionsOfConcat
<1> HIDE DEF P
<1>2. P(Datagram)
  BY <1>1
<1>. QED  BY <1>2 DEF P

\* endReceive promises copies of the datagram it handles last.
LEMMA EndReceiveKeepsServiceOrder ==
  ASSUME RouterInv, PromisedInServiceOrder, NEW e \in Endpoints, EndReceive(e)
  PROVE  PromisedInServiceOrder'
<1> DEFINE d == buffer[e]
           last == Len(handled[e]) + 1
           copies == [s \in InterfaceAddresses |-> IF d.length > 0 THEN Copies(e, d, s) ELSE << >>]
<1>1. /\ receiver[e] = "received" /\ Send(copies)
      /\ handled' = [handled EXCEPT ![e] = Append(@, d)]
  BY DEF EndReceive, Received
<1>2. RouterTypes /\ OneForwarderInv(e) /\ SenderTypeOK
  BY DEF RouterInv, ForwarderInv, SenderInv
<1>3. d \in Datagram /\ handled[e] \in Seq(Datagram)
  BY <1>1, <1>2 DEF OneForwarderInv, RouterTypes
<1>4. promised' = [s \in InterfaceAddresses |-> promised[s] \o copies[s]]
  BY <1>1 DEF Send
<1>5. ASSUME NEW s \in InterfaceAddresses
      PROVE  /\ promised[s] \in Seq(QueueItem) /\ copies[s] \in Seq(QueueItem)
             /\ promised'[s] = promised[s] \o copies[s]
             /\ \A n \in DOMAIN copies[s] :
                  copies[s][n].payload = d.payload /\ copies[s][n].endpoint = e
  <2>1. /\ promised[s] \in Seq(QueueItem) /\ copies[s] \in Seq(QueueItem)
        /\ promised'[s] = promised[s] \o copies[s]
    BY <1>2, <1>3, <1>4, CopiesProperties, EmptySeq, SenderTypes
  <2>2. ASSUME NEW n \in DOMAIN copies[s]
        PROVE  copies[s][n].payload = d.payload /\ copies[s][n].endpoint = e
    <3>1. copies[s] = Copies(e, d, s)
      <4>1. copies[s] # << >>
        BY <2>2, EmptySeq
      <4>. QED  BY <4>1
    <3> HIDE DEF copies, d
    <3>2. n \in DOMAIN Copies(e, d, s)
      BY <2>2, <3>1
    <3>. QED  BY <1>2, <1>3, <3>1, <3>2, CopyHasRule
  <2>. QED  BY <2>1, <2>2
<1> HIDE DEF copies
<1>6. /\ last \in DOMAIN handled'[e] /\ handled'[e][last] = d /\ last \in Nat
      /\ \A k \in DOMAIN handled[e] : k <= last
      /\ \A f : \A k \in DOMAIN handled[f] : f \in Endpoints =>
           k \in DOMAIN handled'[f] /\ handled'[f][k] = handled[f][k]
  <2>1. /\ handled'[e] = Append(handled[e], d)
        /\ \A f \in Endpoints \ {e} : handled'[f] = handled[f]
    BY <1>1, <1>2 DEF RouterTypes
  <2>2. /\ DOMAIN handled[e] = 1..Len(handled[e]) /\ Len(handled[e]) \in Nat
        /\ DOMAIN handled'[e] = 1..(Len(handled[e]) + 1)
        /\ \A i \in 1..Len(handled[e]) : handled'[e][i] = handled[e][i]
        /\ handled'[e][Len(handled[e]) + 1] = d
    BY <1>3, <2>1, AppendProperties, LenProperties
  <2>. QED  BY <2>1, <2>2
<1> HIDE DEF d, last
<1>7. \A x \in QueueItem : Occurrences(handled, x) \subseteq Occurrences(handled', x)
  BY <1>6 DEF Occurrences, QueueItem
<1>8. \A x \in QueueItem : x.payload = d.payload /\ x.endpoint = e => last \in Occurrences(handled', x)
  BY <1>6 DEF Occurrences
<1>9. ASSUME NEW s \in InterfaceAddresses,
             NEW i \in DOMAIN promised'[s], NEW j \in DOMAIN promised'[s],
             i <= j, promised'[s][i].endpoint = promised'[s][j].endpoint
      PROVE  \E a \in Occurrences(handled', promised'[s][i]),
                b \in Occurrences(handled', promised'[s][j]) : a <= b
  <2> DEFINE p == promised[s]
             q == copies[s]
             x == (p \o q)[i]
             y == (p \o q)[j]
  <2>1. p \in Seq(QueueItem) /\ q \in Seq(QueueItem) /\ promised'[s] = p \o q
        /\ \A n \in DOMAIN q : q[n].payload = d.payload /\ q[n].endpoint = e
    BY <1>5
  <2>2. promised'[s][i] = x /\ promised'[s][j] = y /\ x.endpoint = y.endpoint
        /\ i \in DOMAIN (p \o q) /\ j \in DOMAIN (p \o q)
    BY <1>9, <2>1
  <2>3. x \in QueueItem /\ y \in QueueItem
    <3> HIDE DEF p, q
    <3>1. p \o q \in Seq(QueueItem)
      BY <2>1, ConcatProperties
    <3>. QED  BY <2>2, <3>1, ElementOfSeq, LenProperties
  <2> HIDE DEF q
  <2>4. /\ \A k \in DOMAIN p : (p \o q)[k] = p[k] /\ k <= Len(p)
        /\ \A k \in DOMAIN (p \o q) :
             \/ k \in DOMAIN p
             \/ k > Len(p) /\ \E n \in DOMAIN q : (p \o q)[k] = q[n]
        /\ i \in Nat /\ j \in Nat /\ Len(p) \in Nat
    <3> HIDE DEF p
    <3>. QED  BY <2>1, <2>2, ItemPositions, LenProperties
  <2>5. CASE i \in DOMAIN p /\ j \in DOMAIN p
    <3>1. x = promised[s][i] /\ y = promised[s][j]
      BY <2>4, <2>5
    <3>2. \E a \in Occurrences(handled, x), b \in Occurrences(handled, y) : a <= b
      BY <1>9, <2>2, <2>5, <3>1 DEF PromisedInServiceOrder
    <3> HIDE DEF x, y, p
    <3>3. \E a \in Occurrences(handled', x), b \in Occurrences(handled', y) : a <= b
      BY <1>7, <2>3, <3>2
    <3>. QED  BY <2>2, <3>3
  <2>6. CASE j \notin DOMAIN p
    <3> HIDE DEF p
    <3>1. y.payload = d.payload /\ y.endpoint = e
      BY <2>1, <2>2, <2>4, <2>6
    <3>2. last \in Occurrences(handled', y)
      BY <1>8, <2>3, <3>1
    <3>3. \E a \in Occurrences(handled', x) : a <= last
      <4>1. CASE i \in DOMAIN p
        <5>1. \E a \in Occurrences(handled, x) : a \in DOMAIN handled[e]
          BY <1>9, <2>2, <2>4, <3>1, <4>1 DEF PromisedInServiceOrder, Occurrences, p
        <5> HIDE DEF x
        <5>. QED  BY <1>6, <1>7, <2>3, <5>1
      <4>2. CASE i \notin DOMAIN p
        <5>1. x.payload = d.payload /\ x.endpoint = e
          BY <2>1, <2>2, <2>4, <4>2
        <5>2. last \in Occurrences(handled', x)
          BY <1>8, <2>3, <5>1
        <5>3. last <= last
          BY <1>6
        <5> HIDE DEF x
        <5>. QED  BY <5>2, <5>3
      <4>. QED  BY <4>1, <4>2
    <3> HIDE DEF x, y
    <3>. QED  BY <2>2, <3>2, <3>3
  <2>7. CASE i \notin DOMAIN p /\ j \in DOMAIN p
    BY <1>9, <2>2, <2>4, <2>7
  <2>. QED  BY <2>5, <2>6, <2>7
<1>. QED  BY <1>9 DEF PromisedInServiceOrder

\* The other steps neither handle nor promise anything.
LEMMA NextKeepsServiceOrder ==
  RouterInv /\ PromisedInServiceOrder /\ [Next]_vars => PromisedInServiceOrder'
<1> SUFFICES ASSUME RouterInv, PromisedInServiceOrder, [Next]_vars PROVE PromisedInServiceOrder'
  OBVIOUS
<1>1. ASSUME UNCHANGED <<handled, promised>> PROVE PromisedInServiceOrder'
  BY <1>1 DEF PromisedInServiceOrder, Occurrences
<1>2. CASE Configure
  BY <1>1, <1>2 DEF Configure, AddRule, Start, receiverVars, senderVars
<1>3. CASE Arrival
  BY <1>1, <1>3 DEF Arrival, Arrive, receiverVars, senderVars
<1>4. CASE Forwarding
  <2>1. ASSUME NEW e \in Endpoints, KernelReceive(e) \/ EndReceiveThrows(e)
        PROVE  UNCHANGED <<handled, promised>>
    BY <2>1 DEF KernelReceive, EndReceiveThrows, receiverVars, senderVars
  <2>2. ASSUME NEW s \in InterfaceAddresses, Transmit(s) \/ Sent(s) \/ SentThrows(s)
        PROVE  UNCHANGED <<handled, promised>>
    BY <2>2 DEF Transmit, KernelSend, Sent, EndSend, SentThrows, EndSendThrows, receiverVars
  <2>. QED  BY <1>1, <1>4, <2>1, <2>2, EndReceiveKeepsServiceOrder DEF Forwarding
<1>5. CASE ForwardingFault
  <2>1. ASSUME NEW e \in Endpoints, KernelReceiveFails(e)
        PROVE  UNCHANGED <<handled, promised>>
    BY <2>1 DEF KernelReceiveFails, senderVars
  <2>2. ASSUME NEW s \in InterfaceAddresses, TransmitFails(s)
        PROVE  UNCHANGED <<handled, promised>>
    BY <2>2 DEF TransmitFails, KernelSendFails, receiverVars
  <2>. QED  BY <1>1, <1>5, <2>1, <2>2 DEF ForwardingFault
<1>6. CASE UNCHANGED vars
  BY <1>1, <1>6 DEF vars, receiverVars, senderVars
<1>. QED  BY <1>2, <1>3, <1>4, <1>5, <1>6 DEF Next

\* The logs on either side are prefixes: the wire's of what was promised, and what
\* was handled of what arrived.
LEMMA ServiceOrderSeenOutside ==
  RouterInv /\ PromisedInServiceOrder => ServiceOrder
<1> SUFFICES ASSUME RouterInv, PromisedInServiceOrder,
                    NEW s \in InterfaceAddresses,
                    NEW i \in DOMAIN wire[s], NEW j \in DOMAIN wire[s],
                    i <= j, wire[s][i].endpoint = wire[s][j].endpoint
             PROVE  \E a \in Occurrences(delivered, wire[s][i]),
                       b \in Occurrences(delivered, wire[s][j]) : a <= b
  BY DEF ServiceOrder
<1>1. RouterTypes /\ SenderTypeOK /\ SentInOrder /\ \A e \in Endpoints : OneForwarderInv(e)
  BY RouterInvImplies DEF RouterInv, ForwarderInv, SenderInv
<1>2. /\ i \in DOMAIN promised[s] /\ promised[s][i] = wire[s][i]
      /\ j \in DOMAIN promised[s] /\ promised[s][j] = wire[s][j]
  <2> DEFINE log == wire[s]
             rest == Unsent(s)
  <2>1. log \in Seq(QueueItem) /\ rest \in Seq(QueueItem) /\ promised[s] = log \o rest
        /\ i \in DOMAIN log /\ j \in DOMAIN log
    <3>1. queue[s] \in Seq(QueueItem) /\ wire[s] \in Seq(QueueItem)
      BY <1>1, SenderTypes
    <3>2. sending[s] = "sent" => queue[s] # << >>
      BY RouterInvImplies DEF LentBufferIsFront
    <3>3. rest \in Seq(QueueItem)
      BY <3>1, <3>2, HeadThenTail DEF Unsent
    <3>. QED  BY <1>1, <3>1, <3>3 DEF SentInOrder
  <2> HIDE DEF log, rest
  <2>2. \A k \in DOMAIN log : k \in DOMAIN (log \o rest) /\ (log \o rest)[k] = log[k]
    BY <2>1, ItemPositions
  <2>3. /\ i \in DOMAIN promised[s] /\ promised[s][i] = log[i]
        /\ j \in DOMAIN promised[s] /\ promised[s][j] = log[j]
    BY <2>1, <2>2
  <2>. QED  BY <2>3 DEF log
<1>3. wire[s][i] \in QueueItem /\ wire[s][j] \in QueueItem
  BY <1>1, SenderTypes, ElementOfSeq, LenProperties
<1>4. PICK a \in Occurrences(handled, wire[s][i]), b \in Occurrences(handled, wire[s][j]) : a <= b
  BY <1>2 DEF PromisedInServiceOrder
<1>5. ASSUME NEW e \in Endpoints, NEW k \in DOMAIN handled[e]
      PROVE  k \in DOMAIN delivered[e] /\ delivered[e][k] = handled[e][k]
  <2> DEFINE log == handled[e]
             taken == log \o InBuffer(e)
  <2>1. log \in Seq(Datagram) /\ socketBuffer[e] \in Seq(Datagram) /\ InBuffer(e) \in Seq(Datagram)
    BY <1>1, InBufferType DEF RouterTypes
  <2>2. taken \in Seq(Datagram)
    BY <2>1, ConcatProperties
  <2>3. delivered[e] = taken \o socketBuffer[e]
    BY <1>1 DEF OneForwarderInv
  <2>4. k \in DOMAIN taken /\ taken[k] = log[k]
    <3> HIDE DEF log
    <3>. QED  BY <1>5, <2>1, DatagramPrefix DEF log
  <2> HIDE DEF taken
  <2>5. k \in DOMAIN (taken \o socketBuffer[e]) /\ (taken \o socketBuffer[e])[k] = taken[k]
    BY <2>1, <2>2, <2>4, DatagramPrefix
  <2>. QED  BY <2>3, <2>4, <2>5
<1>6. \A x \in QueueItem : Occurrences(handled, x) \subseteq Occurrences(delivered, x)
  BY <1>5 DEF Occurrences, QueueItem
<1>. QED  BY <1>3, <1>4, <1>6

\* What leaves for a service arrived for it, and leaves an interface in the order
\* of arrival (forwarder.cc:46-53, sender.cc:92-99).
THEOREM RouterKeepsServiceOrder == Spec => []ServiceOrder
<1>1. Init => PromisedInServiceOrder
  BY DEF Init, RouterInit, SenderInit, PromisedInServiceOrder
<1>2. RouterInv /\ PromisedInServiceOrder /\ [Next]_vars => PromisedInServiceOrder'
  BY NextKeepsServiceOrder
<1>3. RouterInv /\ PromisedInServiceOrder => ServiceOrder
  BY ServiceOrderSeenOutside
<1>. QED  BY <1>1, <1>2, <1>3, RouterInvariant, PTL DEF Spec
=============================================================================
