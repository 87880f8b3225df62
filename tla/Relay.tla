-------------------------------- MODULE Relay --------------------------------
(***************************************************************************)
(* What the data plane of mcv4fwdd promises, without buffers, queues or    *)
(* outstanding operations: for each multicast endpoint there is a list of  *)
(* rules, each naming the sources it accepts and an outgoing interface.    *)
(* The datagrams an endpoint's socket accepted (inbox) are forwarded in    *)
(* the order of their arrival; forwarding one promises, in one step, a     *)
(* copy to the outgoing interface of every rule that accepts its source.   *)
(* Each interface emits exactly what it was promised, in that order.       *)
(*                                                                         *)
(* Router.tla is shown to implement Spec, and Application.tla, which       *)
(* rebuilds and restarts its router, RestartingSpec.                       *)
(***************************************************************************)
EXTENDS Naturals, Sequences, FiniteSets

CONSTANTS InterfaceAddresses, Endpoints, Rules, Datagrams

VARIABLES
  alive,     \* the event loop is running
  rules,     \* the rules of each endpoint
  inbox,     \* the datagrams each endpoint's socket has accepted so far
  forwarded, \* those of them that were forwarded
  outbox,    \* what each interface was promised to emit
  emitted    \* what each interface has emitted

relayVars == <<alive, rules, inbox, forwarded, outbox, emitted>>

\* What forwarding d for endpoint e adds to the promises of interface s.
Promise(e, d, s) ==
  LET matching == {k \in DOMAIN rules[e] :
                     /\ rules[e][k].sender = s
                     /\ d.source \in rules[e][k].network
                     /\ d.length > 0}
  IN  [n \in 1..Cardinality(matching) |-> [payload |-> d.payload, endpoint |-> e]]

Init ==
  /\ alive = TRUE
  /\ rules = [e \in Endpoints |-> << >>]
  /\ inbox = [e \in Endpoints |-> << >>]
  /\ forwarded = [e \in Endpoints |-> << >>]
  /\ outbox = [s \in InterfaceAddresses |-> << >>]
  /\ emitted = [s \in InterfaceAddresses |-> << >>]

\* Rules are added at the end, and only before the first datagram is forwarded.
Configure ==
  /\ \A e \in Endpoints : forwarded[e] = << >>
  /\ rules' \in [Endpoints -> Seq(Rules)]
  /\ \A e \in Endpoints :
       /\ Len(rules[e]) <= Len(rules'[e])
       /\ SubSeq(rules'[e], 1, Len(rules[e])) = rules[e]
  /\ UNCHANGED <<alive, inbox, forwarded, outbox, emitted>>

\* A datagram reaches the sockets of some endpoints.
Accept ==
  /\ \E d \in Datagrams, to \in SUBSET Endpoints :
       inbox' = [e \in Endpoints |-> IF e \in to THEN Append(inbox[e], d) ELSE inbox[e]]
  /\ UNCHANGED <<alive, rules, forwarded, outbox, emitted>>

Forward(e) ==
  /\ alive
  /\ Len(forwarded[e]) < Len(inbox[e])
  /\ LET d == inbox[e][Len(forwarded[e]) + 1]
     IN  /\ forwarded' = [forwarded EXCEPT ![e] = Append(@, d)]
         /\ outbox' = [s \in InterfaceAddresses |-> outbox[s] \o Promise(e, d, s)]
  /\ UNCHANGED <<alive, rules, inbox, emitted>>

Emit(s) ==
  /\ alive
  /\ Len(emitted[s]) < Len(outbox[s])
  /\ emitted' = [emitted EXCEPT ![s] = Append(@, outbox[s][Len(@) + 1])]
  /\ UNCHANGED <<alive, rules, inbox, forwarded, outbox>>

\* The process may end at any time; what it had not emitted is lost.
Die ==
  /\ alive' = FALSE
  /\ UNCHANGED <<rules, inbox, forwarded, outbox, emitted>>

Next ==
  \/ Configure
  \/ Accept
  \/ \E e \in Endpoints : Forward(e)
  \/ \E s \in InterfaceAddresses : Emit(s)
  \/ Die

Spec == Init /\ [][Next]_relayVars

\* A relay that died, or that has not forwarded anything yet, is replaced by a new
\* one, which may die at once.
Rebuild ==
  /\ ~alive \/ \A e \in Endpoints : forwarded[e] = << >>
  /\ alive' \in BOOLEAN
  /\ rules' = [e \in Endpoints |-> << >>]
  /\ inbox' = [e \in Endpoints |-> << >>]
  /\ forwarded' = [e \in Endpoints |-> << >>]
  /\ outbox' = [s \in InterfaceAddresses |-> << >>]
  /\ emitted' = [s \in InterfaceAddresses |-> << >>]

\* The relay of a daemon that is restarted.
RestartingSpec == Init /\ [][Next \/ Rebuild]_relayVars
=============================================================================
