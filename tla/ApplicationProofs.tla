------------------------- MODULE ApplicationProofs -------------------------
(***************************************************************************)
(* For every configuration, set of interfaces and address lists, and       *)
(* however many interfaces change and system calls fail: the application   *)
(* is never dormant, starts no router but one that does what the           *)
(* configuration says, destroys no router that has work outstanding,       *)
(* misroutes nothing, tests without side effects, lives the life of        *)
(* Lifecycle, and is a Relay that is rebuilt before it forwards only.      *)
(*                                                                         *)
(* The application's steps keep RouterInv, the invariant of its router.    *)
(* They add that setupRouter runs, or is due to run, only while the router *)
(* is not started, that an unstarted router has nothing to send, and that  *)
(* the rules in force are those of the configuration.  RoutingInv builds   *)
(* on that: a datagram's source tells the interface it came in on.         *)
(***************************************************************************)
EXTENDS Application, RelayProofs

(***************************************************************************)
(* The router, as the application treats it.                               *)
(***************************************************************************)

\* The event loop ends, and leaves the router as it is.
LEMMA ExitKeepsRouterInv ==
  ASSUME RouterInv, ioService' \in LoopStates, UNCHANGED routerVars
  PROVE  RouterInv'
<1>1. SenderInv'
  BY SendersUnchangedKeepsInv DEF RouterInv, routerVars
<1>2. ForwarderInv'
  BY ForwardersUnchanged DEF RouterInv, routerVars
<1>. QED  BY <1>1, <1>2 DEF RouterInv

\* A router that was destroyed is as one that was just constructed.
LEMMA DestroyRouterGivesInv ==
  ASSUME RouterInv, DestroyRouter, ioService' \in LoopStates, fresh' = fresh
  PROVE  RouterInv'
<1>1. SenderInv'
  <2>1. SenderTypeOK'
    BY EmptySeq DEF DestroyRouter, SenderTypeOK, SendStates
  <2>2. << >> \o << >> = << >>
    BY EmptySeq, ConcatEmptySeq
  <2>. QED  BY <2>1, <2>2 DEF DestroyRouter, SenderInv, LentBufferIsFront, SentInOrder, Unsent
<1>2. RouterTypes'
  BY EmptySeq DEF RouterInv, ForwarderInv, DestroyRouter, RouterTypes, ReceiveStates
<1>3. << >> \o << >> \o << >> = << >>
  BY EmptySeq, ConcatEmptySeq
<1>4. \A e \in Endpoints : OneForwarderInv(e)' /\ OneHistoryInv(e)'
  BY <1>3 DEF DestroyRouter, OneForwarderInv, OneHistoryInv, InBuffer
<1>5. OwnedSenders'
  BY DEF DestroyRouter, OwnedSenders
<1>. QED  BY <1>1, <1>2, <1>4, <1>5 DEF RouterInv, ForwarderInv

\* A call of addRule that throws leaves a forwarder, perhaps, and a membership.
LEMMA FailedRuleKeepsRouterInv ==
  ASSUME RouterInv, ~started, NEW e \in Endpoints, NEW from \in InterfaceAddresses,
         NEW to \in InterfaceAddresses, AddRuleRefused(e, from) \/ AddRuleThrows(e, from, to)
  PROVE  RouterInv'
<1>1. /\ forwarders' \subseteq Endpoints
      /\ joined' \in [Endpoints -> SUBSET InterfaceAddresses]
      /\ UNCHANGED <<senders, rules, started, receiverVars, socketVars, fresh, senderVars>>
  BY DEF AddRuleRefused, AddRuleThrows, RouterInv, ForwarderInv, RouterTypes
<1>2. SenderInv'
  BY <1>1, SendersUnchangedKeepsInv DEF RouterInv, SenderInv, SenderTypeOK, senderVars
<1>3. RouterTypes'
  BY <1>1 DEF RouterInv, ForwarderInv, RouterTypes, receiverVars, socketVars
<1>4. ASSUME NEW f \in Endpoints PROVE OneForwarderInv(f)' /\ OneHistoryInv(f)'
  BY <1>1 DEF RouterInv, ForwarderInv, OneForwarderInv, OneHistoryInv, InBuffer,
              receiverVars, socketVars
<1>5. OwnedSenders'
  BY <1>1 DEF RouterInv, ForwarderInv, OwnedSenders, senderVars
<1>. QED  BY <1>2, <1>3, <1>4, <1>5 DEF RouterInv, ForwarderInv

\* A router that is not started has no operation outstanding if it has nothing to
\* send; its own steps are then arrivals only.
LEMMA UnstartedIsQuiet ==
  ASSUME RouterInv, ~started, \A s \in InterfaceAddresses : queue[s] = << >>
  PROVE  NothingOutstanding
<1>1. \A e \in Endpoints : receiver[e] = "idle"
  BY DEF RouterInv, ForwarderInv, OneForwarderInv
<1>2. \A s \in InterfaceAddresses : sending[s] = "idle"
  BY DEF RouterInv, SenderInv, LentBufferIsFront
<1>. QED  BY <1>1, <1>2 DEF NothingOutstanding

LEMMA QuietDoesNothing ==
  ASSUME NothingOutstanding
  PROVE  ~Forwarding /\ ~ForwardingFault
BY DEF NothingOutstanding, Forwarding, ForwardingFault, KernelReceive, EndReceive,
       EndReceiveThrows, KernelReceiveFails, Transmit, TransmitFails, Sent, SentThrows,
       KernelSend, KernelSendFails, EndSend, EndSendThrows

(***************************************************************************)
(* The inductive invariant.                                                *)
(***************************************************************************)

\* What ApplicationTypeOK says besides TypeOK.
ApplicationTypes ==
  /\ configuration \in Seq(ForwardingRule)
  /\ testing \in BOOLEAN
  /\ setup \in {"idle", "checking", "configuring"}
  /\ restart \in {"none", "posted", "timer"}
  /\ unchecked \subseteq Interfaces
  /\ allUp \in BOOLEAN
  /\ snapshot \in [Interfaces -> Seq(InterfaceAddress)]
  /\ added \in 0..Len(configuration)
  /\ signalled \in BOOLEAN
  /\ up \subseteq Interfaces
  /\ addressesOf \in [Interfaces -> Seq(InterfaceAddress)]
  /\ disturbances \in 0..MaxDisturbances

LEMMA ApplicationTypeOKSplit == ApplicationTypeOK <=> TypeOK /\ ApplicationTypes
BY DEF ApplicationTypeOK, ApplicationTypes

\* setupRouter runs, or is due to run, only while the router is not started; it
\* starts from a new router, and a router that is not started has nothing to send.
ProgressInv ==
  /\ setup # "idle" => restart = "none" /\ ~started
  /\ started => restart = "none"
  /\ setup = "checking" => \A e \in Endpoints : rules[e] = << >> /\ joined[e] = {}
  /\ ~started => \A s \in InterfaceAddresses : queue[s] = << >>
  /\ NeverDormant

\* The rules that setupRouterConfiguration has visited.
AddedRules == {configuration[k] : k \in 1..added}

\* Those rules, and no others, are in force.
RulesInv ==
  /\ setup = "configuring" => \A r \in AddedRules : HasAddress(r.from) /\ HasAddress(r.to)
  /\ setup = "configuring" /\ ~testing => DoesAsConfigured(AddedRules)
  /\ StartedAsConfigured

\* A test touches nothing, and is not told to stop.
TestInv ==
  /\ testing => ~signalled
  /\ TestIsDry

ApplicationInv == RouterInv /\ ApplicationTypes /\ ProgressInv /\ RulesInv /\ TestInv

\* An operation of the router needs it started, and changes only its traffic.
LEMMA RouterStepEffect ==
  ASSUME RouterInv, ProgressInv, RouterStep
  PROVE  /\ UNCHANGED <<routingVars, setupVars, signalled, systemVars>>
         /\ UNCHANGED disturbances \/ Disturbance
         /\ \/ UNCHANGED ioService
            \/ started /\ ioService = "running" /\ ioService' = "crashed"
         /\ started \/ UNCHANGED queue
<1>1. /\ UNCHANGED <<setupVars, signalled, systemVars>>
      /\ UNCHANGED disturbances \/ Disturbance
  BY DEF RouterStep
<1>2. CASE Arrival
  BY <1>1, <1>2 DEF Arrival, Arrive, routingVars, senderVars
<1>3. CASE Forwarding \/ ForwardingFault
  <2>1. started
    BY <1>3, UnstartedIsQuiet, QuietDoesNothing DEF ProgressInv
  <2>2. UNCHANGED routingVars
    BY <1>3 DEF Forwarding, ForwardingFault, KernelReceive, EndReceive, EndReceiveThrows,
                KernelReceiveFails, Transmit, TransmitFails, Sent, SentThrows
  <2>3. UNCHANGED ioService \/ (ioService = "running" /\ ioService' = "crashed")
    BY <1>3 DEF Forwarding, ForwardingFault, KernelReceive, EndReceive, EndReceiveThrows,
                KernelReceiveFails, Transmit, TransmitFails, Sent, SentThrows, Send,
                KernelSend, KernelSendFails, EndSend, EndSendThrows, senderVars
  <2>. QED  BY <1>1, <2>1, <2>2, <2>3
<1>. QED  BY <1>2, <1>3 DEF RouterStep

\* The rules of a configuration name interfaces of the system.
LEMMA ConfigurationTypes ==
  ASSUME ApplicationTypes
  PROVE  /\ \A k \in DOMAIN configuration : configuration[k] \in ForwardingRule
         /\ ConfiguredRules \subseteq ForwardingRule
         /\ ConfiguredInterfaces \subseteq Interfaces
<1>1. \A k \in DOMAIN configuration : configuration[k] \in ForwardingRule
  BY ElementOfSeq, LenProperties DEF ApplicationTypes
<1>2. ConfiguredRules \subseteq ForwardingRule
  BY <1>1 DEF ConfiguredRules
<1>3. \A r \in ForwardingRule : r.from \in Interfaces /\ r.to \in Interfaces
  BY DEF ForwardingRule
<1>. QED  BY <1>1, <1>2, <1>3 DEF ConfiguredInterfaces

\* What AddNextRule and RuleFails give to addRule.
LEMMA RuleTypes ==
  ASSUME ApplicationTypes, NEW r, AtRule(r), HasAddress(r.from), HasAddress(r.to)
  PROVE  /\ r \in ForwardingRule
         /\ AddressOf(r.from) \in InterfaceAddresses
         /\ AddressOf(r.to) \in InterfaceAddresses
         /\ AcceptedNetworks(r) \in Seq(SUBSET Addresses)
<1>1. r \in ForwardingRule
  <2>1. added + 1 \in 1..Len(configuration)
    BY LenProperties DEF AtRule, ApplicationTypes
  <2>. QED  BY <2>1, ElementOfSeq DEF AtRule, ApplicationTypes
<1>2. ASSUME NEW i \in Interfaces, HasAddress(i)
      PROVE  /\ snapshot[i] \in Seq(InterfaceAddress)
             /\ snapshot[i][1].address \in InterfaceAddresses
             /\ snapshot[i][1].network \in SUBSET Addresses
  <2>1. snapshot[i] \in Seq(InterfaceAddress)
    BY DEF ApplicationTypes
  <2>2. 1 \in 1..Len(snapshot[i])
    BY <1>2, <2>1, EmptySeq, LenProperties DEF HasAddress
  <2>3. snapshot[i][1] \in InterfaceAddress
    BY <2>1, <2>2, ElementOfSeq
  <2>. QED  BY <2>1, <2>3 DEF InterfaceAddress
<1>3. r.from \in Interfaces /\ r.to \in Interfaces /\ r.networks \in Seq(SUBSET Addresses)
  BY <1>1 DEF ForwardingRule
<1>4. AcceptedNetworks(r) \in Seq(SUBSET Addresses)
  <2>1. DOMAIN snapshot[r.from] = 1..Len(snapshot[r.from]) /\ Len(snapshot[r.from]) \in Nat
    BY <1>2, <1>3, LenProperties
  <2>. QED  BY <1>2, <1>3, <2>1 DEF AcceptedNetworks
<1>. QED  BY <1>1, <1>2, <1>3, <1>4 DEF AddressOf

\* Steps that leave the rules as they are.
LEMMA RulesInvKept ==
  ASSUME RulesInv, UNCHANGED <<configuration, testing, snapshot, added, rules, joined>>,
         started' => started, setup' = "configuring" => setup = "configuring"
  PROVE  RulesInv'
<1>1. AddedRules' = AddedRules /\ ConfiguredRules' = ConfiguredRules
  BY DEF AddedRules, ConfiguredRules
<1>2. \A i : HasAddress(i)' = HasAddress(i)
  BY DEF HasAddress
<1>3. \A r, e : /\ AddressOf(r.from)' = AddressOf(r.from) /\ Entries(r)' = Entries(r)
                /\ InForce(e)' = InForce(e)
  BY DEF AddressOf, Entries, AcceptedNetworks, InForce
<1>4. DoesAsConfigured(AddedRules) => DoesAsConfigured(AddedRules)'
  BY <1>1, <1>2, <1>3 DEF DoesAsConfigured
<1>5. DoesAsConfigured(ConfiguredRules) => DoesAsConfigured(ConfiguredRules)'
  BY <1>1, <1>2, <1>3 DEF DoesAsConfigured
<1>. QED  BY <1>1, <1>2, <1>4, <1>5 DEF RulesInv, StartedAsConfigured

\* Without rules there is nothing that is not as configured.
LEMMA NoRulesInv ==
  ASSUME ~started', setup' # "configuring"
  PROVE  RulesInv'
BY DEF RulesInv, StartedAsConfigured

\* Steps that leave the test as it is.
LEMMA TestInvKept ==
  ASSUME TestInv, UNCHANGED testing,
         testing => UNCHANGED <<signalled, restart, forwarders, senders, started>>
  PROVE  TestInv'
BY DEF TestInv, TestIsDry

(***************************************************************************)
(* The system around the process.                                          *)
(***************************************************************************)

\* What happens to the interfaces, and a signal, leave the process as it is.
LEMMA SurroundingsKeepInv ==
  ASSUME ApplicationInv,
         \/ \E i \in Interfaces \ LongNames : InterfaceFlips(i) \/ AddressesChange(i)
         \/ Signal
  PROVE  ApplicationInv'
<1>. USE ApplicationAssumption DEF ApplicationInv
<1>1. UNCHANGED <<vars, setupVars, configuration, testing>>
  BY DEF InterfaceFlips, AddressesChange, Signal, systemVars
<1>2. RouterInv'
  BY <1>1, StutteringKeepsInv
<1>3. ApplicationTypes'
  <2>1. CASE \E i \in Interfaces \ LongNames : InterfaceFlips(i)
    BY <1>1, <2>1 DEF ApplicationTypes, InterfaceFlips, Disturbance, setupVars, localVars
  <2>2. CASE \E i \in Interfaces \ LongNames : AddressesChange(i)
    BY <1>1, <2>2 DEF ApplicationTypes, AddressesChange, Disturbance, setupVars, localVars
  <2>3. CASE Signal
    BY <1>1, <2>3 DEF ApplicationTypes, Signal, setupVars, localVars, systemVars
  <2>. QED  BY <2>1, <2>2, <2>3
<1>4. ProgressInv'
  BY <1>1 DEF ProgressInv, NeverDormant, vars, senderVars, routingVars, setupVars
<1>5. RulesInv'
  BY <1>1, RulesInvKept DEF vars, routingVars, setupVars, localVars
<1>6. TestInv'
  <2>1. UNCHANGED disturbances \/ Disturbance
    BY DEF InterfaceFlips, AddressesChange, Signal
  <2>2. testing => UNCHANGED signalled
    BY DEF InterfaceFlips, AddressesChange, Signal
  <2>. QED  BY <1>1, <2>1, <2>2, TestInvKept DEF vars, senderVars, routingVars, setupVars, localVars
<1>. QED  BY <1>2, <1>3, <1>4, <1>5, <1>6

\* A new process has a new router, or none.
LEMMA RespawnKeepsInv ==
  ASSUME ApplicationInv, Respawn
  PROVE  ApplicationInv'
<1>. USE DEF ApplicationInv
<1>1. /\ ~testing /\ ioService' = "running" /\ DestroyRouter
      /\ setup' = "idle" /\ restart' = "posted" /\ signalled' = FALSE
      /\ UNCHANGED <<fresh, localVars, systemVars, disturbances>>
  BY DEF Respawn
<1>2. RouterInv'
  BY <1>1, DestroyRouterGivesInv DEF LoopStates
<1>3. ApplicationTypes'
  BY <1>1 DEF ApplicationTypes, localVars, systemVars
<1>4. ProgressInv'
  BY <1>1 DEF ProgressInv, NeverDormant, DestroyRouter
<1>5. RulesInv'
  BY <1>1, NoRulesInv DEF DestroyRouter
<1>6. TestInv'
  BY <1>1 DEF TestInv, TestIsDry, systemVars
<1>. QED  BY <1>2, <1>3, <1>4, <1>5, <1>6

(***************************************************************************)
(* setupRouter.                                                            *)
(***************************************************************************)

LEMMA BeginSetupKeepsInv ==
  ASSUME ApplicationInv, BeginSetup
  PROVE  ApplicationInv'
<1>. USE DEF ApplicationInv
<1>1. /\ ioService = "running" /\ restart' = "none" /\ DestroyRouter
      /\ UNCHANGED <<fresh, snapshot, added, signalled, systemVars, disturbances>>
  BY DEF BeginSetup
<1>2. \/ /\ NameTooLong
         /\ ioService' = IF testing THEN "crashed" ELSE "aborted"
         /\ setup' = "idle"
         /\ UNCHANGED <<unchecked, allUp>>
      \/ /\ setup' = "checking"
         /\ unchecked' = ConfiguredInterfaces
         /\ allUp' = TRUE
         /\ UNCHANGED ioService
  BY DEF BeginSetup
<1>3. RouterInv'
  BY <1>1, <1>2, DestroyRouterGivesInv DEF LoopStates, RouterInv, SenderInv, SenderTypeOK
<1>4. ApplicationTypes'
  <2>1. ConfiguredInterfaces \subseteq Interfaces
    BY ConfigurationTypes
  <2>. QED  BY <1>1, <1>2, <2>1 DEF ApplicationTypes, systemVars
<1>5. ProgressInv'
  BY <1>1, <1>2 DEF ProgressInv, NeverDormant, DestroyRouter
<1>6. RulesInv'
  BY <1>1, <1>2, NoRulesInv DEF DestroyRouter
<1>7. TestInv'
  <2>1. NameTooLong' = NameTooLong
    BY <1>1 DEF NameTooLong, ConfiguredInterfaces, ConfiguredRules, systemVars
  <2>. QED  BY <1>1, <1>2, <2>1 DEF TestInv, TestIsDry, DestroyRouter, systemVars
<1>. QED  BY <1>3, <1>4, <1>5, <1>6, <1>7

\* The check of the interfaces, up to the point where addresses are read.
LEMMA CheckingKeepsInv ==
  ASSUME ApplicationInv, UNCHANGED <<signalled, systemVars>>,
         \/ UNCHANGED disturbances /\ \E i \in Interfaces : CheckInterface(i)
         \/ UNCHANGED disturbances /\ InterfacesDown
         \/ UNCHANGED disturbances /\ QueryAddresses
         \/ SetupThrows
  PROVE  ApplicationInv'
<1>. USE DEF ApplicationInv
<1>1. CASE UNCHANGED disturbances /\ \E i \in Interfaces : CheckInterface(i)
  <2>1. /\ UNCHANGED <<vars, setup, restart, snapshot, added, disturbances>>
        /\ unchecked' \subseteq unchecked /\ allUp' \in BOOLEAN /\ ioService = "running"
    BY <1>1 DEF CheckInterface, ApplicationTypes
  <2>2. RouterInv'
    BY <2>1, StutteringKeepsInv
  <2>3. ApplicationTypes'
    BY <2>1 DEF ApplicationTypes, systemVars
  <2>4. ProgressInv'
    BY <2>1 DEF ProgressInv, NeverDormant, vars, senderVars, routingVars
  <2>5. RulesInv'
    BY <2>1, RulesInvKept DEF vars, routingVars, systemVars
  <2>6. TestInv'
    BY <2>1 DEF TestInv, TestIsDry, vars, senderVars, routingVars, systemVars
  <2>. QED  BY <2>2, <2>3, <2>4, <2>5, <2>6
<1>2. CASE UNCHANGED disturbances /\ InterfacesDown
  <2>1. /\ setup = "checking" /\ setup' = "idle" /\ ~allUp
        /\ UNCHANGED <<routerVars, localVars, disturbances>>
        /\ \/ ~testing /\ restart' = "timer" /\ UNCHANGED ioService
           \/ testing /\ ioService' = "stopped" /\ UNCHANGED restart
    BY <1>2 DEF InterfacesDown, HasTimer, ScheduleRestart, EndTest, vars, senderVars, routerVars
  <2>2. RouterInv'
    BY <2>1, ExitKeepsRouterInv DEF LoopStates, RouterInv, SenderInv, SenderTypeOK
  <2>3. ApplicationTypes'
    BY <2>1 DEF ApplicationTypes, systemVars, localVars
  <2>4. ProgressInv'
    BY <2>1 DEF ProgressInv, NeverDormant, routerVars, routingVars
  <2>5. RulesInv'
    BY <2>1, NoRulesInv DEF ProgressInv, routerVars, routingVars
  <2>6. TestInv'
    BY <2>1 DEF TestInv, TestIsDry, routerVars, routingVars, systemVars, localVars
  <2>. QED  BY <2>2, <2>3, <2>4, <2>5, <2>6
<1>3. CASE UNCHANGED disturbances /\ QueryAddresses
  <2>1. /\ setup = "checking" /\ setup' = "configuring" /\ ioService = "running"
        /\ snapshot' = addressesOf /\ added' = 0
        /\ UNCHANGED <<vars, restart, unchecked, allUp, disturbances>>
    BY <1>3 DEF QueryAddresses
  <2>2. RouterInv'
    BY <2>1, StutteringKeepsInv
  <2>3. ApplicationTypes'
    BY <2>1, LenProperties DEF ApplicationTypes, systemVars
  <2>4. ProgressInv'
    BY <2>1 DEF ProgressInv, NeverDormant, vars, senderVars, routingVars
  <2>5. RulesInv'
    <3>1. AddedRules' = {} /\ ~started'
      BY <2>1 DEF AddedRules, ProgressInv, vars, routingVars
    <3>2. \A e \in Endpoints : rules'[e] = << >> /\ joined'[e] = {}
      BY <2>1 DEF ProgressInv, vars, routingVars
    <3>3. \A e \in Endpoints : InForce(e)' = {}
      BY <3>2 DEF InForce
    <3>4. DoesAsConfigured(AddedRules)'
      BY <3>1, <3>2, <3>3 DEF DoesAsConfigured
    <3>. QED  BY <3>1, <3>4 DEF RulesInv, StartedAsConfigured
  <2>6. TestInv'
    BY <2>1 DEF TestInv, TestIsDry, vars, senderVars, routingVars, systemVars
  <2>. QED  BY <2>2, <2>3, <2>4, <2>5, <2>6
<1>4. CASE SetupThrows
  <2>1. /\ setup = "checking" /\ ioService' = "crashed" /\ Disturbance
        /\ UNCHANGED <<routerVars, setupVars>>
    BY <1>4 DEF SetupThrows
  <2>2. RouterInv'
    BY <2>1, ExitKeepsRouterInv DEF LoopStates
  <2>3. ApplicationTypes'
    BY <2>1, ApplicationAssumption DEF ApplicationTypes, systemVars, setupVars, localVars, Disturbance
  <2>4. ProgressInv'
    BY <2>1 DEF ProgressInv, NeverDormant, routerVars, routingVars, setupVars
  <2>5. RulesInv'
    BY <2>1, RulesInvKept DEF routerVars, routingVars, setupVars, localVars, systemVars
  <2>6. TestInv'
    <3>1. disturbances' > 0
      BY <2>1 DEF Disturbance, ApplicationTypes
    <3>. QED  BY <2>1, <3>1 DEF TestInv, TestIsDry, routerVars, routingVars, systemVars,
                             setupVars, localVars
  <2>. QED  BY <2>2, <2>3, <2>4, <2>5, <2>6
<1>. QED  BY <1>1, <1>2, <1>3, <1>4

\* The elements of a concatenation.
LEMMA ElementsOfConcat ==
  ASSUME NEW S, NEW p \in Seq(S), NEW q \in Seq(S)
  PROVE  \A x : (\E k \in DOMAIN (p \o q) : x = (p \o q)[k])
                  <=> (\E k \in DOMAIN p : x = p[k]) \/ (\E k \in DOMAIN q : x = q[k])
<1> DEFINE both == p \o q
<1>1. /\ DOMAIN p = 1..Len(p) /\ DOMAIN q = 1..Len(q) /\ DOMAIN both = 1..Len(p) + Len(q)
      /\ Len(p) \in Nat /\ Len(q) \in Nat
      /\ \A k \in 1..Len(p) + Len(q) : both[k] = IF k <= Len(p) THEN p[k] ELSE q[k - Len(p)]
  <2>1. /\ both \in Seq(S) /\ Len(both) = Len(p) + Len(q)
        /\ \A k \in 1..Len(p) + Len(q) : both[k] = IF k <= Len(p) THEN p[k] ELSE q[k - Len(p)]
    BY ConcatProperties
  <2>. QED  BY <2>1, LenProperties
<1> HIDE DEF both
<1>2. ASSUME NEW k \in DOMAIN both
      PROVE  \/ k \in DOMAIN p /\ both[k] = p[k]
             \/ k - Len(p) \in DOMAIN q /\ both[k] = q[k - Len(p)]
  BY <1>1
<1>3. ASSUME NEW k \in DOMAIN p PROVE k \in DOMAIN both /\ both[k] = p[k]
  BY <1>1
<1>4. ASSUME NEW k \in DOMAIN q PROVE Len(p) + k \in DOMAIN both /\ both[Len(p) + k] = q[k]
  BY <1>1
<1>5. \A x : (\E k \in DOMAIN both : x = both[k])
               <=> (\E k \in DOMAIN p : x = p[k]) \/ (\E k \in DOMAIN q : x = q[k])
  BY <1>2, <1>3, <1>4
<1>. QED  BY <1>5 DEF both

\* ElementsOfConcat, for sequences of rules.
LEMMA RulesOfConcat ==
  \A p, q \in Seq(Rule) :
    \A x : (\E k \in DOMAIN (p \o q) : x = (p \o q)[k])
             <=> (\E k \in DOMAIN p : x = p[k]) \/ (\E k \in DOMAIN q : x = q[k])
<1> DEFINE P(S) == \A p, q \in Seq(S) :
                     \A x : (\E k \in DOMAIN (p \o q) : x = (p \o q)[k])
                              <=> (\E k \in DOMAIN p : x = p[k]) \/ (\E k \in DOMAIN q : x = q[k])
<1>1. \A S : P(S)
  BY ElementsOfConcat
<1> HIDE DEF P
<1>2. P(Rule)
  BY <1>1
<1>. QED  BY <1>2 DEF P

\* One rule more is in force, and everything else as before.
LEMMA AddNextRuleEffect ==
  ASSUME RouterInv, ApplicationTypes, NEW r, AtRule(r), HasAddress(r.from), HasAddress(r.to),
         AddRule(r.endpoint, AddressOf(r.from), AcceptedNetworks(r), AddressOf(r.to))
  PROVE  /\ InForce(r.endpoint)' = InForce(r.endpoint) \cup Entries(r)
         /\ joined'[r.endpoint] = joined[r.endpoint] \cup {AddressOf(r.from)}
         /\ \A e \in Endpoints \ {r.endpoint} :
              InForce(e)' = InForce(e) /\ joined'[e] = joined[e]
<1> DEFINE e == r.endpoint
           networks == AcceptedNetworks(r)
           to == AddressOf(r.to)
           new == [k \in DOMAIN networks |-> [network |-> networks[k], sender |-> to]]
<1>1. e \in Endpoints /\ networks \in Seq(SUBSET Addresses) /\ to \in InterfaceAddresses
  BY RuleTypes DEF ForwardingRule
<1>2. /\ rules' = [rules EXCEPT ![e] = @ \o new]
      /\ joined' = [joined EXCEPT ![e] = @ \cup {AddressOf(r.from)}]
      /\ rules \in [Endpoints -> Seq(Rule)]
      /\ joined \in [Endpoints -> SUBSET InterfaceAddresses]
  BY DEF AddRule, RouterInv, ForwarderInv, RouterTypes
<1>3. new \in Seq(Rule)
  <2>1. \A k \in DOMAIN networks : networks[k] \in SUBSET Addresses
    BY <1>1, ElementOfSeq, LenProperties
  <2>2. DOMAIN networks = 1..Len(networks) /\ Len(networks) \in Nat
    BY <1>1, LenProperties
  <2>. QED  BY <1>1, <2>1, <2>2 DEF Rule
<1>4. Entries(r) = {new[k] : k \in DOMAIN new}
  BY DEF Entries
<1> HIDE DEF new, e
<1>5. rules[e] \in Seq(Rule) /\ rules'[e] = rules[e] \o new
  BY <1>1, <1>2
<1>6. InForce(e)' = InForce(e) \cup Entries(r)
  <2>1. \A x : x \in InForce(e)' <=> \E k \in DOMAIN (rules[e] \o new) : x = (rules[e] \o new)[k]
    BY <1>5 DEF InForce
  <2>2. \A x : x \in InForce(e) \cup Entries(r)
                <=> (\E k \in DOMAIN rules[e] : x = rules[e][k]) \/ (\E k \in DOMAIN new : x = new[k])
    BY <1>4 DEF InForce
  <2>3. rules[e] \in Seq(Rule) /\ new \in Seq(Rule)
    BY <1>3, <1>5
  <2>4. \A x : (\E k \in DOMAIN (rules[e] \o new) : x = (rules[e] \o new)[k])
                <=> (\E k \in DOMAIN rules[e] : x = rules[e][k]) \/ (\E k \in DOMAIN new : x = new[k])
    BY <2>3, RulesOfConcat
  <2>5. \A x : x \in InForce(e)' <=> x \in InForce(e) \cup Entries(r)
    BY <2>1, <2>2, <2>4
  <2>. QED  BY <2>5
<1>7. joined'[e] = joined[e] \cup {AddressOf(r.from)}
  BY <1>1, <1>2
<1>8. \A f \in Endpoints \ {e} : rules'[f] = rules[f] /\ joined'[f] = joined[f]
  BY <1>1, <1>2
<1>9. \A f \in Endpoints \ {e} : InForce(f)' = InForce(f)
  BY <1>8 DEF InForce
<1>. QED  BY <1>6, <1>7, <1>8, <1>9 DEF e

\* setupRouterConfiguration adds a rule.
LEMMA AddNextRuleKeepsInv ==
  ASSUME ApplicationInv, NEW r, AddNextRule(r), UNCHANGED <<signalled, systemVars>>
  PROVE  ApplicationInv'
<1>. USE DEF ApplicationInv
<1>1. /\ AtRule(r) /\ HasAddress(r.from) /\ HasAddress(r.to)
      /\ added' = added + 1
      /\ UNCHANGED <<setup, restart, unchecked, allUp, snapshot, disturbances>>
  BY DEF AddNextRule
<1>2. /\ ioService = "running" /\ setup = "configuring" /\ added \in Nat
      /\ added < Len(configuration) /\ Len(configuration) \in Nat /\ r = configuration[added + 1]
  BY <1>1, LenProperties DEF AtRule, ApplicationTypes
<1>3. ~started
  BY <1>2 DEF ProgressInv
<1>4. \/ /\ ~testing
         /\ AddRule(r.endpoint, AddressOf(r.from), AcceptedNetworks(r), AddressOf(r.to))
      \/ testing /\ UNCHANGED vars
  BY DEF AddNextRule, HasRouter
<1>5. RouterInv'
  <2>1. r.endpoint \in Endpoints
    BY <1>1, RuleTypes DEF ForwardingRule
  <2>. QED  BY <1>1, <1>3, <1>4, <2>1, RuleTypes, AddRuleKeepsInv, StutteringKeepsInv
<1>6. UNCHANGED <<ioService, started, queue>>
  BY <1>4 DEF AddRule, vars, senderVars, routingVars
<1>7. ApplicationTypes'
  BY <1>1, <1>2 DEF ApplicationTypes, systemVars
<1>8. ProgressInv'
  BY <1>1, <1>2, <1>3, <1>6 DEF ProgressInv, NeverDormant
<1>9. AddedRules' = AddedRules \cup {r}
  <2>1. 1..added' = (1..added) \cup {added + 1}
    BY <1>1, <1>2
  <2>. QED  BY <1>2, <2>1 DEF AddedRules, systemVars
<1>10. \A q : /\ HasAddress(q)' = HasAddress(q)
              /\ AddressOf(q)' = AddressOf(q)
              /\ Entries(q)' = Entries(q)
  BY <1>1 DEF HasAddress, AddressOf, Entries, AcceptedNetworks
<1>11. RulesInv'
  <2>1. (\A q \in AddedRules : HasAddress(q.from) /\ HasAddress(q.to))'
    BY <1>1, <1>2, <1>9, <1>10 DEF RulesInv
  <2>2. ASSUME ~testing PROVE DoesAsConfigured(AddedRules)'
    <3>1. DoesAsConfigured(AddedRules)
      BY <1>2, <2>2 DEF RulesInv
    <3>2. /\ InForce(r.endpoint)' = InForce(r.endpoint) \cup Entries(r)
          /\ joined'[r.endpoint] = joined[r.endpoint] \cup {AddressOf(r.from)}
          /\ \A e \in Endpoints \ {r.endpoint} :
               InForce(e)' = InForce(e) /\ joined'[e] = joined[e]
      BY <1>1, <1>4, <2>2, AddNextRuleEffect
    <3>3. \A q \in AddedRules : q.endpoint \in Endpoints
      <4>1. DOMAIN configuration = 1..Len(configuration)
        BY LenProperties DEF ApplicationTypes
      <4>2. \A k \in 1..added : configuration[k] \in ForwardingRule
        BY <1>2, <4>1, ConfigurationTypes
      <4>. QED  BY <4>2 DEF AddedRules, ForwardingRule
    <3>4. \A q \in AddedRules \cup {r} :
            /\ HasAddress(q.from) /\ HasAddress(q.to)
            /\ Entries(q) \subseteq InForce(q.endpoint)'
            /\ AddressOf(q.from) \in joined'[q.endpoint]
      BY <1>1, <3>1, <3>2, <3>3 DEF DoesAsConfigured
    <3>5. \A e \in Endpoints :
            /\ \A entry \in InForce(e)' :
                 \E q \in AddedRules \cup {r} : q.endpoint = e /\ entry \in Entries(q)
            /\ \A i \in joined'[e] :
                 \E q \in AddedRules \cup {r} : q.endpoint = e /\ i = AddressOf(q.from)
      BY <3>1, <3>2 DEF DoesAsConfigured
    <3>. QED  BY <1>9, <1>10, <3>4, <3>5 DEF DoesAsConfigured
  <2>. QED  BY <1>3, <1>6, <2>1, <2>2 DEF RulesInv, StartedAsConfigured, systemVars
<1>12. TestInv'
  <2>1. testing => UNCHANGED vars
    BY <1>4
  <2>. QED  BY <1>1, <1>6, <2>1, TestInvKept DEF vars, senderVars, routingVars, systemVars
<1>. QED  BY <1>5, <1>7, <1>8, <1>11, <1>12

\* setupRouterConfiguration throws: an address is missing, or addRule fails.
LEMMA GiveUpKeepsInv ==
  ASSUME ApplicationInv, NEW r, AddressMissing(r) \/ RuleFails(r),
         UNCHANGED <<signalled, systemVars>>
  PROVE  ApplicationInv'
<1>. USE DEF ApplicationInv
<1>1. CASE AddressMissing(r)
  <2>1. /\ AtRule(r) /\ ~(HasAddress(r.from) /\ HasAddress(r.to)) /\ setup' = "idle"
        /\ UNCHANGED <<routerVars, localVars, disturbances>>
        /\ \/ ~testing /\ restart' = "timer" /\ UNCHANGED ioService
           \/ testing /\ ioService' = "crashed" /\ UNCHANGED restart
    BY <1>1 DEF AddressMissing, Rethrow, EndTest, GiveUp, ScheduleRestart, localVars,
                vars, senderVars, routerVars
  <2>2. ioService = "running" /\ setup = "configuring"
    BY <2>1 DEF AtRule
  <2>3. RouterInv'
    BY <2>1, ExitKeepsRouterInv DEF LoopStates, RouterInv, SenderInv, SenderTypeOK
  <2>4. ApplicationTypes'
    BY <2>1 DEF ApplicationTypes, systemVars, localVars
  <2>5. ProgressInv'
    BY <2>1, <2>2 DEF ProgressInv, NeverDormant, routerVars, routingVars
  <2>6. RulesInv'
    BY <2>1, <2>2, NoRulesInv DEF ProgressInv, routerVars, routingVars
  <2>7. TestInv'
    BY <2>1 DEF TestInv, TestIsDry, routerVars, routingVars, systemVars
  <2>. QED  BY <2>3, <2>4, <2>5, <2>6, <2>7
<1>2. CASE RuleFails(r)
  <2>1. /\ AtRule(r) /\ ~testing /\ HasAddress(r.from) /\ HasAddress(r.to)
        /\ setup' = "idle" /\ restart' = "timer"
        /\ UNCHANGED <<unchecked, allUp, snapshot, added>>
        /\ \/ AddRuleRefused(r.endpoint, AddressOf(r.from)) /\ UNCHANGED disturbances
           \/ AddRuleThrows(r.endpoint, AddressOf(r.from), AddressOf(r.to)) /\ Disturbance
    BY <1>2 DEF RuleFails, HasRouter, GiveUp, ScheduleRestart
  <2>2. /\ setup = "configuring" /\ ~started /\ r.endpoint \in Endpoints
        /\ AddressOf(r.from) \in InterfaceAddresses /\ AddressOf(r.to) \in InterfaceAddresses
    BY <2>1, RuleTypes DEF AtRule, ProgressInv, ForwardingRule
  <2>3. UNCHANGED <<ioService, started, queue>>
    BY <2>1 DEF AddRuleRefused, AddRuleThrows, senderVars
  <2>4. RouterInv'
    BY <2>1, <2>2, FailedRuleKeepsRouterInv
  <2>5. ApplicationTypes'
    BY <2>1, ApplicationAssumption DEF ApplicationTypes, systemVars, Disturbance
  <2>6. ProgressInv'
    BY <2>1, <2>2, <2>3 DEF ProgressInv, NeverDormant
  <2>7. RulesInv'
    BY <2>1, <2>2, <2>3, NoRulesInv
  <2>8. TestInv'
    BY <2>1 DEF TestInv, TestIsDry, systemVars
  <2>. QED  BY <2>4, <2>5, <2>6, <2>7, <2>8
<1>. QED  BY <1>1, <1>2

\* All rules are added: the router is started, or the test succeeds.
LEMMA FinishSetupKeepsInv ==
  ASSUME ApplicationInv, FinishSetup, UNCHANGED <<signalled, systemVars, disturbances>>
  PROVE  ApplicationInv'
<1>. USE DEF ApplicationInv
<1>1. /\ ioService = "running" /\ setup = "configuring" /\ added = Len(configuration)
      /\ UNCHANGED localVars /\ setup' = "idle" /\ UNCHANGED restart
      /\ \/ ~testing /\ Start
         \/ testing /\ ioService' = "stopped" /\ UNCHANGED routerVars
  BY DEF FinishSetup, HasRouter, EndTest, NoRestart
<1>2. ~started /\ restart = "none"
  BY <1>1 DEF ProgressInv
<1>3. RouterInv'
  BY <1>1, <1>2, StartKeepsInv, ExitKeepsRouterInv DEF LoopStates
<1>4. ApplicationTypes'
  BY <1>1 DEF ApplicationTypes, systemVars, localVars
<1>5. ProgressInv'
  BY <1>1, <1>2 DEF ProgressInv, NeverDormant, Start, senderVars, routerVars, routingVars
<1>6. AddedRules = ConfiguredRules
  <2>1. DOMAIN configuration = 1..added
    BY <1>1, LenProperties DEF ApplicationTypes
  <2>. QED  BY <2>1 DEF AddedRules, ConfiguredRules
<1>7. RulesInv'
  <2>1. CASE ~testing
    <3>1. DoesAsConfigured(ConfiguredRules)
      BY <1>1, <1>6, <2>1 DEF RulesInv
    <3>2. UNCHANGED <<configuration, snapshot, rules, joined>>
      BY <1>1, <2>1 DEF Start, localVars, systemVars
    <3>3. /\ ConfiguredRules' = ConfiguredRules
          /\ \A q, e : /\ HasAddress(q)' = HasAddress(q) /\ AddressOf(q)' = AddressOf(q)
                       /\ Entries(q)' = Entries(q) /\ InForce(e)' = InForce(e)
      BY <3>2 DEF ConfiguredRules, HasAddress, AddressOf, Entries, AcceptedNetworks, InForce
    <3>4. DoesAsConfigured(ConfiguredRules)'
      BY <3>1, <3>2, <3>3 DEF DoesAsConfigured
    <3>. QED  BY <1>1, <3>4 DEF RulesInv, StartedAsConfigured
  <2>2. CASE testing
    BY <1>1, <1>2, <2>2, NoRulesInv DEF routerVars, routingVars
  <2>. QED  BY <2>1, <2>2
<1>8. TestInv'
  BY <1>1, <1>2 DEF TestInv, TestIsDry, routerVars, routingVars, systemVars
<1>. QED  BY <1>3, <1>4, <1>5, <1>7, <1>8

(***************************************************************************)
(* The event loop.                                                         *)
(***************************************************************************)
LEMMA HandleSignalKeepsInv ==
  ASSUME ApplicationInv, HandleSignal
  PROVE  ApplicationInv'
<1>. USE DEF ApplicationInv
<1>1. /\ signalled /\ ioService' = "stopped"
      /\ UNCHANGED <<routerVars, setupVars, signalled, systemVars, disturbances>>
  BY DEF HandleSignal, StopLoop
<1>2. RouterInv'
  BY <1>1, ExitKeepsRouterInv DEF LoopStates
<1>3. ApplicationTypes'
  BY <1>1 DEF ApplicationTypes, setupVars, localVars, systemVars
<1>4. ProgressInv'
  BY <1>1 DEF ProgressInv, NeverDormant, routerVars, routingVars, setupVars
<1>5. RulesInv'
  BY <1>1, RulesInvKept DEF routerVars, routingVars, setupVars, localVars, systemVars
<1>6. TestInv'
  BY <1>1 DEF TestInv, TestIsDry, systemVars
<1>. QED  BY <1>2, <1>3, <1>4, <1>5, <1>6

LEMMA RouterStepKeepsInv ==
  ASSUME ApplicationInv, RouterStep
  PROVE  ApplicationInv'
<1>. USE DEF ApplicationInv
<1>1. /\ UNCHANGED <<routingVars, setupVars, signalled, systemVars>>
      /\ UNCHANGED disturbances \/ Disturbance
      /\ \/ UNCHANGED ioService
         \/ started /\ ioService = "running" /\ ioService' = "crashed"
      /\ started \/ UNCHANGED queue
  BY RouterStepEffect
<1>2. RouterInv'
  BY RouterNextKeepsInv DEF RouterStep, Next
<1>3. ApplicationTypes'
  BY <1>1, ApplicationAssumption DEF ApplicationTypes, setupVars, localVars, systemVars, Disturbance
<1>4. ProgressInv'
  BY <1>1 DEF ProgressInv, NeverDormant, routingVars, setupVars
<1>5. RulesInv'
  BY <1>1, RulesInvKept DEF routingVars, setupVars, localVars, systemVars
<1>6. TestInv'
  <2>1. testing => ~started
    BY DEF TestInv, TestIsDry
  <2>2. CASE testing
    BY <1>1, <2>1, <2>2, TestInvKept DEF routingVars, setupVars, localVars, systemVars
  <2>3. CASE ~testing
    BY <1>1, <2>3 DEF TestInv, TestIsDry, systemVars
  <2>. QED  BY <2>2, <2>3
<1>. QED  BY <1>2, <1>3, <1>4, <1>5, <1>6

(***************************************************************************)
(* The theorems.                                                           *)
(***************************************************************************)
LEMMA ApplicationInitInv ==
  ASSUME ApplicationInit
  PROVE  ApplicationInv
<1>1. RouterInv
  BY ForwarderInitInv DEF ApplicationInit, Init
<1>2. ApplicationTypes
  <2>1. /\ addressesOf \in [Interfaces -> Seq(InterfaceAddress)]
        /\ configuration \in Seq(ForwardingRule)
    <3>1. \A i \in Interfaces : AddressLists[i] \subseteq Seq(InterfaceAddress)
      BY ApplicationAssumption
    <3>2. \A i \in Interfaces : addressesOf[i] \in Seq(InterfaceAddress)
      BY <3>1 DEF ApplicationInit
    <3>. QED  BY <3>2, ApplicationAssumption DEF ApplicationInit
  <2>2. added \in 0..Len(configuration) /\ disturbances \in 0..MaxDisturbances
    <3>1. Len(configuration) \in Nat /\ MaxDisturbances \in Nat
      BY <2>1, LenProperties, ApplicationAssumption
    <3>. QED  BY <3>1 DEF ApplicationInit
  <2>3. snapshot \in [Interfaces -> Seq(InterfaceAddress)]
    BY EmptySeq DEF ApplicationInit
  <2>. QED  BY <2>1, <2>2, <2>3 DEF ApplicationInit, ApplicationTypes
<1>3. ~started /\ setup = "idle" /\ restart = "posted" /\ ~signalled /\ ioService = "running"
      /\ forwarders = {} /\ senders = {} /\ \A s \in InterfaceAddresses : queue[s] = << >>
  BY DEF ApplicationInit, Init, RouterInit, SenderInit
<1>4. ProgressInv
  BY <1>3 DEF ProgressInv, NeverDormant
<1>5. RulesInv
  BY <1>3 DEF RulesInv, StartedAsConfigured
<1>6. TestInv
  BY <1>3 DEF TestInv, TestIsDry
<1>. QED  BY <1>1, <1>2, <1>4, <1>5, <1>6 DEF ApplicationInv

LEMMA ApplicationNextKeepsInv ==
  ASSUME ApplicationInv, [ApplicationNext]_appVars
  PROVE  ApplicationInv'
<1>1. CASE \/ \E i \in Interfaces \ LongNames : InterfaceFlips(i) \/ AddressesChange(i)
           \/ Signal
  BY <1>1, SurroundingsKeepInv
<1>2. CASE Respawn
  BY <1>2, RespawnKeepsInv
<1>3. CASE BeginSetup
  BY <1>3, BeginSetupKeepsInv
<1>4. CASE SetupStep
  <2>1. UNCHANGED <<signalled, systemVars>>
    BY <1>4 DEF SetupStep
  <2>2. CASE /\ UNCHANGED disturbances
             /\ (\E i \in Interfaces : CheckInterface(i)) \/ InterfacesDown \/ QueryAddresses
    BY <2>1, <2>2, CheckingKeepsInv
  <2>3. CASE UNCHANGED disturbances /\ FinishSetup
    BY <2>1, <2>3, FinishSetupKeepsInv
  <2>4. ASSUME NEW r \in ConfiguredRules, AddNextRule(r) \/ AddressMissing(r) \/ RuleFails(r)
        PROVE  ApplicationInv'
    BY <2>1, <2>4, AddNextRuleKeepsInv, GiveUpKeepsInv
  <2>. QED  BY <1>4, <2>2, <2>3, <2>4 DEF SetupStep
<1>5. CASE SetupThrows
  <2>1. UNCHANGED <<signalled, systemVars>>
    BY <1>5 DEF SetupThrows
  <2>. QED  BY <1>5, <2>1, CheckingKeepsInv
<1>6. CASE HandleSignal
  BY <1>6, HandleSignalKeepsInv
<1>7. CASE RouterStep
  BY <1>7, RouterStepKeepsInv
<1>8. CASE UNCHANGED appVars
  <2>. USE <1>8 DEF ApplicationInv, appVars
  <2>1. RouterInv'
    BY StutteringKeepsInv
  <2>2. ApplicationTypes'
    BY DEF ApplicationTypes, setupVars, localVars, systemVars
  <2>3. ProgressInv'
    BY DEF ProgressInv, NeverDormant, vars, senderVars, routingVars, setupVars
  <2>4. RulesInv'
    BY RulesInvKept DEF vars, routingVars, setupVars, localVars, systemVars
  <2>5. TestInv'
    BY TestInvKept DEF vars, senderVars, routingVars, setupVars, localVars, systemVars
  <2>. QED  BY <2>1, <2>2, <2>3, <2>4, <2>5
<1>. QED  BY <1>1, <1>2, <1>3, <1>4, <1>5, <1>6, <1>7, <1>8 DEF ApplicationNext

\* The inductive invariant holds in every behaviour.
THEOREM ApplicationInvariant == ApplicationSpec => []ApplicationInv
BY ApplicationInitInv, ApplicationNextKeepsInv, PTL DEF ApplicationSpec

\* Type correctness of the application and its router.
THEOREM ApplicationTypeCorrect == ApplicationSpec => []ApplicationTypeOK
<1>1. ApplicationInv => ApplicationTypeOK
  BY RouterInvImplies, ApplicationTypeOKSplit DEF ApplicationInv
<1>. QED  BY <1>1, ApplicationInvariant, PTL

\* Whatever restarts, fails or is half configured, the router of the daemon is never
\* deaf, handles and sends in order, and hears no echo (receiver.cc:39-60, sender.cc:50-99).
THEOREM ApplicationRouterIsSound ==
  ApplicationSpec => [](/\ NeverDeaf /\ HandledInOrder /\ NoEcho /\ OwnedSenders
                        /\ LentBufferIsFront /\ SentInOrder)
<1>1. ApplicationInv => /\ NeverDeaf /\ HandledInOrder /\ NoEcho /\ OwnedSenders
                        /\ LentBufferIsFront /\ SentInOrder
  BY RouterInvImplies DEF ApplicationInv
<1>. QED  BY <1>1, ApplicationInvariant, PTL

\* A running process forwards, sets its router up, or is due to (application.cc:238-279).
THEOREM ApplicationNeverDormant == ApplicationSpec => []NeverDormant
<1>1. ApplicationInv => NeverDormant
  BY DEF ApplicationInv, ProgressInv
<1>. QED  BY <1>1, ApplicationInvariant, PTL

\* A started router does what the configuration asks, all of it and nothing more,
\* whatever failed before it was started (application.cc:260-278).
THEOREM ApplicationStartedAsConfigured == ApplicationSpec => []StartedAsConfigured
<1>1. ApplicationInv => StartedAsConfigured
  BY DEF ApplicationInv, RulesInv
<1>. QED  BY <1>1, ApplicationInvariant, PTL

\* The test of a configuration opens no socket, joins no group and arms no timer
\* (application.cc:246, 255, 275, 306).
THEOREM ApplicationTestsDryly == ApplicationSpec => []TestIsDry
<1>1. ApplicationInv => TestIsDry
  BY DEF ApplicationInv, TestInv
<1>. QED  BY <1>1, ApplicationInvariant, PTL

\* The rules that were visited when a test ends, and the one at which it fails.
LEMMA RulesTellAddresses ==
  ASSUME ApplicationInv
  PROVE  /\ FinishSetup => AllAddressed
         /\ \A r : AddressMissing(r) => ~AllAddressed
<1>1. configuration \in Seq(ForwardingRule) /\ added \in 0..Len(configuration)
  BY DEF ApplicationInv, ApplicationTypes
<1>2. /\ DOMAIN configuration = 1..Len(configuration)
      /\ Len(configuration) \in Nat
  BY <1>1, LenProperties
<1>3. ASSUME FinishSetup PROVE AllAddressed
  <2>1. setup = "configuring" /\ added = Len(configuration)
    BY <1>3 DEF FinishSetup
  <2>2. AddedRules = ConfiguredRules
    BY <1>2, <2>1 DEF AddedRules, ConfiguredRules
  <2>. QED  BY <2>1, <2>2 DEF ApplicationInv, RulesInv, AllAddressed, ConfiguredInterfaces
<1>4. ASSUME NEW r, AddressMissing(r) PROVE ~AllAddressed
  <2>1. AtRule(r) /\ ~(HasAddress(r.from) /\ HasAddress(r.to))
    BY <1>4 DEF AddressMissing
  <2>2. added + 1 \in DOMAIN configuration
    BY <1>1, <1>2, <2>1 DEF AtRule
  <2>. QED  BY <2>1, <2>2 DEF AtRule, AllAddressed, ConfiguredInterfaces, ConfiguredRules
<1>. QED  BY <1>3, <1>4

\* The verdict of a test has its cause (application.cc:260-277, 313-327).
THEOREM ApplicationTestHasCause == ApplicationSpec => TestVerdict
<1> DEFINE Cause ==
      \/ /\ ioService' = "stopped"
         /\ \/ setup = "checking" /\ ~allUp
            \/ setup = "configuring" /\ AllAddressed
      \/ /\ ioService' = "crashed"
         /\ \/ setup = "idle" /\ NameTooLong
            \/ setup = "checking" /\ disturbances' = disturbances + 1
            \/ setup = "configuring" /\ ~AllAddressed
<1>1. ASSUME ApplicationInv, ApplicationNext,
             testing, ioService = "running", ioService' # "running"
      PROVE  Cause
  <2>1. ~signalled /\ ~started
    BY <1>1 DEF ApplicationInv, TestInv, TestIsDry
  <2>2. CASE \/ \E i \in Interfaces \ LongNames : InterfaceFlips(i) \/ AddressesChange(i)
             \/ Signal \/ Respawn \/ HandleSignal
    BY <1>1, <2>1, <2>2
       DEF InterfaceFlips, AddressesChange, Signal, Respawn, HandleSignal, vars, senderVars
  <2>3. CASE BeginSetup
    BY <1>1, <2>3 DEF BeginSetup
  <2>4. CASE SetupThrows
    BY <1>1, <2>4 DEF SetupThrows, Disturbance
  <2>5. CASE (\E i \in Interfaces : CheckInterface(i)) \/ QueryAddresses
    BY <1>1, <2>5 DEF CheckInterface, QueryAddresses, vars, senderVars
  <2>6. CASE InterfacesDown
    BY <1>1, <2>6 DEF InterfacesDown, HasTimer, EndTest
  <2>7. CASE FinishSetup
    BY <1>1, <2>7, RulesTellAddresses DEF FinishSetup, HasRouter, EndTest
  <2>8. ASSUME NEW r, AddNextRule(r) \/ RuleFails(r) PROVE FALSE
    BY <1>1, <2>8 DEF AddNextRule, RuleFails, HasRouter, vars, senderVars
  <2>9. ASSUME NEW r, AddressMissing(r) PROVE Cause
    BY <1>1, <2>9, RulesTellAddresses DEF AddressMissing, AtRule, Rethrow, EndTest
  <2>10. CASE RouterStep
    <3>1. UNCHANGED ioService
      BY <1>1, <2>1, <2>10, RouterStepEffect DEF ApplicationInv
    <3>. QED  BY <1>1, <3>1
  <2>. QED  BY <1>1, <2>2, <2>3, <2>4, <2>5, <2>6, <2>7, <2>8, <2>9, <2>10
            DEF ApplicationNext, SetupStep
<1>2. ApplicationInv /\ [ApplicationNext]_appVars
        => [testing /\ ioService = "running" /\ ioService' # "running" => Cause]_appVars
  BY <1>1
<1>. QED  BY <1>2, ApplicationInvariant, PTL DEF ApplicationSpec, TestVerdict

\* A router that is replaced has no operation outstanding (application.cc:239).
THEOREM ApplicationResetIsSafe == ApplicationSpec => ResetIsSafe
<1>1. ASSUME ApplicationInv, BeginSetup PROVE NothingOutstanding
  <2>1. ~started
    BY <1>1 DEF ApplicationInv, ProgressInv, BeginSetup
  <2>. QED  BY <1>1, <2>1, UnstartedIsQuiet DEF ApplicationInv, ProgressInv
<1>2. ApplicationInv => [BeginSetup => NothingOutstanding]_appVars
  BY <1>1
<1>. QED  BY <1>2, ApplicationInvariant, PTL DEF ResetIsSafe

(***************************************************************************)
(* The refinement of Lifecycle.                                            *)
(***************************************************************************)

\* Every step of the application is a step of the lifecycle, or a stutter.
LEMMA NextImplementsLifecycle ==
  ApplicationInv /\ [ApplicationNext]_appVars => [Life!Next]_Life!lifecycleVars
<1> SUFFICES ASSUME ApplicationInv, [ApplicationNext]_appVars
             PROVE  [Life!Next]_Life!lifecycleVars
  OBVIOUS
<1> USE DEF Life!lifecycleVars, Phase
<1>1. /\ testing => ~started /\ ~signalled
      /\ setup # "idle" => ~started
  BY DEF ApplicationInv, ProgressInv, TestInv, TestIsDry
<1>2. CASE UNCHANGED <<ioService, started, testing, signalled>>
  BY <1>2
<1>3. CASE Signal
  <2>1. /\ ioService = "running" /\ ~testing /\ signalled' = TRUE
        /\ UNCHANGED <<ioService, started, testing>>
    BY <1>3 DEF Signal, vars, senderVars, routingVars, systemVars
  <2>. QED  BY <2>1 DEF Life!Next, Life!Tell, Life!Alive
<1>4. CASE Respawn
  <2>1. /\ ioService \in {"crashed", "aborted"} /\ ioService' = "running" /\ ~testing
        /\ started' = FALSE /\ signalled' = FALSE /\ UNCHANGED testing
    BY <1>4 DEF Respawn, DestroyRouter, systemVars
  <2>. QED  BY <2>1 DEF Life!Next, Life!Replace
<1>5. ASSUME ioService = "running", ioService' \in {"crashed", "aborted"},
             UNCHANGED <<testing, signalled>>
      PROVE  Life!Fail
  BY <1>5 DEF Life!Fail, Life!Alive
<1>6. ASSUME ioService = "running", ioService' = "stopped", signalled \/ testing,
             UNCHANGED <<testing, signalled>>
      PROVE  Life!Stop
  BY <1>6 DEF Life!Stop, Life!Alive
<1>7. ASSUME ~started, ioService = "running", ~testing, started',
             UNCHANGED <<ioService, testing, signalled>>
      PROVE  Life!Forward
  BY <1>7 DEF Life!Forward
<1>8. CASE \E i \in Interfaces \ LongNames : InterfaceFlips(i) \/ AddressesChange(i)
  BY <1>2, <1>8 DEF InterfaceFlips, AddressesChange, vars, senderVars, routingVars
<1>9. CASE BeginSetup
  <2>1. /\ ioService = "running" /\ started' = FALSE /\ UNCHANGED <<testing, signalled>>
        /\ ioService' \in {"crashed", "aborted"} \/ UNCHANGED ioService
    BY <1>9 DEF BeginSetup, DestroyRouter, systemVars
  <2>2. ~started
    BY <1>9 DEF BeginSetup, ApplicationInv, ProgressInv
  <2>. QED  BY <1>2, <1>5, <2>1, <2>2 DEF Life!Next
<1>10. CASE SetupStep
  <2>1. UNCHANGED <<testing, signalled>>
    BY <1>10 DEF SetupStep, systemVars
  <2>2. CASE (\E i \in Interfaces : CheckInterface(i)) \/ QueryAddresses
    BY <1>2, <2>1, <2>2 DEF CheckInterface, QueryAddresses, vars, senderVars, routingVars
  <2>3. CASE InterfacesDown
    <3>1. /\ ioService = "running" /\ UNCHANGED started
          /\ UNCHANGED ioService \/ (testing /\ ioService' = "stopped")
      BY <2>3 DEF InterfacesDown, HasTimer, EndTest, routerVars, vars, senderVars, routingVars
    <3>. QED  BY <1>2, <1>6, <2>1, <3>1 DEF Life!Next
  <2>4. CASE FinishSetup
    <3>1. /\ ioService = "running" /\ setup # "idle"
          /\ \/ ~testing /\ started' /\ UNCHANGED ioService
             \/ testing /\ ioService' = "stopped" /\ UNCHANGED started
      BY <2>4 DEF FinishSetup, HasRouter, Start, EndTest, senderVars, routerVars, routingVars
    <3>. QED  BY <1>1, <1>6, <1>7, <2>1, <3>1 DEF Life!Next
  <2>5. ASSUME NEW r \in ConfiguredRules, AddNextRule(r) \/ AddressMissing(r) \/ RuleFails(r)
        PROVE  [Life!Next]_Life!lifecycleVars
    <3>1. /\ ioService = "running" /\ UNCHANGED started
          /\ UNCHANGED ioService \/ ioService' = "crashed"
      BY <2>5 DEF AddNextRule, AddressMissing, RuleFails, AtRule, Rethrow, EndTest, AddRule,
                  AddRuleRefused, AddRuleThrows, routerVars, vars, senderVars, routingVars
    <3>. QED  BY <1>2, <1>5, <2>1, <3>1 DEF Life!Next
  <2>. QED  BY <1>10, <2>2, <2>3, <2>4, <2>5 DEF SetupStep
<1>11. CASE SetupThrows
  BY <1>5, <1>11 DEF SetupThrows, systemVars, Life!Next
<1>12. CASE HandleSignal
  BY <1>6, <1>12 DEF HandleSignal, StopLoop, systemVars, Life!Next
<1>13. CASE RouterStep
  <2>1. /\ UNCHANGED <<started, testing, signalled>>
        /\ UNCHANGED ioService \/ (ioService = "running" /\ ioService' = "crashed")
    BY <1>13, RouterStepEffect DEF ApplicationInv, routingVars, systemVars
  <2>. QED  BY <1>2, <1>5, <2>1 DEF Life!Next
<1>14. CASE UNCHANGED appVars
  BY <1>2, <1>14 DEF appVars, vars, senderVars, routingVars, systemVars
<1>. QED  BY <1>3, <1>4, <1>8, <1>9, <1>10, <1>11, <1>12, <1>13, <1>14 DEF ApplicationNext

\* The daemon lives the life of Lifecycle: it never goes back from forwarding to
\* waiting, and stops only when it is told to (application.cc:205-230, 275-278).
THEOREM ApplicationImplementsLifecycle == ApplicationSpec => ImplementsLifecycle
<1>1. ApplicationInit => Life!Init
  BY DEF ApplicationInit, Init, RouterInit, SenderInit, Phase, Life!Init
<1>2. ApplicationInv /\ [ApplicationNext]_appVars => [Life!Next]_Life!lifecycleVars
  BY NextImplementsLifecycle
<1>3. ApplicationSpec => []ApplicationInv
  BY ApplicationInvariant
<1>4. ApplicationSpec => ApplicationInit /\ [][ApplicationNext]_appVars
  BY PTL DEF ApplicationSpec
<1>. QED  BY <1>1, <1>2, <1>3, <1>4, PTL DEF ImplementsLifecycle, Life!Spec

(***************************************************************************)
(* Routing: no datagram leaves where no rule of its interface sends it.    *)
(***************************************************************************)

\* What NeverMisrouted needs besides ApplicationInv: promises are made by started
\* routers only, and what sockets accept is what the networks carry.
RoutingInv ==
  /\ ~started => \A s \in InterfaceAddresses : promised[s] = << >>
  /\ \A e \in Endpoints : \A k \in DOMAIN delivered[e] : delivered[e][k] \in Traffic
  /\ NeverMisrouted

\* What the rules say depends on the configuration and the addresses that were read.
LEMMA RulesReadTheSame ==
  ASSUME UNCHANGED <<configuration, snapshot>>
  PROVE  /\ ConfiguredRules' = ConfiguredRules
         /\ TrafficStaysHome' = TrafficStaysHome
         /\ \A r : /\ AddressOf(r.from)' = AddressOf(r.from)
                   /\ AddressOf(r.to)' = AddressOf(r.to)
BY DEF ConfiguredRules, TrafficStaysHome, AcceptedNetworks, HasAddress, AddressOf

\* Without a promise, none is misrouted.
LEMMA PromisesKept ==
  ASSUME NeverMisrouted, UNCHANGED <<configuration, snapshot, promised, handled>>
  PROVE  NeverMisrouted'
<1> DEFINE Routed(s, j, r) ==
             /\ r.endpoint = promised[s][j].endpoint
             /\ AddressOf(r.to) = s
             /\ \E k \in DOMAIN handled[r.endpoint] :
                  /\ handled[r.endpoint][k].payload = promised[s][j].payload
                  /\ handled[r.endpoint][k].interface = AddressOf(r.from)
<1>1. TrafficStaysHome' <=> TrafficStaysHome
  BY RulesReadTheSame
<1>2. \A s, j, r : Routed(s, j, r)' <=> Routed(s, j, r)
  BY RulesReadTheSame
<1>3. ConfiguredRules' = ConfiguredRules
  BY RulesReadTheSame
<1>4. TrafficStaysHome =>
        \A s \in InterfaceAddresses : \A j \in DOMAIN promised[s] :
          \E r \in ConfiguredRules : Routed(s, j, r)
  BY DEF NeverMisrouted
<1>5. (TrafficStaysHome =>
        \A s \in InterfaceAddresses : \A j \in DOMAIN promised[s] :
          \E r \in ConfiguredRules : Routed(s, j, r))'
  <2> HIDE DEF Routed
  <2>. QED  BY <1>1, <1>2, <1>3, <1>4
<1>. QED  BY <1>5 DEF NeverMisrouted

\* Steps that make no promise; only before the start are addresses read.
LEMMA RoutingInvKept ==
  ASSUME RoutingInv, UNCHANGED <<configuration, promised, delivered, handled>>,
         started => started' /\ UNCHANGED snapshot
  PROVE  RoutingInv'
<1>1. NeverMisrouted'
  <2>1. CASE started
    <3>1. UNCHANGED <<configuration, snapshot>>
      BY <2>1
    <3>2. NeverMisrouted
      BY DEF RoutingInv
    <3>. QED  BY <3>1, <3>2, PromisesKept
  <2>2. CASE ~started
    <3>1. \A s \in InterfaceAddresses : DOMAIN promised'[s] = {}
      BY <2>2, EmptySeq DEF RoutingInv
    <3>. QED  BY <3>1 DEF NeverMisrouted
  <2>. QED  BY <2>1, <2>2
<1>. QED  BY <1>1 DEF RoutingInv

\* A new router has promised nothing.
LEMMA NewRouterRoutes ==
  ASSUME DestroyRouter
  PROVE  RoutingInv'
<1>1. \A e \in Endpoints : DOMAIN delivered'[e] = {}
  BY EmptySeq DEF DestroyRouter
<1>2. \A s \in InterfaceAddresses : promised'[s] = << >>
  BY DEF DestroyRouter
<1>3. NeverMisrouted'
  <2>1. \A s \in InterfaceAddresses : DOMAIN promised'[s] = {}
    BY <1>2, EmptySeq
  <2>. QED  BY <2>1 DEF NeverMisrouted
<1>. QED  BY <1>1, <1>2, <1>3 DEF RoutingInv

\* An arrival is part of the traffic.
LEMMA ArriveKeepsRouting ==
  ASSUME RouterInv, RoutingInv, NEW d \in Traffic, Arrive(d), UNCHANGED <<configuration, snapshot>>
  PROVE  RoutingInv'
<1>1. /\ UNCHANGED <<routingVars, receiverVars, senderVars>>
      /\ delivered' = [e \in Endpoints |-> IF e \in Recipients(d)
                                           THEN Append(delivered[e], d) ELSE delivered[e]]
  BY DEF Arrive, Deliver
<1>2. UNCHANGED <<started, promised, handled>>
  BY <1>1 DEF routingVars, receiverVars, senderVars
<1>3. ASSUME NEW e \in Endpoints, NEW k \in DOMAIN delivered'[e]
      PROVE  delivered'[e][k] \in Traffic
  <2>1. delivered[e] \in Seq(Datagram) /\ d \in Datagram
    BY TrafficAssumption DEF RouterInv, ForwarderInv, RouterTypes
  <2>2. CASE e \notin Recipients(d)
    BY <1>1, <1>3, <2>2 DEF RoutingInv
  <2>3. CASE e \in Recipients(d)
    <3>1. delivered'[e] = Append(delivered[e], d)
      BY <1>1, <2>3
    <3>2. /\ DOMAIN delivered[e] = 1..Len(delivered[e]) /\ Len(delivered[e]) \in Nat
          /\ DOMAIN delivered'[e] = 1..(Len(delivered[e]) + 1)
          /\ \A i \in 1..Len(delivered[e]) : delivered'[e][i] = delivered[e][i]
          /\ delivered'[e][Len(delivered[e]) + 1] = d
      BY <2>1, <3>1, AppendProperties, LenProperties
    <3>3. \A i \in DOMAIN delivered[e] : delivered[e][i] \in Traffic
      BY DEF RoutingInv
    <3>. QED  BY <1>3, <3>2, <3>3
  <2>. QED  BY <2>2, <2>3
<1>4. NeverMisrouted'
  BY <1>2, PromisesKept DEF RoutingInv
<1>. QED  BY <1>2, <1>3, <1>4 DEF RoutingInv

\* What one more datagram handled makes of the items promised to a sender.
LEMMA ItemsOfConcat ==
  \A p, q \in Seq(QueueItem) :
    \A x : (\E k \in DOMAIN (p \o q) : x = (p \o q)[k])
             <=> (\E k \in DOMAIN p : x = p[k]) \/ (\E k \in DOMAIN q : x = q[k])
<1> DEFINE P(S) == \A p, q \in Seq(S) :
                     \A x : (\E k \in DOMAIN (p \o q) : x = (p \o q)[k])
                              <=> (\E k \in DOMAIN p : x = p[k]) \/ (\E k \in DOMAIN q : x = q[k])
<1>1. \A S : P(S)
  BY ElementsOfConcat
<1> HIDE DEF P
<1>2. P(QueueItem)
  BY <1>1
<1>. QED  BY <1>2 DEF P

\* handlePacket looks at the source alone; the rule that accepts it is one of the
\* configuration, and the source tells the interface.
LEMMA EndReceiveKeepsRouting ==
  ASSUME ApplicationInv, RoutingInv, NEW e \in Endpoints, EndReceive(e),
         UNCHANGED <<configuration, snapshot>>
  PROVE  RoutingInv'
<1> DEFINE d == buffer[e]
           copies == [s \in InterfaceAddresses |-> IF d.length > 0 THEN Copies(e, d, s) ELSE << >>]
<1>1. /\ receiver[e] = "received" /\ Send(copies)
      /\ handled' = [handled EXCEPT ![e] = Append(@, d)]
      /\ UNCHANGED <<socketVars, routingVars>>
  BY DEF EndReceive, Received
<1>2. RouterTypes /\ OneForwarderInv(e) /\ SenderTypeOK
  BY DEF ApplicationInv, RouterInv, ForwarderInv, SenderInv
<1>3. /\ d \in Datagram /\ handled[e] \in Seq(Datagram) /\ socketBuffer[e] \in Seq(Datagram)
      /\ delivered[e] = (handled[e] \o <<d>>) \o socketBuffer[e]
      /\ delivered[e] \in Seq(Datagram) /\ started
  BY <1>1, <1>2 DEF OneForwarderInv, RouterTypes, InBuffer
<1>4. promised' = [s \in InterfaceAddresses |-> promised[s] \o copies[s]]
  BY <1>1 DEF Send
<1>5. \A s \in InterfaceAddresses : copies[s] \in Seq(QueueItem) /\ promised[s] \in Seq(QueueItem)
  BY <1>2, <1>3, CopiesProperties, EmptySeq, SenderTypes
<1> HIDE DEF d
<1>6. d \in Traffic
  <2>1. /\ Len(handled[e]) < Len((handled[e] \o <<d>>) \o socketBuffer[e])
        /\ ((handled[e] \o <<d>>) \o socketBuffer[e])[Len(handled[e]) + 1] = d
    BY <1>3, DatagramInHand
  <2>2. /\ Len(handled[e]) < Len(delivered[e])
        /\ delivered[e][Len(handled[e]) + 1] = d
    BY <1>3, <2>1
  <2>3. /\ Len(handled[e]) \in Nat /\ Len(delivered[e]) \in Nat
        /\ DOMAIN delivered[e] = 1..Len(delivered[e])
    BY <1>3, LenProperties
  <2>4. Len(handled[e]) + 1 \in DOMAIN delivered[e]
    BY <2>2, <2>3
  <2>. QED  BY <2>2, <2>4 DEF RoutingInv
<1>7. /\ Len(handled[e]) + 1 \in DOMAIN handled'[e] /\ handled'[e][Len(handled[e]) + 1] = d
      /\ \A f \in Endpoints : \A k \in DOMAIN handled[f] :
           k \in DOMAIN handled'[f] /\ handled'[f][k] = handled[f][k]
  <2>1. /\ handled'[e] = Append(handled[e], d)
        /\ \A f \in Endpoints \ {e} : handled'[f] = handled[f]
    BY <1>1, <1>2 DEF RouterTypes
  <2>2. /\ DOMAIN handled[e] = 1..Len(handled[e]) /\ Len(handled[e]) \in Nat
        /\ DOMAIN handled'[e] = 1..(Len(handled[e]) + 1)
        /\ \A i \in 1..Len(handled[e]) : handled'[e][i] = handled[e][i]
        /\ handled'[e][Len(handled[e]) + 1] = d
    BY <1>3, <2>1, AppendProperties, LenProperties
  <2>. QED  BY <2>1, <2>2
<1>8. DoesAsConfigured(ConfiguredRules) /\ ConfiguredRules \subseteq ForwardingRule
  BY <1>3, ConfigurationTypes DEF ApplicationInv, RulesInv, StartedAsConfigured
<1>9. ASSUME TrafficStaysHome, NEW s \in InterfaceAddresses, NEW j \in DOMAIN promised'[s]
      PROVE  \E r \in ConfiguredRules :
               /\ r.endpoint = promised'[s][j].endpoint
               /\ AddressOf(r.to) = s
               /\ \E k \in DOMAIN handled'[r.endpoint] :
                    /\ handled'[r.endpoint][k].payload = promised'[s][j].payload
                    /\ handled'[r.endpoint][k].interface = AddressOf(r.from)
  <2>1. \/ \E n \in DOMAIN promised[s] : promised'[s][j] = promised[s][n]
        \/ \E n \in DOMAIN copies[s] : promised'[s][j] = copies[s][n]
    <3>1. promised'[s] = promised[s] \o copies[s]
      BY <1>4
    <3> DEFINE p == promised[s]
               q == copies[s]
    <3>2. p \in Seq(QueueItem) /\ q \in Seq(QueueItem) /\ promised'[s] = p \o q
      BY <1>5, <3>1
    <3> HIDE DEF p, q, copies
    <3>3. \E n \in DOMAIN (p \o q) : promised'[s][j] = (p \o q)[n]
      BY <1>9, <3>2
    <3>4. \/ \E n \in DOMAIN p : promised'[s][j] = p[n]
          \/ \E n \in DOMAIN q : promised'[s][j] = q[n]
      BY <3>2, <3>3, ItemsOfConcat
    <3>. QED  BY <3>4 DEF p, q
  <2>2. ASSUME NEW n \in DOMAIN promised[s], promised'[s][j] = promised[s][n]
        PROVE  \E r \in ConfiguredRules :
                 /\ r.endpoint = promised'[s][j].endpoint
                 /\ AddressOf(r.to) = s
                 /\ \E k \in DOMAIN handled'[r.endpoint] :
                      /\ handled'[r.endpoint][k].payload = promised'[s][j].payload
                      /\ handled'[r.endpoint][k].interface = AddressOf(r.from)
    <3>1. PICK r \in ConfiguredRules :
            /\ r.endpoint = promised[s][n].endpoint
            /\ AddressOf(r.to) = s
            /\ \E k \in DOMAIN handled[r.endpoint] :
                 /\ handled[r.endpoint][k].payload = promised[s][n].payload
                 /\ handled[r.endpoint][k].interface = AddressOf(r.from)
      BY <1>9 DEF RoutingInv, NeverMisrouted
    <3>2. r.endpoint \in Endpoints
      BY <1>8 DEF ForwardingRule
    <3>. QED  BY <1>7, <2>2, <3>1, <3>2
  <2>3. ASSUME NEW n \in DOMAIN copies[s], promised'[s][j] = copies[s][n]
        PROVE  \E r \in ConfiguredRules :
                 /\ r.endpoint = promised'[s][j].endpoint
                 /\ AddressOf(r.to) = s
                 /\ \E k \in DOMAIN handled'[r.endpoint] :
                      /\ handled'[r.endpoint][k].payload = promised'[s][j].payload
                      /\ handled'[r.endpoint][k].interface = AddressOf(r.from)
    <3>1. copies[s] = Copies(e, d, s)
      <4>1. copies[s] # << >>
        BY <2>3, EmptySeq
      <4>. QED  BY <4>1
    <3>2. /\ promised'[s][j].payload = d.payload /\ promised'[s][j].endpoint = e
          /\ \E k \in DOMAIN rules[e] : rules[e][k].sender = s /\ d.source \in rules[e][k].network
      <4> HIDE DEF copies
      <4>1. n \in DOMAIN Copies(e, d, s)
        BY <2>3, <3>1
      <4>. QED  BY <1>2, <1>3, <2>3, <3>1, <4>1, CopyHasRule
    <3>3. PICK entry \in InForce(e) : entry.sender = s /\ d.source \in entry.network
      BY <3>2 DEF InForce
    <3>4. PICK r \in ConfiguredRules : r.endpoint = e /\ entry \in Entries(r)
      BY <1>8, <3>3 DEF DoesAsConfigured
    <3>5. PICK k \in DOMAIN AcceptedNetworks(r) :
            entry = [network |-> AcceptedNetworks(r)[k], sender |-> AddressOf(r.to)]
      BY <3>4 DEF Entries
    <3>6. AddressOf(r.to) = s /\ d.source \in AcceptedNetworks(r)[k]
      BY <3>3, <3>5
    <3>7. d.interface = AddressOf(r.from)
      BY <1>6, <1>9, <3>4, <3>6 DEF TrafficStaysHome
    <3>. QED  BY <1>7, <3>2, <3>4, <3>6, <3>7
  <2>. QED  BY <2>1, <2>2, <2>3
<1>10. NeverMisrouted'
  <2>1. /\ ConfiguredRules' = ConfiguredRules /\ TrafficStaysHome' = TrafficStaysHome
        /\ \A r : /\ AddressOf(r.from)' = AddressOf(r.from)
                  /\ AddressOf(r.to)' = AddressOf(r.to)
    BY RulesReadTheSame
  <2>. QED  BY <1>9, <2>1 DEF NeverMisrouted
<1>. QED  BY <1>1, <1>3, <1>10 DEF RoutingInv, socketVars, routingVars

\* Every step of the application keeps the promises where they belong.
LEMMA ApplicationNextKeepsRouting ==
  ASSUME ApplicationInv, RoutingInv, [ApplicationNext]_appVars
  PROVE  RoutingInv'
<1>1. CASE UNCHANGED <<vars, configuration, snapshot>>
  BY <1>1, RoutingInvKept DEF vars, senderVars, routingVars, receiverVars, socketVars
<1>2. CASE UNCHANGED <<routerVars, configuration, snapshot>>
  BY <1>2, RoutingInvKept DEF routerVars, routingVars, receiverVars, socketVars
<1>3. CASE \/ \E i \in Interfaces \ LongNames : InterfaceFlips(i) \/ AddressesChange(i)
           \/ Signal
  BY <1>1, <1>3 DEF InterfaceFlips, AddressesChange, Signal, setupVars, localVars, systemVars
<1>4. CASE Respawn \/ BeginSetup
  BY <1>4, NewRouterRoutes DEF Respawn, BeginSetup
<1>5. CASE SetupStep
  <2>1. UNCHANGED configuration
    BY <1>5 DEF SetupStep, systemVars
  <2>2. CASE (\E i \in Interfaces : CheckInterface(i)) \/ InterfacesDown
    BY <1>1, <1>2, <2>1, <2>2 DEF CheckInterface, InterfacesDown, EndTest, localVars
  <2>3. CASE QueryAddresses
    <3>1. ~started /\ UNCHANGED vars
      BY <2>3 DEF QueryAddresses, ApplicationInv, ProgressInv
    <3>. QED  BY <2>1, <3>1, RoutingInvKept DEF vars, senderVars, receiverVars, socketVars
  <2>4. CASE FinishSetup
    <3>1. ~started /\ UNCHANGED <<promised, delivered, handled>>
      BY <2>4 DEF FinishSetup, Start, EndTest, ApplicationInv, ProgressInv,
                  routerVars, receiverVars, senderVars, socketVars
    <3>. QED  BY <2>1, <3>1, RoutingInvKept
  <2>5. ASSUME NEW r \in ConfiguredRules, AddNextRule(r) \/ AddressMissing(r) \/ RuleFails(r)
        PROVE  RoutingInv'
    <3>1. ~started
      BY <2>5 DEF AddNextRule, AddressMissing, RuleFails, AtRule, ApplicationInv, ProgressInv
    <3>2. UNCHANGED <<promised, delivered, handled>>
      BY <2>5 DEF AddNextRule, AddressMissing, RuleFails, AddRule, AddRuleRefused, AddRuleThrows,
                  Rethrow, EndTest, routerVars, vars, senderVars, receiverVars, socketVars
    <3>. QED  BY <2>1, <3>1, <3>2, RoutingInvKept
  <2>. QED  BY <1>5, <2>2, <2>3, <2>4, <2>5 DEF SetupStep
<1>6. CASE SetupThrows \/ HandleSignal
  BY <1>2, <1>6 DEF SetupThrows, HandleSignal, setupVars, localVars, systemVars
<1>7. CASE RouterStep
  <2>1. UNCHANGED <<started, configuration, snapshot>>
    BY <1>7, RouterStepEffect DEF ApplicationInv, routingVars, setupVars, localVars, systemVars
  <2>2. CASE Arrival
    BY <2>1, <2>2, ArriveKeepsRouting DEF Arrival, ApplicationInv
  <2>3. ASSUME NEW e \in Endpoints, EndReceive(e) PROVE RoutingInv'
    BY <2>1, <2>3, EndReceiveKeepsRouting
  <2>4. CASE UNCHANGED <<promised, delivered, handled>>
    BY <2>1, <2>4, RoutingInvKept
  <2>5. ASSUME NEW e \in Endpoints,
               KernelReceive(e) \/ EndReceiveThrows(e) \/ KernelReceiveFails(e)
        PROVE  UNCHANGED <<promised, delivered, handled>>
    BY <2>5 DEF KernelReceive, EndReceiveThrows, KernelReceiveFails, senderVars,
                receiverVars, socketVars
  <2>6. ASSUME NEW s \in InterfaceAddresses,
               Transmit(s) \/ TransmitFails(s) \/ Sent(s) \/ SentThrows(s)
        PROVE  UNCHANGED <<promised, delivered, handled>>
    BY <2>6 DEF Transmit, EnableLoopback, TransmitFails, Sent, SentThrows, KernelSend,
                KernelSendFails, EndSend, EndSendThrows, receiverVars, socketVars
  <2>. QED  BY <1>7, <2>2, <2>3, <2>4, <2>5, <2>6 DEF RouterStep, Forwarding, ForwardingFault
<1>8. CASE UNCHANGED appVars
  BY <1>1, <1>8 DEF appVars, setupVars, localVars, systemVars
<1>. QED  BY <1>3, <1>4, <1>5, <1>6, <1>7, <1>8 DEF ApplicationNext

\* While hosts use the addresses of their networks, a datagram leaves only where a
\* rule of the interface it came in on sends it (forwarder.cc:46).
THEOREM ApplicationNeverMisroutes == ApplicationSpec => []NeverMisrouted
<1>1. ApplicationInit => RoutingInv
  <2>1. ApplicationInit =>
          /\ \A s \in InterfaceAddresses : promised[s] = << >> /\ DOMAIN promised[s] = {}
          /\ \A e \in Endpoints : DOMAIN delivered[e] = {}
    BY EmptySeq DEF ApplicationInit, Init, RouterInit, SenderInit
  <2>. QED  BY <2>1 DEF RoutingInv, NeverMisrouted
<1>2. ApplicationInv /\ RoutingInv /\ [ApplicationNext]_appVars => RoutingInv'
  BY ApplicationNextKeepsRouting
<1>3. ApplicationSpec => []ApplicationInv
  BY ApplicationInvariant
<1>4. ApplicationSpec => ApplicationInit /\ [][ApplicationNext]_appVars
  BY PTL DEF ApplicationSpec
<1>5. RoutingInv => NeverMisrouted
  BY DEF RoutingInv
<1>. QED  BY <1>1, <1>2, <1>3, <1>4, <1>5, PTL

(***************************************************************************)
(* The refinement of Relay, with its routers replaced.                     *)
(***************************************************************************)

\* The event loop ends, and takes the relay with it.
LEMMA ExitIsDeath ==
  ASSUME ioService' # "running", UNCHANGED routerVars
  PROVE  Abstract!Die
BY DEF Abstract!Die, routerVars, routingVars, receiverVars, socketVars

\* The router's steps in the application are some of its steps on its own.
LEMMA RouterStepImplementsRelay ==
  ASSUME RouterInv, RouterStep
  PROVE  [Abstract!Next]_Abstract!relayVars
BY NextImplementsRelay DEF RouterStep, Next

\* Destroying a router is rebuilding the relay.
LEMMA DestroyRouterRebuilds ==
  ASSUME DestroyRouter, ioService # "running" \/ \A e \in Endpoints : handled[e] = << >>
  PROVE  Abstract!Rebuild
BY DEF DestroyRouter, Abstract!Rebuild

\* Every step of the application is one of a relay that may be rebuilt, or a stutter.
LEMMA NextImplementsRestartingRelay ==
  ApplicationInv /\ [ApplicationNext]_appVars
    => [Abstract!Next \/ Abstract!Rebuild]_Abstract!relayVars
<1> SUFFICES ASSUME ApplicationInv, [ApplicationNext]_appVars
             PROVE  [Abstract!Next \/ Abstract!Rebuild]_Abstract!relayVars
  OBVIOUS
<1>1. CASE UNCHANGED vars
  BY <1>1, StutterImplementsRelay DEF vars, senderVars, routingVars, receiverVars, socketVars
<1>2. CASE ioService' # "running" /\ UNCHANGED routerVars
  BY <1>2, ExitIsDeath DEF Abstract!Next
<1>3. CASE \/ \E i \in Interfaces \ LongNames : InterfaceFlips(i) \/ AddressesChange(i)
           \/ Signal
  BY <1>1, <1>3 DEF InterfaceFlips, AddressesChange, Signal
<1>4. CASE Respawn
  BY <1>4, DestroyRouterRebuilds DEF Respawn
<1>5. CASE BeginSetup
  <2>1. \A e \in Endpoints : handled[e] = << >>
    BY <1>5 DEF BeginSetup, ApplicationInv, ProgressInv, RouterInv, ForwarderInv, OneForwarderInv
  <2>. QED  BY <1>5, <2>1, DestroyRouterRebuilds DEF BeginSetup
<1>6. CASE SetupStep
  <2>1. CASE (\E i \in Interfaces : CheckInterface(i)) \/ InterfacesDown \/ QueryAddresses
    BY <1>1, <1>2, <2>1 DEF CheckInterface, InterfacesDown, QueryAddresses, EndTest
  <2>2. CASE FinishSetup
    <3>1. CASE Start
      BY <3>1, StutterImplementsRelay DEF Start, socketVars, senderVars
    <3>2. CASE EndTest("stopped")
      BY <1>2, <3>2 DEF EndTest
    <3>. QED  BY <2>2, <3>1, <3>2 DEF FinishSetup
  <2>3. ASSUME NEW r \in ConfiguredRules, AddNextRule(r)
        PROVE  [Abstract!Next \/ Abstract!Rebuild]_Abstract!relayVars
    <3>1. AtRule(r) /\ HasAddress(r.from) /\ HasAddress(r.to) /\ ApplicationTypes
      BY <2>3 DEF AddNextRule, ApplicationInv
    <3>2. /\ r.endpoint \in Endpoints /\ ~started /\ AddressOf(r.from) \in InterfaceAddresses
          /\ AddressOf(r.to) \in InterfaceAddresses
          /\ AcceptedNetworks(r) \in Seq(SUBSET Addresses)
      BY <3>1, RuleTypes DEF ForwardingRule, AtRule, ApplicationInv, ProgressInv
    <3>3. CASE AddRule(r.endpoint, AddressOf(r.from), AcceptedNetworks(r), AddressOf(r.to))
      BY <3>2, <3>3, AddRuleImplementsRelay DEF ApplicationInv, Abstract!Next
    <3>. QED  BY <1>1, <2>3, <3>3 DEF AddNextRule
  <2>4. ASSUME NEW r \in ConfiguredRules, AddressMissing(r)
        PROVE  [Abstract!Next \/ Abstract!Rebuild]_Abstract!relayVars
    BY <1>1, <1>2, <2>4 DEF AddressMissing, Rethrow, EndTest
  <2>5. ASSUME NEW r \in ConfiguredRules, RuleFails(r)
        PROVE  [Abstract!Next \/ Abstract!Rebuild]_Abstract!relayVars
    BY <2>5, StutterImplementsRelay
       DEF RuleFails, AddRuleRefused, AddRuleThrows, receiverVars, socketVars, senderVars
  <2>. QED  BY <1>6, <2>1, <2>2, <2>3, <2>4, <2>5 DEF SetupStep
<1>7. CASE SetupThrows \/ HandleSignal
  BY <1>2, <1>7 DEF SetupThrows, HandleSignal, StopLoop
<1>8. CASE RouterStep
  BY <1>8, RouterStepImplementsRelay DEF ApplicationInv
<1>9. CASE UNCHANGED appVars
  BY <1>1, <1>9 DEF appVars
<1>. QED  BY <1>3, <1>4, <1>5, <1>6, <1>7, <1>8, <1>9 DEF ApplicationNext

\* The daemon's routers are one relay, rebuilt only when the process was replaced or
\* nothing was forwarded yet (application.cc:238-279).
THEOREM ApplicationImplementsRelay == ApplicationSpec => ImplementsRestartingRelay
<1>1. ApplicationInit => Abstract!Init
  BY InitImplementsRelay DEF ApplicationInit
<1>2. ApplicationInv /\ [ApplicationNext]_appVars
        => [Abstract!Next \/ Abstract!Rebuild]_Abstract!relayVars
  BY NextImplementsRestartingRelay
<1>3. ApplicationSpec => []ApplicationInv
  BY ApplicationInvariant
<1>4. ApplicationSpec => ApplicationInit /\ [][ApplicationNext]_appVars
  BY PTL DEF ApplicationSpec
<1>. QED  BY <1>1, <1>2, <1>3, <1>4, PTL DEF ImplementsRestartingRelay, Abstract!RestartingSpec

(***************************************************************************)
(* What can be joined.                                                     *)
(***************************************************************************)

\* Each of the first n rules has a group to join, on an interface of its own.
Joinable(n) ==
  /\ \A k \in 1..n : configuration[k].endpoint \notin NotMulticast
  /\ \A j, k \in 1..n :
       (/\ configuration[j].endpoint = configuration[k].endpoint
        /\ configuration[j].from = configuration[k].from) => j = k

\* A router has the rules that were added only if each could be joined.
JoinableInv ==
  /\ setup = "configuring" /\ ~testing => Joinable(added)
  /\ ForwardsOnlyIfJoined

LEMMA AllJoinable ==
  ASSUME ApplicationTypes
  PROVE  CanBeJoined <=> Joinable(Len(configuration))
<1>1. DOMAIN configuration = 1..Len(configuration)
  BY LenProperties DEF ApplicationTypes
<1>. QED  BY <1>1 DEF CanBeJoined, Joinable, ConfiguredRules

\* Steps that neither add a rule nor start the router.
LEMMA JoinableInvKept ==
  ASSUME JoinableInv, UNCHANGED <<configuration, testing>>,
         started' => started,
         setup' = "configuring" => setup = "configuring" /\ UNCHANGED added
  PROVE  JoinableInv'
<1>1. CanBeJoined' = CanBeJoined
  BY DEF CanBeJoined, ConfiguredRules
<1>2. setup' = "configuring" => Joinable(added)' = Joinable(added)
  BY DEF Joinable
<1>. QED  BY <1>1, <1>2 DEF JoinableInv, ForwardsOnlyIfJoined

\* The kernel joins a group, and only on an interface that is not joined: as the
\* service joined on those of the rules that were added, the next is on another.
LEMMA AddNextRuleKeepsJoinable ==
  ASSUME ApplicationInv, JoinableInv, NEW r, AddNextRule(r), UNCHANGED systemVars
  PROVE  JoinableInv'
<1>1. /\ AtRule(r) /\ HasAddress(r.from) /\ HasAddress(r.to) /\ added' = added + 1
      /\ UNCHANGED <<setup, configuration, testing>>
  BY DEF AddNextRule, systemVars
<1>2. /\ setup = "configuring" /\ added \in Nat /\ ~started
      /\ r = configuration[added + 1] /\ r.endpoint \in Endpoints
  <2>1. added \in Nat
    BY LenProperties DEF ApplicationInv, ApplicationTypes
  <2>2. r \in ForwardingRule
    BY <1>1, RuleTypes DEF ApplicationInv
  <2>. QED  BY <1>1, <2>1, <2>2 DEF AtRule, ApplicationInv, ProgressInv, ForwardingRule
<1>3. started' = started
  BY DEF AddNextRule, AddRule, vars, routingVars
<1>4. ASSUME ~testing PROVE Joinable(added + 1)
  <2>1. /\ r.endpoint \notin NotMulticast
        /\ AddressOf(r.from) \notin joined[r.endpoint]
    BY <1>4 DEF AddNextRule, HasRouter, AddRule, JoinFails
  <2>2. ASSUME NEW k \in 1..added,
               configuration[k].endpoint = r.endpoint, configuration[k].from = r.from
        PROVE  FALSE
    <3>1. configuration[k] \in AddedRules
      BY DEF AddedRules
    <3>2. DoesAsConfigured(AddedRules)
      BY <1>2, <1>4 DEF ApplicationInv, RulesInv
    <3>. QED  BY <2>1, <2>2, <3>1, <3>2 DEF DoesAsConfigured
  <2>3. Joinable(added)
    BY <1>2, <1>4 DEF JoinableInv
  <2>4. \A k \in 1..(added + 1) : k \in 1..added \/ k = added + 1
    BY <1>2
  <2>. QED  BY <1>2, <2>1, <2>2, <2>3, <2>4 DEF Joinable
<1>5. ~testing => Joinable(added)'
  BY <1>1, <1>4 DEF Joinable
<1>. QED  BY <1>1, <1>2, <1>3, <1>5 DEF JoinableInv, ForwardsOnlyIfJoined

\* The router is started once all rules are added.
LEMMA FinishSetupKeepsJoinable ==
  ASSUME ApplicationInv, JoinableInv, FinishSetup, UNCHANGED systemVars
  PROVE  JoinableInv'
<1>1. /\ setup = "configuring" /\ setup' = "idle" /\ added = Len(configuration)
      /\ UNCHANGED <<configuration, testing>>
      /\ ~testing \/ UNCHANGED started
  BY DEF FinishSetup, HasRouter, EndTest, systemVars, routerVars, routingVars
<1>2. CanBeJoined' = CanBeJoined
  BY <1>1 DEF CanBeJoined, ConfiguredRules
<1>3. ~testing => CanBeJoined
  BY <1>1, AllJoinable DEF ApplicationInv, JoinableInv
<1>. QED  BY <1>1, <1>2, <1>3 DEF JoinableInv, ForwardsOnlyIfJoined

LEMMA ApplicationNextKeepsJoinable ==
  ASSUME ApplicationInv, JoinableInv, [ApplicationNext]_appVars
  PROVE  JoinableInv'
<1>1. CASE UNCHANGED <<started, setup, added, configuration, testing>>
  BY <1>1, JoinableInvKept
<1>2. CASE \/ \E i \in Interfaces \ LongNames : InterfaceFlips(i) \/ AddressesChange(i)
           \/ Signal
  BY <1>1, <1>2 DEF InterfaceFlips, AddressesChange, Signal, vars, routingVars,
                    setupVars, localVars, systemVars
<1>3. CASE Respawn \/ BeginSetup
  <2>1. /\ ~started' /\ setup' # "configuring" /\ UNCHANGED <<configuration, testing>>
    BY <1>3 DEF Respawn, BeginSetup, DestroyRouter, systemVars
  <2>. QED  BY <2>1, JoinableInvKept
<1>4. CASE SetupStep
  <2>1. UNCHANGED systemVars
    BY <1>4 DEF SetupStep
  <2>2. CASE (\E i \in Interfaces : CheckInterface(i)) \/ InterfacesDown
    <3>1. UNCHANGED started /\ setup' # "configuring"
      BY <2>2 DEF CheckInterface, InterfacesDown, ScheduleRestart, EndTest,
                  vars, routerVars, routingVars
    <3>. QED  BY <2>1, <3>1, JoinableInvKept DEF systemVars
  <2>3. CASE QueryAddresses
    <3>1. ~started' /\ added' = 0 /\ UNCHANGED <<configuration, testing>>
      BY <2>1, <2>3 DEF QueryAddresses, vars, routingVars, systemVars, ApplicationInv, ProgressInv
    <3>. QED  BY <3>1 DEF JoinableInv, Joinable, ForwardsOnlyIfJoined
  <2>4. CASE FinishSetup
    BY <2>1, <2>4, FinishSetupKeepsJoinable
  <2>5. ASSUME NEW r \in ConfiguredRules, AddressMissing(r) \/ RuleFails(r)
        PROVE  JoinableInv'
    <3>1. UNCHANGED started /\ setup' # "configuring"
      BY <2>5 DEF AddressMissing, RuleFails, Rethrow, EndTest, GiveUp, ScheduleRestart,
                  AddRuleRefused, AddRuleThrows, vars, routerVars, routingVars
    <3>. QED  BY <2>1, <3>1, JoinableInvKept DEF systemVars
  <2>. QED  BY <1>4, <2>1, <2>2, <2>3, <2>4, <2>5, AddNextRuleKeepsJoinable DEF SetupStep
<1>5. CASE SetupThrows \/ HandleSignal
  BY <1>1, <1>5 DEF SetupThrows, HandleSignal, routerVars, routingVars, setupVars, localVars, systemVars
<1>6. CASE RouterStep
  BY <1>1, <1>6, RouterStepEffect DEF ApplicationInv, routingVars, setupVars, localVars, systemVars
<1>7. CASE UNCHANGED appVars
  BY <1>1, <1>7 DEF appVars, vars, routingVars, setupVars, localVars, systemVars
<1>. QED  BY <1>2, <1>3, <1>4, <1>5, <1>6, <1>7 DEF ApplicationNext

\* One service that cannot be joined keeps every service from being forwarded, for
\* ever (application.cc:264-273, receiver.cc:76).
THEOREM ApplicationForwardsOnlyIfJoined == ApplicationSpec => []ForwardsOnlyIfJoined
<1>1. ApplicationInit => JoinableInv
  BY DEF ApplicationInit, Init, RouterInit, JoinableInv, ForwardsOnlyIfJoined
<1>2. ApplicationInv /\ JoinableInv /\ [ApplicationNext]_appVars => JoinableInv'
  BY ApplicationNextKeepsJoinable
<1>3. ApplicationSpec => []ApplicationInv
  BY ApplicationInvariant
<1>4. ApplicationSpec => ApplicationInit /\ [][ApplicationNext]_appVars
  BY PTL DEF ApplicationSpec
<1>5. JoinableInv => ForwardsOnlyIfJoined
  BY DEF JoinableInv
<1>. QED  BY <1>1, <1>2, <1>3, <1>4, <1>5, PTL
=============================================================================
