---------------------------- MODULE Application ----------------------------
(***************************************************************************)
(* The daemon's life (application.h, application.cc): one process that     *)
(* runs an event loop.  The handler setupRouter checks that every          *)
(* interface of the configuration is up, reads the interfaces' addresses,  *)
(* builds a Router and starts it; if it cannot, it arms a timer that runs  *)
(* it again after RESET_DELAY.  Once the router is started it is never     *)
(* rebuilt.  SIGINT and SIGTERM stop the loop (exit status 0); an          *)
(* exception that leaves a handler ends the process, and systemd starts    *)
(* the daemon again (mcv4fwdd.service, Restart=on-failure).                *)
(*                                                                         *)
(* The test of a configuration (-n) calls the same setupRouter, once, with *)
(* no event loop: m_ioService, m_resetTimer and m_router are null, and the *)
(* process ends with the verdict.                                          *)
(*                                                                         *)
(* setupRouter is one handler, and no other handler of the process runs    *)
(* during it; but it makes many system calls, and the interfaces change    *)
(* between them.  It is therefore a chain of steps, one per system call    *)
(* or, while adding rules, per rule.  "setup" is its program counter.      *)
(***************************************************************************)
EXTENDS Router

CONSTANTS
  Interfaces,      \* interface names
  LongNames,       \* those of IFNAMSIZ characters or more; no interface is named so
  Configurations,  \* the configurations that the parser may hand over
  AddressLists,    \* for each interface, the address lists it may have
  MaxDisturbances  \* bound: changes of the interfaces and faults of system calls

\* A ForwardingRule, with its service's endpoint; no networks: the default ones.
ForwardingRule ==
  [endpoint : Endpoints, from : Interfaces, to : Interfaces, networks : Seq(SUBSET Addresses)]

\* An address of an interface, and the network it is on.
InterfaceAddress == [address : InterfaceAddresses, network : SUBSET Addresses]

ASSUME ApplicationAssumption ==
  /\ LongNames \subseteq Interfaces
  /\ Configurations \subseteq Seq(ForwardingRule)
  /\ AddressLists \in [Interfaces -> SUBSET Seq(InterfaceAddress)]
  /\ MaxDisturbances \in Nat

VARIABLES
  configuration, \* m_configuration: the rules of all services, in the order of the file
  testing,       \* whether the process is in Application::test, not in run
  setup,         \* where setupRouter is: "idle" when it does not run
  restart,       \* what will run setupRouter: the first call, or the reset timer
  unchecked,     \* areAllInterfacesUp: the interfaces still to be checked
  allUp,         \* areAllInterfacesUp: allInterfacesUp
  snapshot,      \* interfaceAddresses: the result of getInterfaceAddresses
  added,         \* how many rules setupRouterConfiguration has added
  signalled,     \* SIGINT or SIGTERM was sent to the process
  up,            \* the system: the interfaces that are up
  addressesOf,   \* the system: the addresses of each interface
  disturbances   \* how many changes and faults have happened

localVars == <<unchecked, allUp, snapshot, added>>
setupVars == <<setup, restart, localVars>>
systemVars == <<configuration, testing, up, addressesOf>>
routerVars == <<routingVars, receiverVars, socketVars, fresh, queue, sending, lent, wire, promised>>
appVars == <<vars, setupVars, systemVars, signalled, disturbances>>

ApplicationInit ==
  /\ Init
  /\ configuration \in Configurations
  /\ testing \in BOOLEAN
  /\ setup = "idle"
  /\ restart = "posted"
  /\ unchecked = {}
  /\ allUp = TRUE
  /\ snapshot = [i \in Interfaces |-> << >>]
  /\ added = 0
  /\ signalled = FALSE
  /\ up \in SUBSET (Interfaces \ LongNames)
  /\ addressesOf \in [Interfaces -> UNION {AddressLists[i] : i \in Interfaces}]
  /\ \A i \in Interfaces : addressesOf[i] \in AddressLists[i]
  /\ disturbances = 0

(***************************************************************************)
(* The system around the process.                                          *)
(***************************************************************************)
Disturbance ==
  /\ disturbances < MaxDisturbances
  /\ disturbances' = disturbances + 1

\* An interface goes up or down.
InterfaceFlips(i) ==
  /\ Disturbance
  /\ up' = IF i \in up THEN up \ {i} ELSE up \cup {i}
  /\ UNCHANGED <<vars, setupVars, signalled, configuration, testing, addressesOf>>

\* The addresses of an interface change.
AddressesChange(i) ==
  /\ Disturbance
  /\ \E list \in AddressLists[i] \ {addressesOf[i]} :
       addressesOf' = [addressesOf EXCEPT ![i] = list]
  /\ UNCHANGED <<vars, setupVars, signalled, configuration, testing, up>>

\* systemd, or a user, sends a signal to the daemon (KillSignal=SIGINT).
Signal ==
  /\ ioService = "running"
  /\ ~testing
  /\ ~signalled
  /\ signalled' = TRUE
  /\ UNCHANGED <<vars, setupVars, systemVars, disturbances>>

\* systemd starts a daemon that failed again, RestartSec later.
Respawn ==
  /\ ioService \in {"crashed", "aborted"}
  /\ ~testing
  /\ ioService' = "running"
  /\ DestroyRouter
  /\ setup' = "idle"
  /\ restart' = "posted"
  /\ signalled' = FALSE
  /\ UNCHANGED <<fresh, localVars, systemVars, disturbances>>

(***************************************************************************)
(* setupRouter.                                                            *)
(***************************************************************************)
ConfiguredRules == {configuration[k] : k \in DOMAIN configuration}

\* Configuration::getInterfaces
ConfiguredInterfaces ==
  {r.from : r \in ConfiguredRules} \cup {r.to : r \in ConfiguredRules}

\* Configuration::checkInterfaceName throws std::logic_error for one of them.
NameTooLong == ConfiguredInterfaces \cap LongNames # {}

\* Mutant of HasRouter: a test builds a router, too.
HasRouterAlways == TRUE

\* m_ioService is null in a test; setupRouter then leaves m_router null.
HasRouter == ~testing

\* m_resetTimer is null in a test.
HasTimer == ~testing

\* Mutant of ScheduleRestart: setupRouter returns without arming the timer.
ScheduleNothing == setup' = "idle" /\ UNCHANGED restart

\* setupRouter arms the timer and returns; doRestart will call setupRouter.
ScheduleRestart == setup' = "idle" /\ restart' = "timer"

\* setupRouter leaves a test, which returns its verdict.
EndTest(verdict) ==
  /\ setup' = "idle"
  /\ ioService' = verdict
  /\ UNCHANGED <<routerVars, restart>>

\* setupRouter is called by the posted handler, doRestart or test.  The old router
\* is destroyed first.  The std::logic_error is caught by test, but not by run.
BeginSetup ==
  /\ ioService = "running"
  /\ setup = "idle"
  /\ restart # "none"
  /\ restart' = "none"
  /\ DestroyRouter
  /\ \/ /\ NameTooLong
        /\ ioService' = IF testing THEN "crashed" ELSE "aborted"
        /\ UNCHANGED <<setup, unchecked, allUp>>
     \/ /\ ~NameTooLong
        /\ setup' = "checking"
        /\ unchecked' = ConfiguredInterfaces
        /\ allUp' = TRUE
        /\ UNCHANGED ioService
  /\ UNCHANGED <<fresh, snapshot, added, signalled, systemVars, disturbances>>

\* isInterfaceUp for one interface of areAllInterfacesUp.
CheckInterface(i) ==
  /\ ioService = "running"
  /\ setup = "checking"
  /\ i \in unchecked
  /\ unchecked' = unchecked \ {i}
  /\ allUp' = (allUp /\ i \in up)
  /\ UNCHANGED <<vars, setup, restart, snapshot, added>>

\* Some interface was down: try again later; in a test there is nothing more to do.
InterfacesDown ==
  /\ ioService = "running"
  /\ setup = "checking"
  /\ unchecked = {}
  /\ ~allUp
  /\ IF HasTimer THEN ScheduleRestart /\ UNCHANGED vars ELSE EndTest("stopped")
  /\ UNCHANGED localVars

\* All interfaces were up when checked: getInterfaceAddresses, and a new Router.
QueryAddresses ==
  /\ ioService = "running"
  /\ setup = "checking"
  /\ unchecked = {}
  /\ allUp
  /\ snapshot' = addressesOf
  /\ added' = 0
  /\ setup' = "configuring"
  /\ UNCHANGED <<vars, restart, unchecked, allUp>>

\* socket(), ioctl() or getifaddrs() fails: the exception ends the process.
SetupThrows ==
  /\ ioService = "running"
  /\ setup = "checking"
  /\ Disturbance
  /\ ioService' = "crashed"
  /\ UNCHANGED <<routerVars, setupVars, signalled, systemVars>>

\* getInterfaceAddress: the first address of an interface.
HasAddress(i) == snapshot[i] # << >>
AddressOf(i) == snapshot[i][1].address

\* getAcceptedSourceNetworks: the configured networks; without any, the network of
\* the interface's FIRST address, once for each address the interface has.
AcceptedNetworks(r) ==
  IF r.networks = << >>
  THEN [k \in DOMAIN snapshot[r.from] |-> snapshot[r.from][1].network]
  ELSE r.networks

\* setupRouterConfiguration is at the next rule, r.
AtRule(r) ==
  /\ ioService = "running"
  /\ setup = "configuring"
  /\ added < Len(configuration)
  /\ r = configuration[added + 1]

\* Both addresses of r are known, and addRule succeeds.
AddNextRule(r) ==
  /\ AtRule(r)
  /\ HasAddress(r.from)
  /\ HasAddress(r.to)
  /\ IF HasRouter
     THEN AddRule(r.endpoint, AddressOf(r.from), AcceptedNetworks(r), AddressOf(r.to))
     ELSE UNCHANGED vars
  /\ added' = added + 1
  /\ UNCHANGED <<setup, restart, unchecked, allUp, snapshot, disturbances>>

\* Mutant of GiveUp: only the failing rule is skipped, and setup continues.
SkipRule == added' = added + 1 /\ UNCHANGED <<setup, restart>>

\* setupRouter's catch: the rules that follow are not visited, and the router is
\* left as it is, not started.
GiveUp == ScheduleRestart /\ UNCHANGED added

\* Mutant of Rethrow: the catch block swallows the exception in a test, too.
Swallow == EndTest("stopped")

\* setupRouter's catch, just testing: the exception is passed on to test.
Rethrow == EndTest("crashed")

\* getInterfaceAddress throws: an interface of r has no address.
AddressMissing(r) ==
  /\ AtRule(r)
  /\ ~(HasAddress(r.from) /\ HasAddress(r.to))
  /\ IF testing THEN Rethrow /\ UNCHANGED added ELSE GiveUp /\ UNCHANGED vars
  /\ UNCHANGED <<unchecked, allUp, snapshot, disturbances>>

\* addRule throws: the kernel refuses to join, or a system call fails.
RuleFails(r) ==
  /\ AtRule(r)
  /\ HasRouter
  /\ HasAddress(r.from)
  /\ HasAddress(r.to)
  /\ \/ AddRuleRefused(r.endpoint, AddressOf(r.from)) /\ UNCHANGED disturbances
     \/ AddRuleThrows(r.endpoint, AddressOf(r.from), AddressOf(r.to)) /\ Disturbance
  /\ GiveUp
  /\ UNCHANGED <<unchecked, allUp, snapshot>>

\* Mutant of NoRestart: the timer is armed to check the interfaces periodically.
RestartAnyway == restart' = "timer"

\* setupRouter returns with the router started and no timer armed.
NoRestart == UNCHANGED restart

\* All rules are added: start the router, if there is one.
FinishSetup ==
  /\ ioService = "running"
  /\ setup = "configuring"
  /\ added = Len(configuration)
  /\ IF HasRouter THEN Start /\ NoRestart /\ setup' = "idle" ELSE EndTest("stopped")
  /\ UNCHANGED localVars

SetupStep ==
  /\ \/ /\ \/ \E i \in Interfaces : CheckInterface(i)
           \/ InterfacesDown
           \/ QueryAddresses
           \/ FinishSetup
        /\ UNCHANGED disturbances
     \/ \E r \in ConfiguredRules : AddNextRule(r) \/ AddressMissing(r) \/ RuleFails(r)
  /\ UNCHANGED <<signalled, systemVars>>

(***************************************************************************)
(* The event loop.                                                         *)
(***************************************************************************)

\* Mutant of StopLoop: the signals are handled only once the router is started.
StopWhenStarted == started /\ ioService' = "stopped"

\* io_service::stop, called as it is the handler of the signal set.
StopLoop == ioService' = "stopped"

\* The handler of the signal set stops the loop, and run returns 0.
HandleSignal ==
  /\ ioService = "running"
  /\ setup = "idle"
  /\ signalled
  /\ StopLoop
  /\ UNCHANGED <<routerVars, setupVars, signalled, systemVars, disturbances>>

\* The other handlers and operations of the loop, none of which runs during
\* setupRouter; and the kernel, which takes datagrams for open sockets at any time.
RouterStep ==
  /\ \/ Arrival /\ UNCHANGED disturbances
     \/ setup = "idle" /\ Forwarding /\ UNCHANGED disturbances
     \/ setup = "idle" /\ ForwardingFault /\ Disturbance
  /\ UNCHANGED <<setupVars, signalled, systemVars>>

ApplicationNext ==
  \/ \E i \in Interfaces \ LongNames : InterfaceFlips(i) \/ AddressesChange(i)
  \/ Signal
  \/ Respawn
  \/ BeginSetup
  \/ SetupStep
  \/ SetupThrows
  \/ HandleSignal
  \/ RouterStep

\* The event loop runs ready handlers in the order of its queue, the reset timer
\* expires, and systemd restarts what failed.  A signal's handler is in that queue
\* while setupRouter runs, and runs before handlers that become ready later; as
\* setupRouter may run again and again, this is strong fairness.
ApplicationFairness ==
  /\ WF_appVars(BeginSetup)
  /\ WF_appVars(SetupStep)
  /\ SF_appVars(HandleSignal)
  /\ WF_appVars(Respawn)

ApplicationSpec == ApplicationInit /\ [][ApplicationNext]_appVars /\ ApplicationFairness

(***************************************************************************)
(* Properties.                                                             *)
(***************************************************************************)

\* Type correctness of the application's state; that of the router is TypeOK.
ApplicationTypeOK ==
  /\ TypeOK
  /\ configuration \in Seq(ForwardingRule)
  /\ testing \in BOOLEAN
  /\ setup \in {"idle", "checking", "configuring"}
  /\ restart \in {"none", "posted", "timer"}
  /\ unchecked \subseteq Interfaces
  /\ allUp \in BOOLEAN
  /\ snapshot \in [Interfaces -> Seq(InterfaceAddress)]
  /\ added \in 0..Len(configuration)
  /\ signalled \in BOOLEAN
  /\ up \subseteq Interfaces
  /\ addressesOf \in [Interfaces -> Seq(InterfaceAddress)]
  /\ disturbances \in 0..MaxDisturbances

\* A process whose event loop runs is never dormant: setupRouter runs, or is due
\* to run, or the router is started and forwards.  The signal set alone keeps the
\* loop running, so a path that returned from setupRouter without arming the timer
\* would leave a daemon that does nothing and never ends (application.cc:238-279).
NeverDormant == ioService = "running" => setup # "idle" \/ restart # "none" \/ started

\* No completion handler refers to an object of the router.
NothingOutstanding ==
  /\ \A e \in Endpoints : receiver[e] = "idle"
  /\ \A s \in InterfaceAddresses : sending[s] = "idle"

\* setupRouter destroys the old router only when no receive or send operation is
\* outstanding on it: completion handlers are bound to "this" of receivers and
\* senders (receiver.cc:41, sender.cc:66) and would run on freed objects.
ResetIsSafe == [][BeginSetup => NothingOutstanding]_appVars

\* What rule r asks of its forwarder, with the addresses that were read.
Entries(r) ==
  {[network |-> AcceptedNetworks(r)[k], sender |-> AddressOf(r.to)] : k \in DOMAIN AcceptedNetworks(r)}

\* What the forwarder of e does.
InForce(e) == {rules[e][k] : k \in DOMAIN rules[e]}

\* The router does what the rules "done" ask, all of it and nothing more.
DoesAsConfigured(done) ==
  /\ \A r \in done : /\ HasAddress(r.from) /\ HasAddress(r.to)
                     /\ Entries(r) \subseteq InForce(r.endpoint)
                     /\ AddressOf(r.from) \in joined[r.endpoint]
  /\ \A e \in Endpoints :
       /\ \A entry \in InForce(e) : \E r \in done : r.endpoint = e /\ entry \in Entries(r)
       /\ \A i \in joined[e] : \E r \in done : r.endpoint = e /\ i = AddressOf(r.from)

\* No partly configured router is started, whichever rule or system call failed,
\* however often, and whatever service cannot be joined (application.cc:260-278).
StartedAsConfigured == started => DoesAsConfigured(ConfiguredRules)

\* The hosts of each network use its addresses: what arrives from a network that a
\* rule accepts has arrived on the rule's from-interface.
TrafficStaysHome ==
  \A r \in ConfiguredRules : \A k \in DOMAIN AcceptedNetworks(r) : \A d \in Traffic :
    d.source \in AcceptedNetworks(r)[k] => HasAddress(r.from) /\ d.interface = AddressOf(r.from)

\* While they do, a datagram is promised only to the to-interface of a rule of its
\* endpoint whose from-interface it arrived on, though the code looks at its source
\* alone (forwarder.cc:46).
NeverMisrouted ==
  TrafficStaysHome => \A s \in InterfaceAddresses : \A j \in DOMAIN promised[s] :
    LET item == promised[s][j]
    IN  \E r \in ConfiguredRules :
          /\ r.endpoint = item.endpoint
          /\ AddressOf(r.to) = s
          /\ \E k \in DOMAIN handled[r.endpoint] :
               /\ handled[r.endpoint][k].payload = item.payload
               /\ handled[r.endpoint][k].interface = AddressOf(r.from)

\* The test of a configuration uses neither the router nor the timer, which do not
\* exist: it opens no socket and joins no group (application.cc:246, 255, 275, 306).
TestIsDry == testing => forwarders = {} /\ senders = {} /\ restart # "timer" /\ ~started

\* Whether every interface of the configuration had an address when they were read.
AllAddressed == \A i \in ConfiguredInterfaces : HasAddress(i)

\* The verdict of a test has its cause.  It succeeds when an interface was found down,
\* and the rules are not looked at, or when it visited every rule and every interface
\* had an address; it fails for a long name, because a system call of the check failed,
\* or because an interface had no address: no rule is left out, and no error of a rule
\* is lost on the way (application.cc:260-277, 313-327).
TestVerdict ==
  [][testing /\ ioService = "running" /\ ioService' # "running" =>
       \/ /\ ioService' = "stopped"
          /\ \/ setup = "checking" /\ ~allUp
             \/ setup = "configuring" /\ AllAddressed
       \/ /\ ioService' = "crashed"
          /\ \/ setup = "idle" /\ NameTooLong
             \/ setup = "checking" /\ disturbances' = disturbances + 1
             \/ setup = "configuring" /\ ~AllAddressed]_appVars

\* The daemon's life is that of Lifecycle: in particular it never goes back from
\* forwarding to waiting, and it stops only when it is told to.
Phase ==
  CASE ioService = "running" /\ ~started -> "waiting"
    [] ioService = "running" /\ started -> "forwarding"
    [] ioService = "stopped" -> "stopped"
    [] OTHER -> "failed"
Life == INSTANCE Lifecycle WITH phase <- Phase, told <- signalled
ImplementsLifecycle == Life!Spec

\* Over the whole life of the daemon its routers are one relay, which is rebuilt only
\* when the process was replaced or nothing was forwarded yet: no setup of a running
\* daemon, failed or not, drops what it has promised to send (application.cc:238-279).
ImplementsRestartingRelay == Abstract!RestartingSpec

\* SIGINT or SIGTERM ends the process, also during setupRouter or while it waits
\* for the timer (application.cc:209-211); a test ends by itself, whatever happens.
EndsWhenTold == signalled \/ testing ~> ioService # "running"

\* Each rule has a group to join, and on an interface that its service did not join.
CanBeJoined ==
  /\ \A r \in ConfiguredRules : r.endpoint \notin NotMulticast
  /\ \A j, k \in DOMAIN configuration :
       (/\ configuration[j].endpoint = configuration[k].endpoint
        /\ configuration[j].from = configuration[k].from) => j = k

\* Nothing is forwarded, for any service, unless every service can be joined: one
\* that cannot keeps all of them out (application.cc:264-273, receiver.cc:76).
ForwardsOnlyIfJoined == started => CanBeJoined

\* Once the interfaces stay up and keep an address, the daemon comes to forward
\* and keeps forwarding, whatever failed before, unless it was told to stop; if its
\* configuration is one that can be in force at all.
Healthy == \A i \in ConfiguredInterfaces : i \in up /\ addressesOf[i] # << >>
EventuallyForwards ==
  ~testing /\ CanBeJoined /\ <>[]Healthy => <>[](started \/ ioService = "stopped")

\* A daemon that is not started never stops trying to be, even with a configuration
\* that the kernel refuses every time (application.cc:266-273, receiver.cc:76).
KeepsTrying ==
  []<>(started \/ ioService # "running") \/ []<><<BeginSetup>>_appVars

(***************************************************************************)
(* What comments and the example configuration say, and the code does not. *)
(***************************************************************************)

\* "accept from all networks on which this interface has addresses"
\* (application.cc:96): a rule without networks accepts each of them.
AcceptsAllNetworks ==
  started => \A r \in ConfiguredRules : r.networks = << >> =>
    \A k \in DOMAIN snapshot[r.from] :
      [network |-> snapshot[r.from][k].network, sender |-> AddressOf(r.to)]
        \in InForce(r.endpoint)

\* "forward regardless of sender IP" (mcv4fwdd.example.conf:5): by a rule without
\* networks, whatever arrives on the from-interface is passed to the to-interface.
ForwardsRegardlessOfSender ==
  started => \A r \in ConfiguredRules : r.networks = << >> =>
    \A k \in DOMAIN handled[r.endpoint] :
      LET d == handled[r.endpoint][k]
          out == promised[AddressOf(r.to)]
      IN  (d.interface = AddressOf(r.from) /\ d.length > 0)
            => \E j \in DOMAIN out : out[j].payload = d.payload
=============================================================================
