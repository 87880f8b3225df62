# A verification project for mcv4fwdd

mcv4fwdd forwards IPv4 multicast datagrams (mDNS, SSDP, ...) between interfaces
of one host, as a configuration file says. This directory holds TLA+ modules
that model the daemon, TLC configurations that check them on small instances,
and proofs, checked by TLAPS, that hold for every size of the system. Paths
such as `sender.cc:93` are relative to `src/src/`.

## The system

The daemon is one process with one thread, which runs a boost::asio event loop.
Everything is a completion handler: handlers run one at a time, to the end; but
the operations they begin (send, receive, timer, signal) complete later, in an
order nobody controls.

| Component | State | Operations | Interacts with |
|---|---|---|---|
| Sender (`sender.*`), one per outgoing interface | queue of datagrams, at most one send outstanding | `send`, `beginSend`, `endSend` | called by forwarders; lends the kernel the front item's buffer |
| Receiver (`receiver.*`), base of Forwarder | one buffer, one receive outstanding, group memberships | constructor (bind), `joinOnInterface`, `start`, `endReceive` | calls `handlePacket` from its completion handler |
| Forwarder (`forwarder.*`), one per multicast endpoint | list of (source network, sender) | `add`, `handlePacket` | calls `Sender::send` once per matching entry |
| Router (`router.*`) | forwarders by endpoint, senders by interface address | `addRule`, `start` | built and destroyed by Application |
| Application (`application.*`) | event loop, reset timer, router | `run`, `setupRouter`, `doRestart`, `test` | reads the system's interfaces; stopped by signals; ended by exceptions |
| Configuration model (`config/model/*`) | services, rules, networks | `getInterfaces`, `Network::contains` | filled by the parser, read by Application |
| Parser (`config/parser/*`) | current service and rule, status | grammar actions | fills the configuration |
| Main (`mcv4fwdd.cc`, `commandline.*`) | options | `parse`, `daemonize`, `loadConfiguration` | PID file, forks; then runs or tests the Application |
| systemd unit (`mcv4fwdd.service`) | | restart on failure | starts the daemon, sends SIGINT |

What is hard, and what makes each part correct:

- **Sender.** Calls of `send` meet an outstanding send, a completed one whose
  handler has not run, or none. Correct: one operation outstanding exactly
  while items wait, on the front item's buffer; order kept; nothing lost.
- **Receiver and Forwarder.** One buffer for all datagrams of an endpoint,
  empty datagrams, several matching rules. Correct: always re-armed; each
  datagram handled once and unspoilt; one copy per matching rule; no echo.
- **Router.** Rules share receivers and senders. Correct: rules refer to
  senders that exist; the whole does what an ideal relay would do.
- **Application.** Interfaces change between the system calls of one handler;
  rules fail half-way; a signal comes during retries. Correct: never dormant,
  never partly configured, never destroys objects that the kernel still uses,
  forwards eventually, always ends on a signal. The test of a configuration
  (`-n`) runs the same code with null pointers; correct: it touches nothing,
  ends, and its verdict has a cause.
- **Parser.** An error found in mid-parse does not stop it. Correct: what is
  accepted is what the file says, and every error ends in a failed parse.
- **Main.** Several instances; three processes that return from `daemonize`; a
  parent that exits before its child is ready. Correct: one process runs per
  invocation, one daemon per PID file, and no start waits for ever.

`PROJECT.json` lists every hazard at its line, with the properties for it.

## Modules

| Module | Models |
|---|---|
| `Sender` | all senders: queues, outstanding sends, wires |
| `Relay` | abstract: what the data plane promises, also across restarts |
| `Router` | Router, Forwarder, Receiver and the kernel's side of receiving; extends `Sender` |
| `Application` | setup, timer, signals, crashes and restarts around a router, and the test of a configuration; extends `Router` |
| `Lifecycle` | abstract: the life of the daemon as its user sees it |
| `Network` | the arithmetic of masks and prefixes, from configuration or interface to rule |
| `Parser` | the grammar's actions, the status of a parse |
| `Service` | abstract: what several invocations of the program may expect of each other |
| `Daemon` | command line, what `main` chooses to do, double fork, PID file and lock, several invocations |
| `MCSender`, `MCRouter`, `MCApplication`, `MCNetwork`, `MCParser`, `MCDaemon` | small instances for TLC |
| `FifoLemmas` | lemmas about queues |
| `SenderProofs`, `RouterProofs`, `RelayProofs`, `ApplicationProofs`, `NetworkProofs`, `ParserProofs`, `DaemonProofs` | theorems and proofs |

`Router` extends `Sender`, and `Application` extends `Router`: they share the
process. `Router` is shown to implement `Relay`, and `Application` to implement
`Lifecycle` and, since it rebuilds and restarts its router, the `RestartingSpec`
of `Relay`. `Daemon` implements `Service`. `Network`, `Parser` and `Daemon` stand alone: `Network` justifies that
the others take a network to be the set of its addresses; `Parser` ends where
the configuration is handed over; `Daemon` goes on until a process is about to
run the Application, and takes its end as one of three.

**Sender.** `queue[s]` is `m_queue`, and `sending[s]` the state of its
`async_send_to`: `idle`, `pending` in the kernel, or `sent`/`failed` with the
handler `endSend` ready. `lent[s]` is the item whose buffer `beginSend` passed:
it is kept apart from the queue so that a wrong order of pop and send shows.
All senders are one function each, because `handlePacket` calls `send` on
several within one handler. `wire` and `promised` are histories.

**Router.** `receiver[e]` is the receive operation of endpoint e, `buffer[e]`
its `m_buffer`, which `KernelReceive` overwrites and `EndReceive` reads.
`socketBuffer[e]` is the kernel's bounded queue, where datagrams are dropped
when it is full. A network is the set of its addresses. A socket hears each
datagram to its port whose group the host has joined on the interface of
arrival, whatever socket joined it: binding is to the port alone.
`Transmit` is the sender's step together with what IP_MULTICAST_LOOP would do.

**Application.** `setupRouter` is one handler but makes many system calls, so
it is a chain of steps with `setup` as program counter: check each interface
(in any order, to cover the order of names), read the addresses, add each rule,
start. No other handler runs in between, but the system changes between any two
steps, and datagrams reach the sockets. `restart` is the posted first call
or the timer. An exception gives `crashed` (exit status 1, caught by `run`) or
`aborted` (`std::logic_error` of a long interface name, which `run` does not
catch); `Respawn` is systemd.

`configuration` and `testing` are chosen when the process starts and never
change: the rules of the file, and whether `-n` was given. A test is the same
`setupRouter`, called once, by `test`; `HasRouter` and `HasTimer` are the null
checks of `m_router`/`m_ioService` and `m_resetTimer`, and `EndTest` is what
`test` makes of a return or an exception. A rule is a `ForwardingRule` together
with the endpoint of its service, so that the two nested loops over services and
rules are one count, `added`. `Lifecycle` has only phases (waiting, forwarding,
stopped, failed); `Phase` maps to them. `RestartingSpec` has one action more than
`Relay`'s own specification: `Rebuild`, possible only in a relay that died or has
forwarded nothing, replaces everything. The daemon's routers, one after the other,
are such a relay: a step that destroyed a router at work would be none of it.

**Network.** One network is followed from `FromConfiguration` (`parser.y`) or
`FromInterface` (`getInterfaceAddresses`, then `getMaskedNetwork`) into a rule,
which is asked about sources. A machine word is the set of the positions of its
ones, so that `&` and `~` are set operations on `ULong` bits, `MinusOne` borrows
from the last one and wraps around at zero, and a shift by the width of the type,
which is undefined, gives 0 or 1, as on real machines.

**Parser.** One step reads the tokens up to an action of the grammar. The
actions add to the *back* of lists, so that the place where a rule ends up
depends on everything before it; `text` is a history of what the file says, and
`Meaning(text)` the configuration it describes. `BackOfNothing` is the undefined
`back()` of an empty list: the process dies, or goes on as if nothing happened.
A failed read looks like the end of the file (`ReadFails`, `Unread`).

**Daemon.** A process `<<i, g>>` is generation g of invocation i; `at` is the
system call it makes next, so that all processes interleave between any two of
them. `pidFile[f]` and `lock[f]` are the PID file's first line and the holder of
its lock; `End` releases the locks of a process, as the kernel does. The command
line is read as `getopt` does: options in order, up to the one at which
`doParse` returns, and operands last. In `Service` an invocation has a phase
(starting, serving, over) and the PID file it will hold; `PhaseOf` maps the up to
three processes of an invocation to its phase, and `FilesOf` gives a daemon its PID
file and an application in the foreground none. A fork is then no step at all, the
end of the last process is `Finish`, and `WritePidFile` and `MainRuns` are `Serve`,
which `Service` allows only while nobody serves with the same file.

## Runs

All configurations have `CHECK_DEADLOCK FALSE`: the process may end, and the
instances have a bounded number of datagrams.

| Run | Question | Instance |
|---|---|---|
| `sender` | Are queues, buffers and wake-ups right under any calls of `send`? | 2 senders, 3 datagrams, 0 to 2 copies each |
| `router` | Does the data plane implement `Relay`, keep the order of each service from network to network, and forward all it accepts? | 2 interfaces, 2 services, 3 rules added in any order before, after or between arrivals, overlapping networks, an empty datagram, 3 datagrams, socket buffers of 2 |
| `application` | Does the daemon come to forward, and stop, whatever fails? Does it implement `Lifecycle` and, over all its restarts, `Relay`? What does a test say? | 2 interfaces and an impossible one, addresses that change, 4 configurations, run or tested, 2 datagrams on 2 networks, 3 changes or faults |
| `network` | Does a rule accept the sources with the network's prefix, and only them? | addresses of 5 bits, an unsigned long of 10: every network, prefix and source |
| `parser` | Is an accepted configuration what the file says? | 3 services (known, unknown, by address and port), 2 rules each, a network |
| `daemon` | Do invocations exclude each other by the PID file, does every start end, and with which status? Do they implement `Service`? | 3 invocations, 5 command lines, any system call may fail |
| `all_networks`, `foreign_sender`, `same_port`, `first_service_unknown`, `high_ports`, `help` | Does the code do what its comments, messages, help and example say? (no) | see below |

**Bounds.** `MaxCopies` (2) copies of a datagram per sender and handler in
`Sender` alone: one item begins a send and another waits. A payload stands for
one datagram on the network, so 3 payloads fill a queue with one datagram being
sent, one completed and one waiting, and let one be dropped at a full socket.
The configurations of `application` are the example's service with a rule in
each direction (`BothDirections`), and three that can never be in force: a
service that joins twice on one interface (`JoinsTwice`), a service without a
group after one that has one (`NoGroup`), and an interface name that is too long
(`TooLong`). `MaxDisturbances` (3) interface changes and faults in `Application`: enough to
go down, come back and fail in between; once they are used up the system is
quiet, which liveness needs anyway. `Width` (5) for 32 bits keeps each boundary
of a prefix length: none, one, all but one, all. `MaxServices` (3), `MaxRules`
(2), `MaxNetworks` (1): an unknown service has a known one before and after it,
and a rule that is not the first. Three invocations: one holds the lock, one is
refused, and one starts while the holder dies. The proofs have no bounds.

**Fairness.** Weak fairness of each kernel operation and of each ready handler:
asio runs every ready handler in the order of its queue, and no handler blocks.
The kernel's completion is fair as "completes or fails". `BeginSetup` is fair
because the timer expires, `Respawn` because systemd restarts what failed
(after 30 seconds, which is below its default limit on the rate of starts).
`HandleSignal` has strong fairness: the handler waits in the queue while
`setupRouter` runs, which may happen again and again, but it is not overtaken by
handlers that become ready later. Faults, signals and arrivals have no
fairness. In `Daemon` each invocation's start is weakly fair, since the system
schedules every process and no call of the start blocks (`F_TLOCK`); a `lockf`
that fails though nobody holds the lock (`LockFaults`) may never happen, and the
application's end has no fairness.

**Findings.** Each is a run that TLC shows violated:

1. `all_networks`: `getAcceptedSourceNetworks` adds the first network once per
   address (`sourceIter` where `iter` is meant, `application.cc:100`), although
   its comment says that all networks are accepted.
2. `foreign_sender`: a rule without networks accepts the from-interface's
   network only; the example configuration says "regardless of sender IP".
3. `same_port`: receivers of services that share a port hear each other's
   groups, and send what they hear to their own group.
4. `first_service_unknown`: when the first service of a file is unknown, its
   rules are added to the back of an empty list (`context.h:108`).
5. `high_ports`: ports 60000 to 63999 are a syntax error (`scanner.l:52`).
6. `help`: after `-h` the program goes on and becomes a daemon
   (`commandline.cc:58`).

The models also show the following, without a run of its own:

- The interface of arrival is never looked at. As long as the hosts of a
  network use its addresses (`TrafficStaysHome`), this makes no difference:
  `NeverMisrouted` holds for such traffic. A datagram with a source of the other interface's network
  goes back to the interface it came from (`forwarder.cc:46`).
- An interface may be down again when its address is read
  (`application.cc:253`); the code copes, since a rule without address fails
  and the timer is armed.
- Two rules of a service with the same from-interface, or the well-known service
  `ssdp_broadcast`, whose address is no multicast group, make `joinOnInterface`
  fail each time (`AddRuleRefused`): the daemon tries again for ever
  (`KeepsTrying`), and no rule of any service is in force (`ForwardsOnlyIfJoined`).
- Where an `unsigned long` has 32 bits (`ULong = Width`), the mask of prefix
  length 0 is a shift by 32, which is undefined, and a network of that length
  may accept anything (`network.h:106`). `ShiftIsDefined` is the condition of
  the properties of `Network` that excludes this case, and no other; with 64 bits
  it is always true.
- A second daemon that is refused has already emptied the PID file of the first
  (`OpenPidFile`, `mcv4fwdd.cc:110`): `PidFileNeverLies` allows an empty file.
- `-n` reports success for rules it has not looked at when an interface is down
  (`application.cc:250`), and for configurations that the daemon can never put
  in force, because a test joins no group (`application.cc:306`). `TestVerdict`
  says what a verdict does mean: each success and each failure has one of a few
  causes. It does not include joining, which nothing promises of a test.
- A long interface name is found out by a test, but makes the daemon abort, be
  restarted by systemd, and abort again (`configuration.cc:46`).
- The launching process ends with status 0 before its daemon has come to run
  (`mcv4fwdd.cc:54`). `ZeroIsEarned` says what is left of the meaning of that
  status: some process goes on, and one that fails says so with its own.

## Proofs

The theorems hold for every value of the constants under the named assumptions
of the modules: `NoItemAssumption`, `RouterAssumption` (typing of the
constants) and `TrafficAssumption` (rules and datagrams are well-typed).

- `SenderProofs`: `SenderInv`, the conjunction of `SenderTypeOK`,
  `LentBufferIsFront` and `SentInOrder`, is inductive. The parts need each
  other: what the kernel appends to the wire is the lent item; that it is the
  first of the unsent ones is `LentBufferIsFront`; that it is an item at all
  needs both. One lemma per operation, and `OneSenderInv(s)` for one sender.
- `RouterProofs`: `RouterInv` adds to `SenderInv` the router's types, `NeverDeaf`,
  `HandledInOrder`, `NoEcho` and `OwnedSenders`, with three facts they need: a
  completed receive left a datagram in the buffer, nothing was handled before
  start, and what was delivered is not fresh. `NeverDeaf` makes `Start` safe:
  no receive is outstanding before it.
- `RouterKeepsServiceOrder`, also in `RouterProofs`: `ServiceOrder` speaks of what
  came in from the networks and what went out to them, and of nothing in between. It
  is not inductive; `PromisedInServiceOrder` says the same of what was handled and
  what was promised, and only `EndReceive` changes these. The wire is a prefix of what
  was promised (`SentInOrder`) and what was handled one of what arrived
  (`HandledInOrder`), which carries the order to both ends.
- `RelayProofs`: every step of `Router` is a step of `Relay` or a stutter, so
  `Spec => ImplementsRelay`.
- `ParserProofs`: `ParserInv` says that as long as every service was known, the
  configuration is the meaning of the text, and that blocks are open only around
  something that was read. It needs the second part because the actions add to
  the back: `MeaningOfSetBack` says that replacing the last service of a text
  replaces the last of its meaning. After an unknown service nothing is said of
  the configuration; `success` is FALSE then, and stays so. Assumption:
  `ParserAssumption` (the known names are names, and no name is an endpoint).
- `DaemonProofs`: `DaemonInv` adds to the types that a process exists only after
  its parent has ended (`Succession`), that a daemon past `lockf` holds its lock
  (`HoldsLock`), and what the PID file of a running daemon may hold. Exclusion
  follows because a lock has one holder, and `PidFileOf` depends on the arguments
  only; that an invocation runs once follows from the succession. Assumption:
  `DaemonAssumption`. One lemma is for every way a process ends, one for the steps
  before the PID file, and one for the PID file itself.
- `DaemonProofs` also proves the action property `ZeroIsEarned`, from two lemmas:
  which steps end a process, and when `Fork` lets the parent end with status 0.
- `InvocationsImplementService`, also in `DaemonProofs`: `ServiceInv` adds to
  `DaemonInv` that the first process of an invocation runs the application only with
  `-f` (`Foreground`), so that it holds no PID file. By the succession at most one
  process of an invocation is alive, and its phase is that process's: an end that is
  no fork finishes the invocation (`EndFinishes`), a fork or a step of `daemonize`
  leaves the phase alone (`StartGoesOn`), and who comes to serve holds the lock of
  its file, as does each daemon that serves (`RunServes`).
- `ApplicationProofs`: `ApplicationInv` adds to `RouterInv` the types of the
  application and three parts. `ProgressInv`: of "setup runs", "setup is due"
  and "the router is started" exactly one holds while a process runs, setup
  begins with an empty router, and no datagram is queued before the start. It
  gives `NeverDormant`, and `ResetIsSafe`, since setup begins only when nothing
  is started. `RulesInv`: while setup adds rules, the router does what the first
  `added` rules ask, with the addresses in `snapshot`, and nothing else; this is
  what `StartedAsConfigured` becomes when it has to hold in the middle of setup,
  so that it holds at the end. `TestInv`: `TestIsDry`, and that nobody signals a
  test. The action property `TestVerdict` follows from them, step by step: all rules
  are visited when a test succeeds in the configuring phase, and `RulesInv` gives
  the addresses of those visited. `RouterInv` is kept since every step of the application
  is, for the router, a step of `Router`'s own or its destruction. From the
  invariant follows, action by action, that each step is one of `Lifecycle` or a
  stutter: `ApplicationImplementsLifecycle`. Assumption: `ApplicationAssumption`
  (the types of rules and addresses), beside those of the router.
- `ApplicationRouterIsSound`: since `RouterInv` is part of `ApplicationInv`, the
  router's own properties (`NeverDeaf`, `HandledInOrder`, `NoEcho`,
  `OwnedSenders`, and its senders') hold in the daemon, restarts included.
- `ApplicationNeverMisroutes`: `RoutingInv` adds to `ApplicationInv` that only a
  started router has promised anything, and that sockets accept nothing but the
  `Traffic`. The step that matters is `EndReceive`: the datagram in the buffer
  is one that the socket accepted (`HandledInOrder`), the rule that matches it is
  one of the configuration (`StartedAsConfigured`), and `TrafficStaysHome` turns
  its source into its interface. The addresses that the rules were made of do not
  change while the router is started, so that neither does that condition.
  `TrafficStaysHome` is part of the property and not an assumption: it speaks of
  the addresses that were read, and is true in every started state of the run.
- `ApplicationForwardsOnlyIfJoined`: `JoinableInv` says of the first `added` rules
  what `CanBeJoined` says of all. A rule is added only if the kernel has not joined
  its group on that interface; `RulesInv` says that the groups of all earlier rules
  of the service are joined on theirs; so the new rule is on another interface.
- `ApplicationImplementsRelay`: `RelayProofs` gives the router's steps and added
  rules, every way in which the process ends is the relay's death, and the two
  that destroy a router are `Rebuild`: `Respawn` comes after a death, and
  `BeginSetup` finds the router not started, which has handled nothing.
- `NetworkProofs`: `NetworkInv` says that the network, in a rule or outside, has the
  prefix that was written, that one in a rule is masked besides, and that `contains`
  has answered right. Its lemmas are about words: one less than a one at position n is
  the n ones below it, so that masking keeps exactly the prefix, and a prefix
  masked again stays the same. The population count of a netmask is the
  cardinality of an interval. Assumption: `NetworkAssumption`, that an unsigned
  long has no fewer bits than an address.

Only model-checked: liveness (`EverythingIsSent`, `EverythingIsForwarded`,
`EndsWhenTold`, `EventuallyForwards`, `KeepsTrying`, `StartUpEnds`), which is out
of reach of the provers. Every other property of a passing run is a theorem.

## Not modelled, and limits

- Datagram contents, lengths other than zero or not, truncation warnings, debug
  output and logging.
- Memberships that the kernel drops when an interface is removed after start
  (`src/TODO`): `started` then no longer means that anything is heard. No code
  takes part in it, so that a model would only restate the kernel's behaviour.
- The scanner's tokens other than ports: a file is the sequence of its
  constructs, and `SyntaxError` stands for anything else. Messages, warnings and
  the printing of configurations are left out; `utility.*` has no state.
- What systemd makes of a PID file that is late or empty, and its order of units.
- `CMakeLists.txt` and `utility.*`, which keep no state at run time.
- Partial writes of the PID file are taken as no PID.

## State of the plan

Done: the data plane (`Sender`, `Relay`, `Router`), the application's life
(`Application`, `Lifecycle`) with several configurations and the test mode,
`Network`, `Parser`, `Daemon` and `Service`; proofs of the safety of all of them.

What could still be added: the scanner's tokens, if a property about characters
other than those of ports comes up.
