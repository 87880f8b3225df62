------------------------------- MODULE Parser -------------------------------
(***************************************************************************)
(* The configuration parser (config/parser): a Bison grammar whose actions *)
(* fill a Configuration through a Context while the file is being read.    *)
(* The actions do not name the service or the rule that they add to: they  *)
(* add to the back of the list of services, and of its list of rules.  An  *)
(* unknown service is reported, and parsing goes on without adding one.    *)
(*                                                                         *)
(* One step reads the tokens up to the end of an action of the grammar.    *)
(* "text" is a history of what the file says, as its author means it.      *)
(* Networks are sets of addresses here, which masking keeps (Network).     *)
(***************************************************************************)
EXTENDS Naturals, Sequences

CONSTANTS
  Names,        \* identifiers that may stand for a service
  EndpointOf,   \* WELL_KNOWN_SERVICES: the endpoint of each known name
  Groups,       \* multicast groups, for services given by address and port
  Ports,        \* ports, likewise
  Interfaces,   \* interface names
  Networks,     \* networks a rule may be limited to
  MaxServices,  \* bound: services in the file
  MaxRules,     \* bound: rules in a service
  MaxNetworks   \* bound: networks in a rule

AddressServices == Groups \X Ports

ASSUME ParserAssumption ==
  /\ DOMAIN EndpointOf \subseteq Names
  /\ Names \cap AddressServices = {}

ASSUME PortAssumption == Ports \subseteq 1..65535

VARIABLES
  within,        \* the innermost block that is open: "file", "service" or "rule"
  configuration, \* m_configuration: the services, with their rules
  success,       \* m_success of the Context
  readError,     \* m_readError of the Context is set
  outcome,       \* what became of the parse
  text           \* history: what the file says

parserVars == <<within, configuration, success, readError, outcome, text>>

ParserInit ==
  /\ within = "file"
  /\ configuration = << >>
  /\ success = TRUE
  /\ readError = FALSE
  /\ outcome = "parsing"
  /\ text = << >>

Rule(from, to) == [from |-> from, to |-> to, networks |-> << >>]

\* s.back() = e
SetBack(s, e) == [s EXCEPT ![Len(s)] = e]

\* The list of services, with a rule or a network added at the back.
WithRule(services, rule) ==
  SetBack(services, [services[Len(services)] EXCEPT !.rules = Append(@, rule)])

WithNetwork(services, network) ==
  LET rules == services[Len(services)].rules
      rule == [rules[Len(rules)] EXCEPT !.networks = Append(@, network)]
  IN  SetBack(services, [services[Len(services)] EXCEPT !.rules = SetBack(rules, rule)])

CurrentRules == text[Len(text)].rules
CurrentNetworks == CurrentRules[Len(CurrentRules)].networks

\* Bound: the file has room for another service.
RoomForService == Len(text) < MaxServices

(***************************************************************************)
(* The actions of the grammar.                                             *)
(***************************************************************************)

\* A service that is found, or given by address and port: addServiceConfiguration.
AddService(service, endpoint) ==
  /\ outcome = "parsing"
  /\ within = "file"
  /\ RoomForService
  /\ configuration' = Append(configuration, [endpoint |-> endpoint, rules |-> << >>])
  /\ text' = Append(text, [service |-> service, rules |-> << >>])
  /\ within' = "service"
  /\ UNCHANGED <<success, readError, outcome>>

\* Mutant of UpdateStatus: the error is reported, but not remembered.
ReportOnly(ok) == success

\* Context::updateStatus
UpdateStatus(ok) == success /\ ok

\* ServiceConfiguration(name) throws std::invalid_argument: the action catches it,
\* and parsing goes on.
UnknownService(name) ==
  /\ outcome = "parsing"
  /\ within = "file"
  /\ RoomForService
  /\ name \notin DOMAIN EndpointOf
  /\ success' = UpdateStatus(FALSE)
  /\ text' = Append(text, [service |-> name, rules |-> << >>])
  /\ within' = "service"
  /\ UNCHANGED <<configuration, readError, outcome>>

\* The scanner's PORT: one to four digits, five digits up to 59999, or from 64000.
ScannedPorts == 1..9999 \cup 10000..59999 \cup 64000..65535

NamedService(name) ==
  /\ name \in DOMAIN EndpointOf
  /\ AddService(name, EndpointOf[name])

AddressService(group, port) ==
  /\ port \in ScannedPorts
  /\ AddService(<<group, port>>, <<group, port>>)

\* The scanner takes the first four digits for the port; the service is added with
\* that one, and the fifth digit is a syntax error.
PortNotScanned(group, port) ==
  /\ outcome = "parsing"
  /\ within = "file"
  /\ RoomForService
  /\ port \notin ScannedPorts
  /\ configuration' = Append(configuration, [endpoint |-> <<group, port \div 10>>, rules |-> << >>])
  /\ outcome' = "port refused"
  /\ success' = UpdateStatus(FALSE)
  /\ UNCHANGED <<within, readError, text>>

\* "forward <from> to <to>": addForwardingRule, followed by ";" or "{".
ForwardRule(from, to) ==
  /\ outcome = "parsing"
  /\ within = "service"
  /\ configuration # << >>
  /\ Len(CurrentRules) < MaxRules
  /\ configuration' = WithRule(configuration, Rule(from, to))
  /\ text' = WithRule(text, Rule(from, to))
  /\ within' \in {"service", "rule"}
  /\ UNCHANGED <<success, readError, outcome>>

\* "from <network>;": addNetwork.
FromNetwork(network) ==
  /\ outcome = "parsing"
  /\ within = "rule"
  /\ configuration # << >>
  /\ Len(CurrentNetworks) < MaxNetworks
  /\ configuration' = WithNetwork(configuration, network)
  /\ text' = WithNetwork(text, network)
  /\ UNCHANGED <<within, success, readError, outcome>>

\* back() of an empty list is undefined: the process dies or goes on.
BackOfNothing ==
  /\ outcome = "parsing"
  /\ configuration = << >>
  /\ \/ /\ within = "service"
        /\ Len(CurrentRules) < MaxRules
        /\ \E from, to \in Interfaces : text' = WithRule(text, Rule(from, to))
        /\ within' \in {"service", "rule"}
     \/ /\ within = "rule"
        /\ Len(CurrentNetworks) < MaxNetworks
        /\ \E network \in Networks : text' = WithNetwork(text, network)
        /\ UNCHANGED within
  /\ outcome' \in {"parsing", "crashed"}
  /\ UNCHANGED <<configuration, success, readError>>

\* "}" after one network or more.
EndRule ==
  /\ outcome = "parsing"
  /\ within = "rule"
  /\ CurrentNetworks # << >>
  /\ within' = "service"
  /\ UNCHANGED <<configuration, success, readError, outcome, text>>

\* "}" after one rule or more.
EndService ==
  /\ outcome = "parsing"
  /\ within = "service"
  /\ CurrentRules # << >>
  /\ within' = "file"
  /\ UNCHANGED <<configuration, success, readError, outcome, text>>

\* fread fails: the scanner still gets what was read, and then the end of the file.
ReadFails ==
  /\ outcome = "parsing"
  /\ ~readError
  /\ readError' = TRUE
  /\ UNCHANGED <<within, configuration, success, outcome, text>>

\* Context::getStatus
GetStatus == ~readError /\ success

\* What follows in the file when a read has failed between two services.
Unread == {Append(text, [service |-> name, rules |-> << >>]) : name \in DOMAIN EndpointOf}

\* The end of the file, after one service or more: yyparse returns 0.
EndOfFile ==
  /\ outcome = "parsing"
  /\ within = "file"
  /\ text # << >>
  /\ outcome' = IF GetStatus THEN "accepted" ELSE "rejected"
  /\ text' \in {text} \cup (IF readError THEN Unread ELSE {})
  /\ UNCHANGED <<within, configuration, success, readError>>

\* Any token that the grammar does not allow: yyerror, and yyparse returns 1.
SyntaxError ==
  /\ outcome = "parsing"
  /\ outcome' = "rejected"
  /\ success' = UpdateStatus(FALSE)
  /\ UNCHANGED <<within, configuration, readError, text>>

ParserNext ==
  \/ \E name \in Names : NamedService(name) \/ UnknownService(name)
  \/ \E group \in Groups, port \in Ports :
       AddressService(group, port) \/ PortNotScanned(group, port)
  \/ \E from, to \in Interfaces : ForwardRule(from, to)
  \/ \E network \in Networks : FromNetwork(network)
  \/ BackOfNothing
  \/ EndRule
  \/ EndService
  \/ ReadFails
  \/ EndOfFile
  \/ SyntaxError

ParserSpec == ParserInit /\ [][ParserNext]_parserVars

(***************************************************************************)
(* Properties.                                                             *)
(***************************************************************************)
IsKnown(service) == service \in DOMAIN EndpointOf \/ service \in AddressServices

\* The endpoint that a service of the file stands for.
EndpointMeant(service) ==
  IF service \in AddressServices THEN service ELSE EndpointOf[service]

\* The configuration that a text of known services describes.
ServiceMeant(s) == [endpoint |-> EndpointMeant(s.service), rules |-> s.rules]
Meaning(services) == [k \in DOMAIN services |-> ServiceMeant(services[k])]

\* An accepted configuration is what the file says, service by service: no rule of
\* an unknown service was added to the service before it, no network to another
\* rule, and no service was lost to a failed read (context.h:106-124, 144-160).
AcceptedIsWritten ==
  outcome = "accepted" =>
    /\ \A k \in DOMAIN text : IsKnown(text[k].service)
    /\ configuration = Meaning(text)

\* "error: unknown service" (parser.y:113): an unknown service ends in a message and
\* a failed parse, like any other error in the file; not in a crash.
ErrorsAreReported == outcome # "crashed"

\* "port cannot be zero" (serviceconfiguration.cc:79): every other port is legal, and
\* no file is refused for one.
PortsAreAccepted == outcome # "port refused"
=============================================================================
