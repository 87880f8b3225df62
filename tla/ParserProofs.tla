---------------------------- MODULE ParserProofs ----------------------------
(***************************************************************************)
(* Proofs about Parser, for files of any length.                           *)
(***************************************************************************)
EXTENDS Parser, SequenceTheorems, TLAPS

RuleText == [from : Interfaces, to : Interfaces, networks : Seq(Networks)]
ServiceText == [service : Names \cup AddressServices, rules : Seq(RuleText)]

Endpoint == AddressServices \cup {EndpointOf[name] : name \in DOMAIN EndpointOf}
Service == [endpoint : Endpoint, rules : Seq(RuleText)]

\* A text in which every service is known.
AllKnown(services) == \A k \in DOMAIN services : IsKnown(services[k].service)

(***************************************************************************)
(* The meaning of a text.                                                  *)
(***************************************************************************)
LEMMA ServiceMeantType ==
  ASSUME NEW s \in ServiceText, IsKnown(s.service)
  PROVE  ServiceMeant(s) \in Service
BY DEF ServiceText, Service, IsKnown, ServiceMeant, EndpointMeant, Endpoint

\* A text means as many services as it has.
LEMMA MeaningType ==
  ASSUME NEW t \in Seq(ServiceText), AllKnown(t)
  PROVE  /\ Meaning(t) \in Seq(Service)
         /\ Len(Meaning(t)) = Len(t)
         /\ \A k \in 1..Len(t) : Meaning(t)[k] = ServiceMeant(t[k])
<1>1. Len(t) \in Nat /\ DOMAIN t = 1..Len(t) /\ \A k \in 1..Len(t) : t[k] \in ServiceText
  OBVIOUS
<1>2. Meaning(t) \in [1..Len(t) -> Service]
  BY <1>1, ServiceMeantType DEF Meaning, AllKnown
<1>3. Meaning(t) \in Seq(Service)
  BY <1>1, <1>2, SeqDef
<1>4. Len(Meaning(t)) = Len(t)
  BY <1>1, <1>2, <1>3
<1> QED BY <1>1, <1>3, <1>4 DEF Meaning

\* What is added to the text is added to its meaning.
LEMMA MeaningOfAppend ==
  ASSUME NEW t \in Seq(ServiceText), NEW s \in ServiceText, AllKnown(t), IsKnown(s.service)
  PROVE  /\ AllKnown(Append(t, s))
         /\ Meaning(Append(t, s)) = Append(Meaning(t), ServiceMeant(s))
<1> DEFINE u == Append(t, s)
<1>1. /\ Len(t) \in Nat
      /\ u \in Seq(ServiceText)
      /\ Len(u) = Len(t) + 1
      /\ u[Len(t) + 1] = s
      /\ \A k \in 1..Len(t) : u[k] = t[k]
  OBVIOUS
<1>2. AllKnown(u)
  BY <1>1 DEF AllKnown
<1>3. ServiceMeant(s) \in Service
  BY ServiceMeantType
<1>4. /\ Meaning(t) \in Seq(Service)
      /\ Len(Meaning(t)) = Len(t)
      /\ \A k \in 1..Len(t) : Meaning(t)[k] = ServiceMeant(t[k])
  BY MeaningType
<1> HIDE DEF u
<1>5. /\ Meaning(u) \in Seq(Service)
      /\ Len(Meaning(u)) = Len(u)
      /\ \A k \in 1..Len(u) : Meaning(u)[k] = ServiceMeant(u[k])
  BY <1>1, <1>2, MeaningType
<1> DEFINE m == Meaning(t)  e == ServiceMeant(s)
<1>6. m \in Seq(Service) /\ Len(m) = Len(t) /\ e \in Service
  BY <1>3, <1>4
<1> HIDE DEF m, e
<1>7. /\ Append(m, e) \in Seq(Service)
      /\ Len(Append(m, e)) = Len(t) + 1
      /\ Append(m, e)[Len(t) + 1] = e
      /\ \A k \in 1..Len(t) : Append(m, e)[k] = m[k]
  BY <1>1, <1>6
<1>8. \A k \in 1..(Len(t) + 1) : Meaning(u)[k] = Append(m, e)[k]
  <2> TAKE k \in 1..(Len(t) + 1)
  <2>1. CASE k = Len(t) + 1
    BY <2>1, <1>1, <1>5, <1>7 DEF e
  <2>2. CASE k \in 1..Len(t)
    <3>1. Meaning(u)[k] = ServiceMeant(u[k]) /\ u[k] = t[k]
      BY <2>2, <1>1, <1>5
    <3>2. Append(m, e)[k] = m[k] /\ m[k] = ServiceMeant(t[k])
      BY <2>2, <1>4, <1>7 DEF m
    <3> QED BY <3>1, <3>2
  <2>3. k = Len(t) + 1 \/ k \in 1..Len(t)
    BY <1>1
  <2> QED BY <2>1, <2>2, <2>3
<1>9. Meaning(u) = Append(m, e)
  BY <1>1, <1>5, <1>7, <1>8, SeqEqual
<1> QED BY <1>2, <1>9 DEF u, m, e

\* What replaces the last service of the text replaces that of its meaning.
LEMMA MeaningOfSetBack ==
  ASSUME NEW t \in Seq(ServiceText), t # << >>, AllKnown(t),
         NEW s \in ServiceText, s.service = t[Len(t)].service
  PROVE  /\ AllKnown(SetBack(t, s))
         /\ Meaning(SetBack(t, s)) = SetBack(Meaning(t), ServiceMeant(s))
<1>1. SetBack(t, s) \in Seq(ServiceText) /\ Len(SetBack(t, s)) = Len(t)
  BY DEF SetBack
<1>2. \A k \in 1..Len(t) : SetBack(t, s)[k] = IF k = Len(t) THEN s ELSE t[k]
  BY DEF SetBack
<1>3. AllKnown(SetBack(t, s))
  BY <1>1, <1>2 DEF AllKnown
<1>4. Meaning(SetBack(t, s)) \in Seq(Service) /\ Len(Meaning(SetBack(t, s))) = Len(t)
  BY <1>1, <1>3, MeaningType
<1>5. IsKnown(s.service)
  BY DEF AllKnown
<1> DEFINE m == Meaning(t)  e == ServiceMeant(s)
<1>6. /\ m \in Seq(Service)
      /\ Len(m) = Len(t)
      /\ \A k \in 1..Len(t) : m[k] = ServiceMeant(t[k])
      /\ e \in Service
  BY <1>5, MeaningType, ServiceMeantType
<1> HIDE DEF m, e
<1>7. /\ SetBack(m, e) \in Seq(Service)
      /\ Len(SetBack(m, e)) = Len(t)
      /\ \A k \in 1..Len(t) : SetBack(m, e)[k] = IF k = Len(t) THEN e ELSE m[k]
  BY <1>6 DEF SetBack
<1> DEFINE u == SetBack(t, s)
<1>8. u \in Seq(ServiceText) /\ Len(u) = Len(t) /\ AllKnown(u)
  BY <1>1, <1>3
<1> HIDE DEF u
<1>9. \A k \in 1..Len(u) : Meaning(u)[k] = ServiceMeant(u[k])
  BY <1>8, MeaningType
<1>10. \A k \in 1..Len(t) : Meaning(u)[k] = SetBack(m, e)[k]
  <2> TAKE k \in 1..Len(t)
  <2>1. Meaning(u)[k] = ServiceMeant(IF k = Len(t) THEN s ELSE t[k])
    BY <1>2, <1>8, <1>9 DEF u
  <2> QED BY <2>1, <1>6, <1>7 DEF e
<1>11. Meaning(u) \in Seq(Service) /\ Len(Meaning(u)) = Len(t)
  BY <1>4 DEF u
<1>12. Meaning(u) = SetBack(m, e)
  BY <1>7, <1>10, <1>11, SeqEqual
<1> QED BY <1>3, <1>12 DEF u, m, e

(***************************************************************************)
(* What a rule or a network that is read does to the text and its meaning. *)
(***************************************************************************)
LEMMA BackOfText ==
  ASSUME NEW t \in Seq(ServiceText), t # << >>
  PROVE  /\ Len(t) \in 1..Len(t)
         /\ t[Len(t)] \in ServiceText
         /\ t[Len(t)].rules \in Seq(RuleText)
<1>1. Len(t) \in 1..Len(t) /\ t[Len(t)] \in ServiceText
  OBVIOUS
<1> QED BY <1>1 DEF ServiceText

LEMMA SetBackOfText ==
  ASSUME NEW t \in Seq(ServiceText), t # << >>, NEW s \in ServiceText
  PROVE  /\ SetBack(t, s) \in Seq(ServiceText)
         /\ SetBack(t, s) # << >>
         /\ Len(SetBack(t, s)) = Len(t)
         /\ SetBack(t, s)[Len(t)] = s
BY DEF SetBack

LEMMA TextWithRule ==
  ASSUME NEW t \in Seq(ServiceText), t # << >>, NEW rule \in RuleText
  PROVE  /\ WithRule(t, rule) \in Seq(ServiceText)
         /\ WithRule(t, rule) # << >>
         /\ WithRule(t, rule)[Len(WithRule(t, rule))].rules # << >>
         /\ AllKnown(t) => /\ AllKnown(WithRule(t, rule))
                           /\ Meaning(WithRule(t, rule)) = WithRule(Meaning(t), rule)
<1> DEFINE last == t[Len(t)]
           s == [last EXCEPT !.rules = Append(@, rule)]
<1>1. last \in ServiceText /\ last.rules \in Seq(RuleText)
  BY BackOfText
<1>2. Append(last.rules, rule) \in Seq(RuleText) /\ Append(last.rules, rule) # << >>
  BY <1>1
<1>3. s \in ServiceText /\ s.service = last.service /\ s.rules = Append(last.rules, rule)
  BY <1>1, <1>2 DEF ServiceText
<1>4. WithRule(t, rule) = SetBack(t, s)
  BY DEF WithRule
<1> HIDE DEF s
<1>5. /\ ServiceMeant(last).rules = last.rules
      /\ ServiceMeant(s) = [ServiceMeant(last) EXCEPT !.rules = Append(last.rules, rule)]
  <2> DEFINE longer == Append(last.rules, rule)
  <2>1. s.rules = longer /\ s.service = last.service
    BY <1>3
  <2> HIDE DEF longer, last
  <2>2. ServiceMeant(s) = [ServiceMeant(last) EXCEPT !.rules = longer]
    BY <2>1 DEF ServiceMeant
  <2> QED BY <2>2 DEF longer, ServiceMeant
<1>6. ASSUME AllKnown(t)
      PROVE  AllKnown(SetBack(t, s)) /\ Meaning(SetBack(t, s)) = WithRule(Meaning(t), rule)
  <2>1. Len(Meaning(t)) = Len(t) /\ Meaning(t)[Len(t)] = ServiceMeant(last)
    BY <1>6, MeaningType, BackOfText
  <2>2. WithRule(Meaning(t), rule) = SetBack(Meaning(t), ServiceMeant(s))
    BY <2>1, <1>5 DEF WithRule
  <2> QED BY <1>3, <1>6, <2>2, MeaningOfSetBack
<1>7. /\ SetBack(t, s) \in Seq(ServiceText)
      /\ SetBack(t, s) # << >>
      /\ SetBack(t, s)[Len(SetBack(t, s))] = s
  BY <1>3, SetBackOfText
<1> QED BY <1>2, <1>3, <1>4, <1>6, <1>7

LEMMA TextWithNetwork ==
  ASSUME NEW t \in Seq(ServiceText), t # << >>, t[Len(t)].rules # << >>,
         NEW network \in Networks
  PROVE  /\ WithNetwork(t, network) \in Seq(ServiceText)
         /\ WithNetwork(t, network) # << >>
         /\ WithNetwork(t, network)[Len(WithNetwork(t, network))].rules # << >>
         /\ AllKnown(t) => /\ AllKnown(WithNetwork(t, network))
                           /\ Meaning(WithNetwork(t, network)) = WithNetwork(Meaning(t), network)
<1> DEFINE last == t[Len(t)]
           rules == last.rules
           rule == [rules[Len(rules)] EXCEPT !.networks = Append(@, network)]
           s == [last EXCEPT !.rules = SetBack(rules, rule)]
<1>1. last \in ServiceText /\ rules \in Seq(RuleText) /\ rules # << >>
  BY BackOfText
<1>2. rules[Len(rules)] \in RuleText
  BY <1>1
<1>3. rule \in RuleText
  <2> DEFINE r == rules[Len(rules)]
  <2> HIDE DEF r
  <2>1. r \in RuleText
    BY <1>2 DEF r
  <2>2. Append(r.networks, network) \in Seq(Networks)
    BY <2>1 DEF RuleText
  <2>3. [r EXCEPT !.networks = Append(@, network)] \in RuleText
    BY <2>1, <2>2 DEF RuleText
  <2> QED BY <2>3 DEF r
<1> HIDE DEF rule
<1>4. SetBack(rules, rule) \in Seq(RuleText) /\ SetBack(rules, rule) # << >>
  BY <1>1, <1>3 DEF SetBack
<1>5. s \in ServiceText /\ s.service = last.service /\ s.rules = SetBack(rules, rule)
  BY <1>1, <1>4 DEF ServiceText
<1>6. WithNetwork(t, network) = SetBack(t, s)
  BY DEF WithNetwork, rule
<1> HIDE DEF s
<1>7. /\ ServiceMeant(last).rules = rules
      /\ ServiceMeant(s) = [ServiceMeant(last) EXCEPT !.rules = SetBack(rules, rule)]
  BY <1>1, <1>5 DEF ServiceMeant
<1>8. ASSUME AllKnown(t)
      PROVE  AllKnown(SetBack(t, s)) /\ Meaning(SetBack(t, s)) = WithNetwork(Meaning(t), network)
  <2>1. Len(Meaning(t)) = Len(t) /\ Meaning(t)[Len(t)] = ServiceMeant(last)
    BY <1>8, MeaningType, BackOfText
  <2>2. WithNetwork(Meaning(t), network) = SetBack(Meaning(t), ServiceMeant(s))
    BY <2>1, <1>7 DEF WithNetwork, rule
  <2> QED BY <1>5, <1>8, <2>2, MeaningOfSetBack
<1>9. /\ SetBack(t, s) \in Seq(ServiceText)
      /\ SetBack(t, s) # << >>
      /\ SetBack(t, s)[Len(SetBack(t, s))] = s
  BY <1>5, SetBackOfText
<1> QED BY <1>4, <1>5, <1>6, <1>8, <1>9

(***************************************************************************)
(* The inductive invariant.  As long as every service was known, the back  *)
(* of the configuration is what the file is about; after an unknown one it *)
(* is not, but then success is FALSE, and stays so.                        *)
(***************************************************************************)
TextType ==
  /\ text \in Seq(ServiceText)
  /\ within \in {"file", "service", "rule"}
  /\ success \in BOOLEAN
  /\ readError \in BOOLEAN

\* A block is open only around something that was read.
OpenBlocks ==
  /\ within \in {"service", "rule"} => text # << >>
  /\ within = "rule" => CurrentRules # << >>

\* What has been read without an error is in the configuration.
FaithfulSoFar ==
  success /\ outcome \in {"parsing", "accepted"} =>
    AllKnown(text) /\ configuration = Meaning(text)

\* Only what was read without an error is accepted.
AcceptedInGoodStatus == outcome = "accepted" => success

ParserInv == TextType /\ OpenBlocks /\ FaithfulSoFar /\ AcceptedInGoodStatus

LEMMA ParserInvInit == ParserInit => ParserInv
<1> SUFFICES ASSUME ParserInit PROVE ParserInv
  OBVIOUS
<1>1. Meaning(<< >>) = << >> /\ AllKnown(<< >>)
  BY DEF Meaning, AllKnown
<1>2. AllKnown(text) /\ configuration = Meaning(text)
  BY <1>1, Zenon DEF ParserInit
<1>3. TextType
  BY EmptySeq DEF ParserInit, TextType
<1>4. OpenBlocks /\ AcceptedInGoodStatus
  BY DEF ParserInit, OpenBlocks, AcceptedInGoodStatus
<1> QED BY <1>2, <1>3, <1>4 DEF ParserInv, FaithfulSoFar

LEMMA AddServiceKeepsInv ==
  ASSUME ParserInv, NEW service \in Names \cup AddressServices, IsKnown(service),
         AddService(service, EndpointMeant(service))
  PROVE  ParserInv'
<1> DEFINE s == [service |-> service, rules |-> << >>]
<1>1. s \in ServiceText /\ s.service = service
  BY DEF ServiceText
<1>2. ServiceMeant(s) = [endpoint |-> EndpointMeant(service), rules |-> << >>]
  BY DEF ServiceMeant
<1>3. /\ configuration' = Append(configuration, ServiceMeant(s))
      /\ text' = Append(text, s)
      /\ outcome = "parsing"
      /\ within' = "service"
      /\ UNCHANGED <<success, readError, outcome>>
  BY <1>2 DEF AddService
<1> HIDE DEF s
<1>4. text' \in Seq(ServiceText) /\ text' # << >>
  BY <1>1, <1>3 DEF ParserInv, TextType
<1>5. FaithfulSoFar'
  <2> SUFFICES ASSUME success PROVE AllKnown(text)' /\ configuration' = Meaning(text')
    BY <1>3 DEF FaithfulSoFar
  <2>1. text \in Seq(ServiceText) /\ AllKnown(text) /\ configuration = Meaning(text)
    BY <1>3 DEF ParserInv, TextType, FaithfulSoFar
  <2> QED BY <1>1, <1>3, <2>1, MeaningOfAppend DEF AllKnown
<1> QED BY <1>3, <1>4, <1>5 DEF ParserInv, TextType, OpenBlocks, AcceptedInGoodStatus

LEMMA ForwardRuleKeepsInv ==
  ASSUME ParserInv, NEW from \in Interfaces, NEW to \in Interfaces, ForwardRule(from, to)
  PROVE  ParserInv'
<1> DEFINE rule == Rule(from, to)
<1>1. rule \in RuleText
  BY EmptySeq DEF Rule, RuleText
<1>2. /\ text \in Seq(ServiceText) /\ text # << >>
      /\ configuration' = WithRule(configuration, rule)
      /\ text' = WithRule(text, rule)
      /\ outcome = "parsing"
      /\ within' \in {"service", "rule"}
      /\ UNCHANGED <<success, readError, outcome>>
  BY DEF ForwardRule, ParserInv, TextType, OpenBlocks
<1> HIDE DEF rule
<1>3. /\ text' \in Seq(ServiceText) /\ text' # << >>
      /\ CurrentRules' # << >>
  BY <1>1, <1>2, TextWithRule DEF CurrentRules
<1>4. FaithfulSoFar'
  <2> SUFFICES ASSUME success PROVE AllKnown(text)' /\ configuration' = Meaning(text')
    BY <1>2 DEF FaithfulSoFar
  <2>1. AllKnown(text) /\ configuration = Meaning(text)
    BY <1>2 DEF ParserInv, FaithfulSoFar
  <2> QED BY <1>1, <1>2, <2>1, TextWithRule DEF AllKnown
<1> QED BY <1>2, <1>3, <1>4 DEF ParserInv, TextType, OpenBlocks, AcceptedInGoodStatus

LEMMA FromNetworkKeepsInv ==
  ASSUME ParserInv, NEW network \in Networks, FromNetwork(network)
  PROVE  ParserInv'
<1>1. /\ text \in Seq(ServiceText) /\ text # << >> /\ text[Len(text)].rules # << >>
      /\ configuration' = WithNetwork(configuration, network)
      /\ text' = WithNetwork(text, network)
      /\ outcome = "parsing"
      /\ within = "rule"
      /\ UNCHANGED <<within, success, readError, outcome>>
  BY DEF FromNetwork, ParserInv, TextType, OpenBlocks, CurrentRules
<1>2. /\ text' \in Seq(ServiceText) /\ text' # << >>
      /\ CurrentRules' # << >>
  BY <1>1, TextWithNetwork DEF CurrentRules
<1>3. FaithfulSoFar'
  <2> SUFFICES ASSUME success PROVE AllKnown(text)' /\ configuration' = Meaning(text')
    BY <1>1 DEF FaithfulSoFar
  <2>1. AllKnown(text) /\ configuration = Meaning(text)
    BY <1>1 DEF ParserInv, FaithfulSoFar
  <2> QED BY <1>1, <2>1, TextWithNetwork DEF AllKnown
<1> QED BY <1>1, <1>2, <1>3 DEF ParserInv, TextType, OpenBlocks, AcceptedInGoodStatus

\* The back of nothing is only used after an unknown service.
LEMMA BackOfNothingKeepsInv ==
  ASSUME ParserInv, BackOfNothing
  PROVE  ParserInv'
<1>1. /\ text \in Seq(ServiceText) /\ text # << >>
      /\ outcome = "parsing"
      /\ outcome' \in {"parsing", "crashed"}
      /\ UNCHANGED <<configuration, success, readError>>
  BY DEF BackOfNothing, ParserInv, TextType, OpenBlocks
<1>2. ~success
  <2> SUFFICES ASSUME success PROVE FALSE
    OBVIOUS
  <2>1. AllKnown(text) /\ configuration = Meaning(text)
    BY <1>1 DEF ParserInv, FaithfulSoFar
  <2>2. Len(text) = 0
    BY <1>1, <2>1, MeaningType DEF BackOfNothing
  <2> QED BY <1>1, <2>2, EmptySeq
<1>3. /\ text' \in Seq(ServiceText) /\ text' # << >> /\ CurrentRules' # << >>
      /\ within' \in {"service", "rule"}
  <2>1. CASE /\ \E from, to \in Interfaces : text' = WithRule(text, Rule(from, to))
             /\ within' \in {"service", "rule"}
    <3> PICK from \in Interfaces, to \in Interfaces : text' = WithRule(text, Rule(from, to))
      BY <2>1
    <3>1. Rule(from, to) \in RuleText
      BY EmptySeq DEF Rule, RuleText
    <3> QED BY <1>1, <2>1, <3>1, TextWithRule DEF CurrentRules
  <2>2. CASE /\ within = "rule"
             /\ \E network \in Networks : text' = WithNetwork(text, network)
             /\ UNCHANGED within
    <3>1. text[Len(text)].rules # << >>
      BY <2>2 DEF ParserInv, OpenBlocks, CurrentRules
    <3> QED BY <1>1, <2>2, <3>1, TextWithNetwork DEF CurrentRules
  <2> QED BY <2>1, <2>2 DEF BackOfNothing
<1>4. FaithfulSoFar' /\ AcceptedInGoodStatus'
  BY <1>1, <1>2 DEF FaithfulSoFar, AcceptedInGoodStatus
<1> QED BY <1>1, <1>3, <1>4 DEF ParserInv, TextType, OpenBlocks

LEMMA EndOfFileKeepsInv ==
  ASSUME ParserInv, EndOfFile
  PROVE  ParserInv'
<1>1. text' \in Seq(ServiceText)
  <2>1. Unread \subseteq Seq(ServiceText)
    <3> SUFFICES ASSUME NEW name \in DOMAIN EndpointOf
                 PROVE  Append(text, [service |-> name, rules |-> << >>]) \in Seq(ServiceText)
      BY DEF Unread
    <3>1. [service |-> name, rules |-> << >>] \in ServiceText
      BY ParserAssumption, EmptySeq DEF ServiceText
    <3> QED BY <3>1 DEF ParserInv, TextType
  <2> QED BY <2>1 DEF EndOfFile, ParserInv, TextType
<1>2. /\ within = "file" /\ outcome = "parsing"
      /\ UNCHANGED <<within, configuration, success, readError>>
      /\ outcome' = "accepted" => success /\ ~readError /\ text' = text
      /\ outcome' \in {"accepted", "rejected"}
  BY DEF EndOfFile, GetStatus
<1> QED BY <1>1, <1>2 DEF ParserInv, TextType, OpenBlocks, FaithfulSoFar, AcceptedInGoodStatus

LEMMA ParserInvStep == ParserInv /\ [ParserNext]_parserVars => ParserInv'
<1> SUFFICES ASSUME ParserInv, [ParserNext]_parserVars PROVE ParserInv'
  OBVIOUS
<1> USE DEF ParserInv, TextType, OpenBlocks, FaithfulSoFar, AcceptedInGoodStatus
<1>1. ASSUME NEW name \in Names, NamedService(name)
      PROVE  ParserInv'
  <2>1. EndpointMeant(name) = EndpointOf[name] /\ IsKnown(name)
    BY <1>1, ParserAssumption DEF NamedService, EndpointMeant, IsKnown
  <2> QED BY <1>1, <2>1, AddServiceKeepsInv DEF NamedService
<1>2. ASSUME NEW name \in Names, UnknownService(name)
      PROVE  ParserInv'
  <2>1. [service |-> name, rules |-> << >>] \in ServiceText
    BY EmptySeq DEF ServiceText
  <2>2. text' \in Seq(ServiceText) /\ text' # << >>
    BY <1>2, <2>1 DEF UnknownService
  <2> QED BY <1>2, <2>2 DEF UnknownService, UpdateStatus
<1>3. ASSUME NEW group \in Groups, NEW port \in Ports, AddressService(group, port)
      PROVE  ParserInv'
  <2>1. /\ <<group, port>> \in AddressServices
        /\ EndpointMeant(<<group, port>>) = <<group, port>>
        /\ IsKnown(<<group, port>>)
    BY DEF AddressServices, EndpointMeant, IsKnown
  <2> QED BY <1>3, <2>1, AddServiceKeepsInv DEF AddressService
<1>4. ASSUME NEW group \in Groups, NEW port \in Ports, PortNotScanned(group, port)
      PROVE  ParserInv'
  BY <1>4 DEF PortNotScanned, UpdateStatus, CurrentRules
<1>5. ASSUME NEW from \in Interfaces, NEW to \in Interfaces, ForwardRule(from, to)
      PROVE  ParserInv'
  BY <1>5, ForwardRuleKeepsInv
<1>6. ASSUME NEW network \in Networks, FromNetwork(network)
      PROVE  ParserInv'
  BY <1>6, FromNetworkKeepsInv
<1>7. CASE BackOfNothing
  BY <1>7, BackOfNothingKeepsInv
<1>8. CASE EndRule
  BY <1>8 DEF EndRule, CurrentRules
<1>9. CASE EndService
  BY <1>9 DEF EndService, CurrentRules
<1>10. CASE ReadFails
  BY <1>10 DEF ReadFails, CurrentRules
<1>11. CASE EndOfFile
  BY <1>11, EndOfFileKeepsInv
<1>12. CASE SyntaxError
  BY <1>12 DEF SyntaxError, UpdateStatus, CurrentRules
<1>13. CASE UNCHANGED parserVars
  BY <1>13 DEF parserVars, CurrentRules
<1> QED BY <1>1, <1>2, <1>3, <1>4, <1>5, <1>6, <1>7, <1>8, <1>9, <1>10, <1>11, <1>12, <1>13
        DEF ParserNext

\* A configuration that is accepted is what its file says, for files of any length and
\* whatever goes wrong while they are read (parser.y:96-191, context.h:104-160).
THEOREM AcceptedAsWritten == ParserSpec => []AcceptedIsWritten
<1>1. ParserInv => AcceptedIsWritten
  BY DEF ParserInv, FaithfulSoFar, AcceptedInGoodStatus, AllKnown, AcceptedIsWritten
<1> QED BY <1>1, ParserInvInit, ParserInvStep, PTL DEF ParserSpec
=============================================================================
