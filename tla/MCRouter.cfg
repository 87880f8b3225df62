CONSTANTS
  vlan20 = vlan20
  vlan30 = vlan30
  host20 = host20
  host30 = host30
  mdns = mdns
  ssdp = ssdp
  p1 = p1
  p2 = p2
  p3 = p3
  InterfaceAddresses <- MCInterfaceAddresses
  Addresses <- MCAddresses
  Endpoints <- MCEndpoints
  Destinations <- MCEndpoints
  PortOf <- DistinctPorts
  NotMulticast = {}
  HostMemberships = {}
  MaxMemberships = 20
  SocketBufferSize = 2
  Payloads <- MCPayloads
  CandidateRules <- MCCandidateRules
  Traffic <- MCTraffic
  NoItem = NoItem
  NoDatagram = NoDatagram

SPECIFICATION Spec

INVARIANTS
  TypeOK
  NeverDeaf
  HandledInOrder
  SentInOrder
  NoEcho
  ServiceOrder
  OwnedSenders

PROPERTIES
  ImplementsRelay
  EverythingIsForwarded

CHECK_DEADLOCK FALSE
