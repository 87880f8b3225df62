CONSTANTS
  vlan20 = vlan20
  vlan30 = vlan30
  longName = longName
  addr20 = addr20
  addr20b = addr20b
  addr30 = addr30
  host20 = host20
  host20b = host20b
  host30 = host30
  ssdp = ssdp
  broadcast = broadcast
  p1 = p1
  p2 = p2
  Interfaces <- MCInterfaces
  LongNames = {longName}
  Configurations <- OnlyBothDirections
  AddressLists <- OneAddress
  MaxDisturbances = 1
  InterfaceAddresses <- MCInterfaceAddresses
  Addresses <- MCAddresses
  Endpoints <- MCEndpoints
  Destinations <- MCEndpoints
  PortOf <- MCPortOf
  NotMulticast = {broadcast}
  HostMemberships = {}
  MaxMemberships = 20
  SocketBufferSize = 1
  Payloads <- MCPayloads
  CandidateRules = {}
  Traffic <- ForeignTraffic
  NoItem = NoItem
  NoDatagram = NoDatagram

SPECIFICATION ApplicationSpec

INVARIANTS
  ForwardsRegardlessOfSender

CHECK_DEADLOCK FALSE
