CONSTANTS
  vlan20 = vlan20
  vlan30 = vlan30
  mdns = mdns
  p1 = p1
  p2 = p2
  p3 = p3
  InterfaceAddresses <- MCInterfaceAddresses
  Endpoints <- MCEndpoints
  Payloads <- MCPayloads
  NoItem = NoItem

SPECIFICATION SenderSpec

INVARIANTS
  SenderTypeOK
  LentBufferIsFront
  SentInOrder

PROPERTIES
  EverythingIsSent

CHECK_DEADLOCK FALSE
