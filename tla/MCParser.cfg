CONSTANTS
  ssdp = ssdp
  typo = typo
  group = group
  vlan20 = vlan20
  net20 = net20
  net30 = net30
  Names <- MCNames
  EndpointOf <- MCEndpointOf
  Groups <- MCGroups
  Ports <- MCPorts
  Interfaces <- MCInterfaces
  Networks <- MCNetworks
  MaxServices = 3
  MaxRules = 2
  MaxNetworks = 1

SPECIFICATION ParserSpec

INVARIANTS
  AcceptedIsWritten

CHECK_DEADLOCK FALSE
