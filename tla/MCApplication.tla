--------------------------- MODULE MCApplication ---------------------------
(***************************************************************************)
(* Small instances of Application for TLC, after mcv4fwdd.example.conf:    *)
(* two interfaces, one of which may lack an address or have two, and the   *)
(* services ssdp and ssdp_broadcast, the latter on no multicast group.     *)
(***************************************************************************)
EXTENDS Application, TLC

CONSTANTS
  vlan20, vlan30, longName, addr20, addr20b, addr30, host20, host20b, host30,
  ssdp, broadcast, p1, p2

MCInterfaces == {vlan20, vlan30, longName}
MCInterfaceAddresses == {addr20, addr20b, addr30}
MCAddresses == {addr20, addr20b, addr30, host20, host20b, host30}
MCEndpoints == {ssdp, broadcast}
MCPayloads == {p1, p2}
MCPortOf == [e \in MCEndpoints |-> 1900]

Net20 == {addr20, host20}
Net20b == {addr20b, host20b}
Net30 == {addr30, host30}

List20 == <<[address |-> addr20, network |-> Net20]>>
List20b == <<[address |-> addr20, network |-> Net20], [address |-> addr20b, network |-> Net20b]>>
List30 == <<[address |-> addr30, network |-> Net30]>>
Lists(of20, of30) == (vlan20 :> of20) @@ (vlan30 :> of30) @@ (longName :> {<< >>})

OneAddress == Lists({List20}, {List30, << >>})

\* vlan20 always has an address, sometimes two; vlan30 may have none.
VaryingAddresses == Lists({List20, List20b}, {List30, << >>})

\* vlan20 gains and loses a second address, on another network.
SecondAddress == Lists({List20, List20b}, {List30})

rule(endpoint, from, to, networks) ==
  [endpoint |-> endpoint, from |-> from, to |-> to, networks |-> networks]

\* The ssdp service of the example: one direction for specific senders only.
BothDirections ==
  <<rule(ssdp, vlan30, vlan20, <<{host30}>>), rule(ssdp, vlan20, vlan30, << >>)>>
OnlyBothDirections == {BothDirections}

\* Configurations that cannot be in force: a service joins twice on an interface, a
\* service has no group, and an interface cannot have the name that the file gives.
JoinsTwice ==
  <<rule(ssdp, vlan20, vlan30, <<{host20}>>), rule(ssdp, vlan20, vlan30, <<{host20b}>>)>>
NoGroup == <<rule(ssdp, vlan20, vlan30, << >>), rule(broadcast, vlan20, vlan30, << >>)>>
TooLong == <<rule(ssdp, vlan20, longName, << >>)>>
MCConfigurations == {BothDirections, JoinsTwice, NoGroup, TooLong}

packet(source, interface, p) ==
  [source |-> source, destination |-> ssdp, interface |-> interface, length |-> 1,
   payload |-> p]

\* Hosts send from an address of the network they are attached to.
HostTraffic ==
  {packet(host20, addr20, p1), packet(host30, addr30, p1), packet(host30, addr30, p2)}

\* A host attached to vlan20 has an address that none of its networks contains.
ForeignTraffic == {packet(host20b, addr20, p1)}
=============================================================================
