------------------------------ MODULE MCRouter ------------------------------
(***************************************************************************)
(* A small instance of Router for TLC, after mcv4fwdd.example.conf: two    *)
(* services and two VLANs, with a rule in each direction.                  *)
(***************************************************************************)
EXTENDS Router, TLC

CONSTANTS vlan20, vlan30, host20, host30, mdns, ssdp, p1, p2, p3

MCInterfaceAddresses == {vlan20, vlan30}
MCAddresses == {vlan20, vlan30, host20, host30}
MCEndpoints == {mdns, ssdp}
MCPayloads == {p1, p2, p3}

\* Each service has a port of its own, as mdns and ssdp do.
DistinctPorts == (mdns :> 5353) @@ (ssdp :> 1900)

\* Two services that differ only in their group.
SamePort == (mdns :> 5353) @@ (ssdp :> 5353)

Net20 == {vlan20, host20}
Net30 == {vlan30, host30}

call(e, from, networks, to) ==
  [endpoint |-> e, from |-> from, networks |-> networks, to |-> to]

\* Both directions for mdns, one of them with overlapping networks; for ssdp a
\* single direction, limited to one host.
MCCandidateRules ==
  {call(mdns, vlan20, <<Net20, {host20}>>, vlan30),
   call(mdns, vlan30, <<Net30>>, vlan20),
   call(ssdp, vlan30, <<{host30}>>, vlan20)}

packet(source, destination, interface, length, p) ==
  [source |-> source, destination |-> destination, interface |-> interface,
   length |-> length, payload |-> p]

MCTraffic ==
  {packet(host20, mdns, vlan20, 1, p) : p \in MCPayloads} \cup
  {packet(host30, mdns, vlan30, 1, p) : p \in MCPayloads} \cup
  {packet(host20, mdns, vlan20, 0, p) : p \in MCPayloads} \cup
  {packet(host30, ssdp, vlan30, 1, p) : p \in MCPayloads}
=============================================================================
