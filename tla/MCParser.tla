------------------------------ MODULE MCParser ------------------------------
(***************************************************************************)
(* Small files for the parser: a known name, an unknown one, and services  *)
(* given by address and port.                                              *)
(***************************************************************************)
EXTENDS Parser, TLC

CONSTANTS ssdp, typo, group, vlan20, net20, net30

MCNames == {ssdp, typo}
MCEndpointOf == ssdp :> <<group, 1900>>
MCGroups == {group}
MCPorts == {59999, 60000}
MCInterfaces == {vlan20}
MCNetworks == {net20, net30}
=============================================================================
