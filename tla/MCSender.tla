------------------------------ MODULE MCSender ------------------------------
(***************************************************************************)
(* A small instance of Sender for TLC: two senders, three datagrams, of    *)
(* which each handler gives up to two copies to each sender.               *)
(***************************************************************************)
EXTENDS Sender

CONSTANTS vlan20, vlan30, mdns, p1, p2, p3

MCInterfaceAddresses == {vlan20, vlan30}
MCEndpoints == {mdns}
MCPayloads == {p1, p2, p3}
=============================================================================
