------------------------------ MODULE MCNetwork ------------------------------
(***************************************************************************)
(* Network with few bits, for TLC: the code uses the width of an address   *)
(* only as the number that it shifts by, so that 5 bits for 32 keep every  *)
(* boundary (a prefix of none, one, all but one and all bits).             *)
(***************************************************************************)
EXTENDS Network

MCWidth == 5
TwiceWidth == 2 * MCWidth
=============================================================================
