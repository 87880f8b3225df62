---------------------------- MODULE NetworkProofs ----------------------------
(***************************************************************************)
(* For every width of addresses and of an unsigned long: a rule accepts    *)
(* the sources that share the prefix of its network, wherever the shift    *)
(* that computes the mask is defined.                                      *)
(*                                                                         *)
(* The argument is that masking an address leaves its prefix, which the    *)
(* lemmas on the mask establish; masking it again, as contains does with a *)
(* network that was masked already, changes nothing.                       *)
(***************************************************************************)
EXTENDS Network, FiniteSetTheorems, TLAPS

(***************************************************************************)
(* Words.                                                                  *)
(***************************************************************************)

\* A power of two, less one, has its ones below the one that it had.
LEMMA PowerLessOne ==
  ASSUME NEW n \in Nat
  PROVE  MinusOne({n}) = 0..(n - 1)
<1>1. (CHOOSE k \in {n} : \A j \in {n} : k <= j) = n
  OBVIOUS
<1>. QED  BY <1>1 DEF MinusOne

\* The shift being defined, the host bits are those after the first p.
LEMMA HostBitsFollowPrefix ==
  ASSUME NEW p \in PrefixLength, ShiftIsDefined(p)
  PROVE  HostBits(p) = {0..(Width - p - 1)}
<1>1. Width - p \in Nat
  BY NetworkAssumption DEF PrefixLength
<1>2. HostBits(p) = {MinusOne({Width - p})}
  BY DEF HostBits, ShiftedOne, ShiftIsDefined
<1>. QED  BY <1>1, <1>2, PowerLessOne

\* Masking an address leaves its prefix.
LEMMA MaskLeavesPrefix ==
  ASSUME NEW address \in Address, NEW p \in PrefixLength, ShiftIsDefined(p)
  PROVE  MaskedAddresses(address, p) = {Prefix(address, p)}
<1>1. MaskedAddresses(address, p)
        = {address \cap (ULongBits \ (0..(Width - p - 1))) \cap AddressBits}
  BY HostBitsFollowPrefix DEF MaskedAddresses
<1>2. \A k \in address :
        k \in (ULongBits \ (0..(Width - p - 1))) \cap AddressBits <=> k >= Width - p
  <2> TAKE k \in address
  <2>1. k \in Int /\ 0 <= k /\ k <= Width - 1 /\ k <= ULong - 1 /\ Width \in Int /\ p \in Int
    BY NetworkAssumption DEF Address, AddressBits, PrefixLength
  <2>2. k \in AddressBits /\ k \in ULongBits
    BY <2>1, NetworkAssumption DEF AddressBits, ULongBits
  <2>3. k \in 0..(Width - p - 1) <=> ~(k >= Width - p)
    BY <2>1
  <2>. QED  BY <2>2, <2>3
<1>. QED  BY <1>1, <1>2 DEF Prefix

\* Whatever a shift gives, masking an address gives an address.
LEMMA MaskedIsAddress ==
  ASSUME NEW address, NEW p
  PROVE  MaskedAddresses(address, p) \subseteq Address
BY DEF MaskedAddresses, Address

\* A prefix is its own prefix.
LEMMA PrefixOfPrefix ==
  ASSUME NEW address \in Address, NEW p \in PrefixLength
  PROVE  Prefix(Prefix(address, p), p) = Prefix(address, p) /\ Prefix(address, p) \in Address
BY DEF Prefix, Address

\* The system's netmask has as many ones as its prefix is long.
LEMMA PopCountOfNetmask ==
  ASSUME NEW p \in PrefixLength
  PROVE  PopCount(Netmask(p)) = p
<1>1. Width \in Int /\ p \in Int /\ p >= 0
  BY NetworkAssumption DEF PrefixLength
<1>2. Cardinality((Width - p)..(Width - 1))
        = IF Width - p > Width - 1 THEN 0 ELSE (Width - 1) - (Width - p) + 1
  BY <1>1, FS_Interval
<1>. QED  BY <1>1, <1>2 DEF PopCount, Netmask

(***************************************************************************)
(* The inductive invariant.                                                *)
(***************************************************************************)

\* The network keeps the prefix that was written, in the address of an interface
\* or alone in a rule; and contains has answered right.
NetworkInv ==
  /\ written \in Networks
  /\ network \in Networks
  /\ network.prefixLength = written.prefixLength
  /\ ShiftIsDefined(written.prefixLength) =>
       Prefix(network.address, written.prefixLength) = Prefix(written.address, written.prefixLength)
  /\ RuleNetworksAreMasked
  /\ ContainsMeansSamePrefix

\* A network made with the mask is the prefix of what it is made of.
LEMMA MadeIsPrefix ==
  ASSUME NEW address \in Address, NEW p \in PrefixLength, NEW n \in Made(address, p, TRUE)
  PROVE  /\ n \in Networks /\ n.prefixLength = p
         /\ ShiftIsDefined(p) => n.address = Prefix(address, p)
<1>1. PICK a \in MaskedAddresses(address, p) : n = [address |-> a, prefixLength |-> p]
  BY DEF Made
<1>2. n \in Networks /\ n.prefixLength = p /\ n.address = a
  BY <1>1, MaskedIsAddress DEF Networks
<1>3. ShiftIsDefined(p) => a = Prefix(address, p)
  BY MaskLeavesPrefix
<1>. QED  BY <1>2, <1>3

LEMMA NetworkInitInv ==
  NetworkInit => NetworkInv
<1> SUFFICES ASSUME NetworkInit PROVE NetworkInv
  OBVIOUS
<1> DEFINE p == written.prefixLength
<1>1. written \in Networks /\ written.address \in Address /\ p \in PrefixLength
  BY DEF NetworkInit, Networks
<1>2. ContainsMeansSamePrefix
  BY DEF NetworkInit, ContainsMeansSamePrefix
<1>3. CASE FromConfiguration
  <2>1. /\ network \in Networks /\ network.prefixLength = p
        /\ ShiftIsDefined(p) => network.address = Prefix(written.address, p)
    BY <1>1, <1>3, MadeIsPrefix DEF FromConfiguration
  <2>2. Prefix(Prefix(written.address, p), p) = Prefix(written.address, p)
    BY <1>1, PrefixOfPrefix
  <2>. QED  BY <1>1, <1>2, <2>1, <2>2 DEF NetworkInv, RuleNetworksAreMasked
<1>4. CASE FromInterface
  <2>1. ~inRule /\ network = [address |-> written.address, prefixLength |-> p]
    BY <1>1, <1>4, PopCountOfNetmask DEF FromInterface, Made
  <2>2. network = written
    BY <1>1, <2>1 DEF Networks
  <2>. QED  BY <1>1, <1>2, <2>1, <2>2 DEF NetworkInv, RuleNetworksAreMasked
<1>. QED  BY <1>3, <1>4 DEF NetworkInit

\* getMaskedNetwork masks twice, in getMaskedAddress and in the constructor.
LEMMA GetMaskedNetworkKeepsInv ==
  ASSUME NetworkInv, GetMaskedNetwork
  PROVE  NetworkInv'
<1> DEFINE p == written.prefixLength
<1>1. /\ written \in Networks /\ written.address \in Address /\ p \in PrefixLength
      /\ network.address \in Address /\ network.prefixLength = p
      /\ ShiftIsDefined(p) => Prefix(network.address, p) = Prefix(written.address, p)
  BY DEF NetworkInv, Networks
<1>2. PICK address \in MaskedAddresses(network.address, p) : network' \in Made(address, p, TRUE)
  BY <1>1 DEF GetMaskedNetwork
<1>3. address \in Address /\ (ShiftIsDefined(p) => address = Prefix(network.address, p))
  BY <1>1, <1>2, MaskedIsAddress, MaskLeavesPrefix
<1>4. /\ network' \in Networks /\ network'.prefixLength = p
      /\ ShiftIsDefined(p) => network'.address = Prefix(address, p)
  BY <1>1, <1>2, <1>3, MadeIsPrefix
<1>5. ShiftIsDefined(p) => network'.address = Prefix(written.address, p)
                           /\ Prefix(network'.address, p) = Prefix(written.address, p)
  BY <1>1, <1>3, <1>4, PrefixOfPrefix
<1>6. UNCHANGED <<written, asked>>
  BY DEF GetMaskedNetwork
<1>7. ContainsMeansSamePrefix'
  BY <1>6 DEF NetworkInv, ContainsMeansSamePrefix
<1>. QED  BY <1>1, <1>4, <1>5, <1>6, <1>7 DEF NetworkInv, RuleNetworksAreMasked

\* contains masks the network once more, and the source.
LEMMA ContainsKeepsInv ==
  ASSUME NetworkInv, NEW source \in Address, Contains(source)
  PROVE  NetworkInv'
<1> DEFINE p == written.prefixLength
<1>1. /\ p \in PrefixLength /\ network.address \in Address /\ network.prefixLength = p
      /\ UNCHANGED <<written, network, inRule>>
  BY DEF NetworkInv, Networks, Contains
<1>2. PICK own \in MaskedAddresses(network.address, p), other \in MaskedAddresses(source, p) :
        asked' = [source |-> source, answer |-> IF other = own THEN "yes" ELSE "no"]
  BY <1>1 DEF Contains
<1>3. ASSUME ShiftIsDefined(p)
      PROVE  asked'.answer = "yes" <=> Prefix(source, p) = Prefix(written.address, p)
  <2>1. own = Prefix(network.address, p) /\ other = Prefix(source, p)
    BY <1>1, <1>2, <1>3, MaskLeavesPrefix
  <2>2. own = Prefix(written.address, p)
    BY <1>3, <2>1 DEF NetworkInv
  <2>. QED  BY <1>2, <2>1, <2>2
<1>4. ContainsMeansSamePrefix'
  BY <1>1, <1>2, <1>3 DEF ContainsMeansSamePrefix
<1>. QED  BY <1>1, <1>4 DEF NetworkInv, RuleNetworksAreMasked

\* The invariant holds, for every prefix length and both widths of a long.
THEOREM NetworkInvariant == NetworkSpec => []NetworkInv
<1>1. NetworkInv /\ [NetworkNext]_networkVars => NetworkInv'
  <2> SUFFICES ASSUME NetworkInv, [NetworkNext]_networkVars PROVE NetworkInv'
    OBVIOUS
  <2>1. CASE UNCHANGED networkVars
    BY <2>1 DEF networkVars, NetworkInv, RuleNetworksAreMasked, ContainsMeansSamePrefix
  <2>. QED  BY <2>1, GetMaskedNetworkKeepsInv, ContainsKeepsInv DEF NetworkNext
<1>. QED  BY <1>1, NetworkInitInv, PTL DEF NetworkSpec

\* A rule accepts the sources with its network's prefix, and no others (network.h:85).
THEOREM ContainsIsSamePrefix == NetworkSpec => []ContainsMeansSamePrefix
<1>1. NetworkInv => ContainsMeansSamePrefix
  BY DEF NetworkInv
<1>. QED  BY <1>1, NetworkInvariant, PTL

\* A network in a rule has no host bits (network.h:67-71, 109-113).
THEOREM RulesHoldMaskedNetworks == NetworkSpec => []RuleNetworksAreMasked
<1>1. NetworkInv => RuleNetworksAreMasked
  BY DEF NetworkInv
<1>. QED  BY <1>1, NetworkInvariant, PTL
=============================================================================
