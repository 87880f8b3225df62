------------------------------- MODULE Network -------------------------------
(***************************************************************************)
(* The arithmetic of IPv4 networks (config/model/network.h): a network is  *)
(* an address and a prefix length, and masks are computed in an unsigned   *)
(* long, of which the width depends on the platform.  The other modules    *)
(* take a network to be the set of its addresses; this one justifies it.   *)
(*                                                                         *)
(* A machine word is the set of the positions of its ones: bit 0 is the    *)
(* last bit of an address, bit Width - 1 its first.                        *)
(*                                                                         *)
(* One network is followed from where it comes from, the configuration or  *)
(* an interface, to the rule of a forwarder that asks it whether it        *)
(* contains the sources of datagrams.                                      *)
(***************************************************************************)
EXTENDS Integers, FiniteSets

CONSTANTS
  Width, \* the bits of an address: 32 in the code
  ULong  \* the bits of an unsigned long: 64, or 32 where a long has 32

ASSUME NetworkAssumption == Width \in Nat \ {0} /\ ULong \in Nat /\ ULong >= Width

VARIABLES
  written, \* the network as the configuration or the system says it
  network, \* the Network made of it
  inRule,  \* it is in the list of a forwarder
  asked    \* the last call of contains, and its answer

networkVars == <<written, network, inRule, asked>>

AddressBits == 0..(Width - 1)
ULongBits == 0..(ULong - 1)

Address == SUBSET AddressBits
PrefixLength == 0..Width
Networks == [address : Address, prefixLength : PrefixLength]
NotAsked == [source |-> {}, answer |-> "none"]

\* What "1UL << n" may be: a shift by the width of the type is undefined, and
\* gives 0 or 1, depending on the processor.
ShiftedOne(n) == IF n < ULong THEN {{n}} ELSE {{}, {0}}

\* "word - 1UL" borrows from the last one of the word; zero wraps around.
MinusOne(word) ==
  IF word = {} THEN ULongBits
  ELSE LET last == CHOOSE k \in word : \A j \in word : k <= j
       IN  (word \ {last}) \cup 0..(last - 1)

\* Mutant of HostBits: one bit too few.
HostBitsButOne(p) ==
  {MinusOne(one) : one \in ShiftedOne(IF p = Width THEN 0 ELSE Width - p - 1)}

\* "(1UL << (32 - prefixLength)) - 1UL"
HostBits(p) == {MinusOne(one) : one \in ShiftedOne(Width - p)}

\* getMaskedAddress: "address & ~HostBits", converted to an address.
MaskedAddresses(address, p) ==
  {address \cap (ULongBits \ bits) \cap AddressBits : bits \in HostBits(p)}

\* Mutant of Made: the constructor never applies the mask.
MadeUnmasked(address, p, applyMask) == {[address |-> address, prefixLength |-> p]}

\* The constructor Network(address, prefixLength, applyMask).
Made(address, p, applyMask) ==
  {[address |-> a, prefixLength |-> p] :
     a \in IF applyMask THEN MaskedAddresses(address, p) ELSE {address}}

\* __builtin_popcountl
PopCount(word) == Cardinality(word)

\* The system's netmasks have their ones to the left.
Netmask(p) == (Width - p)..(Width - 1)

\* "from <address>/<prefix>;": the parser makes a network, which its rule keeps.
FromConfiguration ==
  /\ inRule = TRUE
  /\ network \in Made(written.address, written.prefixLength, TRUE)

\* getInterfaceAddresses keeps the interface's own address.
FromInterface ==
  /\ inRule = FALSE
  /\ network \in Made(written.address, PopCount(Netmask(written.prefixLength)), FALSE)

NetworkInit ==
  /\ written \in Networks
  /\ FromConfiguration \/ FromInterface
  /\ asked = NotAsked

\* getMaskedNetwork: the network of an interface is put into a forwarder's list.
GetMaskedNetwork ==
  /\ ~inRule
  /\ inRule' = TRUE
  /\ \E address \in MaskedAddresses(network.address, network.prefixLength) :
       network' \in Made(address, network.prefixLength, TRUE)
  /\ UNCHANGED <<written, asked>>

\* Forwarder::handlePacket asks whether the network contains a datagram's source.
Contains(source) ==
  /\ inRule
  /\ \E own \in MaskedAddresses(network.address, network.prefixLength),
        other \in MaskedAddresses(source, network.prefixLength) :
       asked' = [source |-> source, answer |-> IF other = own THEN "yes" ELSE "no"]
  /\ UNCHANGED <<written, network, inRule>>

NetworkNext == GetMaskedNetwork \/ \E source \in Address : Contains(source)

NetworkSpec == NetworkInit /\ [][NetworkNext]_networkVars

\* The first p bits of an address, which name the network that it is in.
Prefix(address, p) == {k \in address : k >= Width - p}

\* The shift of getMaskedAddress is defined: always, if an unsigned long is wider
\* than an address; otherwise for every prefix but the empty one.
ShiftIsDefined(p) == Width - p < ULong

\* A rule accepts exactly the sources that share the prefix of the network that was
\* written, for every prefix length from 0 to 32 (network.h:85-107).  The module's
\* header calls it "like boost::asio::ip::network_v4" (network.h:31), which does so.
ContainsMeansSamePrefix ==
  LET p == written.prefixLength
  IN  asked # NotAsked /\ ShiftIsDefined(p) =>
        (asked.answer = "yes" <=> Prefix(asked.source, p) = Prefix(written.address, p))

\* A network in a rule is its prefix, and has no host bits left, wherever it came
\* from: what is logged of it is what it accepts (parser.y:173-178, application.cc:100).
RuleNetworksAreMasked ==
  inRule /\ ShiftIsDefined(written.prefixLength) =>
    network.address = Prefix(written.address, written.prefixLength)
=============================================================================
