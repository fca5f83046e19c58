------------------------------- MODULE NetMath -------------------------------
(***************************************************************************)
(* The IPv4 arithmetic of internal/netutil, shared by the DHCP server and  *)
(* by CreateHost.                                                          *)
(*                                                                         *)
(* An address or a mask is the set of its bits that are one; bit 1 is the  *)
(* most significant.  Masking is then intersection, a contiguous mask of   *)
(* length n is 1..n, and an address on a link is never above the link's    *)
(* broadcast address when it is a subset of it.                            *)
(***************************************************************************)
EXTENDS Integers, Sequences, FiniteSets

CONSTANTS
    OctetBits, Octets,  \* 8 and 4 for IPv4
    None                \* an error, or a text that is not an IPv4 address

Width == OctetBits * Octets
Bits == 1..Width
Address == SUBSET Bits

ASSUME NetMathConstants ==
    /\ OctetBits \in Nat \ {0} /\ Octets \in Nat \ {0}
    /\ \A n \in 0..Width : None # n
    /\ \A a \in Address : None # a

\* A netmask as a group holds it: a text that Atoi reads, a dotted one, or neither.
Length(n) == [form |-> "length", length |-> n, mask |-> {}]
Dotted(m) == [form |-> "dotted", length |-> 0, mask |-> m]
Unreadable == [form |-> "unreadable", length |-> 0, mask |-> {}]
IsText(text) ==
    \/ text = Length(text.length) /\ text.length \in Int
    \/ text = Dotted(text.mask) /\ text.mask \in Address
    \/ text = Unreadable

CIDRMask(n) == 1..n

\* NetworkAddress and BroadcastAddress read the text the same way, and accept a
\* dotted mask whose ones are not contiguous.
MaskOf(text) ==
    CASE text.form = "length" /\ text.length \in 0..Width -> CIDRMask(text.length)
      [] text.form = "dotted" -> text.mask
      [] OTHER -> None

NetworkAddress(gateway, text) ==
    IF gateway = None \/ MaskOf(text) = None THEN None ELSE gateway \cap MaskOf(text)

\* Mutant: host bits are cleared where they should be set.
BroadcastOfNothing(gateway, text) ==
    IF gateway = None \/ MaskOf(text) = None THEN None ELSE gateway \cap MaskOf(text)

BroadcastAddress(gateway, text) ==
    IF gateway = None \/ MaskOf(text) = None THEN None
    ELSE (gateway \cap MaskOf(text)) \cup (Bits \ MaskOf(text))

Contiguous(m) == \E n \in 0..Width : m = CIDRMask(n)
Ones(m) == CHOOSE n \in 0..Width : m = CIDRMask(n)

\* Mutant: the ones are counted, wherever they are.
PopCount(text) ==
    CASE text.form = "length" /\ text.length \in 0..Width -> text.length
      [] text.form = "dotted" -> Cardinality(text.mask)
      [] OTHER -> None

\* IPMask.Size is (0, 0) for a mask that is not contiguous, and that is an error.
NetmaskToCIDR(text) ==
    CASE text.form = "length" /\ text.length \in 0..Width -> text.length
      [] text.form = "dotted" /\ Contiguous(text.mask) -> Ones(text.mask)
      [] OTHER -> None

-----------------------------------------------------------------------------
(* An address as a sequence of octets, each the set of its bits            *)

Octet(a, i) == {b \in 1..OctetBits : (i - 1) * OctetBits + b \in a}
ToOctets(a) == [i \in 1..Octets |-> Octet(a, i)]
FromOctets(s) ==
    {b \in Bits : \E i \in DOMAIN s : \E k \in s[i] : b = (i - 1) * OctetBits + k}
=============================================================================
