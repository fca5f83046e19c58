----------------------------- MODULE BootProofs -----------------------------
(***************************************************************************)
(* What a machine is told of its link and of its installer: proofs about   *)
(* BootParameters for addresses of any width, any gateways, netmasks and   *)
(* hosts, any request lists, and boot.cfg files of any length.             *)
(***************************************************************************)
EXTENDS BootParameters, TLAPS, WellFoundedInduction, NaturalsInduction

-----------------------------------------------------------------------------
(* Netmasks                                                                *)

LEMMA WidthTyped == Width \in Nat
BY NetMathConstants DEF Width

\* A netmask that has a length is that many ones, for all three of netutil's functions.
LEMMA ReadableMask ==
  ASSUME NEW text, NetmaskToCIDR(text) # None
  PROVE  /\ NetmaskToCIDR(text) \in 0..Width
         /\ MaskOf(text) = CIDRMask(NetmaskToCIDR(text))
         /\ text.form \in {"length", "dotted"}
         /\ text.form = "length" => NetmaskToCIDR(text) = text.length
<1>1. CASE text.form = "length" /\ text.length \in 0..Width
  BY <1>1 DEF NetmaskToCIDR, MaskOf
<1>2. CASE text.form = "dotted" /\ Contiguous(text.mask)
  <2>1. Ones(text.mask) \in 0..Width /\ text.mask = CIDRMask(Ones(text.mask))
    BY <1>2 DEF Contiguous, Ones
  <2> QED BY <1>2, <2>1 DEF NetmaskToCIDR, MaskOf
<1> QED BY <1>1, <1>2 DEF NetmaskToCIDR

LEMMA MaskTyped ==
  ASSUME NEW n \in 0..Width
  PROVE  CIDRMask(n) \in Address /\ CIDRMask(n) # None /\ n # None /\ (CIDRMask(n) = {} => n = 0)
<1>1. CIDRMask(n) \in Address
  BY WidthTyped DEF CIDRMask, Address, Bits
<1>2. n # 0 => 1 \in CIDRMask(n)
  BY WidthTyped DEF CIDRMask
<1> QED BY <1>1, <1>2, NetMathConstants

\* The length as a text, as AddOptions gives it to BroadcastAddress.
LEMMA LengthMask ==
  ASSUME NEW n \in 0..Width
  PROVE  MaskOf(Length(n)) = CIDRMask(n)
BY DEF MaskOf, Length

-----------------------------------------------------------------------------
(* Replies                                                                 *)

GroupOK ==
    /\ group.gateway \in Address \cup {None}
    /\ IsText(group.netmask)

ReplyOK == reply = NoReply \/ \E asked \in AskedSets : reply.options = AddOptions(asked, group)

BootInv == GroupOK /\ ReplyOK /\ (host # None => Admissible(host))

LEMMA BootInit ==
  ASSUME Init PROVE BootInv
<1>1. group.gateway \in Gateways /\ group.netmask \in Netmasks
  BY DEF Init
<1> QED BY <1>1, BootConstants DEF Init, BootInv, GroupOK, ReplyOK

LEMMA BootStep ==
  ASSUME BootInv, [Next]_vars PROVE BootInv'
<1> USE DEF BootInv, GroupOK, ReplyOK
<1>1. ASSUME NEW ip \in HostIPs, CreateHost(ip) PROVE BootInv'
  BY <1>1 DEF CreateHost, Admissible
<1>2. ASSUME NEW asked \in AskedSets, NEW own \in OwnSets, NEW source \in Sources, Answer(asked, own, source)
      PROVE  BootInv'
  <2>1. reply'.options = AddOptions(asked, group)
    BY <1>2 DEF Answer
  <2> QED BY <1>2, <2>1 DEF Answer, Admissible
<1>3. ASSUME NEW t \in Transports, serveBootCfg(t) PROVE BootInv'
  BY <1>3 DEF serveBootCfg, Admissible
<1>4. CASE UNCHANGED vars
  BY <1>4 DEF vars, Admissible
<1> QED BY <1>1, <1>2, <1>3, <1>4 DEF Next

\* What a reply tells is what the group generates, and never an error.
LEMMA ToldData ==
  ASSUME BootInv, NEW code, Told(code)
  PROVE  reply.options[code] = Generated(code, group) /\ Generated(code, group) # None
<1>1. reply # NoReply
  BY DEF Told, NoReply
<1>2. PICK asked \in AskedSets : reply.options = AddOptions(asked, group)
  BY <1>1 DEF BootInv, ReplyOK
<1> HIDE DEF Generated
<1> QED BY <1>2 DEF Told, AddOptions

LEMMA ToldMask ==
  ASSUME BootInv, Told("SubnetMask")
  PROVE  /\ NetmaskToCIDR(group.netmask) # None
         /\ Mask = CIDRMask(NetmaskToCIDR(group.netmask))
<1>1. Mask = Generated("SubnetMask", group) /\ Generated("SubnetMask", group) # None
  BY ToldData DEF Mask
<1> QED BY <1>1 DEF Generated, groupCIDR

LEMMA ToldRouter ==
  ASSUME BootInv, Told("Router")
  PROVE  reply.options["Router"] = group.gateway /\ group.gateway \in Address
<1>1. reply.options["Router"] = Generated("Router", group) /\ Generated("Router", group) # None
  BY ToldData
<1> QED BY <1>1 DEF Generated, groupGateway, BootInv, GroupOK

LEMMA ToldBroadcast ==
  ASSUME BootInv, Told("BroadcastAddr")
  PROVE  /\ NetmaskToCIDR(group.netmask) # None /\ group.gateway \in Address
         /\ reply.options["BroadcastAddr"] =
                (group.gateway \cap CIDRMask(NetmaskToCIDR(group.netmask)))
                    \cup (Bits \ CIDRMask(NetmaskToCIDR(group.netmask)))
<1> DEFINE n == NetmaskToCIDR(group.netmask)
<1>1. /\ reply.options["BroadcastAddr"] = Generated("BroadcastAddr", group)
      /\ Generated("BroadcastAddr", group) # None
  BY ToldData
<1>2. n # None /\ Generated("BroadcastAddr", group) = BroadcastAddress(group.gateway, Length(n))
  BY <1>1 DEF Generated, groupCIDR, groupGateway
<1>3. n \in 0..Width
  BY <1>2, ReadableMask
<1> HIDE DEF n
<1>4. MaskOf(Length(n)) = CIDRMask(n)
  BY <1>3, LengthMask
<1>5. group.gateway # None
  BY <1>1, <1>2 DEF BroadcastAddress
<1>6. CIDRMask(n) # None
  BY <1>3, MaskTyped
<1>7. BroadcastAddress(group.gateway, Length(n)) = (group.gateway \cap CIDRMask(n)) \cup (Bits \ CIDRMask(n))
  BY <1>4, <1>5, <1>6 DEF BroadcastAddress
<1> QED BY <1>1, <1>2, <1>5, <1>7 DEF n, BootInv, GroupOK

LEMMA BootInvariant == Spec => []BootInv
<1>1. Init => BootInv
  BY BootInit
<1>2. BootInv /\ [Next]_vars => BootInv'
  BY BootStep
<1> QED BY <1>1, <1>2, PTL DEF Spec

-----------------------------------------------------------------------------
(* The theorems                                                            *)

\* CreateHost's check and AddOptions read a group's netmask with different functions; an
\* admitted address is on the router's link all the same, as DHCP describes that link.
THEOREM HostStaysOnLink == Spec => []HostOnLink
<1>1. BootInv => HostOnLink
  <2> SUFFICES ASSUME BootInv, host # None, Told("SubnetMask"), Told("Router")
               PROVE  host \cap Mask = reply.options["Router"] \cap Mask
    BY DEF HostOnLink
  <2> DEFINE n == NetmaskToCIDR(group.netmask)
  <2>1. n # None /\ Mask = CIDRMask(n)
    BY ToldMask
  <2>2. reply.options["Router"] = group.gateway
    BY ToldRouter
  <2>3. /\ NetworkAddress(group.gateway, group.netmask) # None
        /\ PrefixContains(NetworkAddress(group.gateway, group.netmask), n, host)
    BY DEF BootInv, Admissible
  <2>4. MaskOf(group.netmask) = CIDRMask(n)
    BY <2>1, ReadableMask
  <2>5. NetworkAddress(group.gateway, group.netmask) = group.gateway \cap CIDRMask(n)
    BY <2>3, <2>4 DEF NetworkAddress
  <2> QED BY <2>1, <2>2, <2>3, <2>5 DEF PrefixContains
<1> QED BY <1>1, BootInvariant, PTL

\* netutil.BroadcastAddress, from the length that NetmaskToCIDR found: the last address
\* of the router's link, for masks of every length and form, /0, /31 and /32 included.
THEOREM BroadcastStaysLast == Spec => []BroadcastIsLast
<1>1. BootInv => BroadcastIsLast
  <2> SUFFICES ASSUME BootInv, Told("BroadcastAddr")
               PROVE  LET b == reply.options["BroadcastAddr"]
                          mask == CIDRMask(NetmaskToCIDR(group.netmask))
                      IN  /\ b \in Address
                          /\ b \cap mask = group.gateway \cap mask
                          /\ \A a \in Address : a \cap mask = b \cap mask => a \subseteq b
    BY DEF BroadcastIsLast
  <2> DEFINE mask == CIDRMask(NetmaskToCIDR(group.netmask))
  <2> HIDE DEF mask
  <2>1. reply.options["BroadcastAddr"] = (group.gateway \cap mask) \cup (Bits \ mask)
        /\ group.gateway \subseteq Bits
    BY ToldBroadcast DEF mask, Address
  <2> QED BY <2>1 DEF mask, Address
<1> QED BY <1>1, BootInvariant, PTL

\* groupCIDR: a client is told that everything is on its link only when its group's
\* netmask says so, never because the netmask could not be read.
THEOREM MaskStaysMeant == Spec => []MaskIsMeant
<1>1. BootInv => MaskIsMeant
  <2> SUFFICES ASSUME BootInv, Told("SubnetMask"), Mask = {}
               PROVE  group.netmask \in {Length(0), Dotted({})}
    BY DEF MaskIsMeant
  <2> DEFINE text == group.netmask
  <2>1. NetmaskToCIDR(text) # None /\ CIDRMask(NetmaskToCIDR(text)) = {}
    BY ToldMask
  <2>2. /\ NetmaskToCIDR(text) = 0 /\ MaskOf(text) = {} /\ text.form \in {"length", "dotted"}
        /\ text.form = "length" => text.length = 0
    BY <2>1, ReadableMask, MaskTyped
  <2>3. text.form = "dotted" => MaskOf(text) = text.mask
    BY DEF MaskOf
  <2>4. IsText(text)
    BY DEF BootInv, GroupOK
  <2> HIDE DEF text
  <2>5. CASE text = Length(text.length)
    BY <2>2, <2>5 DEF Length, text
  <2>6. CASE text = Dotted(text.mask)
    BY <2>2, <2>3, <2>6 DEF Dotted, text
  <2>7. text # Unreadable
    BY <2>2 DEF Unreadable
  <2> QED BY <2>4, <2>5, <2>6, <2>7 DEF IsText
<1> QED BY <1>1, BootInvariant, PTL

-----------------------------------------------------------------------------
(* Octets                                                                  *)

LEMMA DivBounds ==
  ASSUME NEW a \in Nat, NEW b \in Nat \ {0}
  PROVE  a \div b \in Nat /\ (a \div b) * b <= a /\ a < (a \div b + 1) * b
OBVIOUS

LEMMA ProductOrder ==
  ASSUME NEW b \in Nat
  PROVE  /\ \A m, n \in Int : m <= n => m * b <= n * b
         /\ \A m, n \in Int : m * b < n * b => m < n
<1>1. ASSUME NEW m \in Int, NEW n \in Int, m <= n PROVE m * b <= n * b
  BY <1>1
<1>2. ASSUME NEW m \in Int, NEW n \in Int, m * b < n * b PROVE m < n
  BY <1>2
<1> QED BY <1>1, <1>2

LEMMA NextProduct ==
  ASSUME NEW n \in Int, NEW b \in Int
  PROVE  n * b \in Int /\ (n - 1) * b = n * b - b /\ (n + 1) * b = n * b + b
OBVIOUS

\* The first octets of an address, put together again, are its first bits.
LEMMA FirstOctets ==
  ASSUME NEW a \in Address, NEW n \in 0..Octets, NEW s, DOMAIN s = 1..n,
         \A i \in 1..n : s[i] = Octet(a, i)
  PROVE  FromOctets(s) = {b \in a : b <= n * OctetBits}
<1> USE NetMathConstants
<1>1. ASSUME NEW b \in FromOctets(s) PROVE b \in a /\ b <= n * OctetBits
  <2>1. PICK i \in 1..n : \E k \in s[i] : b = (i - 1) * OctetBits + k
    BY <1>1 DEF FromOctets
  <2>2. PICK k \in 1..OctetBits : b = (i - 1) * OctetBits + k /\ (i - 1) * OctetBits + k \in a
    BY <2>1 DEF Octet
  <2>3. (i - 1) * OctetBits = i * OctetBits - OctetBits /\ i * OctetBits \in Int
        /\ n * OctetBits \in Int
    BY NextProduct
  <2>4. i * OctetBits <= n * OctetBits
    BY ProductOrder
  <2> QED BY <2>2, <2>3, <2>4
<1>2. ASSUME NEW b \in a, b <= n * OctetBits PROVE b \in FromOctets(s)
  <2>1. b \in Bits /\ b \in Nat /\ b >= 1
    BY WidthTyped DEF Address, Bits
  <2> DEFINE q == (b - 1) \div OctetBits
  <2>2. q \in Nat /\ q * OctetBits <= b - 1 /\ b - 1 < (q + 1) * OctetBits
    BY <2>1, DivBounds
  <2> HIDE DEF q
  <2>3. (q + 1) * OctetBits = q * OctetBits + OctetBits /\ q * OctetBits \in Int
    BY <2>2, NextProduct
  <2>4. q * OctetBits < n * OctetBits
    <3>1. n * OctetBits \in Int
      BY NextProduct
    <3> QED BY <1>2, <2>1, <2>2, <2>3, <3>1
  <2>5. q < n
    BY <2>2, <2>4, ProductOrder
  <2>6. q + 1 \in 1..n /\ (q + 1) - 1 = q
    BY <2>2, <2>5
  <2> DEFINE k == b - q * OctetBits
  <2>7. k \in 1..OctetBits /\ b = q * OctetBits + k
    BY <2>1, <2>2, <2>3
  <2> HIDE DEF k
  <2>8. k \in s[q + 1]
    BY <2>6, <2>7 DEF Octet
  <2> QED BY <2>1, <2>6, <2>7, <2>8 DEF FromOctets
<1> QED BY <1>1, <1>2 DEF FromOctets

\* The octets a length covers, and the number a client computes from it.
LEMMA CoveringOctets ==
  ASSUME NEW len \in 0..Width
  PROVE  /\ SignificantOctets(len) \in 0..Octets
         /\ len <= SignificantOctets(len) * OctetBits
         /\ SignificantOctets(len) = CHOOSE k \in 0..Octets : /\ k * OctetBits >= len
                                                              /\ (k - 1) * OctetBits < len
<1> USE NetMathConstants
<1> DEFINE n == SignificantOctets(len)
           C(k) == k * OctetBits >= len /\ (k - 1) * OctetBits < len
<1>1. len \in Nat /\ len <= Octets * OctetBits
  BY WidthTyped DEF Width
<1>2. /\ n \in Nat /\ n * OctetBits <= len + OctetBits - 1
      /\ len + OctetBits - 1 < (n + 1) * OctetBits
  BY <1>1, DivBounds DEF SignificantOctets
<1> HIDE DEF n
<1>3. /\ (n + 1) * OctetBits = n * OctetBits + OctetBits
      /\ (n - 1) * OctetBits = n * OctetBits - OctetBits /\ n * OctetBits \in Int
  BY <1>2, NextProduct
<1>4. C(n)
  BY <1>1, <1>2, <1>3
<1>5. n \in 0..Octets
  <2>1. (n - 1) * OctetBits < Octets * OctetBits
    <3>1. Octets * OctetBits \in Int
      BY NextProduct
    <3> QED BY <1>1, <1>2, <1>3, <1>4, <3>1
  <2>2. n - 1 < Octets
    BY <1>2, <2>1, ProductOrder
  <2> QED BY <1>2, <2>2
<1>6. ASSUME NEW i \in 0..Octets, NEW k \in 0..Octets, C(i), C(k) PROVE ~(i < k)
  <2> SUFFICES ASSUME i < k PROVE FALSE
    OBVIOUS
  <2>1. i * OctetBits <= (k - 1) * OctetBits
    BY ProductOrder
  <2>2. i * OctetBits \in Int /\ (k - 1) * OctetBits \in Int
    BY NextProduct
  <2> QED BY <1>1, <1>6, <2>1, <2>2
<1>7. \A k \in 0..Octets : C(k) => k = n
  <2> SUFFICES ASSUME NEW k \in 0..Octets, C(k) PROVE k = n
    OBVIOUS
  <2>1. ~(k < n) /\ ~(n < k)
    BY <1>4, <1>5, <1>6
  <2> QED BY <1>5, <2>1
<1>8. n = CHOOSE k \in 0..Octets : C(k)
  <2> HIDE DEF C
  <2> QED BY <1>4, <1>5, <1>7
<1> QED BY <1>1, <1>4, <1>5, <1>8 DEF n

\* A sequence taken apart where two were put together.
LEMMA TakeApart ==
  ASSUME NEW S, NEW s \in Seq(S), NEW t \in Seq(S)
  PROVE  /\ Len(s \o t) = Len(s) + Len(t)
         /\ SubSeq(s \o t, 1, Len(s)) = s
         /\ SubSeq(s \o t, Len(s) + 1, Len(s \o t)) = t
OBVIOUS

LEMMA OctetsTyped ==
  ASSUME NEW a \in Address, NEW n \in 0..Octets
  PROVE  /\ ToOctets(a) \in Seq(SUBSET (1..OctetBits)) /\ Len(ToOctets(a)) = Octets
         /\ SubSeq(ToOctets(a), 1, n) \in Seq(SUBSET (1..OctetBits))
         /\ Len(SubSeq(ToOctets(a), 1, n)) = n
         /\ \A i \in 1..n : SubSeq(ToOctets(a), 1, n)[i] = Octet(a, i)
         /\ \A i \in 1..Octets : ToOctets(a)[i] = Octet(a, i)
<1> USE NetMathConstants
<1>1. \A i \in 1..Octets : Octet(a, i) \in SUBSET (1..OctetBits)
  BY DEF Octet
<1>2. ToOctets(a) \in Seq(SUBSET (1..OctetBits)) /\ Len(ToOctets(a)) = Octets
      /\ \A i \in 1..Octets : ToOctets(a)[i] = Octet(a, i)
  BY <1>1 DEF ToOctets
<1> QED BY <1>2

\* The classless route as a client decodes it.
LEMMA RouteDecoded ==
  ASSUME NEW len \in 0..Width, NEW gw \in Address
  PROVE  LET r == ClasslessRoute(len, gw)
             n == CHOOSE k \in 0..Octets : k * OctetBits >= len /\ (k - 1) * OctetBits < len
         IN  /\ r.length = len /\ Len(r.octets) = n + Octets
             /\ FromOctets(SubSeq(r.octets, n + 1, Len(r.octets))) = gw
             /\ FromOctets(SubSeq(r.octets, 1, n)) \cap CIDRMask(len) = gw \cap CIDRMask(len)
<1> USE NetMathConstants
<1> DEFINE n == SignificantOctets(len)
           head == SubSeq(ToOctets(gw), 1, n)
           octets == head \o ToOctets(gw)
<1>1. /\ n \in 0..Octets /\ len <= n * OctetBits
      /\ n = CHOOSE k \in 0..Octets : k * OctetBits >= len /\ (k - 1) * OctetBits < len
  BY CoveringOctets
<1>2. ClasslessRoute(len, gw).length = len /\ ClasslessRoute(len, gw).octets = octets
  BY DEF ClasslessRoute
<1> HIDE DEF n
<1>3. /\ head \in Seq(SUBSET (1..OctetBits)) /\ Len(head) = n
      /\ ToOctets(gw) \in Seq(SUBSET (1..OctetBits)) /\ Len(ToOctets(gw)) = Octets
      /\ \A i \in 1..n : head[i] = Octet(gw, i)
      /\ \A i \in 1..Octets : ToOctets(gw)[i] = Octet(gw, i)
  BY <1>1, OctetsTyped
<1> HIDE DEF head
<1>4. /\ Len(octets) = n + Octets /\ SubSeq(octets, 1, n) = head
      /\ SubSeq(octets, n + 1, Len(octets)) = ToOctets(gw)
  <2>1. \A s, t \in Seq(SUBSET (1..OctetBits)) :
          /\ Len(s \o t) = Len(s) + Len(t)
          /\ SubSeq(s \o t, 1, Len(s)) = s
          /\ SubSeq(s \o t, Len(s) + 1, Len(s \o t)) = t
    BY TakeApart
  <2>2. /\ Len(octets) = Len(head) + Len(ToOctets(gw)) /\ SubSeq(octets, 1, Len(head)) = head
        /\ SubSeq(octets, Len(head) + 1, Len(octets)) = ToOctets(gw)
    BY <1>3, <2>1, Zenon
  <2> QED BY <1>3, <2>2
<1>5. FromOctets(ToOctets(gw)) = gw
  <2>1. DOMAIN ToOctets(gw) = 1..Octets
    BY DEF ToOctets
  <2>2. FromOctets(ToOctets(gw)) = {b \in gw : b <= Octets * OctetBits}
    BY <1>3, <2>1, FirstOctets
  <2>3. \A b \in gw : b <= Octets * OctetBits
    BY WidthTyped DEF Address, Bits, Width
  <2> QED BY <2>2, <2>3
<1>6. FromOctets(head) \cap CIDRMask(len) = gw \cap CIDRMask(len)
  <2>1. DOMAIN head = 1..n /\ \A i \in 1..n : head[i] = Octet(gw, i)
    BY <1>3
  <2>2. FromOctets(head) = {b \in gw : b <= n * OctetBits}
    BY <1>1, <2>1, FirstOctets
  <2>3. n * OctetBits \in Int
    BY <1>1, NextProduct
  <2>4. \A b \in CIDRMask(len) : b <= n * OctetBits
    BY <1>1, <2>3, WidthTyped DEF CIDRMask
  <2> HIDE DEF head
  <2> QED BY <2>2, <2>4
<1> HIDE DEF octets
<1> QED BY <1>1, <1>2, <1>4, <1>5, <1>6

\* RFC 3442: the bytes of option 121 parse as what AddOptions meant by them, for every
\* length, whole octets or not, /0 and /32 included: the descriptor's octets, masked, are
\* the gateway's own network, and the rest is the gateway.
THEOREM RouteStaysTheLink == Spec => []RouteIsTheLink
<1>1. BootInv => RouteIsTheLink
  <2> SUFFICES ASSUME BootInv, Told("ClasslessStaticRoute") PROVE RouteIsTheLink
    BY DEF RouteIsTheLink
  <2> DEFINE len == NetmaskToCIDR(group.netmask)
             gw == group.gateway
             r == reply.options["ClasslessStaticRoute"]
  <2>1. r = Generated("ClasslessStaticRoute", group)
        /\ Generated("ClasslessStaticRoute", group) # None
    BY ToldData
  <2>2. len # None /\ gw # None /\ r = ClasslessRoute(len, gw)
    BY <2>1 DEF Generated, groupCIDR, groupGateway
  <2>3. len \in 0..Width /\ gw \in Address /\ MaskOf(group.netmask) = CIDRMask(len)
    BY <2>2, ReadableMask DEF BootInv, GroupOK
  <2>4. NetworkAddress(gw, group.netmask) = gw \cap CIDRMask(len)
    BY <2>2, <2>3, MaskTyped DEF NetworkAddress
  <2> HIDE DEF r, len, gw
  <2>5. /\ r.length = len
        /\ LET n == CHOOSE k \in 0..Octets : k * OctetBits >= len /\ (k - 1) * OctetBits < len
           IN  /\ Len(r.octets) = n + Octets
               /\ FromOctets(SubSeq(r.octets, n + 1, Len(r.octets))) = gw
               /\ FromOctets(SubSeq(r.octets, 1, n)) \cap CIDRMask(len) = gw \cap CIDRMask(len)
    BY <2>2, <2>3, RouteDecoded
  <2> QED BY <2>4, <2>5 DEF RouteIsTheLink, r, gw, len
<1> QED BY <1>1, BootInvariant, PTL

\* AddOptions adds the renewal times, the lease and the server to whatever the client asks
\* for, and what to boot when the group's method has a file.
THEOREM AlwaysStaysTold == Spec => []AlwaysTold
<1>1. BootInv => AlwaysTold
  <2> SUFFICES ASSUME BootInv, reply # NoReply
               PROVE  /\ \A c \in {"T1", "T2", "LeaseTime", "ServerID"} : Told(c)
                      /\ reply.options["T1"] < reply.options["T2"]
                      /\ reply.options["T2"] < reply.options["LeaseTime"]
                      /\ Told("BootFile") <=> group.method \in {"pxe", "http-dhcp", "https-dhcp"}
    BY DEF AlwaysTold
  <2>1. PICK asked \in AskedSets : reply.options = AddOptions(asked, group)
    BY DEF BootInv, ReplyOK
  <2>2. /\ Generated("T1", group) = 1800 /\ Generated("T2", group) = 3150
        /\ Generated("LeaseTime", group) = 3600 /\ Generated("ServerID", group) = "server"
        /\ Generated("BootFile", group) = BootFile(group.method)
    BY DEF Generated, LeaseTime
  <2>3. BootFile(group.method) # None <=> group.method \in {"pxe", "http-dhcp", "https-dhcp"}
    BY SkippedIsNoData DEF BootFile
  <2> HIDE DEF Generated
  <2>4. \A c \in Default : Told(c) <=> Generated(c, group) # None
    BY <2>1 DEF Told, AddOptions, requestedOptions
  <2>5. \A c \in {"T1", "T2", "LeaseTime", "ServerID"} : Told(c)
    <3>1. \A n \in Nat : n # None
      BY SkippedIsNoData, Zenon
    <3>2. "server" # None
      BY SkippedIsNoData, Zenon
    <3>3. 1800 # None /\ 3150 # None /\ 3600 # None
      BY <3>1
    <3> QED BY <2>2, <2>4, <3>2, <3>3 DEF Default
  <2>6. \A c \in {"T1", "T2", "LeaseTime"} : reply.options[c] = Generated(c, group)
    BY <2>5, ToldData
  <2> QED BY <2>2, <2>3, <2>4, <2>5, <2>6 DEF Default
<1> QED BY <1>1, BootInvariant, PTL

-----------------------------------------------------------------------------
(* What is served of boot.cfg                                              *)

\* A transport has served nothing, or what the rewrite makes of the image's file with the
\* parameters the host and its group still have.
Rendered ==
    /\ file \in Files /\ DOMAIN cfg = Transports
    /\ \A t \in Transports :
         cfg[t] # NoWord => admitted /\ file # NoWord /\ cfg[t] = RenderConfig(file, Params(t))

LEMMA RenderedStep ==
  ASSUME Rendered, [Next]_vars PROVE Rendered'
<1> USE DEF Rendered
<1>1. ASSUME NEW ip \in HostIPs, CreateHost(ip) PROVE Rendered'
  BY <1>1 DEF CreateHost
<1>2. ASSUME NEW asked \in AskedSets, NEW own \in OwnSets, NEW source \in Sources, Answer(asked, own, source)
      PROVE  Rendered'
  BY <1>2 DEF Answer, Params
<1>3. ASSUME NEW t \in Transports, serveBootCfg(t) PROVE Rendered'
  <2>1. \A x \in Transports : Params(x)' = Params(x)
    BY <1>3 DEF serveBootCfg, Params
  <2>2. /\ cfg'[t] = RenderConfig(file, Params(t)) /\ DOMAIN cfg' = Transports
        /\ \A x \in Transports \ {t} : cfg'[x] = cfg[x]
        /\ file' = file /\ admitted' = admitted /\ admitted /\ file # NoWord
    BY <1>3 DEF serveBootCfg
  <2> HIDE DEF RenderConfig
  <2>3. \A x \in Transports : RenderConfig(file, Params(x))' = RenderConfig(file, Params(x))
    BY <2>1, <2>2
  <2> QED BY <2>2, <2>3
<1>4. CASE UNCHANGED vars
  BY <1>4 DEF vars, Params
<1> QED BY <1>1, <1>2, <1>3, <1>4 DEF Next

LEMMA AlwaysRendered == Spec => []Rendered
<1>1. Init => Rendered
  BY DEF Init, Rendered
<1>2. Rendered /\ [Next]_vars => Rendered'
  BY RenderedStep
<1> QED BY <1>1, <1>2, PTL DEF Spec

-----------------------------------------------------------------------------
(* The rewrite, line by line                                               *)

\* The least of some numbers.
Below == OpToRel(<, Nat)

LEMMA BelowIsLess == \A m, n \in Nat : <<n, m>> \in Below <=> n < m
BY DEF Below, OpToRel

LEMMA EarliestIsOne ==
  ASSUME NEW lines \in SUBSET Nat, lines # {}
  PROVE  Earliest(lines) \in lines
<1>1. IsWellFoundedOn(Below, Nat)
  BY NatLessThanWellFounded DEF Below
<1> HIDE DEF Below
<1>2. PICK m \in lines : \A n \in lines : ~(<<n, m>> \in Below)
  BY <1>1, WFMin
<1>3. \A n \in lines : ~(n < m)
  BY <1>2, BelowIsLess
<1>4. \A n \in lines : m <= n
  BY <1>3
<1> QED BY <1>4 DEF Earliest

\* Both global replacements of a line's words: nothing is lost or moved, no separator is
\* left, and the one option is gone.
Stripped(words) == WithoutCdrom(Flat(words))
StrippedText == (STRING \cup {""}) \ {"cdromBoot"}
StrippedWord == [text : StrippedText, arg : {NoWord}, slash : {FALSE}]

\* What cdromBoot makes of one word.
Rid(w) == [w EXCEPT !.text = IF @ = "cdromBoot" THEN "" ELSE @]

LEMMA RidWord ==
  ASSUME NEW w \in FileWord, ~w.slash
  PROVE  /\ Rid(w) \in StrippedWord /\ Rid(w).text # "cdromBoot" /\ ~Rid(w).slash
         /\ w.text # "cdromBoot" => Rid(w).text = w.text
<1>1. \A x \in StrippedText : /\ [w EXCEPT !.text = x] \in StrippedWord
                              /\ [w EXCEPT !.text = x].text = x /\ ~[w EXCEPT !.text = x].slash
  BY DEF FileWord, StrippedWord
<1>2. w.text \in STRING
  BY DEF FileWord
<1>3. \A x \in StrippedText : x # "cdromBoot"
  BY DEF StrippedText
<1>4. CASE w.text = "cdromBoot"
  <2>1. Rid(w) = [w EXCEPT !.text = ""]
    BY <1>4, Zenon DEF Rid
  <2>2. "" # "cdromBoot"
    OBVIOUS
  <2>3. "" \in StrippedText
    BY <2>2, Zenon DEF StrippedText
  <2> QED BY <1>1, <1>3, <1>4, <2>1, <2>3, Zenon
<1>5. CASE w.text # "cdromBoot"
  <2>1. Rid(w) = [w EXCEPT !.text = w.text]
    BY <1>5, Zenon DEF Rid
  <2>2. w.text \in StrippedText
    BY <1>2, <1>5, Zenon DEF StrippedText
  <2> QED BY <1>1, <1>5, <2>1, <2>2, Zenon
<1> QED BY <1>4, <1>5

LEMMA StrippedWords ==
  ASSUME NEW words \in Seq(FileWord)
  PROVE  /\ Stripped(words) \in Seq(StrippedWord) /\ Len(Stripped(words)) = Len(words)
         /\ \A j \in 1..Len(words) :
              /\ Stripped(words)[j].text # "cdromBoot" /\ ~Stripped(words)[j].slash
              /\ words[j].text # "cdromBoot" => Stripped(words)[j].text = words[j].text
<1> DEFINE n == Len(words)
<1>1. n \in Nat /\ DOMAIN words = 1..n /\ \A j \in 1..n : words[j] \in FileWord
  OBVIOUS
<1> HIDE DEF n
<1>2. \A w \in FileWord : [w EXCEPT !.slash = FALSE] \in FileWord
                          /\ ~[w EXCEPT !.slash = FALSE].slash
                          /\ [w EXCEPT !.slash = FALSE].text = w.text
  BY DEF FileWord
<1>3. /\ DOMAIN Flat(words) = 1..n
      /\ \A j \in 1..n : /\ Flat(words)[j] \in FileWord /\ ~Flat(words)[j].slash
                         /\ Flat(words)[j].text = words[j].text
  BY <1>1, <1>2 DEF Flat
<1>4. Stripped(words) = [j \in 1..n |-> Rid(Flat(words)[j])]
  BY <1>3, Zenon DEF Stripped, WithoutCdrom, Rid
<1>5. \A w \in FileWord : ~w.slash =>
        /\ Rid(w) \in StrippedWord /\ Rid(w).text # "cdromBoot" /\ ~Rid(w).slash
        /\ w.text # "cdromBoot" => Rid(w).text = w.text
  BY RidWord
<1>6. \A j \in 1..n : /\ Stripped(words)[j] \in StrippedWord
                      /\ Stripped(words)[j].text # "cdromBoot" /\ ~Stripped(words)[j].slash
                      /\ words[j].text # "cdromBoot" => Stripped(words)[j].text = words[j].text
  <2> TAKE j \in 1..n
  <2>1. Stripped(words)[j] = Rid(Flat(words)[j])
    BY <1>4, Zenon
  <2> QED BY <1>3, <1>5, <2>1, Zenon
<1>7. Stripped(words) \in Seq(StrippedWord) /\ Len(Stripped(words)) = n
  <2>1. Stripped(words) \in [1..n -> StrippedWord]
    BY <1>4, <1>6
  <2>2. \A S : \A f \in [1..n -> S] : f \in Seq(S) /\ Len(f) = n
    BY <1>1
  <2> QED BY <2>1, <2>2, Zenon
<1> QED BY <1>6, <1>7 DEF n

LEMMA StrippedFile ==
  ASSUME NEW src, IsFile(src)
  PROVE  LET out == cdromBoot(pathSeparator(src))
         IN  /\ DOMAIN out = DOMAIN src /\ DOMAIN src \in SUBSET Nat
             /\ \A i \in DOMAIN src : /\ src[i].words \in Seq(FileWord)
                                      /\ out[i].key = src[i].key
                                      /\ out[i].words = Stripped(src[i].words)
<1>1. /\ DOMAIN src = 1..Len(src) /\ Len(src) \in Nat
      /\ \A i \in DOMAIN src : src[i] \in FileLine
  BY DEF IsFile
<1>2. \A l \in FileLine : l.words \in Seq(FileWord)
  BY DEF FileLine
<1>3. /\ DOMAIN pathSeparator(src) = DOMAIN src
      /\ \A i \in DOMAIN src : pathSeparator(src)[i] = [src[i] EXCEPT !.words = Flat(src[i].words)]
  BY DEF pathSeparator, MapWords
<1>4. \A i \in DOMAIN src :
         cdromBoot(pathSeparator(src))[i] = [pathSeparator(src)[i] EXCEPT !.words = WithoutCdrom(pathSeparator(src)[i].words)]
  BY <1>3 DEF cdromBoot, MapWords
<1>5. \A l \in FileLine : \A x : [l EXCEPT !.words = x] = [key |-> l.key, words |-> x]
  BY DEF FileLine
<1>6. \A i \in DOMAIN src : /\ cdromBoot(pathSeparator(src))[i].key = src[i].key
                            /\ cdromBoot(pathSeparator(src))[i].words = Stripped(src[i].words)
  <2> TAKE i \in DOMAIN src
  <2>1. pathSeparator(src)[i] = [key |-> src[i].key, words |-> Flat(src[i].words)]
    BY <1>1, <1>3, <1>5
  <2>2. \A k, v, x : [[key |-> k, words |-> v] EXCEPT !.words = x] = [key |-> k, words |-> x]
    OBVIOUS
  <2>3. pathSeparator(src)[i].words = Flat(src[i].words)
    BY <2>1
  <2>4. cdromBoot(pathSeparator(src))[i] = [key |-> src[i].key, words |-> WithoutCdrom(Flat(src[i].words))]
    <3> DEFINE path == pathSeparator(src)
    <3>1. cdromBoot(path)[i] = [path[i] EXCEPT !.words = WithoutCdrom(path[i].words)]
      BY <1>4
    <3> HIDE DEF path
    <3>2. [path[i] EXCEPT !.words = WithoutCdrom(path[i].words)]
            = [[key |-> src[i].key, words |-> Flat(src[i].words)]
                  EXCEPT !.words = WithoutCdrom(Flat(src[i].words))]
      BY <2>1, <2>3 DEF path
    <3>3. [[key |-> src[i].key, words |-> Flat(src[i].words)]
                  EXCEPT !.words = WithoutCdrom(Flat(src[i].words))]
            = [key |-> src[i].key, words |-> WithoutCdrom(Flat(src[i].words))]
      OBVIOUS
    <3> QED BY <3>1, <3>2, <3>3 DEF path
  <2> QED BY <2>4 DEF Stripped
<1>7. DOMAIN cdromBoot(pathSeparator(src)) = DOMAIN src
  BY <1>3 DEF cdromBoot, MapWords
<1> QED BY <1>1, <1>2, <1>6, <1>7

\* The rewritten file, line by line.
LEMMA RenderedLines ==
  ASSUME NEW src, IsFile(src), NEW p
  PROVE  LET out == RenderConfig(src, p)
         IN  /\ DOMAIN out = DOMAIN src
             /\ \A i \in DOMAIN src :
                  /\ out[i].key = src[i].key /\ src[i].words \in Seq(FileWord)
                  /\ src[i].key = "kernelopt" =>
                       \E words \in Seq(FileWord) : out[i].words = Stripped(words) \o Added(p)
                  /\ src[i].key = "prefix" => out[i].words = <<p.prefix>> \o Stripped(src[i].words)
                  /\ src[i].key \notin {"kernelopt", "prefix"} => out[i].words = Stripped(src[i].words)
<1> DEFINE flat == cdromBoot(pathSeparator(src))
           told == appendKernelOpt(flat, Added(p))
           hit == Keyed(flat, "kernelopt")
           first == Earliest(hit)
           out == WithPrefix(told, p.prefix)
<1>1. /\ DOMAIN flat = DOMAIN src /\ DOMAIN src \in SUBSET Nat
      /\ \A i \in DOMAIN src : /\ src[i].words \in Seq(FileWord) /\ flat[i].key = src[i].key
                               /\ flat[i].words = Stripped(src[i].words)
  BY StrippedFile
<1>2. out = RenderConfig(src, p)
  BY DEF RenderConfig
<1>3. told = [i \in DOMAIN flat |-> IF flat[i].key = "kernelopt"
                                    THEN [flat[first] EXCEPT !.words = @ \o Added(p)]
                                    ELSE flat[i]]
  BY DEF appendKernelOpt
<1>4. out = [i \in DOMAIN told |-> IF told[i].key = "prefix"
                                   THEN Line("prefix", <<p.prefix>> \o told[i].words) ELSE told[i]]
  BY DEF WithPrefix
<1>5. hit \in SUBSET Nat /\ hit \subseteq DOMAIN src /\ \A i \in hit : flat[i].key = "kernelopt"
  BY <1>1 DEF Keyed
<1>6. ASSUME NEW i \in DOMAIN src, flat[i].key = "kernelopt"
      PROVE  first \in DOMAIN src /\ flat[first].key = "kernelopt"
  <2>1. i \in hit
    BY <1>1, <1>6 DEF Keyed
  <2>2. \A lines \in SUBSET Nat : lines # {} => Earliest(lines) \in lines
    BY EarliestIsOne
  <2> HIDE DEF hit
  <2>3. first \in hit
    BY <1>5, <2>1, <2>2
  <2> QED BY <1>5, <2>3
<1> HIDE DEF flat, told, hit, first, out
<1>7. /\ DOMAIN out = DOMAIN src
      /\ \A i \in DOMAIN src :
           out[i] = IF told[i].key = "prefix"
                    THEN [key |-> "prefix", words |-> <<p.prefix>> \o told[i].words] ELSE told[i]
  BY <1>1, <1>3, <1>4 DEF Line
<1>8. ASSUME NEW i \in DOMAIN src
      PROVE  /\ out[i].key = src[i].key
             /\ src[i].key = "kernelopt" =>
                  \E words \in Seq(FileWord) : out[i].words = Stripped(words) \o Added(p)
             /\ src[i].key = "prefix" => out[i].words = <<p.prefix>> \o Stripped(src[i].words)
             /\ src[i].key \notin {"kernelopt", "prefix"} => out[i].words = Stripped(src[i].words)
  <2>1. CASE src[i].key = "kernelopt"
    <3>1. first \in DOMAIN src /\ flat[first].key = "kernelopt"
      BY <1>1, <1>6, <2>1
    <3>2. told[i] = [flat[first] EXCEPT !.words = flat[first].words \o Added(p)]
      BY <1>1, <1>3, <2>1
    <3>3. told[i].key = "kernelopt" /\ told[i].words = flat[first].words \o Added(p)
      BY <1>1, <3>1, <3>2
    <3>4. out[i] = told[i]
      BY <1>7, <3>3
    <3> QED BY <1>1, <2>1, <3>1, <3>3, <3>4
  <2>2. CASE src[i].key # "kernelopt"
    <3>1. told[i] = flat[i]
      BY <1>1, <1>3, <2>2
    <3> QED BY <1>1, <1>7, <2>2, <3>1
  <2> QED BY <2>1, <2>2
<1> QED BY <1>1, <1>2, <1>7, <1>8

-----------------------------------------------------------------------------
(* Suffixes and elements                                                   *)

LEMMA ConcatParts ==
  ASSUME NEW S, NEW s \in Seq(S), NEW t \in Seq(S)
  PROVE  /\ s \o t \in Seq(S) /\ Len(s \o t) = Len(s) + Len(t)
         /\ \A i \in 1..Len(s) : (s \o t)[i] = s[i]
         /\ \A i \in 1..Len(t) : (s \o t)[Len(s) + i] = t[i]
OBVIOUS

LEMMA ReversedParts ==
  ASSUME NEW S, NEW s \in Seq(S)
  PROVE  /\ Reverse(s) \in Seq(S) /\ Len(Reverse(s)) = Len(s)
         /\ \A i \in 1..Len(s) : Reverse(s)[i] = s[Len(s) - i + 1]
<1>1. Len(s) \in Nat /\ \A i \in 1..Len(s) : s[Len(s) - i + 1] \in S
  OBVIOUS
<1> QED BY <1>1 DEF Reverse

LEMMA SamePrefix ==
  ASSUME NEW S, NEW s \in Seq(S), NEW t \in Seq(S), Len(s) <= Len(t),
         \A i \in 1..Len(s) : s[i] = t[i]
  PROVE  IsPrefix(s, t)
<1>1. SubSeq(s, 1, Len(s)) = SubSeq(t, 1, Len(s))
  OBVIOUS
<1> QED BY <1>1 DEF IsPrefix

LEMMA ConcatSuffix ==
  ASSUME NEW S, NEW s \in Seq(S), NEW t \in Seq(S)
  PROVE  IsSuffix(t, s \o t)
<1> DEFINE u == s \o t
<1>1. /\ u \in Seq(S) /\ Len(u) = Len(s) + Len(t)
      /\ \A i \in 1..Len(t) : u[Len(s) + i] = t[i]
  BY ConcatParts
<1> HIDE DEF u
<1>2. Len(s) \in Nat /\ Len(t) \in Nat
  OBVIOUS
<1>3. /\ Reverse(t) \in Seq(S) /\ Len(Reverse(t)) = Len(t)
      /\ \A i \in 1..Len(t) : Reverse(t)[i] = t[Len(t) - i + 1]
  BY ReversedParts
<1>4. /\ Reverse(u) \in Seq(S) /\ Len(Reverse(u)) = Len(u)
      /\ \A i \in 1..Len(u) : Reverse(u)[i] = u[Len(u) - i + 1]
  BY <1>1, ReversedParts
<1>5. \A i \in 1..Len(t) : Reverse(t)[i] = Reverse(u)[i]
  <2> TAKE i \in 1..Len(t)
  <2>1. i \in 1..Len(u) /\ Len(t) - i + 1 \in 1..Len(t)
        /\ Len(u) - i + 1 = Len(s) + (Len(t) - i + 1)
    BY <1>1, <1>2
  <2>2. u[Len(s) + (Len(t) - i + 1)] = t[Len(t) - i + 1]
    BY <1>1, <2>1
  <2> QED BY <1>3, <1>4, <2>1, <2>2
<1>6. Len(Reverse(t)) <= Len(Reverse(u))
  BY <1>1, <1>2, <1>3, <1>4
<1>7. IsPrefix(Reverse(t), Reverse(u))
  BY <1>3, <1>4, <1>5, <1>6, SamePrefix
<1> QED BY <1>7 DEF IsSuffix, u

\* What the rewrite can put in a line: what is left of the file's words, the options of a
\* machine, and a prefix.
Written(p) ==
    StrippedWord \cup {p.prefix, KickstartURL, Word("allowLegacyCPU")}
      \cup {Opt("netdevice", p.mac), Opt("ip", p.ip), Opt("netmask", p.netmask),
            Opt("gateway", p.gateway), Opt("vlanid", p.vlan)}

LEMMA AddedWritten ==
  ASSUME NEW p
  PROVE  Added(p) \in Seq(Written(p))
<1> DEFINE W == Written(p)
<1>1. /\ KickstartURL \in W /\ Opt("netdevice", p.mac) \in W /\ Opt("ip", p.ip) \in W
      /\ Opt("netmask", p.netmask) \in W /\ Opt("gateway", p.gateway) \in W
      /\ Opt("vlanid", p.vlan) \in W /\ Word("allowLegacyCPU") \in W
  BY DEF Written
<1> HIDE DEF W
<1>2. <<KickstartURL, Opt("netdevice", p.mac), Opt("ip", p.ip), Opt("netmask", p.netmask),
        Opt("gateway", p.gateway)>> \in Seq(W)
  BY <1>1
<1>3. (IF p.vlan # NoWord THEN <<Opt("vlanid", p.vlan)>> ELSE <<>>) \in Seq(W)
  BY <1>1
<1>4. (IF p.allowLegacyCPU THEN <<Word("allowLegacyCPU")>> ELSE <<>>) \in Seq(W)
  BY <1>1
<1>5. \A s, t \in Seq(W) : s \o t \in Seq(W)
  BY ConcatParts
<1>6. Added(p) \in Seq(W)
  BY <1>2, <1>3, <1>4, <1>5, Zenon DEF Added
<1> QED BY <1>6 DEF W

LEMMA NoCdrom ==
  ASSUME NEW p, p.prefix \in {TFTPPrefix, HTTPPrefix}
  PROVE  Word("cdromBoot") \notin Written(p)
<1> DEFINE w == Word("cdromBoot")
<1>1. w.text = "cdromBoot"
  BY DEF Word
<1>2. \A x \in StrippedWord : x.text # "cdromBoot"
  BY DEF StrippedWord, StrippedText
<1>3. KickstartURL.text # "cdromBoot" /\ Word("allowLegacyCPU").text # "cdromBoot"
  BY DEF KickstartURL, Path, Word
<1>4. p.prefix.text # "cdromBoot"
  <2>1. TFTPPrefix.text # "cdromBoot" /\ HTTPPrefix.text # "cdromBoot"
    BY DEF TFTPPrefix, HTTPPrefix, Path, Word
  <2> QED BY <2>1, Zenon
<1>5. \A name \in {"netdevice", "ip", "netmask", "gateway", "vlanid"} : \A v :
        Opt(name, v).text # "cdromBoot"
  <2> TAKE name \in {"netdevice", "ip", "netmask", "gateway", "vlanid"}
  <2> TAKE v
  <2>1. Opt(name, v).text = name
    BY DEF Opt
  <2> QED BY <2>1
<1>6. \A x \in Written(p) : x.text # "cdromBoot"
  <2> TAKE x \in Written(p)
  <2>1. \/ x \in StrippedWord \/ x \in {p.prefix, KickstartURL, Word("allowLegacyCPU")}
        \/ x \in {Opt("netdevice", p.mac), Opt("ip", p.ip), Opt("netmask", p.netmask),
                  Opt("gateway", p.gateway), Opt("vlanid", p.vlan)}
    BY Zenon DEF Written
  <2> QED BY <1>2, <1>3, <1>4, <1>5, <2>1, Zenon
<1> HIDE DEF w
<1> QED BY <1>1, <1>6 DEF w

\* The words of a rewritten line.
LEMMA RenderedWords ==
  ASSUME NEW src, IsFile(src), NEW p, NEW i \in DOMAIN src
  PROVE  /\ RenderConfig(src, p)[i].words \in Seq(Written(p))
         /\ src[i].key = "kernelopt" => IsSuffix(Added(p), RenderConfig(src, p)[i].words)
         /\ src[i].key = "prefix" => RenderConfig(src, p)[i].words[1] = p.prefix
<1> DEFINE words == RenderConfig(src, p)[i].words
           W == Written(p)
<1>1. /\ src[i].words \in Seq(FileWord)
      /\ src[i].key = "kernelopt" => \E v \in Seq(FileWord) : words = Stripped(v) \o Added(p)
      /\ src[i].key = "prefix" => words = <<p.prefix>> \o Stripped(src[i].words)
      /\ src[i].key \notin {"kernelopt", "prefix"} => words = Stripped(src[i].words)
  BY RenderedLines
<1>2. Added(p) \in Seq(W)
  BY AddedWritten
<1>3. \A v \in Seq(FileWord) : Stripped(v) \in Seq(W)
  <2>1. StrippedWord \subseteq W
    BY DEF Written
  <2> HIDE DEF W
  <2>2. \A s \in Seq(StrippedWord) : s \in Seq(W)
    BY <2>1
  <2> QED BY <2>2, StrippedWords
<1>4. <<p.prefix>> \in Seq(W)
  <2>1. p.prefix \in W
    BY DEF Written
  <2> HIDE DEF W
  <2> QED BY <2>1
<1> HIDE DEF words, W
<1>5. \A s, t \in Seq(W) : s \o t \in Seq(W) /\ IsSuffix(t, s \o t)
  BY ConcatParts, ConcatSuffix
<1>6. CASE src[i].key = "kernelopt"
  BY <1>1, <1>2, <1>3, <1>5, <1>6, Zenon DEF words, W
<1>7. CASE src[i].key = "prefix"
  <2>1. words \in Seq(W)
    BY <1>1, <1>3, <1>4, <1>5, <1>7, Zenon
  <2>2. \A x \in W, t \in Seq(W) : (<<x>> \o t)[1] = x
    OBVIOUS
  <2>3. p.prefix \in W
    BY DEF W, Written
  <2>4. words[1] = p.prefix
    <3>1. Stripped(src[i].words) \in Seq(W)
      BY <1>1, <1>3
    <3>2. (<<p.prefix>> \o Stripped(src[i].words))[1] = p.prefix
      BY <2>2, <2>3, <3>1, Zenon
    <3> QED BY <1>1, <1>7, <3>2, Zenon
  <2> QED BY <1>7, <2>1, <2>4 DEF words, W
<1>8. CASE src[i].key \notin {"kernelopt", "prefix"}
  <2>1. words \in Seq(W)
    BY <1>1, <1>3, <1>8
  <2> QED BY <1>8, <2>1 DEF words, W
<1> QED BY <1>6, <1>7, <1>8

\* RenderConfig strips separators first and adds afterwards, so what it adds reaches the
\* machine whole, after what its kernelopt line held and before what its prefix line held,
\* and no line still tells the installer to look for a CD-ROM.
THEOREM UrlsStayIntact == Spec => []UrlsIntact
<1>1. Rendered => UrlsIntact
  <2> SUFFICES ASSUME Rendered, NEW t \in Transports, cfg[t] # NoWord, NEW i \in DOMAIN cfg[t]
               PROVE  /\ cfg[t][i].key = "kernelopt" => IsSuffix(Added(Params(t)), cfg[t][i].words)
                      /\ cfg[t][i].key = "prefix" => cfg[t][i].words[1] = Params(t).prefix
                      /\ Word("cdromBoot") \notin Range(cfg[t][i].words)
    BY DEF UrlsIntact
  <2> DEFINE p == Params(t)
  <2>1. file \in Files /\ file # NoWord /\ cfg[t] = RenderConfig(file, p)
    BY DEF Rendered
  <2>2. IsFile(file)
    BY <2>1, BootConstants
  <2>3. p.prefix \in {TFTPPrefix, HTTPPrefix}
    BY DEF Params, Transports
  <2> HIDE DEF p
  <2>4. DOMAIN cfg[t] = DOMAIN file /\ \A k \in DOMAIN file : cfg[t][k].key = file[k].key
    <3>1. /\ DOMAIN RenderConfig(file, p) = DOMAIN file
          /\ \A k \in DOMAIN file : RenderConfig(file, p)[k].key = file[k].key
      BY <2>2, RenderedLines
    <3> QED BY <2>1, <3>1
  <2>5. /\ cfg[t][i].words \in Seq(Written(p))
        /\ file[i].key = "kernelopt" => IsSuffix(Added(p), cfg[t][i].words)
        /\ file[i].key = "prefix" => cfg[t][i].words[1] = p.prefix
    BY <2>1, <2>2, <2>4, RenderedWords
  <2>6. Range(cfg[t][i].words) \subseteq Written(p)
    BY <2>5 DEF Range
  <2>7. Word("cdromBoot") \notin Written(p)
    BY <2>3, NoCdrom
  <2> QED BY <2>4, <2>5, <2>6, <2>7 DEF p
<1> QED BY <1>1, AlwaysRendered, PTL

\* The files the package knows: only the kernelopt line, which the rewrite completes, and
\* the prefix line, which it fills, may name the CD-ROM.
CdromOnlyAsOption ==
    \A src \in Files \ {NoWord} : \A i \in DOMAIN src : src[i].key \notin {"kernelopt", "prefix"} =>
        \A j \in DOMAIN src[i].words : src[i].words[j].text # "cdromBoot"

\* The global replacements change no other line of the file but for its separators: every
\* module is still named, in its place.
THEOREM OtherLinesStay == CdromOnlyAsOption /\ Spec => []OtherLinesSurvive
<1> SUFFICES ASSUME CdromOnlyAsOption PROVE Spec => []OtherLinesSurvive
  OBVIOUS
<1>1. Rendered => OtherLinesSurvive
  <2> SUFFICES ASSUME Rendered, NEW t \in Transports, cfg[t] # NoWord
               PROVE  /\ DOMAIN cfg[t] = DOMAIN file
                      /\ \A i \in DOMAIN file : file[i].key \notin {"kernelopt", "prefix"} =>
                           /\ cfg[t][i].key = file[i].key
                           /\ Len(cfg[t][i].words) = Len(file[i].words)
                           /\ \A j \in DOMAIN file[i].words :
                                /\ cfg[t][i].words[j].text = file[i].words[j].text
                                /\ ~cfg[t][i].words[j].slash
    BY DEF OtherLinesSurvive
  <2>1. file \in Files \ {NoWord} /\ cfg[t] = RenderConfig(file, Params(t))
    BY DEF Rendered
  <2>2. IsFile(file)
    BY <2>1, BootConstants
  <2>3. /\ DOMAIN cfg[t] = DOMAIN file
        /\ \A i \in DOMAIN file :
             /\ cfg[t][i].key = file[i].key /\ file[i].words \in Seq(FileWord)
             /\ file[i].key \notin {"kernelopt", "prefix"} =>
                  cfg[t][i].words = Stripped(file[i].words)
    <3> DEFINE out == RenderConfig(file, Params(t))
    <3>1. /\ DOMAIN out = DOMAIN file
          /\ \A i \in DOMAIN file :
               /\ out[i].key = file[i].key /\ file[i].words \in Seq(FileWord)
               /\ file[i].key \notin {"kernelopt", "prefix"} =>
                    out[i].words = Stripped(file[i].words)
      BY <2>2, RenderedLines
    <3> HIDE DEF out
    <3>2. cfg[t] = out
      BY <2>1 DEF out
    <3> QED BY <3>1, <3>2
  <2>4. ASSUME NEW i \in DOMAIN file, file[i].key \notin {"kernelopt", "prefix"}
        PROVE  /\ Len(cfg[t][i].words) = Len(file[i].words)
               /\ \A j \in DOMAIN file[i].words :
                    /\ cfg[t][i].words[j].text = file[i].words[j].text
                    /\ ~cfg[t][i].words[j].slash
    <3> DEFINE words == file[i].words
    <3>1. words \in Seq(FileWord) /\ cfg[t][i].words = Stripped(words)
      BY <2>3, <2>4
    <3>2. \A j \in DOMAIN words : words[j].text # "cdromBoot"
      BY <2>1, <2>4 DEF CdromOnlyAsOption
    <3> HIDE DEF words
    <3>3. DOMAIN words = 1..Len(words)
      BY <3>1
    <3>4. /\ Len(Stripped(words)) = Len(words)
          /\ \A j \in 1..Len(words) :
               /\ ~Stripped(words)[j].slash
               /\ words[j].text # "cdromBoot" => Stripped(words)[j].text = words[j].text
      BY <3>1, StrippedWords
    <3> QED BY <3>1, <3>2, <3>3, <3>4 DEF words
  <2> QED BY <2>3, <2>4
<1> QED BY <1>1, AlwaysRendered, PTL
=============================================================================
