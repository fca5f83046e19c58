----------------------------- MODULE DhcpOptions -----------------------------
(***************************************************************************)
(* What a DHCP reply tells the machine (internal/dhcp: AddOptions and the  *)
(* packet loop).  A reply's options are a function from code to data: the  *)
(* code builds them by iterating over a map of codes, in any order.        *)
(*                                                                         *)
(* AddOptions also looks for options that operators stored per pool, host  *)
(* or device class, but it never loads any: `options` stays empty, so      *)
(* byOpCode does too and both loops over it do nothing.                    *)
(***************************************************************************)
EXTENDS NetMath

LeaseTime == 3600

\* Codes the switch of AddOptions knows, and any other one.
Default == {"T1", "T2", "LeaseTime", "ServerID", "BootFile"}
Codes == Default \cup {"SubnetMask", "ClasslessStaticRoute", "Router", "BroadcastAddr", "Other"}

\* An option that is skipped is not one that carries data.
ASSUME SkippedIsNoData ==
    None \notin Nat /\ None \notin {"server", "mboot.efi", "https url", "http url"}

\* Options a request carries that are copied into the reply.
Echoed == {"ClientID", "Hostname", "AgentInfo"}

\* Mutant: a netmask that cannot be read is taken for 0.
ZeroCIDR(group) ==
    IF NetmaskToCIDR(group.netmask) = None THEN 0 ELSE NetmaskToCIDR(group.netmask)

groupCIDR(group) == NetmaskToCIDR(group.netmask)
groupGateway(group) == group.gateway

\* Mutant: whole octets only.
WholeOctets(cidr) == cidr \div OctetBits

SignificantOctets(cidr) == (cidr + OctetBits - 1) \div OctetBits

\* RFC 3442's descriptor: the length, the octets of the destination that it covers
\* (the gateway's own, host bits included) and the router.
ClasslessRoute(cidr, gw) ==
    [length |-> cidr,
     octets |-> SubSeq(ToOctets(gw), 1, SignificantOctets(cidr)) \o ToOctets(gw)]

BootFile(method) ==
    CASE method = "pxe" -> "mboot.efi"
      [] method = "https-dhcp" -> "https url"
      [] method = "http-dhcp" -> "http url"
      [] OTHER -> None

\* The data of an option, None when it is skipped.
Generated(code, group) ==
    LET cidr == groupCIDR(group)
        gw == groupGateway(group) IN
    CASE code = "BootFile" -> BootFile(group.method)
      [] code = "SubnetMask" /\ cidr # None -> CIDRMask(cidr)
      [] code = "ClasslessStaticRoute" /\ cidr # None /\ gw # None -> ClasslessRoute(cidr, gw)
      [] code = "Router" -> gw
      [] code = "BroadcastAddr" /\ cidr # None -> BroadcastAddress(gw, Length(cidr))
      [] code = "T1" -> LeaseTime \div 2
      [] code = "T2" -> (LeaseTime * 7) \div 8
      [] code = "LeaseTime" -> LeaseTime
      [] code = "ServerID" -> "server"
      [] OTHER -> None

\* Mutant: a client that sends a list gets what is on it and no more.
OnlyAsked(asked) == IF asked = {} THEN Default ELSE asked

requestedOptions(asked) == asked \cup Default

AddOptions(asked, group) ==
    LET sent == {c \in requestedOptions(asked) : Generated(c, group) # None} IN
    [c \in sent |-> Generated(c, group)]

\* buildHeaders: a client without an address is answered by broadcast, anyone else
\* (a relay, a client renewing) at the source address, on the server's port.
buildHeaders(source) ==
    IF source = {} THEN [ip |-> Bits, port |-> 68] ELSE [ip |-> source, port |-> 67]
=============================================================================
