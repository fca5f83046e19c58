--------------------------- MODULE BootParameters ---------------------------
(***************************************************************************)
(* Everything one machine is told before its installer runs: the network   *)
(* its group puts it on, by DHCP, and its command line, by the boot.cfg    *)
(* that either transport renders.  An operator registers the machine in a  *)
(* group, the machine asks for an address and fetches boot.cfg, as often   *)
(* as it likes and over both transports.                                   *)
(***************************************************************************)
EXTENDS DhcpOptions, BootCfg

CONSTANTS
    Gateways, Netmasks, Methods, Vlans,     \* what groups hold
    HostIPs,                                \* addresses operators give the machine
    AskedSets,                              \* parameter request lists of clients
    Sources,                                \* source addresses of their packets
    OwnSets,                                \* which of the echoed options they carry
    Files                                   \* the boot.cfg of images, NoWord when there is none

ASSUME BootConstants ==
    /\ Gateways \ {None} \subseteq Address /\ HostIPs \ {None} \subseteq Address
    /\ OwnSets \subseteq SUBSET Echoed
    /\ \A text \in Netmasks : IsText(text)
    /\ \A src \in Files \ {NoWord} : IsFile(src)

VARIABLES
    group,      \* the machine's group
    file,       \* the boot.cfg of its image
    host,       \* its row: the address, None when it has none
    admitted,   \* is the row there
    reply,      \* the DHCP reply it got last
    cfg         \* per transport: the boot.cfg it got, NoWord before

vars == <<group, file, host, admitted, reply, cfg>>

Transports == {"tftp", "http"}
NoReply == [to |-> None, options |-> <<>>, echoed |-> {}]

Init ==
    /\ group \in [gateway : Gateways, netmask : Netmasks, method : Methods, vlan : Vlans]
    /\ file \in Files
    /\ host = None /\ admitted = FALSE
    /\ reply = NoReply
    /\ cfg = [t \in Transports |-> NoWord]

\* net/netip's Prefix.Contains.
PrefixContains(network, cidr, ip) == ip \cap CIDRMask(cidr) = network \cap CIDRMask(cidr)

\* CreateHost with an address checks it against the group's network, and refuses the
\* host when the group's gateway or netmask cannot be read.
Admissible(ip) ==
    LET cidr == NetmaskToCIDR(group.netmask)
        network == NetworkAddress(group.gateway, group.netmask)
    IN  ip # None => cidr # None /\ network # None /\ PrefixContains(network, cidr, ip)

CreateHost(ip) ==
    /\ ~admitted /\ Admissible(ip)
    /\ host' = ip /\ admitted' = TRUE
    /\ UNCHANGED <<group, file, reply, cfg>>

\* An offer or an acknowledgement: what processDiscover or processRequest built, with
\* the request's own options behind it.
Answer(asked, own, source) ==
    /\ admitted
    /\ reply' = [to |-> buildHeaders(source), options |-> AddOptions(asked, group), echoed |-> own]
    /\ UNCHANGED <<group, file, host, admitted, cfg>>

\* serveBootCfg of internal/tftp and of internal/server.
Params(transport) ==
    [prefix |-> IF transport = "tftp" THEN TFTPPrefix ELSE HTTPPrefix,
     mac |-> NoWord, ip |-> host, netmask |-> group.netmask, gateway |-> group.gateway,
     vlan |-> group.vlan, allowLegacyCPU |-> TRUE]

serveBootCfg(t) ==
    /\ admitted /\ file # NoWord
    /\ cfg' = [cfg EXCEPT ![t] = RenderConfig(file, Params(t))]
    /\ UNCHANGED <<group, file, host, admitted, reply>>

Next ==
    \/ \E ip \in HostIPs : CreateHost(ip)
    \/ \E asked \in AskedSets, own \in OwnSets, source \in Sources :
            Answer(asked, own, source)
    \/ \E t \in Transports : serveBootCfg(t)

Spec == Init /\ [][Next]_vars

-----------------------------------------------------------------------------
(* Properties                                                              *)

Told(code) == code \in DOMAIN reply.options
Mask == reply.options["SubnetMask"]

\* A machine that CreateHost admitted with an address is on the link that its DHCP
\* reply describes: masked by option 1, its address and its router agree.
HostOnLink ==
    host # None /\ Told("SubnetMask") /\ Told("Router") =>
        host \cap Mask = reply.options["Router"] \cap Mask

\* The broadcast address the machine is given is the last address of the router's
\* link: on it, and above every other address on it, for every readable netmask.
BroadcastIsLast ==
    Told("BroadcastAddr") =>
        LET b == reply.options["BroadcastAddr"]
            mask == CIDRMask(NetmaskToCIDR(group.netmask))
        IN  /\ b \in Address
            /\ b \cap mask = group.gateway \cap mask
            /\ \A a \in Address : a \cap mask = b \cap mask => a \subseteq b

\* A client that decodes the classless route as RFC 3442 says (bits beyond the length
\* are zeroed) reads exactly the bytes sent, and finds the gateway's own network, to be
\* reached through the gateway.
RouteIsTheLink ==
    Told("ClasslessStaticRoute") =>
        LET r == reply.options["ClasslessStaticRoute"]
            n == CHOOSE k \in 0..Octets : /\ k * OctetBits >= r.length
                                          /\ (k - 1) * OctetBits < r.length
            descriptor == SubSeq(r.octets, 1, n)
            router == SubSeq(r.octets, n + 1, Len(r.octets))
        IN  /\ Len(r.octets) = n + Octets
            /\ FromOctets(router) = group.gateway
            /\ FromOctets(descriptor) \cap CIDRMask(r.length)
                    = NetworkAddress(group.gateway, group.netmask)

\* groupCIDR: "falling back to 0 would hand the client a 0.0.0.0 subnet mask": no
\* client is told that the whole internet is on its link unless its group says so.
MaskIsMeant ==
    Told("SubnetMask") /\ Mask = {} => group.netmask \in {Length(0), Dotted({})}

\* Whatever a client asks for, it is told when to renew, how long it may keep the
\* address and, when the boot method is a known one, what to boot.
AlwaysTold ==
    admitted /\ reply # NoReply =>
        /\ \A c \in {"T1", "T2", "LeaseTime", "ServerID"} : Told(c)
        /\ reply.options["T1"] < reply.options["T2"]
        /\ reply.options["T2"] < reply.options["LeaseTime"]
        /\ Told("BootFile") <=> group.method \in {"pxe", "http-dhcp", "https-dhcp"}

\* What was added is intact, separators included: the installer is told where its
\* kickstart is and who it is, the loader where to fetch from, and the installer is not
\* told to look for a CD-ROM.
UrlsIntact ==
    \A t \in Transports : cfg[t] # NoWord =>
        \A i \in DOMAIN cfg[t] :
            /\ cfg[t][i].key = "kernelopt" =>
                 IsSuffix(Added(Params(t)), cfg[t][i].words)
            /\ cfg[t][i].key = "prefix" => cfg[t][i].words[1] = Params(t).prefix
            /\ Word("cdromBoot") \notin Range(cfg[t][i].words)

\* Every other line of the image's file survives in its place, with its words in their
\* order and its paths flattened: losing a module fails the installation half-way.
OtherLinesSurvive ==
    \A t \in Transports : cfg[t] # NoWord =>
        /\ DOMAIN cfg[t] = DOMAIN file
        /\ \A i \in DOMAIN file :
             file[i].key \notin {"kernelopt", "prefix"} =>
                /\ cfg[t][i].key = file[i].key
                /\ Len(cfg[t][i].words) = Len(file[i].words)
                /\ \A j \in DOMAIN file[i].words :
                     /\ cfg[t][i].words[j].text = file[i].words[j].text
                     /\ ~cfg[t][i].words[j].slash
=============================================================================
