-------------------------- MODULE MCBootParameters --------------------------
(* BootParameters for TLC: addresses of two octets of two bits. *)
EXTENDS BootParameters

CONSTANTS none, noWord, vlan1

MCGateways == {{}, {1, 4}, {1, 2, 3}, {2, 4}, none}
MCNetmasks == {Length(n) : n \in -1..5} \cup {Dotted(m) : m \in SUBSET (1..4)} \cup {Unreadable}
MCMethods == {"pxe", "http-dhcp", "https-dhcp", "unset"}
MCVlans == {noWord, vlan1}
MCHostIPs == {{1}, {1, 2}, {2, 3}, {1, 2, 3, 4}, none}
MCAskedSets == {{}, {"Router", "Other"},
                {"SubnetMask", "Router", "BroadcastAddr", "ClasslessStaticRoute", "LeaseTime"}}
MCOwnSets == {{}, {"ClientID", "AgentInfo"}}
MCSources == {{}, {2, 3}}

\* The file as shipped, one whose kernelopt comes first and that has no prefix line,
\* one without a kernelopt line, and an image without the file.
Shipped == <<Line("title", <<Word("Loading")>>), Line("prefix", <<>>),
             Line("kernel", <<Path("b.b00")>>),
             Line("kernelopt", <<Word("cdromBoot"), Word("runweasel")>>),
             Line("modules", <<Path("jumpstrt"), Word("---"), Path("k.b00")>>)>>
Reordered == <<Line("kernelopt", <<Word("runweasel"), Word("cdromBoot")>>),
               Line("modules", <<Path("k.b00")>>)>>
Bare == <<Line("prefix", <<>>), Line("kernel", <<Path("b.b00")>>)>>
MCFiles == {Shipped, Reordered, Bare, noWord}
=============================================================================
