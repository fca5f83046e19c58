SPECIFICATION Spec
CONSTANTS
    none = none  noWord = noWord  vlan1 = vlan1
    OctetBits = 2
    Octets = 2
    None = none
    NoWord = noWord
    Gateways <- MCGateways
    Netmasks <- MCNetmasks
    Methods <- MCMethods
    Vlans <- MCVlans
    HostIPs <- MCHostIPs
    AskedSets <- MCAskedSets
    Sources <- MCSources
    OwnSets <- MCOwnSets
    Files <- MCFiles
INVARIANTS
    HostOnLink BroadcastIsLast RouteIsTheLink MaskIsMeant AlwaysTold
    UrlsIntact OtherLinesSurvive
