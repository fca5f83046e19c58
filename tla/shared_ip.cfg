SPECIFICATION Spec
CONSTANTS
    m1 = m1  m2 = m2  dashed1 = dashed1
    ip1 = ip1  ip2 = ip2  outside = outside  net1 = net1
    w1 = w1  w2 = w2  w3 = w3  empty = empty  none = none
    Empty = empty
    None = none
    Macs <- MCMacs
    MacTexts <- MCTexts
    IPs <- MCIPs
    ParseMAC <- MCParseMAC
    Lower <- MCLower
    Network <- MCNetwork
    Bootable = {1}
    MaxHosts = 2
    MaxGroups = 1
    Workers = {w1, w2}
    Commands <- SameAddress
    InitHosts <- OneUnarmed
    InitGroups <- MCGroups
    Timeouts = FALSE
    MaxRestarts = 0
INVARIANTS KickstartIsForThisMachine
