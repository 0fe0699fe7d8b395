SPECIFICATION FairSpec
CONSTANTS
    k1 = k1
    k2 = k2
    Keys = {k1, k2}
    Addrs <- AllAddrs
    Ports = {0, 1}
    NoAddr = NoAddr
    NoKey = NoKey
    MaxMatch = 2
    KeyOf <- NewKeys
    AddrsOf <- PlayerAddrs
    StaleDatagrams = TRUE
    OldClients <- Old
INVARIANTS ActiveComplete StartedTogether ForwardsThePlayers OnlyPeerData
PROPERTIES BothStart
CHECK_DEADLOCK FALSE
