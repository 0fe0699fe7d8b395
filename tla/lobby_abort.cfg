SPECIFICATION FairSpec
CONSTANTS
    Clients = {a, b, c}
    a = a
    b = b
    c = c
    NameOf <- OwnNames
    WrongHash = {}
    HostClient = a
    Modes <- VpsRoom
    Joined <- PairAndGuest
    MayLeave = {}
    EagerReady = {}
    MaxMembers = 4
    MaxBatch = 1
    MaxReadies = 1
    MaxResults = 0
    MayAbort = {a}
    NoOne = NoOne
INVARIANTS BarrierHolds
PROPERTIES BarrierOpens
CHECK_DEADLOCK FALSE
