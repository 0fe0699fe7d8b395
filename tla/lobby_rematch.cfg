SPECIFICATION Spec
CONSTANTS
    Clients = {a, b}
    a = a
    b = b
    c = c
    NameOf <- OwnNames
    WrongHash = {}
    HostClient = a
    Modes <- VpsOrDirect
    Joined <- NewRoom
    MayLeave = {}
    EagerReady = {b}
    MaxMembers = 4
    MaxBatch = 2
    MaxReadies = 2
    MaxResults = 0
    MayAbort = {}
    NoOne = NoOne
INVARIANTS SeatReadyIsOwn SameSetup GenerationKnown PunchTogether
CHECK_DEADLOCK FALSE
