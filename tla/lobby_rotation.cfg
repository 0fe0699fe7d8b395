SPECIFICATION Spec
CONSTANTS
    Clients = {a, b, c}
    a = a
    b = b
    c = c
    NameOf <- SharedName
    WrongHash = {}
    HostClient = a
    Modes <- VpsRoom
    Joined <- NewRoom
    MayLeave = {a, c}
    EagerReady = {}
    MaxMembers = 2
    MaxBatch = 2
    MaxReadies = 0
    MaxResults = 1
    MayAbort = {}
    NoOne = NoOne
INVARIANTS MembersDistinct ViewConverges
CHECK_DEADLOCK FALSE
