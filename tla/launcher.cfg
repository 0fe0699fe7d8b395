SPECIFICATION Spec
CONSTANTS
    r1 = r1
    r2 = r2
    r3 = r3
    Rooms <- MCRooms
    Foreign <- MCForeign
    Addr = Addr
    Junk = Junk
    Empty = Empty
    None = None
    FrontEnds = {"qt", "ipc", "cli"}
    Envs = {"auto", "legacy"}
    MaxClicks = 3
INVARIANTS CodeConverges KeepAlive CredentialsSource LaunchedIsConfigured NoOrphan ControlsComeBack
CHECK_DEADLOCK FALSE
