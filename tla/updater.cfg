SPECIFICATION FairSpec
CONSTANTS
    u1 = u1
    u2 = u2
    Releases <- MCReleases
    Updaters <- MCUpdaters
    Disturbances = {"game", "reopen", "power"}
    MaxPowerLoss = 1
INVARIANTS NoBadFiles RequiredPresent
PROPERTIES DoneMeansComplete UpdateEnds
CHECK_DEADLOCK FALSE
