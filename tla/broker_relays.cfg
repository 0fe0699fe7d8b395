SPECIFICATION FairSpec
CONSTANTS
    Codes = {c1, c2}
    MaxRooms = 1
    Tasks = {t1, t2}
    Checkers = {t2}
    Modes = {TRUE}
    MaxFaults = 2
    NoCode = NoCode
    NoTask = NoTask
PROPERTIES RelayRestored
CHECK_DEADLOCK FALSE
