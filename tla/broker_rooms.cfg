SPECIFICATION Spec
CONSTANTS
    Codes = {c1, c2}
    MaxRooms = 2
    Tasks = {t1, t2}
    Checkers = {t1, t2}
    Modes = {TRUE, FALSE}
    MaxFaults = 1
    NoCode = NoCode
    NoTask = NoTask
INVARIANTS TypeOK PortsExclusive ReservationsHeld
PROPERTIES OccupiedStays
CHECK_DEADLOCK FALSE
SYMMETRY RoomsAlike
