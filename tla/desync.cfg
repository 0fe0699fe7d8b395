SPECIFICATION Spec
CONSTANTS
    a = a
    b = b
    s = s
    None = None
    Players <- MCPlayers
    Watchers = {}
    Prediction = 1
    SnapshotInterval = 2
    SnapshotAge = 3
    HashInterval = 2
    HashAge = 3
    NumCheckpoints = 2
    MaxPendingHashes = 2
    MaxFrames = 7
    MaxMatches = 2
SYMMETRY Symmetry
INVARIANTS NoFalseDesync NoFalseReport DivergenceCaught
