SPECIFICATION Spec
CONSTANTS
    a = a
    b = b
    s = s
    None = None
    Players <- MCPlayers
    Watchers <- MCWatchers
    Prediction = 1
    SnapshotInterval = 1
    SnapshotAge = 3
    HashInterval = 9
    HashAge = 3
    NumCheckpoints = 2
    MaxPendingHashes = 2
    MaxFrames = 4
    MaxMatches = 2
SYMMETRY Symmetry
INVARIANT NoFalseDesync
