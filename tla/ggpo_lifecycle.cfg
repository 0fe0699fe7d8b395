SPECIFICATION FairSpec
CONSTANTS
    Transports <- EveryTransport
    MaxPace = 2
    DevOverlay = TRUE
INVARIANTS PauseHolds NothingOutlivesSession
PROPERTIES GateMovesOnlyBy DeferredCloses
