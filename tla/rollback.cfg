SPECIFICATION Spec
CONSTANTS
    None = None
    Garbage = Garbage
    Cues <- MCCues
    Interruptible <- MCInterruptible
    Inputs <- MCInputs
    Tasks = {"CAM SHAKE"}
    NumAdapters = 2
    Prediction = 2
    MaxFrames = 4
    MaxTraining = 3
INVARIANTS  NeverFull CuesFollow SurvivorsPlayOn
PROPERTY FollowsTimeline
CHECK_DEADLOCK FALSE
