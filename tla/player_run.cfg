SPECIFICATION FairSpec
CONSTANTS
    None = None
    Bad = Bad
    JointAngles <- Angles
    Tip <- StraightTip
    Plan <- ThreeSamples
    EngageId = e1
    StartTolerance = 1
    AnchorTol = 1
    AnchorTolRot = 0
    JointLimit = 3
    Floor = 2
    Freeze = 1
    AbortAfter = 2
    Ramp = 3
    PinFor = 1
    Releases = 1
    Rehearse = FALSE
    MaxStall = 2
    AnswersCap = 1
INVARIANTS TypeOK RampBounds
PROPERTIES RunEnds RunsOut
