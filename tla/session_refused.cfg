SPECIFICATION SessionSpec
CONSTANTS
    None = None
    Bad = Bad
    NonFinite = NonFinite
    Garbage = Garbage
    Mangled = Mangled
    DryRun = FALSE
    EngageIds = {e1}
    EngageId = e1
    InboxCap = 1
    Watchdog = 2
    ArmStep = 1
    Positions <- Angles
    Rotations <- Still
    JointAngles <- Angles
    JointRequests <- Angles
    AnchorTol = 0
    AnchorTolRot = 0
    MaxStep = 1
    MaxRot = 1
    BoxMin = 0
    BoxMax = 2
    MaxErr = 2
    MaxErrRot = 1
    JointLimit = 4
    JointMargin = 1
    MaxJointStep = 1
    CloseAbs = 0
    CloseRel = 100
    Tip <- StraightTip
    Plan <- ShortPlan
    StartTolerance = 0
    Floor = 2
    Freeze = 1
    AbortAfter = 1
    Ramp = 1
    PinFor = 1
    Releases = 1
    Rehearse = FALSE
    MaxStall = 1
    AnswersCap = 1
PROPERTIES PlanWaitsForBridge
