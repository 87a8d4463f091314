SPECIFICATION SessionSpec
CONSTANTS
    None = None
    Bad = Bad
    NonFinite = NonFinite
    Garbage = Garbage
    Mangled = Mangled
    DryRun = FALSE
    EngageIds = {e1}
    EngageId = e1
    InboxCap = 1
    Watchdog = 2
    ArmStep = 1
    Positions <- Pair
    Rotations <- Still
    JointAngles <- Pair
    JointRequests <- Pair
    AnchorTol = 0
    AnchorTolRot = 0
    MaxStep = 1
    MaxRot = 1
    BoxMin = 0
    BoxMax = 1
    MaxErr = 1
    MaxErrRot = 1
    JointLimit = 2
    JointMargin = 1
    MaxJointStep = 1
    CloseAbs = 0
    CloseRel = 100
    Tip <- StraightTip
    Plan <- ShortPlan
    StartTolerance = 0
    Floor = 2
    Freeze = 0
    AbortAfter = 1
    Ramp = 1
    PinFor = 1
    Releases = 1
    Rehearse = FALSE
    MaxStall = 1
    AnswersCap = 1
PROPERTIES EndsByRelease AnswersAsAssumed
