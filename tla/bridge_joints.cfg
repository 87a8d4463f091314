SPECIFICATION Spec
CONSTANTS
    None = None
    Bad = Bad
    NonFinite = NonFinite
    Garbage = Garbage
    Mangled = Mangled
    DryRun = FALSE
    EngageIds = {e1}
    InboxCap = 1
    Watchdog = 1
    ArmStep = 1
    Positions <- Still
    Rotations <- Still
    JointAngles <- Angles
    JointRequests <- AngleRequests
    AnchorTol = 1
    AnchorTolRot = 1
    MaxStep = 1
    MaxRot = 1
    BoxMin = 0
    BoxMax = 0
    MaxErr = 2
    MaxErrRot = 2
    JointLimit = 2
    JointMargin = 1
    MaxJointStep = 1
    CloseAbs = 0
    CloseRel = 100
INVARIANTS TypeOK JointAnchorInRange
PROPERTIES JointAnchorStepsOnce
