SPECIFICATION Spec
SYMMETRY Ids
CONSTANTS
    None = None
    Bad = Bad
    NonFinite = NonFinite
    Garbage = Garbage
    Mangled = Mangled
    DryRun = FALSE
    EngageIds = {e1, e2}
    InboxCap = 1
    Watchdog = 1
    ArmStep = 1
    Positions <- Line
    Rotations <- Still
    JointAngles <- Still
    JointRequests <- Nothing
    AnchorTol = 1
    AnchorTolRot = 1
    MaxStep = 1
    MaxRot = 1
    BoxMin = 1
    BoxMax = 3
    MaxErr = 2
    MaxErrRot = 2
    JointLimit = 2
    JointMargin = 1
    MaxJointStep = 1
    CloseAbs = 0
    CloseRel = 4
INVARIANTS AssertionsHold LatchedIsCommanded
PROPERTIES KeepsPromise SteeringStartsAtArm ErrorCapped NeverFurtherOutside LungeIsCounted SaturationIsCounted
