SPECIFICATION FairSpec
CONSTANTS
    None = None
    Bad = Bad
    NonFinite = NonFinite
    Garbage = Garbage
    Mangled = Mangled
    DryRun = FALSE
    EngageIds = {e1}
    InboxCap = 2
    Watchdog = 1
    ArmStep = 2
    Positions <- Still
    Rotations <- Ends
    JointAngles <- Still
    JointRequests <- Nothing
    AnchorTol = 1
    AnchorTolRot = 0
    MaxStep = 1
    MaxRot = 1
    BoxMin = 0
    BoxMax = 1
    MaxErr = 1
    MaxErrRot = 1
    JointLimit = 2
    JointMargin = 1
    MaxJointStep = 1
    CloseAbs = 0
    CloseRel = 100
PROPERTIES NewestPacketRules SilenceDisengages ErrorCapped LungeIsCounted
