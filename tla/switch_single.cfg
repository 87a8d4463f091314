SPECIFICATION FairCell
CONSTANTS
    None = None
    Operators = {o1}
    Launcher = None
    Overlays <- TwoOverlays
    Switchable <- OneOverlay
    Places <- OnALine
    Home <- Upright
    Initial <- RestOrArmed
    GivesUp = TRUE
    Faults = TRUE
    Joints = 2
    Travel = 1
INVARIANTS WrenchStays MirrorsTheArm
PROPERTIES HeldArmNeverPulled PositionHandedOverAtArm TorqueLeftByStockOrFault CommandsReturn
