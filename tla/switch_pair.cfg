SPECIFICATION Spec
SYMMETRY People
CONSTANTS
    None = None
    Operators = {o1, o2, spawner}
    Launcher = spawner
    Overlays <- TwoOverlays
    Switchable <- TwoAndTrajectory
    Places = {home}
    Home = home
    Initial <- BeforeBringup
    GivesUp = TRUE
    Faults = TRUE
INVARIANTS TypeOK NoOverlayDuringMove
PROPERTIES HoldLostOnlyByStock ClaimLostOnlyByStock KeepsOrder
