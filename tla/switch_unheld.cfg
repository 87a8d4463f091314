SPECIFICATION Spec
CONSTANTS
    None = None
    Operators = {o1}
    Launcher = None
    Overlays <- TwoOverlays
    Switchable <- TwoOverlays
    Places = {home, away}
    Home = home
    Initial <- RestOrArmed
    GivesUp = FALSE
    Faults = FALSE
INVARIANTS HeldThroughout
