SPECIFICATION Spec
CONSTANTS
    None = None
    Operators = {o1}
    Launcher = None
    Overlays <- OneOverlay
    Switchable <- OneOverlay
    Places = {home, away}
    Home = home
    Initial <- RestOrArmed
    GivesUp = FALSE
    Faults = TRUE
PROPERTIES AtRestMeansZeroEffort
