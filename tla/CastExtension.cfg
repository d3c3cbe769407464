CONSTANTS
    Gestures = {g1, g2, g3}
    MaxFaults = 2
    MaxQueue = 2
    None = None
SPECIFICATION FairSpec
INVARIANTS TypeOK StopHasATarget
PROPERTIES StopIsCarriedOut PortIsRestored
CHECK_DEADLOCK FALSE
