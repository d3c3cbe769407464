CONSTANTS
    Gestures = {g1,g2}
    MaxFaults = 0
    MaxQueue = 2
    None = None
SPECIFICATION Spec
INVARIANT OneCapture
CHECK_DEADLOCK FALSE
