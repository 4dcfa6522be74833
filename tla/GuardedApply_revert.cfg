SPECIFICATION Spec
CONSTANTS
    Contents = {c1, c2}
    Malformed = Malformed
    None = None
    Requests = {r1, r2}
    Restarters = {}
    Tasks = {t1, t2}
    MaxSecond = 0
    MaxCrashes = 0
SYMMETRY Symmetry
PROPERTIES UnconfirmedIsReverted
CHECK_DEADLOCK FALSE
