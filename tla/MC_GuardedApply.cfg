SPECIFICATION Spec
CONSTANTS
    Contents = {c1, c2}
    Malformed = Malformed
    None = None
    Requests = {r1, r2}
    Restarters = {w1}
    Tasks = {t1, t2}
    MaxSecond = 1
    MaxCrashes = 1
SYMMETRY Symmetry
INVARIANTS TypeOK OneApplyAtATime NoForgottenTask LoadedMeansRunning
PROPERTIES StoredIsKept
