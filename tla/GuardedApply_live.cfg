SPECIFICATION FairSpec
CONSTANTS
    Contents = {c1}
    Malformed = Malformed
    None = None
    Requests = {r1, r2}
    Restarters = {}
    Tasks = {t1, t2}
    MaxSecond = 0
    MaxCrashes = 1
PROPERTIES AppliesAnswered TasksEnd
