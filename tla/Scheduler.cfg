SPECIFICATION FairSpec
CONSTANTS
    Names = {n1, n2}
    Jobs = {j1, j2, j3}
    Loops = {l1, l2, l3}
    Runs = {r1}
    None = None
    MaxCount = 1
INVARIANTS TypeOK NoOrphanLoop EnabledMeansLooping PeriodicRunIsCurrent
PROPERTIES CreditStaysWithJob Recurs
