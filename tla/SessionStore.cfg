SPECIFICATION FairSpec
CONSTANTS
    MaxId = 2
    MaxBorn = 2
    MaxQueue = 1
    Threads = {t1, t2}
    NoThread = NoThread
    Faults = {}
INVARIANT
    NoGhostEntry
PROPERTIES
    OnlyAskedVanish
    ImplementsStore
    DeleteCompletes
