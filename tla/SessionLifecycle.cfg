SPECIFICATION Spec
CONSTANTS
    MaxId = 2
    MaxBorn = 2
    MaxQueue = 1
    Threads = {t1, t2}
    NoThread = NoThread
    Faults <- SurvivableFaults
SYMMETRY ThreadSymmetry
INVARIANTS
    TypeOK
    NoResurrection
    OneThreadPerSession
