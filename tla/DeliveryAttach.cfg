SPECIFICATION FairSpec
CONSTANTS
    Clients = {c1, c2}
    Sessions = {s1}
    None = None
    Slow = {}
    Requests = {}
    Orphanable = {}
    MaxEvents = 0
    MaxQueue = 2
    MaxGen = 2
    MaxOps = 1
CHECK_DEADLOCK FALSE
PROPERTY SnapshotArrives
