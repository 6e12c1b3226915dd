SPECIFICATION Spec
CONSTANTS
    e1 = e1
    e2 = e2
    e3 = e3
    e4 = e4
    w1 = w1
    w2 = w2
    k1 = k1
    k2 = k2
    v1 = v1
    v2 = v2
    Writers <- MCWriters
    Batches <- MCBatches
    Replay = Replay
    NoFile = NoFile
    NoEvent = NoEvent
    Nobody = Nobody
    Backends <- BothBackends
    MaxRecords = 4
    MaxCalls = 4
    MaxFaults = 2
    Tasks <- MCTasks
    Worktrees <- MCWorktrees
    Observations <- MCObservations
    Stores <- BothBackends
    MaxCuts = 2
    MaxLife = 3
    None = None
INVARIANTS
    NeverCorrupt
    BindingsReadable
    NewestObservationHolds
PROPERTIES
    OnceOnly
CHECK_DEADLOCK FALSE
