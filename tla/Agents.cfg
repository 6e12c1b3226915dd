CONSTANTS
    p1 = p1
    p2 = p2
    a1 = a1
    a2 = a2
    a3 = a3
    k = k
    t1 = t1
    o1 = o1
    o2 = o2
    s1 = s1
    s2 = s2
    w1 = w1
    w2 = w2
    k1 = k1
    k2 = k2
    k3 = k3
    Nothing = Nothing
    Unset = Unset
    Nobody = Nobody
    Absent = Absent
    Installers <- MCInstallers
    HookHandlers <- MCHandlers
    Found <- MCFound
    Documents <- MCDocuments
    MaxEdits = 2
    MaxCrashes = 1
    Calls <- MCCalls
    Inputs <- MCInputs
    Lease = 1
    MaxTime = 2
    MaxFaults = 1
    MaxWaits = 1
    Tasks <- MCTasks
    Owners <- MCOwners
    Syncs <- MCSyncs
    Activities <- MCActivities
    MaxRev = 3
    MaxPolls = 2
    MaxWire = 2
    MaxMoves = 2
    Commits <- MCCommits
    Parents <- MCParents
    Branches <- MCBranches
    Trees <- MCTrees
    Listed <- MCListed
    MaxChanges = 2
    MaxFailures = 1
SPECIFICATION Spec
INVARIANTS
    UserContentKept
    HooksKept
    PresenceFaithful
    CaptureAnswered
    ActivityReal
    SharedFactsCurrent
    RowsReal
    SupervisionSurfaces
CHECK_DEADLOCK FALSE
