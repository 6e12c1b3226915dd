SPECIFICATION MigrationSpec
CONSTANTS
    p1 = p1
    p2 = p2
    i1 = i1
    i2 = i2
    o1 = o1
    o2 = o2
    b1 = b1
    b2 = b2
    Procs <- MCProcs
    Items <- MCItems
    Origins <- MCOrigins
    OriginOf <- MCOriginOf
    Common = o1
    Backups <- MCBackups
    Startup = Startup
    MaxCalls = 4
    MaxCrashes = 1
    MaxMishaps = 2
    Absent = Absent
    Partial = Partial
    Nobody = Nobody
INVARIANTS
    AcceptedKept
    ReadsSeeAccepted
    CutOffCompletes
SYMMETRY Symmetry
CHECK_DEADLOCK FALSE
