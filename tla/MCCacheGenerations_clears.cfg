SPECIFICATION Spec
CONSTANTS
    a = a
    b = b
    v1 = v1
    w1 = w1
    w2 = w2
    x = x
    y = y
    z = z
    pol1 = pol1
    pol2 = pol2
    i1 = i1
    i2 = i2
    r1 = r1
    r2 = r2
    None = None
    NoFile = NoFile
    Paths <- TwoPaths
    Contents <- AllContents
    Versions <- EditedAndMoved
    PiecesOf <- ChunkShared
    LinksOf <- LinksToB
    Policies <- TwoPolicies
    Commands <- TwoCommands
    Readers <- OneReader
    Retention = 1
    Grace = 0
    MaxBuilds = 2
    MaxClears = 1
    MaxCrashes = 1
    LocksExpire = TRUE
    LeasesExpire = TRUE
    QuietEdits = TRUE
INVARIANTS
    TypeOK
    ActivePresent
    LeasedPresent
    Owned
    RefusalsHaveCause
SYMMETRY Interchangeable
CHECK_DEADLOCK FALSE
