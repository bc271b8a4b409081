SPECIFICATION Spec
CONSTANTS
    a = a
    b = b
    v1 = v1
    w1 = w1
    w2 = w2
    x = x
    y = y
    z = z
    pol1 = pol1
    pol2 = pol2
    i1 = i1
    i2 = i2
    r1 = r1
    r2 = r2
    None = None
    NoFile = NoFile
    Paths <- TwoPaths
    Contents <- AllContents
    Versions <- EditedAndMoved
    PiecesOf <- ChunkShared
    LinksOf <- LinksToB
    Policies <- OnePolicy
    Commands <- TwoCommands
    Readers <- Nobody
    Retention = 1
    Grace = 0
    MaxBuilds = 3
    MaxClears = 0
    MaxCrashes = 0
    LocksExpire = TRUE
    LeasesExpire = TRUE
    QuietEdits = FALSE
INVARIANTS
    RetainedPresent
    FreshServable
SYMMETRY Interchangeable
CHECK_DEADLOCK FALSE
