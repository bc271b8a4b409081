SPECIFICATION Spec
CONSTANTS
    a = a
    b = b
    v1 = v1
    v2 = v2
    w1 = w1
    i1 = i1
    i2 = i2
    None = None
    NoFile = NoFile
    Paths <- TwoPaths
    Contents <- AllContents
    Versions <- OneEdited
    Commands <- TwoCommands
    MaxCommands = 3
    MaxCrashes = 1
INVARIANTS
    ActiveWhole
    Repairs
    NothingOrphaned
PROPERTIES
    OnlyNewestActivates
SYMMETRY Interchangeable
CHECK_DEADLOCK FALSE
