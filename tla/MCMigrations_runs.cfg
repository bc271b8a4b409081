SPECIFICATION FairSpec
CONSTANTS
    Applier = {careful, hasty}
    Snapshotting = {careful}
    MaxContents = 4
    MaxSnapshots = 4
    MaxFaults = 3
    MaxLost = 2
INVARIANTS
    IntentTrue
    NeverBothPending
    PlanIsTrue
PROPERTIES
    MigratedStays
    ReviewedAndKept
    Resumes
CHECK_DEADLOCK FALSE
