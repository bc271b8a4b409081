SPECIFICATION FairSpec
CONSTANTS
    i1 = i1
    r1 = r1
    r2 = r2
    w1 = w1
    w2 = w2
    Old = Old
    NoIntent = NoIntent
    Torn = Torn
    Free = Free
    Import <- OneImport
    Recovery <- TwoRecoveries
    Writer <- TwoWriters
    Forced <- OneImport
    MaxCrashes = 3
INVARIANTS
    KeptOnDisk
PROPERTIES
    ImplementsAtomicImport
    WrittenIntentResolved
CHECK_DEADLOCK FALSE
