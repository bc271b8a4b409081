SPECIFICATION FairSpec
CONSTANTS
    p1 = p1
    r1 = r1
    Projector = {p1}
    Reader = {r1}
    MaxLen = 2
    Limit = 2
    MaxEvent = 3
    MaxEpoch = 2
    MaxResets = 1
    MaxFailures = 1
INVARIANTS
    SentWasAttempted
    HotReadable
    StreamIsNewest
PROPERTIES
    Delivered
CHECK_DEADLOCK FALSE
