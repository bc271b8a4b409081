SPECIFICATION FairSpec
CONSTANTS
    old = old fix = fix src = src der = der past = past desk = desk
    Event <- Events
    Session = {past, desk}
    SessionOf <- InSession
    ClassOf <- InClass
    LinksOf <- Corrects
    Fact = {der}
    History = {old, src, der}
    Closed = {past}
    Attempted = {}
    Policies <- TwoPolicies
    Activated = 1
    Readable = {old}
    Holdings = {{old}}
    Supports <- Derived
    Scopes = {{}, {src}}
    LiveSupports = TRUE
    EmptyPlans = FALSE
    MaxTime = 2
    MaxAuthorizations = 1
    MaxPlans = 1
    MaxCrashes = 1
INVARIANTS
    ChainsGoWhole
    CompactedIsGone
PROPERTIES
    ProtectedStays
    FactsStaySupported
    CompactionHappens
CHECK_DEADLOCK FALSE
