SPECIFICATION FairSpec
CONSTANTS
    old = old fix = fix src = src der = der past = past desk = desk
    Event <- DurableEvents
    Session = {past, desk}
    SessionOf <- DurableSession
    ClassOf <- DurableClass
    LinksOf <- DurableCorrects
    Fact = {}
    History = {old}
    Closed = {past}
    Attempted = {}
    Policies <- TwoPolicies
    Activated = 1
    Readable = {old}
    Holdings = {{old}}
    Supports = {}
    Scopes = {{}, {old}}
    LiveSupports = TRUE
    EmptyPlans = FALSE
    MaxTime = 2
    MaxAuthorizations = 1
    MaxPlans = 1
    MaxCrashes = 1
PROPERTY
    DurableByAuthority
CHECK_DEADLOCK FALSE
