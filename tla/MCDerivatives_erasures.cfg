SPECIFICATION Spec
CONSTANTS
    e1 = e1
    e2 = e2
    i1 = i1
    i2 = i2
    graph = graph
    memory = memory
    None = None
    NumObjects = 2
    Events <- TwoEvents
    Versions = {1, 2}
    Stores <- TwoStores
    Graph = graph
    Callers <- TwoCallers
    Wanted <- OneEvent
    Adapters <- FiveAdapters
    FirstRounds <- FirstOfEvent
    MaxPuts = 1
    MaxFailures = 2
INVARIANTS
    GenerationsAgree
    ReceiptsTrue
PROPERTIES
    ReturnedIsGone
    ErasedAtLast
CHECK_DEADLOCK FALSE
