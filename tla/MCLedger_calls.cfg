SPECIFICATION Spec
CONSTANTS
    s1 = s1 s2 = s2 c1 = c1 c2 = c2 f1 = f1 f2 = f2 v1 = v1 v2 = v2 topic = topic
    NoEvent = NoEvent
    Unavailable = Unavailable
    EventId = {1, 2, 3}
    SessionId = {s1}
    Client = {c1, c2}
    Source = {f1}
    Content = {v1}
    Editable = {f1}
    Subject = {topic}
    UserKinds = {"decision"}
    UserTrust = {"observed"}
    UserRetention = {"durable"}
    UserRelations = {}
    EffectiveTimes = {}
    EvidenceInputs <- OnlyCited
    Packs = {}
    ClockMayStepBack = TRUE
    MaxTime = 1
    MaxAttempts = 2
    MaxPolicy = 0
SYMMETRY Symmetry
INVARIANTS
    HistoryConsistent
    VerificationFollowsAttempts
    PromotionsBacked
CHECK_DEADLOCK FALSE
