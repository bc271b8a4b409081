SPECIFICATION Spec
CONSTANTS
    s1 = s1 s2 = s2 c1 = c1 c2 = c2 f1 = f1 f2 = f2 v1 = v1 v2 = v2 topic = topic
    NoEvent = NoEvent
    Unavailable = Unavailable
    EventId = {1, 2, 3, 4}
    SessionId = {s1}
    Client = {c1}
    Source = {f1, f2}
    Content = {v1}
    Editable = {f2}
    Subject = {topic}
    UserKinds = {"decision"}
    UserTrust = {"observed"}
    UserRetention = {"durable"}
    UserRelations = {"supersedes"}
    EffectiveTimes = {}
    EvidenceInputs <- TwoSources
    Packs = {}
    ClockMayStepBack = FALSE
    MaxTime = 1
    MaxAttempts = 3
    MaxPolicy = 0
SYMMETRY Symmetry
INVARIANTS
    PromotionsActive
CHECK_DEADLOCK FALSE
