SPECIFICATION Spec
CONSTANTS
    s1 = s1 s2 = s2 c1 = c1 c2 = c2 f1 = f1 f2 = f2 v1 = v1 v2 = v2 topic = topic
    NoEvent = NoEvent
    Unavailable = Unavailable
    EventId = {1, 2, 3, 4, 5}
    SessionId = {s1}
    Client = {c1}
    Source = {f1, f2}
    Content = {v1}
    Editable = {f2}
    Subject = {topic}
    UserKinds = {"decision"}
    UserTrust = {"untrusted"}
    UserRetention = {"session", "durable"}
    UserRelations = {"supersedes"}
    EffectiveTimes = {}
    EvidenceInputs <- OnlyClaimed
    Packs <- ImportedPacks
    ClockMayStepBack = FALSE
    MaxTime = 2
    MaxAttempts = 2
    MaxPolicy = 1
INVARIANTS
    RelationsSound
    PackRestorable
PROPERTIES
    AsOfStable
    PromotedIsRecalled
CHECK_DEADLOCK FALSE
