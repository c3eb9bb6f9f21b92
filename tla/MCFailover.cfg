SPECIFICATION MCSpec
CONSTANTS
    Tokens = {1, 2}
    Sessions = {s1}
    Requests = {r1, r2}
    SessionOf <- MCSessionOf
    WebSocket <- MCWebSocket
    QuotaStates <- MCQuotaStates
    FreshQuota <- MCFreshQuota
    NoToken = NoToken
    NoSession = NoSession
    MaxElsewhere = 1
    r1 = r1
    r2 = r2
    s1 = s1
INVARIANTS
    TypeOK
    FailoverReachesHealthyToken
    StickyHonoured
PROPERTIES
    AffinityLostForCause
    KeepsContract
CHECK_DEADLOCK FALSE
