SPECIFICATION FairSpec
CONSTANTS
    c1 = c1
    c2 = c2
    rate_limit = rate_limit
    Call = {c1, c2}
    Path <- AllPaths
    FailureThreshold = 3
    Degradation = 2
    ResetTimeout = 2
    HalfOpenRequests = 1
    Escalation = 1
    MaxMultiplier = 2
    Kind = {rate_limit}
    CooldownByKind <- Hints
    NoKind = NoKind
    MaxCycles = 2
    MaxAge = 4
INVARIANTS
    ProbesBounded
    RowMatches
PROPERTIES
    NoCallInCooldown
    LetsInAgain
