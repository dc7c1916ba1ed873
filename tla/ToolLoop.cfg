SPECIFICATION FairLoopSpec
CONSTANTS
    a1 = a1
    a2 = a2
    k1 = k1
    k2 = k2
    d1 = d1
    d2 = d2
    v = v
    cut = cut
    Attempt = {a1, a2}
    Key = {k1, k2}
    Digest = {d1, d2}
    Value = {v}
    Recorded <- Bounded
    NoRow = NoRow
    NoValue = NoValue
    Response <- Answers
    MaxFollowUps = 1
INVARIANTS
    AtMostOnce
    ValuesAgree
PROPERTIES
    LoopEnds
