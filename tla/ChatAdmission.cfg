SPECIFICATION Spec
CONSTANTS
    s1 = s1
    s2 = s2
    r1 = r1
    r2 = r2
    r3 = r3
    r4 = r4
    Session = {s1, s2}
    Request = {r1, r2, r3, r4}
    SessionOf <- Sessions
    SizeOf <- Sizes
    MaxHeavy = 2
    Headroom = 1
    MaxBytes = 2
    MaxQueued = 2
INVARIANTS
    BooksMatch
    NothingLeaks
    NoIdleSlot
    NoIdleBudget
CHECK_DEADLOCK FALSE
