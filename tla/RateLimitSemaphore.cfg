SPECIFICATION FairSpec
CONSTANTS
    r1 = r1
    r2 = r2
    r3 = r3
    r4 = r4
    Req = {r1, r2, r3, r4}
    MaxChoices = {1, 2}
    QueueSizes <- QueueChoices
    Cooldowns = {1, 2}
    Slack = 0
    MaxTime = 3
    MaxGates = 2
INVARIANTS
    BooksMatch
    WaiterAwaited
PROPERTIES
    AdmitsWhenFree
    WaiterServed
