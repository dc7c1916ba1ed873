SPECIFICATION MixedSpec
CONSTANTS
    r1 = r1
    r2 = r2
    r3 = r3
    global = global
    acct1 = acct1
    acct2 = acct2
    Req = {r1, r2, r3}
    Key = {global, acct1, acct2}
    KeySets <- TwoKeySets
    CapChoices <- ChangingCaps
    CalmKeySets <- HierarchyAndRoot
    CalmCaps <- TwoGlobal
    Policies <- AnyPolicy
    Blockable = {acct1}
INVARIANTS
    SlotsAccounted
    NoLeakedSlot
    QueuesAgree
    CalmNoAdmissibleWaiter
    CalmIdleGatesReclaimed
PROPERTIES
    AdmitsWithRoom
    NoOvertaking
    WaiterServed
    LapseRepaired
