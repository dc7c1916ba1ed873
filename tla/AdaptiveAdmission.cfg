SPECIFICATION FairSpec
CONSTANTS
    ta = ta
    tb = tb
    tc = tc
    a1 = a1
    b1 = b1
    b2 = b2
    c1 = c1
    Tenant = {ta, tb, tc}
    MaxSkips = 2
    Request = {a1, b1, b2, c1}
    TenantOf <- Tenants
    CostOf <- Costs
    DefaultTenant = tc
    LaneModes = {TRUE, FALSE}
    MinLimit = 2
    MaxLimit = 4
    InitialLimit = 3
    Caps <- ThreeWaiters
    MaxLanes = 1
    Decrease <- Slow
    Critical <- Fast
    Step = 1
INVARIANTS
    BooksAgree
    NoFittingHead
PROPERTIES
    AdmitsWithinLimit
    ReservedFirst
    ReservedServed
CHECK_DEADLOCK FALSE
