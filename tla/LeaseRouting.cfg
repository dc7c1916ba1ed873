SPECIFICATION BoundedSpec
CONSTANTS
    o1 = o1
    o2 = o2
    k1 = k1
    k2 = k2
    c1 = c1
    c2 = c2
    q1 = q1
    q2 = q2
    Owner = {o1, o2}
    ApiKey = {k1, k2}
    Conn = {c1, c2}
    Ttl = {1}
    MaxLag = 1
    Request = {q1, q2}
    KeyOf <- OneKey
    Unmanaged = Unmanaged
    MaxTime = 1
    MaxRows = 3
SYMMETRY Symmetry
INVARIANTS
    UniqueActive
    StaleGenerationDead
    DispatchedTogether
PROPERTIES
    ImplementsLock
    DispatchInTenure
