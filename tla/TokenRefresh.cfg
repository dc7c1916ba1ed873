SPECIFICATION BoundedSpec
CONSTANTS
    c1 = c1
    c2 = c2
    x1 = x1
    x2 = x2
    x3 = x3
    auth0 = auth0
    Slot <- CallSlots
    Group = {auth0}
    NoSlot = NoSlot
    Spacing = TRUE
    Call = {c1, c2}
    Conn = {x1, x2, x3}
    GroupOf <- MixedGroups
    Kinds = {"health", "reactive", "resolver"}
    NoCall = NoCall
    NoGroup = NoGroup
    Scenes <- FaultyScenes
SYMMETRY Symmetry
INVARIANTS
    OnePostPerGroup
    LaneReclaimed
    RowTokenLive
    ReuseHasCause
    MapKnowsNext
