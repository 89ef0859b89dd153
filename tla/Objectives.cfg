\* Two levels, a leaf of two so that the index of the first level has splits, and
\* room for one origin per blacklist.
SPECIFICATION Spec
CONSTANTS
    depot = depot
    rim = rim
    NumObjectives = 4
    NumLevels = 2
    Priority <- FourObjectives
    Origins <- TwoOrigins
    Distance <- FourDistances
    PriorityWeight = 1
    DistanceWeight = 2
    MaxBlacklisted = 1
    LeafSize = 2
    None = None
INVARIANTS
    TypeOK
    InOneTree
    MissesByReturnsOnly
    ServedIsGone
    LostHasFailedBefore
