\* Paths of up to five nodes through two sectors, left and entered again.
SPECIFICATION RouteSpec
CONSTANTS
    s1 = s1
    s2 = s2
    Sectors <- TwoSectors
    MaxNodes = 5
    Waits <- SomeWaits
CHECK_DEADLOCK FALSE
INVARIANTS
    SectorsFollowPath
    HooksAreHavens
    DrivenAsPlanned
