\* Two rovers, and one restart of a shim or one call by hand.
SPECIFICATION FairSpec
CONSTANTS
    r1 = r1
    r2 = r2
    Rovers <- TwoRovers
    QueueCapacity = 4
    ManualFlags <- SomeFlags
    MaxExtra = 1
CHECK_DEADLOCK FALSE
INVARIANTS
    EveryRequestAccountedFor
    RoomForEveryRoute
PROPERTIES
    SomebodyDrives
