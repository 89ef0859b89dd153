\* Two rovers, requests of two ages and heaps of two: the heap fills up, with and
\* without a route of the same rover in it.  The try limit ends a batch of two
\* routes after the first, and both retries of a route are used.
SPECIFICATION Spec
CONSTANTS
    r1 = r1
    r2 = r2
    Rovers <- TwoRovers
    Times <- TwoTimes
    Capacity = 2
    MaxTries = 2
    MaxRetries = 2
    MaxRoutes = 3
    NoRoute = NoRoute
INVARIANTS
    TypeOK
    WorkBounded
    SmallPlainBatchAnswered
    CompletedHasRoom
