\* Failure of the only route at the last retry.
SPECIFICATION Spec
CONSTANTS
    r1 = r1
    r2 = r2
    Rovers <- OneRover
    Times <- OneTime
    Capacity = 4
    MaxTries = 4
    MaxRetries = 2
    MaxRoutes = 4
    NoRoute = NoRoute
INVARIANTS
    FailureIsSurvived
