\* Three shifts of three slots cross the grid, and a round may work for two
\* periods of the timer, one more than MaxMissed.  The synchronization is given
\* the period of the shift; it touches nothing these properties are about.
SPECIFICATION Spec
CONSTANTS
    Interval = 2
    SchedulePeriod = 4
    SyncPeriod = 6
    SlotSize = 2
    ShiftSlots = 3
    MaxSlots = 9
    Rows = 2
    IntSize = 4
    MaxMissed = 1
    MaxWork = 4
    MaxStart = 1
    MaxDelay = 1
    None = None
INVARIANTS
    TypeOK
    LagBounded
    LeadBounded
    FirstRowKept
    StartInGrid
PROPERTIES
    OnlyPastIsForgotten
    OverrunHaltsNothing
CHECK_DEADLOCK FALSE
