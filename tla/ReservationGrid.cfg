\* Three sectors and three plans, with the time for every slot to be shifted out.
SPECIFICATION GridSpec
CONSTANTS
    Rows = 3
    ArrayRows = 7
    MaxSlots = 8
    ShiftSlots = 2
    IntSize = 4
    Smeared <- FarBelow
    Plans <- ThreePlans
    Starts <- SomeStarts
    MaxDeconfRetries = 2
    MaxPublished = 3
    MaxShifts = 4
    NoPlan = NoPlan
CHECK_DEADLOCK FALSE
INVARIANTS
    WalkedIsFree
