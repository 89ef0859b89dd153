\* Two searches one after the other, in a pool of twelve nodes.
SPECIFICATION Spec
CONSTANTS
    Poses <- Map
    Bin <- MapBin
    Columns = 4
    Rows = 3
    Height <- MapHeight
    Rough <- Stones
    Ring <- Points
    TallHeight = 3
    HavenGrade = 1
    CautiousGrade = 2
    MaxGrade = 4
    Steerings <- Turns
    Straight = 0
    Potential <- Primitives
    Motion <- MapMotion
    Tips <- Tipping
    Energy <- MapEnergy
    Estimate <- MapEstimate
    Near <- Margin
    Curve <- MapCurve
    Starts <- From
    Objectives <- Goals
    MaxNodes = 12
    MaxOpen = 6
    MaxSearches = 2
    NoPose = NoPose
CHECK_DEADLOCK FALSE
INVARIANTS
    TypeOK
    TreeIntact
    PathSound
    StepHavensAreFlat
    GivesUpExplored
PROPERTIES
    SearchEnds
