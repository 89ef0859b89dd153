\* Two whole records, of which one is loaded, or three that were cut short.
SPECIFICATION Spec
CONSTANTS
    Routes = {r1, r2}
    MaxPaths = 1
    MaxHalves = 4
    NoPackage = NoPackage
    r1 = r1
    r2 = r2
INVARIANTS
    TypeOK
    PlansAfresh
    StuckOnlyWhenEarly
    NodesAreThere
PROPERTIES
    SignalEndsProcess
