\* Two goals overlap and leave two holds to a third; a turn of a hold and the
\* lateness of its thread fit into publish_stop, as 50 ms and some do into 80 ms.
SPECIFICATION Spec
CONSTANTS
    Goals = {g1, g2, g3}
    MaxSegments = 1
    MaxDelay = 1
    Period = 1
    Coast = 4
    Jitter = 1
    g1 = g1
    g2 = g2
    g3 = g3
SYMMETRY Symmetry
INVARIANTS
    OneHolder
PROPERTIES
    OneStrayCorrection
