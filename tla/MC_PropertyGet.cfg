CONSTANTS
    Goroutines = {g1, g2}
    Paths = {p1}
    ScalarTypes <- MCScalarTypes
    SizedTypes <- MCSizedTypes
    MaxSize = 1
    Handles = {h1, h2}
    NoHandle = NoHandle
    Absent = Absent
    NULL = NULL

SPECIFICATION Spec
SYMMETRY MCSymmetry

INVARIANT TypeOK
INVARIANT HeldSnapshotStable
