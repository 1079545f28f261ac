CONSTANTS
    Goroutines = {g1, g2}
    Paths = {p1}
    ScalarTypes <- MCRefScalarTypes
    SizedTypes <- MCRefSizedTypes
    MaxSize = 0
    Handles = {h1}
    NoHandle = NoHandle
    Absent = Absent
    NULL = NULL

SPECIFICATION Spec

PROPERTY RegSpec
