CONSTANTS
    Goroutines = {g1, g2}
    Paths = {p1}
    ScalarTypes <- MCLiveScalarTypes
    SizedTypes <- MCSizedTypes
    MaxSize = 0
    Handles = {h1}
    NoHandle = NoHandle
    Absent = Absent
    NULL = NULL

SPECIFICATION Spec

PROPERTY WaitersAnswered
