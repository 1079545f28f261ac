CONSTANTS
    Wrappers = {w1, w2}
    GoRefs = {r1}
    ScalarTypes = {"int8", "int64"}
    NoRef = NoRef

SPECIFICATION Spec
\* A process that aborted has stopped.
CHECK_DEADLOCK FALSE

INVARIANT PinsMatchLivePtrs
