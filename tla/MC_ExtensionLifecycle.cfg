CONSTANTS
    Extensions = {e1, e2}
    StartBehaviours = {"sync", "async", "throw_after"}
    StopBehaviours = {"sync", "async", "throw_after"}
    CmdBehaviours = {"sync", "async", "throw_before"}
    StopSendResults = {TRUE}
    MaxMsgs = 1

SPECIFICATION Spec
\* A closed graph has nothing left to do.
CHECK_DEADLOCK FALSE

INVARIANT TypeOK
PROPERTY StopCompletes CmdsSettled
