CONSTANTS
    Extensions = {e1, e2}
    StartBehaviours = {"sync", "throw_before"}
    StopBehaviours = {"sync", "throw_before"}
    CmdBehaviours = {"sync"}
    StopSendResults = {TRUE}
    MaxMsgs = 1

SPECIFICATION Spec
\* A closed graph has nothing left to do.
CHECK_DEADLOCK FALSE

PROPERTY StopCompletes
