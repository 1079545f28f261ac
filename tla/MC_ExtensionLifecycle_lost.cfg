CONSTANTS
    Extensions = {e1, e2}
    StartBehaviours = {"sync"}
    StopBehaviours = {"sync"}
    CmdBehaviours = {"sync", "throw_before"}
    \* ten_env_send_cmd of the stop_graph may fail.
    StopSendResults = {TRUE, FALSE}
    MaxMsgs = 1

SPECIFICATION Spec
\* A closed graph has nothing left to do.
CHECK_DEADLOCK FALSE

PROPERTY CmdsSettled
