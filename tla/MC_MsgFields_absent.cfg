CONSTANTS
    Cmds = {c1, c2}
    Frames = {f1, f2}
    CmdIds = {id1, id2}
    Stamps = {0, 7}
    MissingInteger = 0

SPECIFICATION Spec



PROPERTY AbsentTimestampKept
