SPECIFICATION Spec
CHECK_DEADLOCK FALSE
CONSTANTS
    Callers = {c1}
    Keys = {k1}
    Ops = {"start", "stop", "step", "session", "cancel", "resume", "continue", "delete", "jobDelete"}
    MaxGen = 2
    MaxCrash = 1
    MaxFail = 0
    CtrlCap = 1
PROPERTY
    RepairMarksInterrupted
