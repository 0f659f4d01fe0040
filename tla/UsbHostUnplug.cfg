CONSTANTS
    MaxPlugs = 2
    OpenCanFail = FALSE
SPECIFICATION Spec
INVARIANTS SyncAliveAfterUnplug
CHECK_DEADLOCK FALSE
