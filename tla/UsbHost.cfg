CONSTANTS
    MaxPlugs = 4
    OpenCanFail = TRUE
SPECIFICATION FairSpec
INVARIANTS TypeOK CaptureUsable SyncIsComing
 
CHECK_DEADLOCK FALSE
