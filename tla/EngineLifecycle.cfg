CONSTANTS
    Helpers = 1
    Share = 1
    MaxCount = 2
    MaxFrames = 2
    CreateCanFail = TRUE
SPECIFICATION FairSpec
INVARIANTS ListEncoded UnitsWorkInTurn LifetimesRespected
 
CHECK_DEADLOCK FALSE
