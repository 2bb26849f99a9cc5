SPECIFICATION Spec
CONSTANTS
    MaxFaults = 3
    MaxSeq = 3
    Bot = TRUE
    Granted = FALSE
    MayHold = FALSE
    MaySilenceEarly = TRUE
INVARIANTS
    TypeOK
    NeverAbandons
    MediaFollowsSession
PROPERTIES
    StoreFollowsStream
    CallSurvivesSocket
CHECK_DEADLOCK FALSE
