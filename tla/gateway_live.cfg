SPECIFICATION FairSpec
CONSTANTS
    MaxFaults = 2
    MaxSeq = 2
    Bot = TRUE
    Granted = FALSE
    MayHold = TRUE
    MaySilenceEarly = FALSE
PROPERTIES
    SilenceEnds
    EventuallyCaughtUp
