SPECIFICATION FairSpec
CONSTANTS
    Scheduled <- Pair
    LinkFails = FALSE
    DisksMove = TRUE
    CopyFails = TRUE
INVARIANT ExclusiveWork
PROPERTY ReadyUnlessSpoiled
PROPERTY EndOkMeansMirrored
PROPERTY MutualWaitLasts
PROPERTY WaitEnds
PROPERTY AirGapRestored
