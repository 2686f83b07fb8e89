SPECIFICATION Spec
CONSTANTS
    Scheduled <- Pair
    LinkFails = FALSE
    DisksMove = FALSE
    CopyFails = FALSE
INVARIANT NoMutualWait
