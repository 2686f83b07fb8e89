SPECIFICATION Spec
CONSTANTS
    Scheduled <- Pair
    LinkFails = FALSE
    DisksMove = TRUE
    CopyFails = FALSE
PROPERTY ReadyMeansCopied
