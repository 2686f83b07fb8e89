SPECIFICATION Spec
CONSTANTS
    Scheduled <- NotNightly
    LinkFails = TRUE
    DisksMove = TRUE
    CopyFails = TRUE
INVARIANT TypeOK
INVARIANT AirGap
