SPECIFICATION Spec
CONSTANTS
    Exporters = {e1}
    Others = {}
    Readers = {r1}
    Items <- BothItems
    MaxSessions = 1
    Kills = FALSE
    QueryFails = FALSE
INVARIANTS ImportWaitsForCopy
