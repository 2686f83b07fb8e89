SPECIFICATION FairSpec
CONSTANTS
    Exporters = {e1, e2}
    Others = {a1}
    Readers = {r1}
    Items <- TasksOnly
    MaxSessions = 2
    Kills = TRUE
    QueryFails = TRUE
INVARIANTS TypeOK OneExporter TornExplained
PROPERTIES AnswersAdvance ExportEnds
