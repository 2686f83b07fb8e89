SPECIFICATION Spec
CONSTANTS
    Machines = {crm, sql}
    Outcomes = {"Success"}
    Exporters = {p1, p2}
    Keep = 1
    MaxDay = 3
    OtherNames = {}
    OtherDates = {}
    MaxForeign = 0
    MaxInbox = 0
    Delays = FALSE
    Partial = TRUE
    Kills = TRUE
SYMMETRY Symmetry
INVARIANTS NamesUnique
PROPERTIES DamageLasts
