SPECIFICATION Spec
CONSTANTS
    Machines = {crm, sql}
    Outcomes = {"Success"}
    Exporters = {p1}
    Keep = 1
    MaxDay = 3
    OtherNames = {crm, sql}
    OtherDates = {1}
    MaxForeign = 1
    MaxInbox = 2
    Delays = TRUE
    Partial = FALSE
    Kills = FALSE
SYMMETRY Symmetry
INVARIANTS OnlyReporters
PROPERTIES NotForgotten DatesAdvance ListedIfClonable
