SPECIFICATION Spec
CONSTANTS
    Machines = {crm, sql}
    Outcomes = {"Success", "Failed"}
    Exporters = {p1}
    Keep = 1
    MaxDay = 2
    OtherNames = {}
    OtherDates = {}
    MaxForeign = 1
    MaxInbox = 2
    Delays = FALSE
    Partial = FALSE
    Kills = FALSE
INVARIANTS FailureRaisesAlarm
