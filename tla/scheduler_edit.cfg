\* Edits against prompt runs, without faults.
SPECIFICATION Spec
CONSTANTS
    Schedule = {a}
    Slot = {r1}
    home = home
    away = away
    None = None
    Plan <- MCPlan
    Zone <- MCZone
    Local <- MCLocal
    DayLength = 2
    WeekLength = 2
    MaxClock = 9
    MaxEdits = 2
    MaxFaults = 0
    Prompt = TRUE
PROPERTIES EditedScheduleFires
CHECK_DEADLOCK FALSE
