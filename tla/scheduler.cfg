\* Prompt runs, crashes, edits, a clock change and a timezone change.
SPECIFICATION Spec
CONSTANTS
    Schedule = {a, b}
    Slot = {r1}
    home = home
    away = away
    None = None
    Plan <- MCPlan
    Zone <- MCZone
    Local <- MCLocal
    DayLength = 2
    WeekLength = 2
    MaxClock = 9
    MaxEdits = 1
    MaxFaults = 1
    Prompt = TRUE
SYMMETRY ScheduleSymmetry
INVARIANTS TypeOK FiresAgainIfUnmarked FiresWhatIsThere
PROPERTIES PlannedMinuteFires
CHECK_DEADLOCK FALSE
