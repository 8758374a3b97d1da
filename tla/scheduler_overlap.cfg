\* A run may outlast the next tick.
SPECIFICATION Spec
CONSTANTS
    Schedule = {a}
    Slot = {r1, r2}
    home = home
    away = away
    None = None
    Plan <- MCPlan
    Zone <- MCZone
    Local <- MCLocal
    DayLength = 2
    WeekLength = 2
    MaxClock = 9
    MaxEdits = 0
    MaxFaults = 0
    Prompt = FALSE
INVARIANTS FiresOncePerMinute
CHECK_DEADLOCK FALSE
