SPECIFICATION CalendarSpec
CONSTANTS
    None = None
    Handlers = {h1, h2}
    MaxCalls = 2
    MaxFaults = 0
    Meetings = {m1}
    Events = {e1}
    Dates = {1}
    CalendarEdits = {}
CHECK_DEADLOCK FALSE
INVARIANT NeverDoubled
