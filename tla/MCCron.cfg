SPECIFICATION Spec
CONSTANTS
    Second = 2
    Minute = 2
    Hour = 4
    Weekday = 2
    Months = 2
    DaysBefore <- TwoMonths
    Years = 2
    After <- TwoDays
    Crons <- AllCrons
    Shift = 24
    Standard = 2
    Saving = 4
INVARIANT NextIsFirst
CHECK_DEADLOCK FALSE
