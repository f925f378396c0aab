SPECIFICATION FairSpec
CONSTANTS
    Second = 2
    Minute = 2
    Hour = 4
    Weekday = 2
    Months = 2
    DaysBefore <- TwoMonths
    Years = 2
    After <- TwoDays
    Crons <- AllCrons
    Shift = 28
    Standard <- West
    Saving = 0
PROPERTY NextReturns
CHECK_DEADLOCK FALSE
