CONSTANTS
    TicksPerMinute = 2
    MinutesPerDay = 3
    DaysPerWeek = 7
    MonthCount = 6
    MonthStart <- MCMonthStart
    LookedAt <- MCTimings
    LastLook = 570
CHECK_DEADLOCK FALSE
SPECIFICATION LookSpec
INVARIANTS NextRunIsFirstDue
