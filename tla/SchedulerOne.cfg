CONSTANTS
    TicksPerMinute = 2
    MinutesPerDay = 3
    DaysPerWeek = 2
    MonthCount = 3
    MonthStart <- MCMonthStart
    DedupeWindow = 5
    s1 = s1
    b1 = b1
    b2 = b2
    Schedules = {s1}
    Businesses = {b1, b2}
    Target <- TwoTargets
    OrgWide = {s1}
    Timings <- Mixed
    MaxEdits = 1
    Horizon = 9
INVARIANTS TypeOK ProjectionAfterLastRun CalmCycleRefreshes
PROPERTIES FiringPromise StoppedNeverFires CycleEnds
CHECK_DEADLOCK FALSE
SPECIFICATION FairSpec
