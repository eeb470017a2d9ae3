CONSTANTS
    r1 = r1
    r2 = r2
    o1 = o1
    o2 = o2
    tea = tea
    soap = soap
    early = early
    first = first
    last = last
    Requests = {r1, r2}
    Orgs = {o1, o2}
    Default = Default
    Null = Null
    Platform = Platform
    Absent = Absent
    week1 = week1
    week2 = week2
    tail = tail
    wrong = wrong
    broken = broken
    Files = {week1, week2, tail, wrong, broken}
    Readable = {week1, week2, tail, wrong}
    Content <- MCContent
    Ranges <- MCRanges
    Entries <- MCEntries
    Day <- MCDay
    Amount <- MCAmount
    Product <- MCProduct
    Bundles <- MCBundles
    Windows <- MCWindows
    SlowDays = {7, 14, 20}
    TrendWeeks = 2
INVARIANTS TypeOK CountedOnce TrendMatchesReport SlowMoversSlow SameForWorker AnsweredKept
CHECK_DEADLOCK FALSE
SYMMETRY RequestSymmetry
SPECIFICATION Spec
