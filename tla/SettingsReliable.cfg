SPECIFICATION Spec
CONSTANTS
    zone = zone
    model = model
    preset = preset
    custom = custom
    p1 = p1
    p2 = p2
    r1 = r1
    r2 = r2
    r3 = r3
    Procs = {p1, p2}
    Requests = {r1, r2, r3}
    Fields = {zone, model}
    Values = {preset, custom}
    Default <- MCDefault
    MaxFails = 1
    MaxPuts = 1
    MaxGets = 1
    MaxRestarts = 1
INVARIANT AnswerShowsUpdate
PROPERTY RegisterPromise
SYMMETRY MCSymmetry
CHECK_DEADLOCK FALSE
