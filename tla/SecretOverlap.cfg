SPECIFICATION SecretSpec
CONSTANTS
    p1 = p1
    p2 = p2
    r1 = r1
    r2 = r2
    r3 = r3
    s1 = s1
    s2 = s2
    Procs = {p1, p2}
    Requests = {r1, r2, r3}
    Secrets = {s1, s2}
    Env = s1
    Keys = {k1, k2}
    MaxFails = 1
    MaxInFlight = 2
    MaxRestarts = 1
INVARIANTS SecretAuthentic SetAnswered OverrideBacked
SYMMETRY MCSymmetry
CHECK_DEADLOCK FALSE
