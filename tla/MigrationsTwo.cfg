SPECIFICATION FairSpec
CONSTANTS
    Instances = {i1, i2}
    Users = {u1}
    Last = 4
    SelfCommitting = {2}
    Split = 3
    Tables = {"businesses", "payloads", "users"}
    Locks <- MCLocks
    UsersTable = "users"
    MaxFaults = 2
    MaxStarts = 3
INVARIANTS AppliedInOrder ExactlyOnce SomebodyCompletes
PROPERTIES AdminsKept StartsServe
CHECK_DEADLOCK FALSE
