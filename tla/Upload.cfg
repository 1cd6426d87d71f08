SPECIFICATION SessionsSpec
CONSTANTS
    s1 = s1  s2 = s2  s3 = s3
    u1 = u1  u2 = u2  u3 = u3
    f1 = f1  f2 = f2
    Sessions = {s1, s2, s3}
    Users = {u1, u2, u3}
    Priorities = {0, 1}
    PriorityOf <- PriorityDef
    MaxSlots = 1
    Files = {f1, f2}
    MaxTraffic = 1
    Clients <- Various
INVARIANT SlotsAccounted
PROPERTIES SlotsReturn HeldIsServed
CHECK_DEADLOCK FALSE
