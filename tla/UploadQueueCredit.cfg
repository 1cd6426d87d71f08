SPECIFICATION Spec
CONSTANTS
    Users = {u1, u2}
    Files = {f1}
    Priorities = {0, 1}
    MaxSlots = 2
    MaxTraffic = 1
INVARIANTS
    GivingPays
