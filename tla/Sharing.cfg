SPECIFICATION SharingSpec
CONSTANTS
    NoFile = NoFile  NoRow = NoRow  NoPath = NoPath
    Incoming = d1
    Dirs = {d1, d2}
    Names = {n1, n2}
    Contents = {c1, c2}
    Users = {u1, u2, u3}
    Files = {f1}
    Priorities = {0, 1}
    MaxSlots = 2
    MaxTraffic = 1
SYMMETRY Symmetry
INVARIANT IndexedIsShared
PROPERTY NoOvertaking
