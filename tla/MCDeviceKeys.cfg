SPECIFICATION Spec
CONSTANTS
    k1 = k1
    k2 = k2
    k3 = k3
    k4 = k4
    Phones = {p1, p2}
    Keys = {k1, k2, k3, k4}
    Tasks = {t1, t2, t3}
    MaxDevices = 2
    InitialKeys = {k1}
    Nothing = Nothing
SYMMETRY MCSymmetry
INVARIANTS CapHolds RegisteredIsKnown
CHECK_DEADLOCK FALSE
