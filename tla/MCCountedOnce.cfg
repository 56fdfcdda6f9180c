SPECIFICATION MCSpec
CONSTANTS
    NoTime = NoTime
    CheckInLead = 1
    CheckInLag = 2
    TimeOutLead = 1
    TimeOutLag = 3
    s1 = s1
    Students = {s1, s2}
    o1 = o1
    Staff = {o1, o2}
    Events = {e1}
    Admins = {o2}
    Programs = {p1}
    x1 = x1
    Sections = {x1, x2}
    Null = Null
    Classes <- FullClasses
    Targets <- SomeTargets
    Unlisted = Unlisted
    Schedules <- MCSchedules
    ScanReqs = {r1, r2}
    OverrideReqs = {m1}
    Skew = 0
    Grace = 1
    OverrideGrace = 2
    None = None
    MaxTime = 2
    MaxEdits = 2
SYMMETRY MCSymmetry
INVARIANT CountedOnce
CHECK_DEADLOCK FALSE
