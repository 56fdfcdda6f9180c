SPECIFICATION MCSpec
CONSTANTS
    SubFramesPerBlock = 5
    MinSubFrames = 3
    Tolerance = 1
    e1 = e1
    e2 = e2
    MaxFrames = 4
    Events = {e1, e2}
    Offsets <- MCOffsets
    MaxLag = 1
    MaxSigning = 2
    CaptureStale = 3
    MaxTime = 10
    MaxCerts = 1
    NoFrame = NoFrame
    i1 = i1
    i2 = i2
    Items = {i1, i2}
    Drains = {d1}
    MaxAttempts = 1
    MaxViews = 2
    MaxDrops = 0
    Nothing = Nothing
    EventOf <- MCEventOf
    Student = Student
INVARIANTS ScansAreAccepted AcceptsAsSorted SentIsPresent MarkedIsKnown
CHECK_DEADLOCK FALSE
