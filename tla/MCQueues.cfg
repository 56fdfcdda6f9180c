SPECIFICATION MCSpec
CONSTANTS
    Items = {i1, i2}
    Drains = {d1, d2}
    Spare = {d2}
    MaxAttempts = 2
    MaxViews = 2
    MaxDrops = 1
    MaxRetries = 1
    Nothing = Nothing
INVARIANTS NoneStranded RecordedIsNotFailed
PROPERTIES SettledStays EverySettles
