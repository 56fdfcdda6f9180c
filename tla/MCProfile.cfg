SPECIFICATION MCSpec
CONSTANTS
    COOLDOWN_MS = 6
    MaxDuration = 1
    MaxClock = 7
    Never = Never
    n1 = n1
    n2 = n2
    p1 = p1
    a = a
    Names <- MCNames
    Programs <- MCPrograms
    Years = {1, 2}
    Letters <- MCLetters
    Patches = {r1, r2}
    Profiles <- MCProfiles
    Bodies <- MCBodies
    AdminBodies <- MCAdminBodies
    MaxEdits = 1
    Null = Null
    Blank = Blank
    Omitted = Omitted
    Passwords = {w1, w2}
    Posts = {r1, r2}
SYMMETRY Symmetry
INVARIANTS CourseOnce PlaceConsistent ChangesInBursts
PROPERTIES UpdatesSpaced
CHECK_DEADLOCK FALSE
