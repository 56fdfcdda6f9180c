SPECIFICATION Spec
CONSTANTS
    h1 = h1
    h2 = h2
    s1 = s1
    s2 = s2
    c1 = c1
    c2 = c2
    c3 = c3
    k1 = k1
    k2 = k2
    r1 = r1
    r2 = r2
    r3 = r3
    Requests = {r1, r2, r3}
    Challenges = {h1, h2}
    Secrets = {s1, s2}
    Passkeys = {k1, k2}
    None = None
    MaxFailed = 2
    LockFor = 1
    MaxAttempts = 2
    ChallengeFor = 1
    MaxTime = 2
    MaxCounter = 2
    CodeSets <- MCCodeSets
    InitialStates <- MCInitialStates
SYMMETRY MCSymmetry
INVARIANTS FailuresLock ChallengeOnce BackupOnce EnabledWasProved
PROPERTIES CounterNeverBack ShownCodesAreKept
CHECK_DEADLOCK FALSE
