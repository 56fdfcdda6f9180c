SPECIFICATION Spec
CONSTANTS
    id1 = id1
    id2 = id2
    id3 = id3
    ua = ua
    ub = ub
    uc = uc
    e1 = e1
    e2 = e2
    Ids = {id1, id2, id3}
    Uids = {ua, ub, uc}
    Emails = {e1, e2}
    Requests = {r1, r2, r3}
    None = None
    Gone = Gone
    InitialTables <- MCTables
SYMMETRY MCSymmetry
INVARIANTS NoUserWithoutRow NoRowWithoutUser
PROPERTIES GuardedRoutesKeepAnAdmin ActivationIsEarned
CHECK_DEADLOCK FALSE
