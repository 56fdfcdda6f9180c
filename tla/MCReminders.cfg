SPECIFICATION Spec
CONSTANTS
    NoTime = NoTime
    CheckInLead = 1
    CheckInLag = 2
    TimeOutLead = 2
    TimeOutLag = 3
    admin = admin
    organizer = organizer
    p1 = p1
    x1 = x1
    Null = Null
    Programs = {p1}
    Sections = {x1}
    Staff = {admin, organizer}
    Admins = {admin}
    ProgramOf <- MCProgramOf
    Requests = {q1, q2}
    MaxEvents = 2
    Bodies <- MCBodies
    InitialEvents <- MCTables
    MaxTime = 2
    InitialStudents <- MCStudents
    Students = {s1}
    Runs = {r1, r2}
    Lead = 3
    Memory = 3
    RunTime = 1
    MaxChanges = 2
    MaxFailures = 1
SYMMETRY MCSymmetry
INVARIANTS EveryoneIsReminded RemindedOnce DepartmentalIsForAll GivenTimeOutOpens
CHECK_DEADLOCK FALSE
