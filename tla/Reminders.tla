------------------------------ MODULE Reminders ------------------------------
(***************************************************************************)
(* The reminder job (src/app/api/cron/event-reminders): every run reads    *)
(* the events that start soon, then the students, then the reminders of    *)
(* the last hour, and inserts those that are missing in one statement.     *)
(* A transient database error makes it start over once.  Runs overlap      *)
(* with each other, with the events API and with changes of the students.  *)
(***************************************************************************)
EXTENDS Events

CONSTANTS Students,
          InitialStudents,  \* the tables of students to start from
          Runs,             \* runs there may be, each started once
          Lead,             \* a run looks this far ahead: 30 minutes
          Memory,           \* ... and back for reminders: 60 minutes
          RunTime,          \* a run takes at most that long (maxDuration)
          MaxChanges,       \* bound on the changes, of students and by requests
          MaxFailures       \* bound on the transient database errors

ASSUME RemindersAssumption ==
    /\ Lead \in Nat /\ Memory \in Nat /\ RunTime \in Nat /\ MaxChanges \in Nat
    /\ MaxFailures \in Nat
    /\ Lead <= Memory

VARIABLES students,         \* the accounts: class, and whether active and
                            \* wanting notifications
          changes, failures,\* how often one changed, the database failed
          notifications,    \* the table, and when in the order of inserts
          inserts,          \* history: the number of inserts so far
          runs,
          steady            \* history: for each run, the pairs of an event
                            \* and a student that were due all the time

vars == <<time, eventVars, students, changes, failures, notifications, inserts,
          runs, steady>>

Idle == [pc |-> "idle"]

Running == {"events", "students", "existing", "create"}

(* Active, and strictly between now and the end of the window. *)
Upcoming(id, now) ==
    /\ id \in DOMAIN events
    /\ events[id].status = "active"
    /\ now < events[id].scheduledAt /\ events[id].scheduledAt < now + Lead

Reachable(s) == s \in DOMAIN students /\ students[s].reachable

Due(r) ==
    {p \in EventIds \X Students :
        /\ Upcoming(p[1], runs[r].now)
        /\ Reachable(p[2])
        /\ RemindedFor(students[p[2]].class, Target(events[p[1]]))}

(* A try begins by looking at the clock. *)
Begin(r, try) ==
    runs' = [runs EXCEPT ![r] =
                [pc |-> "events", try |-> try, now |-> time, since |-> inserts]]

Fire(r) == runs[r] = Idle /\ Begin(r, 1)

GoOn(r, q) == runs' = [runs EXCEPT ![r] = Over(q, @)]

End(r, how) == runs' = [runs EXCEPT ![r] = [pc |-> how, now |-> @.now]]

(* Step 1: the upcoming events. *)
FindEvents(r) ==
    LET found == {id \in EventIds : Upcoming(id, runs[r].now)}
    IN  /\ runs[r].pc = "events"
        /\ IF found = {}
           THEN End(r, "done")
           ELSE GoOn(r, [pc |-> "students",
                         upcoming |-> [id \in found |->
                             [target |-> Target(events[id]),
                              scheduledAt |-> events[id].scheduledAt]]])

(* Steps 2 to 4: the students, and the audience of each event. *)
FindStudents(r) ==
    LET upcoming == runs[r].upcoming
        audience == {p \in (DOMAIN upcoming) \X {s \in Students : Reachable(s)} :
                        RemindedFor(students[p[2]].class, upcoming[p[1]].target)}
    IN  /\ runs[r].pc = "students"
        /\ GoOn(r, [pc |-> "existing", audience |-> audience])

IsRecent_SinceNow(n, now) == n.at >= now

IsRecent(n, now) == n.at > now - Memory

(* A row that an earlier run, or an earlier try, left for this pair. *)
IsFor_AnyEvent(n, p) == n.student = p[2]

IsFor(n, p) == n.event = p[1] /\ n.student = p[2]

(* Step 5: those who have been reminded already. *)
FindExisting(r) ==
    LET q       == runs[r]
        missing == {p \in q.audience :
                       ~ \E n \in notifications : IsRecent(n, q.now) /\ IsFor(n, p)}
    IN  /\ q.pc = "existing"
        /\ IF missing = {}
           THEN End(r, "done")
           ELSE GoOn(r, [pc |-> "create", missing |-> missing])

(* createMany: one statement, and every row needs its account. *)
Insert(r) ==
    /\ notifications' = notifications \cup
          {[event |-> p[1], student |-> p[2], at |-> time,
            of |-> runs[r].upcoming[p[1]].scheduledAt,
            nr |-> inserts + 1, since |-> runs[r].since] : p \in runs[r].missing}
    /\ inserts' = inserts + 1

AllAccountsThere(r) == \A p \in runs[r].missing : p[2] \in DOMAIN students

Create(r) ==
    /\ runs[r].pc = "create"
    /\ IF AllAccountsThere(r)
       THEN Insert(r) /\ End(r, "done")
       ELSE UNCHANGED <<notifications, inserts>> /\ End(r, "failed")

(* runEventRemindersWithRetry: a transient error of any call.  The         *)
(* statement may have been executed although its answer was lost.          *)
Retry(r) == IF runs[r].try = 1 THEN Begin(r, 2) ELSE End(r, "failed")

Fail(r) ==
    /\ runs[r].pc \in Running
    /\ failures < MaxFailures /\ failures' = failures + 1
    /\ \/ UNCHANGED <<notifications, inserts>>
       \/ runs[r].pc = "create" /\ AllAccountsThere(r) /\ Insert(r)
    /\ Retry(r)

RunStep ==
    /\ \E r \in Runs :
          \/ /\ Fire(r) \/ FindEvents(r) \/ FindStudents(r) \/ FindExisting(r)
             /\ UNCHANGED <<notifications, inserts, failures>>
          \/ Create(r) /\ UNCHANGED failures
          \/ Fail(r)
    /\ UNCHANGED <<time, eventVars, students, changes>>

(* A student moves to another class, is deactivated, mutes notifications,  *)
(* or is deleted with the notifications.                                   *)
ChangeStudent(s) ==
    /\ changes + Cardinality({r \in Requests : requests[r] # Open}) < MaxChanges
    /\ changes' = changes + 1
    /\ s \in DOMAIN students
    /\ \/ /\ \/ \E class \in Class : students' = [students EXCEPT ![s].class = class]
             \/ students' = [students EXCEPT ![s].reachable = ~ @]
          /\ UNCHANGED notifications
       \/ /\ students' = [t \in DOMAIN students \ {s} |-> students[t]]
          /\ notifications' = {n \in notifications : n.student # s}
    /\ UNCHANGED <<time, eventVars, failures, inserts, runs>>

Tick ==
    /\ time < MaxTime /\ time' = time + 1
    /\ \A r \in Runs : runs[r].pc \in Running => time - runs[r].now < RunTime
    /\ UNCHANGED <<eventVars, students, changes, failures, notifications, inserts, runs>>

(* What was due at the beginning of the try and has been ever since, the   *)
(* student and the event's target being what they were: a run that reads   *)
(* one before and the other after both changed sees a pair that never was. *)
Kept(p) ==
    /\ students'[p[2]] = students[p[2]]
    /\ Target(events[p[1]])' = Target(events[p[1]])

Watch ==
    steady' = [r \in Runs |->
                  IF runs'[r].pc \notin Running THEN steady[r]
                  ELSE IF runs[r].pc \in Running /\ runs[r].try = runs'[r].try
                       THEN {p \in steady[r] \cap Due(r)' : Kept(p)}
                       ELSE Due(r)']

Next ==
    /\ \/ RunStep
       \/ /\ EventStep
          /\ changes + Cardinality({r \in Requests : requests'[r] # Open}) <= MaxChanges
          /\ UNCHANGED <<time, students, changes, failures, notifications, inserts, runs>>
       \/ \E s \in Students : ChangeStudent(s)
       \/ Tick
    /\ Watch

Init ==
    /\ EventsInit
    /\ students \in InitialStudents
    /\ changes = 0 /\ failures = 0
    /\ notifications = {} /\ inserts = 0
    /\ runs = [r \in Runs |-> Idle]
    /\ steady = [r \in Runs |-> {}]

Spec == Init /\ [][Next]_vars

-----------------------------------------------------------------------------
(* Properties. *)

(* A run that reports success leaves nobody out: whoever was to be         *)
(* reminded of an event from its beginning to its end has a recent         *)
(* reminder of that event, its own, another run's, or that of a first try  *)
(* whose answer was lost.                                                  *)
EveryoneIsReminded ==
    \A r \in Runs : runs[r].pc = "done" =>
        \A p \in steady[r] : p[2] \in DOMAIN students =>
            \E n \in notifications :
                n.event = p[1] /\ n.student = p[2] /\ n.at > runs[r].now - Memory

(* Nobody is reminded twice of the same start of the same event, by one    *)
(* run, by its second try or by two runs, unless the runs overlapped: the  *)
(* later reminder's run began before the earlier one was written.          *)
RemindedOnce ==
    \A n, m \in notifications :
        n.event = m.event /\ n.student = m.student /\ n.of = m.of /\ n # m
            => n.nr > m.since
=============================================================================
