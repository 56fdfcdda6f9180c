------------------------------- MODULE Events --------------------------------
(***************************************************************************)
(* The events API (src/app/api/events): an organizer or an administrator   *)
(* creates, patches, cancels or deletes an event.  A patch or a deletion   *)
(* reads the row, checks, and writes in a second database call; in between *)
(* another request may have written.  Requests that are refused change     *)
(* nothing and take no step.                                               *)
(***************************************************************************)
EXTENDS EventTime, Targeting, FiniteSets

CONSTANTS Staff, Admins,    \* organizers and administrators
          ProgramOf,        \* the program of each, or Null
          Requests,         \* requests there may be, each sent once
          MaxEvents,        \* bound on the events created
          Bodies,           \* request bodies: records of some of the fields
          InitialEvents,    \* the tables of events to start from
          MaxTime           \* bound on the clock

(* The columns of an event, and those of them that hold optional instants. *)
Times == {"endsAt", "checkInOpensAt", "checkInClosesAt", "timeOutOpensAt", "timeOutClosesAt"}

Columns ==
    Times \cup {"status", "owner", "scope", "targetProgram", "targetSection",
               "scheduledAt", "enableTimeOut"}

(* What zod has seen of a body, and Prisma of a row: instants are instants. *)
HasInstants(d) ==
    /\ "scheduledAt" \in DOMAIN d => d["scheduledAt"] \in Int
    /\ \A field \in Times \cap DOMAIN d : d[field] \in OptionalTime

Target(ev) == [program |-> ev.targetProgram, section |-> ev.targetSection]

IsForAll(ev) == ev.scope = "departmental" => Target(ev) = OpenToAll

ASSUME EventsAssumption ==
    /\ Admins \subseteq Staff
    /\ ProgramOf \in [Staff -> Programs \cup {Null}]
    /\ MaxEvents \in Nat /\ MaxTime \in Nat
    /\ \A body \in Bodies : HasInstants(body)
    /\ \A table \in InitialEvents : \A id \in DOMAIN table :
          /\ Columns \subseteq DOMAIN table[id]
          /\ HasInstants(table[id])
          /\ IsForAll(table[id])

VARIABLES time,
          events,           \* the table, by id
          created,          \* the ids given so far: 1 .. created
          requests          \* what each request has read and is about to do

eventVars == <<events, created, requests>>

EventIds == 1 .. MaxEvents

Open == [pc |-> "open"]

Done == [pc |-> "done"]

(* The fields of d, and those of e that d leaves out. *)
Over(d, e) ==
    [field \in DOMAIN d \cup DOMAIN e |-> IF field \in DOMAIN d THEN d[field] ELSE e[field]]

(* A field the body carries and that is not null. *)
Set(d, field) == field \in DOMAIN d /\ d[field] # NoTime

Before(d, first, second) ==
    Set(d, first) /\ Set(d, second) => d[first] < d[second]

NotAfter(d, first, second) ==
    Set(d, first) /\ Set(d, second) => d[first] <= d[second]

(* The refinements of both schemas: they compare the fields the body has.  *)
Valid(d) ==
    /\ Before(d, "checkInOpensAt", "checkInClosesAt")
    /\ Before(d, "scheduledAt", "endsAt")
    /\ "enableTimeOut" \in DOMAIN d /\ d.enableTimeOut =>
          /\ Before(d, "scheduledAt", "timeOutOpensAt")
          /\ Before(d, "timeOutOpensAt", "timeOutClosesAt")
          /\ NotAfter(d, "checkInClosesAt", "timeOutOpensAt")
          /\ NotAfter(d, "timeOutClosesAt", "endsAt")

Parsed_AbsentStaysAbsent(body) == body

(* What the schema makes of a body: scope has a default, and partial()     *)
(* keeps it, so that a patch without a scope carries the default one.      *)
Parsed(body) == Over(body, [scope |-> "academic"])

NotPast(d) == "scheduledAt" \in DOMAIN d => d.scheduledAt >= time

(* Organizers keep to their program. *)
MayTarget(s, d) ==
    s \notin Admins =>
        /\ ProgramOf[s] # Null
        /\ "scope" \in DOMAIN d => d.scope # "departmental"
        /\ "targetProgram" \in DOMAIN d => d.targetProgram \in {Null, ProgramOf[s]}

(* The target a body means: an organizer's own program, and none at all    *)
(* for a departmental event.                                               *)
Retargeted(s, ev, d) ==
    LET own == IF s \notin Admins /\ "targetProgram" \in DOMAIN d
               THEN Over([targetProgram |-> ProgramOf[s]], d)
               ELSE d
    IN  IF Over(d, ev).scope = "departmental"
        THEN Over([targetProgram |-> Null, targetSection |-> Null], own)
        ELSE own

(* The columns a body of a creation may leave out. *)
NewRow(s) ==
    [status |-> "active", owner |-> s, scope |-> "academic",
     targetProgram |-> Null, targetSection |-> Null,
     endsAt |-> NoTime, checkInOpensAt |-> NoTime, checkInClosesAt |-> NoTime,
     enableTimeOut |-> FALSE, timeOutOpensAt |-> NoTime, timeOutClosesAt |-> NoTime]

Start(r, pc, id, data) ==
    requests' = [requests EXCEPT ![r] = [pc |-> pc, event |-> id, data |-> data]]

Finish(r) == requests' = [requests EXCEPT ![r] = Done]

(* POST *)
CreateEvent(r, s, body) ==
    LET d   == Parsed(body)
        row == NewRow(s)
    IN  /\ requests[r] = Open
        /\ created < MaxEvents
        /\ "scheduledAt" \in DOMAIN d /\ Valid(d) /\ NotPast(d)
        /\ MayTarget(s, d)
        /\ created' = created + 1
        /\ events' = Over(events, [id \in {created'} |-> Retargeted(s, row, Over(d, row))])
        /\ Finish(r)

MayEdit(s, id) == id \in DOMAIN events /\ (s \in Admins \/ events[id].owner = s)

(* PATCH, up to its update. *)
StartPatch(r, s, id, body) ==
    LET d == Parsed(body)
    IN  /\ requests[r] = Open
        /\ MayEdit(s, id)
        /\ Valid(d) /\ NotPast(d) /\ MayTarget(s, d)
        /\ Start(r, "update", id, Retargeted(s, events[id], d))
        /\ UNCHANGED <<events, created>>

(* DELETE: a cancellation, or for administrators the end of the row. *)
StartCancel(r, s, id) ==
    /\ requests[r] = Open
    /\ MayEdit(s, id)
    /\ Start(r, "update", id, [status |-> "cancelled"])
    /\ UNCHANGED <<events, created>>

StartHardDelete(r, s, id) ==
    /\ requests[r] = Open
    /\ s \in Admins /\ id \in DOMAIN events
    /\ Start(r, "delete", id, << >>)
    /\ UNCHANGED <<events, created>>

(* db.event.update: the columns of data, of a row that is still there. *)
Update(r) ==
    LET q == requests[r]
    IN  /\ q.pc = "update"
        /\ events' = IF q.event \in DOMAIN events
                     THEN [events EXCEPT ![q.event] = Over(q.data, @)]
                     ELSE events
        /\ Finish(r)
        /\ UNCHANGED created

HardDelete(r) ==
    /\ requests[r].pc = "delete"
    /\ events' = [id \in DOMAIN events \ {requests[r].event} |-> events[id]]
    /\ Finish(r)
    /\ UNCHANGED created

EventStep ==
    \E r \in Requests :
        \/ \E s \in Staff :
              \/ \E body \in Bodies : CreateEvent(r, s, body)
              \/ \E id \in EventIds :
                    \/ \E body \in Bodies : StartPatch(r, s, id, body)
                    \/ StartCancel(r, s, id) \/ StartHardDelete(r, s, id)
        \/ Update(r) \/ HardDelete(r)

EventsInit ==
    /\ time = 0
    /\ events \in InitialEvents
    /\ created = Cardinality(DOMAIN events)
    /\ requests = [r \in Requests |-> Open]

-----------------------------------------------------------------------------
(* Properties. *)

(* A department-wide event names no program and no section, whichever      *)
(* patches of it overlap: one that read the event while it was academic    *)
(* may write a target into it after another made it departmental, but then *)
(* it makes it academic again.                                             *)
DepartmentalIsForAll ==
    \A id \in DOMAIN events : IsForAll(events[id])

(* However an event came by its schedule, by patches that were checked     *)
(* field by field and that overlapped: if somebody gave a time-out time,   *)
(* then unless both are given and out of order, the time-out window opens  *)
(* before it closes.                                                       *)
GivenTimeOutOpens ==
    \A id \in DOMAIN events :
        LET ev == events[id]
            w  == TimeOutWindow(ev)
        IN  /\ Given(ev.timeOutOpensAt) \/ Given(ev.timeOutClosesAt)
            /\ Given(ev.timeOutOpensAt) /\ Given(ev.timeOutClosesAt)
                  => ev.timeOutOpensAt < ev.timeOutClosesAt
            => w.opensAt < w.closesAt
=============================================================================
