----------------------------- MODULE Attendance ------------------------------
(***************************************************************************)
(* The attendance server: POST /api/attendance (a student's signed scan)   *)
(* and POST /api/attendance/override (an organizer's manual entry), run    *)
(* concurrently against one database, while the clock moves, organizers    *)
(* edit and cancel events, devices are revoked and accounts go away.       *)
(*                                                                         *)
(* A handler is a process whose steps are its database calls: between two  *)
(* of them anything else may happen, and what it has read may be stale.    *)
(* The synchronous checks after an await belong to the step of the next    *)
(* one.  Nothing forces a handler to take its next step: one that never    *)
(* does has died (maxDuration, a killed instance), with what it has        *)
(* written committed and no answer; its client sends the same again.       *)
(*                                                                         *)
(* Scans and overrides are indexed by request; a request is sent once, and *)
(* a retry is another request with the certificate of an earlier one.      *)
(*                                                                         *)
(* A definition named X_Y is no part of the system: it is X with the slip  *)
(* Y, kept beside it to show which property notices.                       *)
(***************************************************************************)
EXTENDS EventTime, Targeting, FiniteSets

CONSTANTS Students, Staff, Events,
          Admins,           \* the members of Staff whose role is ADMIN
          Classes,          \* the programs and sections students have
          Targets,          \* ... and those that events are for
          Unlisted,         \* no whitelist row for this student
          Schedules,        \* the schedules organizers use
          ScanReqs, OverrideReqs,
          Skew,             \* CLOCK_SKEW_GRACE_MS: how far ahead a client may be
          Grace,            \* MAX_SYNC_DELAY_MS: how late a scan may be sent
          OverrideGrace,    \* OVERRIDE_MAX_SYNC_DELAY_MS
          None,             \* no row found
          MaxTime,          \* bound on the clock
          MaxEdits          \* bound on the changes made around the handlers

VARIABLES now,              \* the server's clock
          events,           \* event table: a row, or None once hard-deleted
          accounts,         \* the students' accounts
          listed,           \* AuthorizedStudent: the class it records
          devices,          \* whether a person's device key is registered and live
          attendances,      \* EventAttendance, a set of rows
          overrides,        \* AttendanceOverride, a set of rows
          audits,           \* what was handed to the audit logger
          scans, overs,     \* the handlers' local state
          versions,         \* history: the schedules an event has had
          edits             \* how many changes were made so far

tables == <<events, accounts, listed, devices>>
vars == <<now, tables, attendances, overrides, audits, scans, overs,
          versions, edits>>

-----------------------------------------------------------------------------
(* Rows and requests. *)

EventRow == [status : {"active", "cancelled"},
             owner  : Staff,
             target : Targets,
             times  : Schedule]

AccountRow == [status : {"active", "deactivated", "deleted"}, class : Classes]

AttendanceRow == [event       : Events,
                  student     : Students,
                  source      : {"qr", "override"},
                  key         : ScanReqs \cup OverrideReqs,
                  scannedAt   : Int,
                  clientAt    : Int,
                  timeOutAt   : OptionalTime]

OverrideRow == [event : Events, student : Students]

Replies == {"none", "time_in", "time_out", "already_scanned",
            "already_complete", "timeout_not_open", "created", "conflict",
            "not_found", "rejected", "error"}

AuditRow == [req : ScanReqs \cup OverrideReqs, action : Replies \cup {"override"},
             event : Events, student : Students]

(* A scan as it is posted: a certificate, and the account of the session   *)
(* it came with.  The certificate names no account: it has a nonce (the    *)
(* request that first carried it), the owner of the device that signed it, *)
(* and what the token and its sub-frames prove (genuine, module QrToken).  *)
ScanPost == [nonce : ScanReqs, signer : Students, student : Students,
             event : Events, scannedAt : Int, genuine : BOOLEAN]

OverrideCert == [signer : Staff, student : Students, event : Events,
                 createdAt : Int]

Steps == {"lookup", "event", "verify", "check", "write", "insert", "update",
          "audit"}

ScanState == [pc    : Steps \cup {"idle", "done"},
              post  : ScanPost \cup {None},
              class : Classes \cup {None},
              seen  : AttendanceRow \cup {None},
              event : EventRow \cup {None},
              reply : Replies]

OverState == [pc    : Steps \cup {"idle", "done"},
              cert  : OverrideCert \cup {None},
              actor : Staff \cup {None},
              event : EventRow \cup {None},
              reply : Replies]

ASSUME AttendanceAssumption ==
    /\ Admins \subseteq Staff
    /\ Classes \subseteq Class /\ Unlisted \notin Classes
    /\ Targets \subseteq Class /\ OpenToAll \in Targets
    /\ Schedules \subseteq Schedule
    /\ Skew \in Nat /\ Grace \in Nat /\ OverrideGrace \in Nat
    /\ MaxTime \in Nat /\ MaxEdits \in Nat
    /\ ScanReqs \cap OverrideReqs = {}
    /\ None \notin ScanPost /\ None \notin OverrideCert
    /\ None \notin EventRow /\ None \notin AttendanceRow

Init ==
    /\ now = 0
    /\ \E o \in Staff, times \in Schedules :
          events = [e \in Events |-> [status |-> "active", owner |-> o,
                                      target |-> OpenToAll, times |-> times]]
    /\ \E c \in Classes :
          /\ accounts = [s \in Students |-> [status |-> "active", class |-> c]]
          /\ listed = [s \in Students |-> c]
    /\ devices = [p \in Students \cup Staff |-> "active"]
    /\ attendances = {}
    /\ overrides = {}
    /\ audits = {}
    /\ scans = [r \in ScanReqs |->
                  [pc |-> "idle", post |-> None, class |-> None,
                   seen |-> None, event |-> None, reply |-> "none"]]
    /\ overs = [r \in OverrideReqs |->
                  [pc |-> "idle", cert |-> None, actor |-> None,
                   event |-> None, reply |-> "none"]]
    /\ versions = [e \in Events |-> {events[e].times}]
    /\ edits = 0

-----------------------------------------------------------------------------
(* What the handlers share. *)

RowsOf(e, s) == {row \in attendances : row.event = e /\ row.student = s}

IsOverridden(e, s) == [event |-> e, student |-> s] \in overrides

(* A step that changes nothing but the scan (the override) handlers. *)
OnlyScans == UNCHANGED <<now, tables, attendances, overrides, audits, overs,
                         versions, edits>>

OnlyOvers == UNCHANGED <<now, tables, attendances, overrides, audits, scans,
                         versions, edits>>

(* A scan handler replies and its locals are gone. *)
Answer(r, reply) ==
    scans' = [scans EXCEPT ![r] = [@ EXCEPT !.pc = "done", !.reply = reply,
                                            !.class = None, !.seen = None,
                                            !.event = None]]

AnswerOverride(r, reply) ==
    overs' = [overs EXCEPT ![r] = [@ EXCEPT !.pc = "done", !.reply = reply,
                                            !.event = None]]

Advance(r, pc) == scans' = [scans EXCEPT ![r] = [@ EXCEPT !.pc = pc]]

AdvanceOverride(r, pc) == overs' = [overs EXCEPT ![r] = [@ EXCEPT !.pc = pc]]

Log(r, action, cert) ==
    audits' = audits \cup {[req |-> r, action |-> action,
                            event |-> cert.event, student |-> cert.student]}

(* validateCertificateTimestamp and the grace check after it: not too far  *)
(* in the server's future, not too old to be sent late.                    *)
Timely(t, grace) == t <= now + Skew /\ now - t <= grace

-----------------------------------------------------------------------------
(* POST /api/attendance *)

(* The instants a phone may claim: any time so far (it was offline since), *)
(* or ahead of the server by up to one unit more than is tolerated.        *)
ClientTimes == 0 .. (now + Skew + 1)

NewPosts(r) ==
    [nonce : {r}, signer : Students, student : Students, event : Events,
     scannedAt : ClientTimes, genuine : BOOLEAN]

(* What earlier requests, answered or not, carried, under any session.     *)
SentAgain ==
    {[scans[q].post EXCEPT !.student = s] :
        q \in {p \in ScanReqs : scans[p].pc # "idle"}, s \in Students}

(* A signed-in student's browser sends a certificate, new or sent before,  *)
(* whichever device signed it.  The session's account is read here and not *)
(* again.                                                                  *)
SendScan(r) ==
    /\ scans[r].pc = "idle"
    /\ \E post \in NewPosts(r) \cup SentAgain :
          /\ accounts[post.student].status = "active"
          /\ scans' = [scans EXCEPT ![r] =
                         [@ EXCEPT !.pc = "lookup", !.post = post,
                                   !.class = accounts[post.student].class]]
    /\ OnlyScans

(* Is there a row for this event and account already?  A row with both     *)
(* instants ends the request; a row without a time-out makes it a time-out *)
(* scan, no row a time-in scan.                                            *)
FindExisting(r) ==
    /\ scans[r].pc = "lookup"
    /\ LET rows == RowsOf(scans[r].post.event, scans[r].post.student)
       IN  \/ rows = {} /\ Advance(r, "event")
           \/ \E row \in rows :
                 IF Given(row.timeOutAt)
                 THEN Answer(r, "already_complete")
                 ELSE scans' = [scans EXCEPT ![r] =
                                  [@ EXCEPT !.pc = "event", !.seen = row]]
    /\ OnlyScans

(* Go on with the event just read. *)
KeepEvent(r, ev) ==
    scans' = [scans EXCEPT ![r] = [@ EXCEPT !.pc = "verify", !.event = ev]]

(* Read the event.  A time-out scan goes on only while the time-out window *)
(* is live on the server's clock, a time-in scan only if the event is      *)
(* active; its window is checked later and against the certificate.        *)
FindEvent(r) ==
    /\ scans[r].pc = "event"
    /\ LET ev == events[scans[r].post.event]
       IN  IF ev = None THEN Answer(r, "not_found")
           ELSE IF scans[r].seen # None
           THEN IF ev.times.enableTimeOut /\ ev.status = "active"
                THEN IF IsLive(ev.status, TimeOutWindow(ev.times), now)
                     THEN KeepEvent(r, ev)
                     ELSE Answer(r, "timeout_not_open")
                ELSE Answer(r, "already_scanned")
           ELSE IF ev.status = "active" THEN KeepEvent(r, ev)
                                        ELSE Answer(r, "rejected")
    /\ OnlyScans

(* verifySignedCertificate: the signing device is registered and not       *)
(* revoked.  That it is the session's own nobody asks.                     *)
VerifyDevice(r) ==
    /\ scans[r].pc = "verify"
    /\ IF devices[scans[r].post.signer] = "active" THEN Advance(r, "check")
                                                   ELSE Answer(r, "rejected")
    /\ OnlyScans

ScannedInWindow_ServerTimeOnly(scan) ==
    scan.seen # None \/ InCheckIn(scan.event.times, scan.post.scannedAt)

(* The instant of the scan itself lies in the window it claims. *)
ScannedInWindow(scan) ==
    IF scan.seen # None THEN InTimeOut(scan.event.times, scan.post.scannedAt)
                        ELSE InCheckIn(scan.event.times, scan.post.scannedAt)

(* What a scan must satisfy, given the event as it was read.  A student    *)
(* already present is not asked for eligibility again.                     *)
Acceptable(scan) ==
    /\ Timely(scan.post.scannedAt, Grace)
    /\ scan.post.genuine
    /\ ScannedInWindow(scan)
    /\ scan.seen # None \/ VisibleTo(scan.class, scan.event.target)

CheckScan(r) ==
    /\ scans[r].pc = "check"
    /\ IF Acceptable(scans[r]) THEN Advance(r, "write")
                               ELSE Answer(r, "rejected")
    /\ OnlyScans

ForeignKeysHold_EventOnly(cert) == events[cert.event] # None

(* The event and the account of an attendance row must exist. *)
ForeignKeysHold(cert) ==
    /\ events[cert.event] # None
    /\ accounts[cert.student].status # "deleted"

IsDuplicate_NonceOnly(post) == \E row \in attendances : row.key = post.nonce

(* The unique constraints: (event, account), and the nonce, whoever's row  *)
(* has it.                                                                 *)
IsDuplicate(post) ==
    \/ RowsOf(post.event, post.student) # {}
    \/ \E row \in attendances : row.key = post.nonce

(* eventAttendance.create: foreign keys and unique constraints decide, in  *)
(* one atomic statement; a constraint that fails answers already_scanned,  *)
(* a foreign key is not expected and answers 500.                          *)
WriteTimeIn(r) ==
    /\ scans[r].pc = "write"
    /\ scans[r].seen = None
    /\ LET post == scans[r].post
           row  == [event |-> post.event, student |-> post.student,
                    source |-> "qr", key |-> post.nonce, scannedAt |-> now,
                    clientAt |-> post.scannedAt, timeOutAt |-> NoTime]
       IN  IF ~ForeignKeysHold(post)
           THEN Answer(r, "error") /\ UNCHANGED attendances
           ELSE IF IsDuplicate(post)
           THEN Answer(r, "already_scanned") /\ UNCHANGED attendances
           ELSE /\ attendances' = attendances \cup {row}
                /\ scans' = [scans EXCEPT ![r] =
                               [@ EXCEPT !.pc = "audit", !.reply = "time_in"]]
    /\ UNCHANGED <<now, tables, overrides, audits, overs, versions, edits>>

OpenRows_AnyState(scan) == RowsOf(scan.post.event, scan.post.student)

OpenRows_AsSeen(scan) ==
    RowsOf(scan.post.event, scan.post.student) \cap {scan.seen}

(* The rows the compare-and-set matches: the one found, still open. *)
OpenRows(scan) ==
    {row \in RowsOf(scan.post.event, scan.post.student) : ~Given(row.timeOutAt)}

(* updateMany where timeOutAt is null: the first of two concurrent scans   *)
(* sets it, the other finds no row and is told it was recorded already.    *)
WriteTimeOut(r) ==
    /\ scans[r].pc = "write"
    /\ scans[r].seen # None
    /\ LET open == OpenRows(scans[r])
       IN  IF open = {}
           THEN Answer(r, "time_out") /\ UNCHANGED attendances
           ELSE /\ attendances' =
                      (attendances \ open)
                        \cup {[row EXCEPT !.timeOutAt = scans[r].post.scannedAt] : row \in open}
                /\ scans' = [scans EXCEPT ![r] =
                               [@ EXCEPT !.pc = "audit", !.reply = "time_out"]]
    /\ UNCHANGED <<now, tables, overrides, audits, overs, versions, edits>>

AuditScan(r) ==
    /\ scans[r].pc = "audit"
    /\ Log(r, scans[r].reply, scans[r].post)
    /\ Answer(r, scans[r].reply)
    /\ UNCHANGED <<now, tables, attendances, overrides, overs, versions, edits>>

ScanStep(r) ==
    \/ SendScan(r) \/ FindExisting(r) \/ FindEvent(r) \/ VerifyDevice(r)
    \/ CheckScan(r) \/ WriteTimeIn(r) \/ WriteTimeOut(r) \/ AuditScan(r)

-----------------------------------------------------------------------------
(* POST /api/attendance/override *)

SendOverride(r) ==
    /\ overs[r].pc = "idle"
    /\ \E actor \in Staff :
          \E cert \in [signer : Staff, student : Students, event : Events,
                       createdAt : ClientTimes]
                      \cup {overs[q].cert : q \in {p \in OverrideReqs : overs[p].pc # "idle"}} :
             overs' = [overs EXCEPT ![r] = [@ EXCEPT !.pc = "event", !.cert = cert,
                                                     !.actor = actor]]
    /\ OnlyOvers

(* The event must exist, and be the caller's own unless an ADMIN calls.    *)
FindOverrideEvent(r) ==
    /\ overs[r].pc = "event"
    /\ LET ev == events[overs[r].cert.event]
       IN  IF ev = None THEN AnswerOverride(r, "not_found")
           ELSE IF overs[r].actor \in Admins \/ ev.owner = overs[r].actor
           THEN overs' = [overs EXCEPT ![r] = [@ EXCEPT !.pc = "verify", !.event = ev]]
           ELSE AnswerOverride(r, "rejected")
    /\ OnlyOvers

(* The signing device is live and belongs to the caller. *)
VerifySigner(r) ==
    /\ overs[r].pc = "verify"
    /\ IF /\ devices[overs[r].cert.signer] = "active"
          /\ overs[r].cert.signer = overs[r].actor
       THEN AdvanceOverride(r, "check")
       ELSE AnswerOverride(r, "rejected")
    /\ OnlyOvers

EntryAllowed_StatusIgnored(ev, createdAt) ==
    /\ Timely(createdAt, OverrideGrace)
    /\ InCheckIn(ev.times, createdAt) \/ InTimeOut(ev.times, createdAt)

(* The entry is recent, the event (as read) active, and the entry was made *)
(* in one of its windows.                                                  *)
EntryAllowed(ev, createdAt) ==
    /\ Timely(createdAt, OverrideGrace)
    /\ ev.status = "active"
    /\ InCheckIn(ev.times, createdAt) \/ InTimeOut(ev.times, createdAt)

(* Besides, the student is on the list with the class the event asks for,  *)
(* and has an account that is not deactivated.                             *)
CheckOverride(r) ==
    /\ overs[r].pc = "check"
    /\ LET cert == overs[r].cert
           ev   == overs[r].event
       IN  IF /\ EntryAllowed(ev, cert.createdAt)
              /\ listed[cert.student] # Unlisted
              /\ ListedFor(listed[cert.student], ev.target)
              /\ accounts[cert.student].status = "active"
           THEN AdvanceOverride(r, "write")
           ELSE AnswerOverride(r, "rejected")
    /\ OnlyOvers

Attested_SourceKept(row, cert) == [row EXCEPT !.scannedAt = cert.createdAt]

(* An existing row keeps its time-out and becomes an override of the       *)
(* instant the organizer attests.                                          *)
Attested(row, cert) ==
    [row EXCEPT !.source = "override", !.scannedAt = cert.createdAt]

(* db.$transaction: the override row and the attendance row, or neither.   *)
(* The attendance row is upserted, which MySQL's Prisma does in two steps: *)
(* it looks for the row, and then updates that one or inserts another.     *)
FindRow(r) ==
    /\ overs[r].pc = "write"
    /\ AdvanceOverride(r, IF RowsOf(overs[r].cert.event, overs[r].cert.student) = {}
                          THEN "insert" ELSE "update")
    /\ OnlyOvers

(* What it leaves: an insert goes through only if there is no row yet, and *)
(* the row to update is there as long as its event and its account are.    *)
Upserted(r, cert) ==
    LET rows == RowsOf(cert.event, cert.student)
    IN  IF rows = {}
        THEN attendances \cup
               {[event |-> cert.event, student |-> cert.student,
                 source |-> "override", key |-> r, scannedAt |-> now,
                 clientAt |-> cert.createdAt, timeOutAt |-> NoTime]}
        ELSE (attendances \ rows) \cup {Attested(row, cert) : row \in rows}

(* A unique constraint fails: the student has an override, or has got a    *)
(* row since none was found.                                               *)
Collides(r, cert) ==
    \/ IsOverridden(cert.event, cert.student)
    \/ overs[r].pc = "insert" /\ RowsOf(cert.event, cert.student) # {}

(* The transaction's writes, with its end.  A foreign key that fails rolls *)
(* it back to NOT_WHITELISTED, a unique constraint to ALREADY_OVERRIDDEN;  *)
(* a row to update that is gone, with its account, to 500.                 *)
WriteOverride(r) ==
    /\ overs[r].pc \in {"insert", "update"}
    /\ LET cert == overs[r].cert
       IN  IF ~ForeignKeysHold(cert) \/ listed[cert.student] = Unlisted
           THEN AnswerOverride(r, "rejected") /\ UNCHANGED <<attendances, overrides>>
           ELSE IF Collides(r, cert)
           THEN AnswerOverride(r, "conflict") /\ UNCHANGED <<attendances, overrides>>
           ELSE /\ overrides' = overrides \cup
                      {[event |-> cert.event, student |-> cert.student]}
                /\ attendances' = Upserted(r, cert)
                /\ overs' = [overs EXCEPT ![r] =
                               [@ EXCEPT !.pc = "audit", !.reply = "created"]]
    /\ UNCHANGED <<now, tables, audits, scans, versions, edits>>

AuditOverride(r) ==
    /\ overs[r].pc = "audit"
    /\ Log(r, "override", overs[r].cert)
    /\ AnswerOverride(r, "created")
    /\ UNCHANGED <<now, tables, attendances, overrides, scans, versions, edits>>

OverrideStep(r) ==
    \/ SendOverride(r) \/ FindOverrideEvent(r) \/ VerifySigner(r)
    \/ CheckOverride(r) \/ FindRow(r) \/ WriteOverride(r) \/ AuditOverride(r)

-----------------------------------------------------------------------------
(* What goes on around the handlers; MaxEdits bounds it. *)

Edit == edits < MaxEdits /\ edits' = edits + 1

(* PATCH /api/events/[id]: the schedule or the target, never the status. *)
PatchEvent(e) ==
    /\ Edit
    /\ events[e] # None
    /\ \E times \in Schedules, target \in Targets :
          /\ events' = [events EXCEPT ![e] = [@ EXCEPT !.times = times,
                                                       !.target = target]]
          /\ versions' = [versions EXCEPT ![e] = @ \cup {times}]
    /\ UNCHANGED <<now, accounts, listed, devices, attendances, overrides,
                   audits, scans, overs>>

(* DELETE /api/events/[id]: cancel, for good. *)
CancelEvent(e) ==
    /\ Edit
    /\ events[e] # None
    /\ events' = [events EXCEPT ![e] = [@ EXCEPT !.status = "cancelled"]]
    /\ UNCHANGED <<now, accounts, listed, devices, attendances, overrides,
                   audits, scans, overs, versions>>

(* DELETE /api/events/[id]?hard=true, with the cascade of its rows. *)
HardDeleteEvent(e) ==
    /\ Edit
    /\ events[e] # None
    /\ events' = [events EXCEPT ![e] = None]
    /\ attendances' = {row \in attendances : row.event # e}
    /\ overrides' = {row \in overrides : row.event # e}
    /\ UNCHANGED <<now, accounts, listed, devices, audits, scans, overs, versions>>

(* PATCH /api/accounts/[id], restore, deactivate: the account's status. *)
SetAccountStatus(s) ==
    /\ Edit
    /\ accounts[s].status # "deleted"
    /\ \E status \in {"active", "deactivated"} :
          accounts' = [accounts EXCEPT ![s] = [@ EXCEPT !.status = status]]
    /\ UNCHANGED <<now, events, listed, devices, attendances, overrides, audits,
                   scans, overs, versions>>

(* DELETE /api/accounts/[id]/delete, with the cascade of attendance rows   *)
(* and device keys.                                                        *)
DeleteAccount(s) ==
    /\ Edit
    /\ accounts' = [accounts EXCEPT ![s] = [@ EXCEPT !.status = "deleted"]]
    /\ devices' = [devices EXCEPT ![s] = "unusable"]
    /\ attendances' = {row \in attendances : row.student # s}
    /\ UNCHANGED <<now, events, listed, overrides, audits, scans, overs, versions>>

(* PATCH /api/profile: the student moves to another program or section. *)
ChangeClass(s) ==
    /\ Edit
    /\ \E c \in Classes :
          accounts' = [accounts EXCEPT ![s] = [@ EXCEPT !.class = c]]
    /\ UNCHANGED <<now, events, listed, devices, attendances, overrides, audits,
                   scans, overs, versions>>

(* DELETE /api/whitelist/[studentId], with the cascade of the overrides. *)
Unlist(s) ==
    /\ Edit
    /\ listed' = [listed EXCEPT ![s] = Unlisted]
    /\ overrides' = {row \in overrides : row.student # s}
    /\ UNCHANGED <<now, events, accounts, devices, attendances, audits, scans,
                   overs, versions>>

(* DELETE /api/profile/device-key *)
RevokeDevice(p) ==
    /\ Edit
    /\ devices' = [devices EXCEPT ![p] = "unusable"]
    /\ UNCHANGED <<now, events, accounts, listed, attendances, overrides, audits,
                   scans, overs, versions>>

Tick ==
    /\ now < MaxTime
    /\ now' = now + 1
    /\ UNCHANGED <<tables, attendances, overrides, audits, scans, overs,
                   versions, edits>>

Environment ==
    \/ \E e \in Events : PatchEvent(e) \/ CancelEvent(e) \/ HardDeleteEvent(e)
    \/ \E s \in Students : \/ SetAccountStatus(s) \/ DeleteAccount(s)
                         \/ ChangeClass(s) \/ Unlist(s)
    \/ \E p \in Students \cup Staff : RevokeDevice(p)
    \/ Tick

Next ==
    \/ \E r \in ScanReqs : ScanStep(r)
    \/ \E r \in OverrideReqs : OverrideStep(r)
    \/ Environment

Spec == Init /\ [][Next]_vars

-----------------------------------------------------------------------------
(* Properties. *)

TablesOK ==
    /\ now \in Int /\ edits \in Int
    /\ events \in [Events -> EventRow \cup {None}]
    /\ accounts \in [Students -> AccountRow]
    /\ listed \in [Students -> Classes \cup {Unlisted}]
    /\ devices \in [Students \cup Staff -> {"active", "unusable"}]
    /\ attendances \subseteq AttendanceRow
    /\ overrides \subseteq OverrideRow
    /\ audits \subseteq AuditRow
    /\ versions \in [Events -> SUBSET Schedules]

(* A handler past its event lookup works on an event row, never on a       *)
(* missing one (the code returns 404 first, on both paths).                *)
ScansOK ==
    /\ scans \in [ScanReqs -> ScanState]
    /\ \A r \in ScanReqs :
          /\ scans[r].pc # "idle" => scans[r].post \in ScanPost
          /\ scans[r].pc \in {"verify", "check", "write"} => scans[r].event \in EventRow

OversOK ==
    /\ overs \in [OverrideReqs -> OverState]
    /\ \A r \in OverrideReqs :
          /\ overs[r].pc # "idle" => overs[r].cert \in OverrideCert
          /\ overs[r].pc \in {"verify", "check", "write", "insert", "update"} =>
                 overs[r].event \in EventRow

(* Every table and every handler holds what its code can put there. *)
TypeOK == TablesOK /\ ScansOK /\ OversOK

(* One attempt: however scans, retries and overrides of a student overlap, *)
(* an event has at most one attendance row of that student.                *)
UniqueAttendance ==
    \A row, other \in attendances :
        row.event = other.event /\ row.student = other.student => row = other

(* An organizer's entry is never lost to a scan that raced it: where an    *)
(* override stands and the student's account does, the attendance row is   *)
(* there and says that it is an override.                                  *)
OverridesAreMarked ==
    \A o \in overrides :
        accounts[o.student].status # "deleted" =>
            \E row \in RowsOf(o.event, o.student) : row.source = "override"

(* The event or the student is no more. *)
Gone(e, s) == events[e] = None \/ accounts[s].status = "deleted"

(* The certificate of this scan was counted, under another session: the    *)
(* answer to this one is that it was scanned already, and by that the      *)
(* student who asks is not present.                                        *)
CountedForAnother(r) ==
    \E q \in ScanReqs :
        /\ scans[q].reply = "time_in"
        /\ scans[q].post.nonce = scans[r].post.nonce
        /\ scans[q].post.student # scans[r].post.student

(* What a scan or an entry was told is true of the database, now and       *)
(* later, unless the event or the student is gone: after an answer that    *)
(* says present (of an entry, also the one that says it exists) there is a *)
(* row, after one that says timed out the row has its time-out.  The one   *)
(* exception is a certificate that was counted for another student.        *)
AnswersAreTrue ==
    /\ \A r \in ScanReqs :
          scans[r].pc = "done" /\ ~Gone(scans[r].post.event, scans[r].post.student) =>
            LET rows == RowsOf(scans[r].post.event, scans[r].post.student)
            IN  /\ scans[r].reply \in {"time_in", "already_scanned", "timeout_not_open"} =>
                       \/ rows # {}
                       \/ scans[r].reply = "already_scanned" /\ CountedForAnother(r)
                /\ scans[r].reply \in {"time_out", "already_complete"} =>
                       \E row \in rows : Given(row.timeOutAt)
    /\ \A r \in OverrideReqs :
          overs[r].pc = "done" /\ overs[r].reply \in {"created", "conflict"} =>
              \/ Gone(overs[r].cert.event, overs[r].cert.student)
              \/ RowsOf(overs[r].cert.event, overs[r].cert.student) # {}

(* The audit log records each attendance transition once, whichever of the *)
(* racing requests made it.                                                *)
AuditedOnce ==
    \A a, b \in audits :
        a.action \in {"time_in", "time_out"} /\ a.action = b.action
          /\ a.event = b.event /\ a.student = b.student => a = b

(* The instant a row vouches for fell in a check-in window the event has   *)
(* had (or, for a manual entry, in either window), and its time-out in a   *)
(* time-out window; late syncing never moves a scan into a window.         *)
InstantsFellInWindows ==
    \A row \in attendances :
        /\ \E times \in versions[row.event] :
              \/ InCheckIn(times, row.clientAt)
              \/ row.source = "override" /\ InTimeOut(times, row.clientAt)
        /\ Given(row.timeOutAt) =>
              \E times \in versions[row.event] : InTimeOut(times, row.timeOutAt)

(* A recorded time-out is final: no later scan, retry or override moves or *)
(* clears it while the row exists.                                         *)
TimeOutIsFinal ==
    [][\A row \in attendances :
          Given(row.timeOutAt) =>
            \A next \in attendances' :
                next.event = row.event /\ next.student = row.student =>
                    next.timeOutAt = row.timeOutAt]_vars

(* Requests still working with the event as it was before a cancellation. *)
HoldsActive(e) ==
    \/ \E r \in ScanReqs :
          scans[r].event # None /\ scans[r].post.event = e /\ scans[r].event.status = "active"
    \/ \E r \in OverrideReqs :
          overs[r].event # None /\ overs[r].cert.event = e /\ overs[r].event.status = "active"

(* Once the requests that read an event before its cancellation are over,  *)
(* nothing is added to its attendance or changed in it any more.           *)
CancelledEventIsFrozen ==
    [][\A e \in Events :
          events[e] # None /\ events[e].status = "cancelled" /\ ~HoldsActive(e) =>
            \A row \in attendances' : row.event = e => row \in attendances]_vars

-----------------------------------------------------------------------------
(* What the handlers implement: module AttendanceLedger. *)

LedgerOf(e, s) ==
    IF \E row \in RowsOf(e, s) : TRUE
    THEN LET row == CHOOSE row \in RowsOf(e, s) : TRUE
         IN  [source |-> row.source, timedOut |-> Given(row.timeOutAt)]
    ELSE None

Ledger == INSTANCE AttendanceLedger
    WITH ledger <- [p \in Events \X Students |-> LedgerOf(p[1], p[2])],
         gone   <- {e \in Events : events[e] = None}
                     \cup {s \in Students : accounts[s].status = "deleted"},
         Absent <- None

ASSUME LedgerAssumption == Events \cap Students = {} /\ None \notin Ledger!Entry

(* The handlers, with everything around them, keep the ledger's promise.   *)
ImplementsLedger == Ledger!Spec

(* The documented idempotency of a certificate: sent again after it was    *)
(* counted, it is "already present", it is never counted a second time.    *)
CountedOnce ==
    \A a, b \in ScanReqs :
        scans[a].post = scans[b].post =>
            ~(scans[a].reply = "time_in" /\ scans[b].reply = "time_out")

(* The documented dead zone: a scan made in the time-out window and sent   *)
(* within the grace is not turned away because the window closed meanwhile *)
(* (a certificate that was sent before aside).                             *)
SyncedInTimeCounts ==
    [][\A r \in ScanReqs :
          LET post == scans[r].post
          IN  /\ scans[r].pc = "event" /\ scans'[r].reply = "timeout_not_open"
              /\ \A q \in ScanReqs \ {r} :
                    scans[q].pc # "idle" => scans[q].post.nonce # post.nonce
              /\ post.genuine /\ Timely(post.scannedAt, Grace)
              => ~InTimeOut(events[post.event].times, post.scannedAt)]_vars
=============================================================================
