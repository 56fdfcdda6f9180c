-------------------------- MODULE AttendanceProofs ---------------------------
(***************************************************************************)
(* Theorems about Attendance: for any number of students, events, requests *)
(* and schedules, and whatever the clock and the bounds.                   *)
(***************************************************************************)
EXTENDS Attendance, TLAPS

(* What one handler's state must satisfy for ScansOK. *)
ScanOK(scan) ==
    /\ scan \in ScanState
    /\ scan.pc # "idle" => scan.post \in ScanPost
    /\ scan.pc \in {"verify", "check", "write"} => scan.event \in EventRow

(* A step that gives one handler a well formed state keeps them all so. *)
LEMMA ScanUpdate ==
    ASSUME ScansOK, NEW r \in ScanReqs, NEW scan, ScanOK(scan),
           scans' = [scans EXCEPT ![r] = scan]
    PROVE  ScansOK'
BY DEF ScansOK, ScanOK

LEMMA ScanAt ==
    ASSUME ScansOK, NEW r \in ScanReqs
    PROVE  ScanOK(scans[r])
BY DEF ScansOK, ScanOK

(* A reply leaves the scan handlers well formed. *)
LEMMA AnswerTyped ==
    ASSUME ScansOK, NEW r \in ScanReqs, scans[r].pc # "idle",
           NEW reply \in Replies, Answer(r, reply)
    PROVE  ScansOK'
<1> DEFINE scan == [scans[r] EXCEPT !.pc = "done", !.reply = reply,
                       !.class = None, !.seen = None, !.event = None]
<1>1. ScanOK(scans[r])
  BY ScanAt
<1>2. ScanOK(scan)
  BY <1>1 DEF ScanOK, ScanState
<1>3. scans' = [scans EXCEPT ![r] = scan]
  BY DEF Answer
<1> HIDE DEF scan
<1> QED
  BY <1>2, <1>3, ScanUpdate

(* So does a step to the next await of a handler that has its event. *)
LEMMA AdvanceTyped ==
    ASSUME ScansOK, NEW r \in ScanReqs, scans[r].pc \in {"verify", "check"},
           NEW pc \in {"check", "write"}, Advance(r, pc)
    PROVE  ScansOK'
<1> DEFINE scan == [scans[r] EXCEPT !.pc = pc]
<1>1. ScanOK(scans[r])
  BY ScanAt
<1>2. ScanOK(scan)
  BY <1>1 DEF ScanOK, ScanState, Steps
<1>3. scans' = [scans EXCEPT ![r] = scan]
  BY DEF Advance
<1> HIDE DEF scan
<1> QED
  BY <1>2, <1>3, ScanUpdate

(* What a step that leaves a part of the state alone leaves typed. *)
LEMMA ScansUnchanged == ScansOK /\ UNCHANGED scans => ScansOK'
BY DEF ScansOK

LEMMA OversUnchanged == OversOK /\ UNCHANGED overs => OversOK'
BY DEF OversOK

LEMMA OnlyScansTyped ==
    TablesOK /\ OversOK /\ OnlyScans => TablesOK' /\ OversOK'
BY DEF TablesOK, OversOK, OnlyScans, tables

LEMMA OnlyOversTyped ==
    TablesOK /\ ScansOK /\ OnlyOvers => TablesOK' /\ ScansOK'
BY DEF TablesOK, ScansOK, OnlyOvers, tables

(* The steps of a scan handler that only read. *)
LEMMA ScanReadsTyped ==
    ASSUME TypeOK, NEW r \in ScanReqs,
           SendScan(r) \/ FindExisting(r) \/ FindEvent(r) \/ VerifyDevice(r) \/ CheckScan(r)
    PROVE  TypeOK'
<1> USE DEF TypeOK
<1>1. ScanOK(scans[r])
  BY ScanAt
<1>2. CASE SendScan(r)
  <2>1. PICK post \in NewPosts(r) \cup SentAgain :
           scans' = [scans EXCEPT ![r] =
                       [@ EXCEPT !.pc = "lookup", !.post = post,
                                 !.class = accounts[post.student].class]]
    BY <1>2 DEF SendScan
  <2>2. post \in ScanPost
    <3>1. CASE post \in NewPosts(r)
      BY <3>1, AttendanceAssumption DEF NewPosts, ScanPost, ClientTimes, TablesOK
    <3>2. CASE post \in SentAgain
      <4>1. PICK q \in ScanReqs, s \in Students :
               scans[q].pc # "idle" /\ post = [scans[q].post EXCEPT !.student = s]
        BY <3>2 DEF SentAgain
      <4>2. scans[q].post \in ScanPost
        BY <4>1 DEF ScansOK
      <4> QED
        BY <4>1, <4>2 DEF ScanPost
    <3> QED
      BY <3>1, <3>2
  <2> DEFINE scan == [scans[r] EXCEPT !.pc = "lookup", !.post = post,
                         !.class = accounts[post.student].class]
  <2>3. accounts[post.student].class \in Classes
    BY <2>2 DEF ScanPost, TablesOK, AccountRow
  <2>4. ScanOK(scan)
    BY <1>1, <2>2, <2>3 DEF ScanOK, ScanState, Steps
  <2>5. scans' = [scans EXCEPT ![r] = scan]
    BY <2>1
  <2> HIDE DEF scan
  <2> QED
    BY <2>4, <2>5, <1>2, ScanUpdate, OnlyScansTyped DEF SendScan
<1>3. CASE FindExisting(r)
  <2>1. scans[r].pc # "idle"
    BY <1>3 DEF FindExisting
  <2>2. CASE Answer(r, "already_complete")
    BY <2>1, <2>2, <1>3, AnswerTyped, OnlyScansTyped DEF FindExisting, Replies
  <2>3. CASE Advance(r, "event")
    <3> DEFINE scan == [scans[r] EXCEPT !.pc = "event"]
    <3>1. ScanOK(scan)
      BY <1>1, <2>1 DEF ScanOK, ScanState, Steps
    <3>2. scans' = [scans EXCEPT ![r] = scan]
      BY <2>3 DEF Advance
    <3> HIDE DEF scan
    <3> QED
      BY <3>1, <3>2, <1>3, ScanUpdate, OnlyScansTyped DEF FindExisting
  <2>4. ASSUME NEW row \in RowsOf(scans[r].post.event, scans[r].post.student),
               scans' = [scans EXCEPT ![r] = [@ EXCEPT !.pc = "event", !.seen = row]]
        PROVE  TypeOK'
    <3> DEFINE scan == [scans[r] EXCEPT !.pc = "event", !.seen = row]
    <3>0. row \in AttendanceRow
      BY DEF RowsOf, TablesOK
    <3>1. ScanOK(scan)
      BY <1>1, <2>1, <3>0 DEF ScanOK, ScanState, Steps
    <3>2. scans' = [scans EXCEPT ![r] = scan]
      BY <2>4
    <3> HIDE DEF scan
    <3> QED
      BY <3>1, <3>2, <1>3, ScanUpdate, OnlyScansTyped DEF FindExisting
  <2> QED
    BY <1>3, <2>2, <2>3, <2>4 DEF FindExisting
<1>4. CASE FindEvent(r)
  <2> DEFINE ev == events[scans[r].post.event]
  <2>1. scans[r].pc = "event" /\ scans[r].post \in ScanPost
    BY <1>1, <1>4 DEF FindEvent, ScanOK
  <2>2. ev \in EventRow \cup {None}
    BY <2>1 DEF TablesOK, ScanPost
  <2>3. ASSUME NEW reply \in {"not_found", "timeout_not_open", "already_scanned", "rejected"},
               Answer(r, reply)
        PROVE  TypeOK'
    BY <2>1, <2>3, <1>4, AnswerTyped, OnlyScansTyped DEF FindEvent, Replies
  <2>4. ASSUME ev # None, KeepEvent(r, ev)
        PROVE  TypeOK'
    <3> DEFINE scan == [scans[r] EXCEPT !.pc = "verify", !.event = ev]
    <3>0. ev \in EventRow
      BY <2>2, <2>4
    <3>2. scans' = [scans EXCEPT ![r] = scan]
      BY <2>4 DEF KeepEvent
    <3> HIDE DEF ev
    <3>1. ScanOK(scan)
      BY <1>1, <2>1, <3>0 DEF ScanOK, ScanState, Steps
    <3> HIDE DEF scan
    <3> QED
      BY <3>1, <3>2, <1>4, ScanUpdate, OnlyScansTyped DEF FindEvent
  <2> QED
    BY <1>4, <2>3, <2>4 DEF FindEvent
<1>5. CASE VerifyDevice(r)
  BY <1>5, AnswerTyped, AdvanceTyped, OnlyScansTyped DEF VerifyDevice, Replies
<1>6. CASE CheckScan(r)
  BY <1>6, AnswerTyped, AdvanceTyped, OnlyScansTyped DEF CheckScan, Replies
<1> QED
  BY <1>2, <1>3, <1>4, <1>5, <1>6

(* The steps of a scan handler that write. *)
LEMMA WriteTimeInTyped ==
    ASSUME TypeOK, NEW r \in ScanReqs, WriteTimeIn(r)
    PROVE  TypeOK'
<1> USE DEF TypeOK
<1> DEFINE cert == scans[r].post
           row  == [event |-> cert.event, student |-> cert.student,
                    source |-> "qr", key |-> cert.nonce, scannedAt |-> now,
                    clientAt |-> cert.scannedAt, timeOutAt |-> NoTime]
           scan == [scans[r] EXCEPT !.pc = "audit", !.reply = "time_in"]
<1>1. scans[r].pc = "write" /\ ScanOK(scans[r]) /\ cert \in ScanPost
  BY ScanAt DEF WriteTimeIn, ScanOK
<1>2. OversOK'
  BY OversUnchanged DEF WriteTimeIn
<1>3. ASSUME NEW reply \in {"error", "already_scanned"}, Answer(r, reply), UNCHANGED attendances
      PROVE  TypeOK'
  <2>1. ScansOK'
    BY <1>1, <1>3, AnswerTyped DEF Replies
  <2>2. TablesOK'
    BY <1>3 DEF WriteTimeIn, TablesOK, tables
  <2> QED
    BY <1>2, <2>1, <2>2
<1>4. ASSUME attendances' = attendances \cup {row}, scans' = [scans EXCEPT ![r] = scan]
      PROVE  TypeOK'
  <2>1. ScanOK(scan)
    BY <1>1 DEF ScanOK, ScanState, Steps, Replies
  <2>2. row \in AttendanceRow
    BY <1>1 DEF ScanPost, AttendanceRow, TablesOK, OptionalTime
  <2> HIDE DEF scan, row
  <2>3. ScansOK'
    BY <2>1, <1>4, ScanUpdate
  <2>4. TablesOK'
    BY <2>2, <1>4 DEF WriteTimeIn, TablesOK, tables
  <2> QED
    BY <1>2, <2>3, <2>4
<1> QED
  BY <1>3, <1>4 DEF WriteTimeIn

LEMMA WriteTimeOutTyped ==
    ASSUME TypeOK, NEW r \in ScanReqs, WriteTimeOut(r)
    PROVE  TypeOK'
<1> USE DEF TypeOK
<1> DEFINE at   == scans[r].post.scannedAt
           open == OpenRows(scans[r])
           scan == [scans[r] EXCEPT !.pc = "audit", !.reply = "time_out"]
<1>1. scans[r].pc = "write" /\ ScanOK(scans[r]) /\ at \in Int
  BY ScanAt DEF WriteTimeOut, ScanOK, ScanPost
<1>2. OversOK'
  BY OversUnchanged DEF WriteTimeOut
<1>3. CASE Answer(r, "time_out") /\ UNCHANGED attendances
  <2>1. ScansOK'
    BY <1>1, <1>3, AnswerTyped DEF Replies
  <2>2. TablesOK'
    BY <1>3 DEF WriteTimeOut, TablesOK, tables
  <2> QED
    BY <1>2, <2>1, <2>2
<1>4. CASE /\ attendances' = (attendances \ open)
                                \cup {[row EXCEPT !.timeOutAt = at] : row \in open}
           /\ scans' = [scans EXCEPT ![r] = scan]
  <2>1. ScanOK(scan)
    BY <1>1 DEF ScanOK, ScanState, Steps, Replies
  <2>2. \A row \in open : [row EXCEPT !.timeOutAt = at] \in AttendanceRow
    BY <1>1 DEF OpenRows, RowsOf, TablesOK, AttendanceRow, OptionalTime
  <2> HIDE DEF scan, open, at
  <2>3. ScansOK'
    BY <2>1, <1>4, ScanUpdate
  <2>4. attendances' \subseteq AttendanceRow
    BY <2>2, <1>4 DEF TablesOK
  <2>5. TablesOK'
    BY <2>4 DEF WriteTimeOut, TablesOK, tables
  <2> QED
    BY <1>2, <2>3, <2>5
<1> QED
  BY <1>3, <1>4 DEF WriteTimeOut

LEMMA AuditScanTyped ==
    ASSUME TypeOK, NEW r \in ScanReqs, AuditScan(r)
    PROVE  TypeOK'
<1> USE DEF TypeOK
<1>1. scans[r].pc = "audit" /\ scans[r].post \in ScanPost /\ scans[r].reply \in Replies
  BY ScanAt DEF AuditScan, ScanOK, ScanState
<1>2. ScansOK'
  BY <1>1, AnswerTyped DEF AuditScan
<1>3. OversOK'
  BY OversUnchanged DEF AuditScan
<1>4. TablesOK'
  BY <1>1 DEF AuditScan, Log, AuditRow, ScanPost, TablesOK, tables
<1> QED
  BY <1>2, <1>3, <1>4

-----------------------------------------------------------------------------
(* The same for the override handler. *)

OverOK(over) ==
    /\ over \in OverState
    /\ over.pc # "idle" => over.cert \in OverrideCert
    /\ over.pc \in {"verify", "check", "write", "insert", "update"} =>
           over.event \in EventRow

LEMMA OverUpdate ==
    ASSUME OversOK, NEW r \in OverrideReqs, NEW over, OverOK(over),
           overs' = [overs EXCEPT ![r] = over]
    PROVE  OversOK'
BY DEF OversOK, OverOK

LEMMA OverAt ==
    ASSUME OversOK, NEW r \in OverrideReqs
    PROVE  OverOK(overs[r])
BY DEF OversOK, OverOK

LEMMA AnswerOverrideTyped ==
    ASSUME OversOK, NEW r \in OverrideReqs, overs[r].pc # "idle",
           NEW reply \in Replies, AnswerOverride(r, reply)
    PROVE  OversOK'
<1> DEFINE over == [overs[r] EXCEPT !.pc = "done", !.reply = reply, !.event = None]
<1>1. OverOK(over)
  BY OverAt DEF OverOK, OverState
<1>2. overs' = [overs EXCEPT ![r] = over]
  BY DEF AnswerOverride
<1> HIDE DEF over
<1> QED
  BY <1>1, <1>2, OverUpdate

LEMMA AdvanceOverrideTyped ==
    ASSUME OversOK, NEW r \in OverrideReqs, overs[r].pc \in {"verify", "check", "write"},
           NEW pc \in {"check", "write", "insert", "update"}, AdvanceOverride(r, pc)
    PROVE  OversOK'
<1> DEFINE over == [overs[r] EXCEPT !.pc = pc]
<1>1. OverOK(over)
  BY OverAt DEF OverOK, OverState, Steps
<1>2. overs' = [overs EXCEPT ![r] = over]
  BY DEF AdvanceOverride
<1> HIDE DEF over
<1> QED
  BY <1>1, <1>2, OverUpdate

LEMMA OverrideReadsTyped ==
    ASSUME TypeOK, NEW r \in OverrideReqs,
           \/ SendOverride(r) \/ FindOverrideEvent(r) \/ VerifySigner(r)
           \/ CheckOverride(r) \/ FindRow(r)
    PROVE  TypeOK'
<1> USE DEF TypeOK
<1>1. OverOK(overs[r])
  BY OverAt
<1>2. CASE SendOverride(r)
  <2>1. PICK actor \in Staff,
             cert \in [signer : Staff, student : Students, event : Events,
                       createdAt : ClientTimes]
                   \cup {overs[q].cert : q \in {p \in OverrideReqs : overs[p].pc # "idle"}} :
           overs' = [overs EXCEPT ![r] = [@ EXCEPT !.pc = "event", !.cert = cert,
                                                   !.actor = actor]]
    BY <1>2 DEF SendOverride
  <2>2. cert \in OverrideCert
    <3>1. CASE cert \in [signer : Staff, student : Students, event : Events,
                         createdAt : ClientTimes]
      BY <3>1, AttendanceAssumption DEF OverrideCert, ClientTimes, TablesOK
    <3>2. CASE \E q \in OverrideReqs : overs[q].pc # "idle" /\ cert = overs[q].cert
      BY <3>2 DEF OversOK
    <3> QED
      BY <2>1, <3>1, <3>2
  <2> DEFINE over == [overs[r] EXCEPT !.pc = "event", !.cert = cert, !.actor = actor]
  <2>3. OverOK(over)
    BY <1>1, <2>2 DEF OverOK, OverState, Steps
  <2>4. overs' = [overs EXCEPT ![r] = over]
    BY <2>1
  <2> HIDE DEF over
  <2> QED
    BY <2>3, <2>4, <1>2, OverUpdate, OnlyOversTyped DEF SendOverride
<1>3. CASE FindOverrideEvent(r)
  <2> DEFINE ev == events[overs[r].cert.event]
             over == [overs[r] EXCEPT !.pc = "verify", !.event = ev]
  <2>1. overs[r].pc = "event" /\ overs[r].cert \in OverrideCert
    BY <1>1, <1>3 DEF FindOverrideEvent, OverOK
  <2>2. ev \in EventRow \cup {None}
    BY <2>1 DEF TablesOK, OverrideCert
  <2>3. ASSUME NEW reply \in {"not_found", "rejected"}, AnswerOverride(r, reply)
        PROVE  TypeOK'
    BY <2>1, <2>3, <1>3, AnswerOverrideTyped, OnlyOversTyped DEF FindOverrideEvent, Replies
  <2>4. ASSUME ev # None, overs' = [overs EXCEPT ![r] = over]
        PROVE  TypeOK'
    <3>1. ev \in EventRow
      BY <2>2, <2>4
    <3> HIDE DEF ev
    <3>2. OverOK(over)
      BY <1>1, <2>1, <3>1 DEF OverOK, OverState, Steps
    <3> HIDE DEF over
    <3> QED
      BY <3>2, <2>4, <1>3, OverUpdate, OnlyOversTyped DEF FindOverrideEvent
  <2> QED
    BY <1>3, <2>3, <2>4 DEF FindOverrideEvent
<1>4. CASE VerifySigner(r)
  BY <1>4, AnswerOverrideTyped, AdvanceOverrideTyped, OnlyOversTyped
     DEF VerifySigner, Replies
<1>5. CASE CheckOverride(r)
  BY <1>5, AnswerOverrideTyped, AdvanceOverrideTyped, OnlyOversTyped
     DEF CheckOverride, Replies
<1>6. CASE FindRow(r)
  BY <1>6, AdvanceOverrideTyped, OnlyOversTyped DEF FindRow
<1> QED
  BY <1>2, <1>3, <1>4, <1>5, <1>6

(* The upsert puts rows of the right shape in the table. *)
LEMMA UpsertTyped ==
    ASSUME TablesOK, NEW r \in OverrideReqs, NEW cert \in OverrideCert
    PROVE  Upserted(r, cert) \subseteq AttendanceRow
<1>1. [event |-> cert.event, student |-> cert.student, source |-> "override",
       key |-> r, scannedAt |-> now, clientAt |-> cert.createdAt,
       timeOutAt |-> NoTime] \in AttendanceRow
  BY DEF OverrideCert, AttendanceRow, TablesOK, OptionalTime
<1>2. \A row \in RowsOf(cert.event, cert.student) : Attested(row, cert) \in AttendanceRow
  BY DEF RowsOf, Attested, TablesOK, AttendanceRow, OverrideCert
<1> QED
  BY <1>1, <1>2 DEF Upserted, TablesOK

LEMMA WriteOverrideTyped ==
    ASSUME TypeOK, NEW r \in OverrideReqs, WriteOverride(r)
    PROVE  TypeOK'
<1> USE DEF TypeOK
<1> DEFINE cert == overs[r].cert
           over == [overs[r] EXCEPT !.pc = "audit", !.reply = "created"]
<1>1. /\ overs[r].pc \in {"insert", "update"}
      /\ OverOK(overs[r]) /\ cert \in OverrideCert
  BY OverAt DEF WriteOverride, OverOK
<1>2. ScansOK'
  BY ScansUnchanged DEF WriteOverride
<1>3. ASSUME NEW reply \in {"rejected", "conflict"}, AnswerOverride(r, reply),
             UNCHANGED <<attendances, overrides>>
      PROVE  TypeOK'
  <2>1. OversOK'
    BY <1>1, <1>3, AnswerOverrideTyped DEF Replies
  <2>2. TablesOK'
    BY <1>3 DEF WriteOverride, TablesOK, tables
  <2> QED
    BY <1>2, <2>1, <2>2
<1>4. CASE /\ overrides' = overrides \cup {[event |-> cert.event, student |-> cert.student]}
           /\ attendances' = Upserted(r, cert)
           /\ overs' = [overs EXCEPT ![r] = over]
  <2>1. OverOK(over)
    BY <1>1 DEF OverOK, OverState, Steps, Replies
  <2>2. overrides' \subseteq OverrideRow
    BY <1>1, <1>4 DEF OverrideCert, OverrideRow, TablesOK
  <2>3. attendances' \subseteq AttendanceRow
    BY <1>1, <1>4, UpsertTyped
  <2> HIDE DEF over
  <2>4. OversOK'
    BY <2>1, <1>4, OverUpdate
  <2>5. TablesOK'
    BY <2>2, <2>3 DEF WriteOverride, TablesOK, tables
  <2> QED
    BY <1>2, <2>4, <2>5
<1> QED
  BY <1>3, <1>4 DEF WriteOverride

LEMMA AuditOverrideTyped ==
    ASSUME TypeOK, NEW r \in OverrideReqs, AuditOverride(r)
    PROVE  TypeOK'
<1> USE DEF TypeOK
<1>1. overs[r].pc = "audit" /\ overs[r].cert \in OverrideCert
  BY OverAt DEF AuditOverride, OverOK
<1>2. OversOK'
  BY <1>1, AnswerOverrideTyped DEF AuditOverride, Replies
<1>3. ScansOK'
  BY ScansUnchanged DEF AuditOverride
<1>4. TablesOK'
  BY <1>1 DEF AuditOverride, Log, AuditRow, OverrideCert, TablesOK, tables
<1> QED
  BY <1>2, <1>3, <1>4

-----------------------------------------------------------------------------
(* What goes on around the handlers changes tables only. *)

LEMMA EnvironmentTyped ==
    ASSUME TypeOK, Environment
    PROVE  TypeOK'
<1> USE DEF TypeOK
<1>1. UNCHANGED <<scans, overs>>
  BY DEF Environment, PatchEvent, CancelEvent, HardDeleteEvent, SetAccountStatus,
         DeleteAccount, ChangeClass, Unlist, RevokeDevice, Tick
<1>2. ScansOK' /\ OversOK'
  BY <1>1, ScansUnchanged, OversUnchanged
<1>3. ASSUME NEW e \in Events, PatchEvent(e)
      PROVE  TablesOK'
  <2>1. PICK times \in Schedules, target \in Targets :
           /\ events' = [events EXCEPT ![e] = [@ EXCEPT !.times = times,
                                                        !.target = target]]
           /\ versions' = [versions EXCEPT ![e] = @ \cup {times}]
    BY <1>3 DEF PatchEvent
  <2>2. events[e] \in EventRow
    BY <1>3 DEF PatchEvent, TablesOK
  <2>3. [events[e] EXCEPT !.times = times, !.target = target] \in EventRow
    BY <2>2, AttendanceAssumption DEF EventRow
  <2>4. events' \in [Events -> EventRow \cup {None}]
    BY <2>1, <2>3 DEF TablesOK
  <2>5. versions' \in [Events -> SUBSET Schedules]
    BY <2>1 DEF TablesOK
  <2> QED
    BY <1>3, <2>4, <2>5 DEF PatchEvent, Edit, TablesOK
<1>4. ASSUME NEW e \in Events, CancelEvent(e)
      PROVE  TablesOK'
  <2>1. [events[e] EXCEPT !.status = "cancelled"] \in EventRow
    BY <1>4 DEF CancelEvent, TablesOK, EventRow
  <2>2. events' \in [Events -> EventRow \cup {None}]
    BY <1>4, <2>1 DEF CancelEvent, TablesOK
  <2> QED
    BY <1>4, <2>2 DEF CancelEvent, Edit, TablesOK
<1>5. ASSUME NEW e \in Events, HardDeleteEvent(e)
      PROVE  TablesOK'
  BY <1>5 DEF HardDeleteEvent, Edit, TablesOK
<1>6. ASSUME NEW s \in Students, SetAccountStatus(s)
      PROVE  TablesOK'
  <2>1. PICK status \in {"active", "deactivated"} :
           accounts' = [accounts EXCEPT ![s] = [@ EXCEPT !.status = status]]
    BY <1>6 DEF SetAccountStatus
  <2>2. accounts' \in [Students -> AccountRow]
    BY <2>1 DEF TablesOK, AccountRow
  <2> QED
    BY <1>6, <2>2 DEF SetAccountStatus, Edit, TablesOK
<1>7. ASSUME NEW s \in Students, DeleteAccount(s)
      PROVE  TablesOK'
  <2>1. accounts' \in [Students -> AccountRow]
    BY <1>7 DEF DeleteAccount, TablesOK, AccountRow
  <2>2. devices' \in [Students \cup Staff -> {"active", "unusable"}]
    BY <1>7 DEF DeleteAccount, TablesOK
  <2> QED
    BY <1>7, <2>1, <2>2 DEF DeleteAccount, Edit, TablesOK
<1>8. ASSUME NEW s \in Students, ChangeClass(s)
      PROVE  TablesOK'
  <2>1. accounts' \in [Students -> AccountRow]
    BY <1>8 DEF ChangeClass, TablesOK, AccountRow
  <2> QED
    BY <1>8, <2>1 DEF ChangeClass, Edit, TablesOK
<1>9. ASSUME NEW s \in Students, Unlist(s)
      PROVE  TablesOK'
  BY <1>9 DEF Unlist, Edit, TablesOK
<1>10. ASSUME NEW p \in Students \cup Staff, RevokeDevice(p)
       PROVE  TablesOK'
  BY <1>10 DEF RevokeDevice, Edit, TablesOK
<1>11. ASSUME Tick PROVE TablesOK'
  BY <1>11 DEF Tick, TablesOK, tables
<1> QED
  BY <1>2, <1>3, <1>4, <1>5, <1>6, <1>7, <1>8, <1>9, <1>10, <1>11 DEF Environment

LEMMA InitTyped == Init => TypeOK
<1> SUFFICES ASSUME Init PROVE TypeOK
  OBVIOUS
<1>1. TablesOK
  <2>1. PICK o \in Staff, times \in Schedules :
           events = [e \in Events |-> [status |-> "active", owner |-> o,
                                       target |-> OpenToAll, times |-> times]]
    BY DEF Init
  <2>2. PICK c \in Classes :
           /\ accounts = [s \in Students |-> [status |-> "active", class |-> c]]
           /\ listed = [s \in Students |-> c]
    BY DEF Init
  <2>3. events \in [Events -> EventRow \cup {None}]
    BY <2>1, AttendanceAssumption DEF EventRow
  <2>4. \A e \in Events : events[e].times \in Schedules
    BY <2>1
  <2>5. versions \in [Events -> SUBSET Schedules]
    BY <2>4 DEF Init
  <2>6. accounts \in [Students -> AccountRow] /\ listed \in [Students -> Classes \cup {Unlisted}]
    BY <2>2 DEF AccountRow
  <2> QED
    BY <2>3, <2>5, <2>6 DEF Init, TablesOK
<1>2. ScansOK
  BY DEF Init, ScansOK, ScanState, Replies
<1>3. OversOK
  BY DEF Init, OversOK, OverState, Replies
<1> QED
  BY <1>1, <1>2, <1>3 DEF TypeOK

(* Every step of the system keeps the types. *)
LEMMA NextTyped == TypeOK /\ [Next]_vars => TypeOK'
<1> SUFFICES ASSUME TypeOK, [Next]_vars PROVE TypeOK'
  OBVIOUS
<1>1. ASSUME NEW r \in ScanReqs, ScanStep(r) PROVE TypeOK'
  BY <1>1, ScanReadsTyped, WriteTimeInTyped, WriteTimeOutTyped, AuditScanTyped DEF ScanStep
<1>2. ASSUME NEW r \in OverrideReqs, OverrideStep(r) PROVE TypeOK'
  BY <1>2, OverrideReadsTyped, WriteOverrideTyped, AuditOverrideTyped DEF OverrideStep
<1>3. CASE Environment
  BY <1>3, EnvironmentTyped
<1>4. CASE UNCHANGED vars
  BY <1>4 DEF vars, tables, TypeOK, TablesOK, ScansOK, OversOK
<1> QED
  BY <1>1, <1>2, <1>3, <1>4 DEF Next

(* The tables and the handlers stay well formed, whatever the number of    *)
(* requests and the interleaving of their database calls.                  *)
THEOREM TypeCorrect == Spec => []TypeOK
BY InitTyped, NextTyped, PTL DEF Spec

-----------------------------------------------------------------------------
(***************************************************************************)
(* The safety theorems of Attendance.  Of all the steps only three write   *)
(* attendance rows (a check-in, a time-out, an override) and two delete    *)
(* them; the lemma StepKinds says so once, and each theorem looks at those *)
(* five and at the quiet rest.                                             *)
(***************************************************************************)

SamePair(row, other) == row.event = other.event /\ row.student = other.student

(* An account that is deleted is never anything else again. *)
DeletedStays ==
    \A s \in Students : accounts[s].status = "deleted" => accounts'[s].status = "deleted"

(* A step that writes no attendance and enters no override. *)
Quiet == attendances' = attendances /\ overrides' \subseteq overrides /\ DeletedStays

Inserts(r) ==
    /\ RowsOf(scans[r].post.event, scans[r].post.student) = {}
    /\ \E row \in AttendanceRow :
          /\ SamePair(row, scans[r].post)
          /\ attendances' = attendances \cup {row}
    /\ UNCHANGED <<overrides, accounts>>

TimedOut(row, t) == [row EXCEPT !.timeOutAt = t]

TimesOut(r) ==
    /\ attendances' = (attendances \ OpenRows(scans[r]))
                        \cup {TimedOut(row, scans[r].post.scannedAt) : row \in OpenRows(scans[r])}
    /\ UNCHANGED <<overrides, accounts>>

Overrides(r) ==
    /\ overs[r].cert \in OverrideCert
    /\ overrides' = overrides \cup
          {[event |-> overs[r].cert.event, student |-> overs[r].cert.student]}
    /\ attendances' = Upserted(r, overs[r].cert)
    /\ UNCHANGED accounts

LEMMA ScanStepKinds ==
    ASSUME TypeOK, NEW r \in ScanReqs, ScanStep(r)
    PROVE  Quiet \/ Inserts(r) \/ TimesOut(r)
<1>1. CASE \/ SendScan(r) \/ FindExisting(r) \/ FindEvent(r) \/ VerifyDevice(r)
           \/ CheckScan(r) \/ AuditScan(r)
  BY <1>1 DEF SendScan, FindExisting, FindEvent, VerifyDevice, CheckScan, AuditScan,
              OnlyScans, tables, Quiet, DeletedStays
<1>2. CASE WriteTimeIn(r)
  <2> DEFINE cert == scans[r].post
             row  == [event |-> cert.event, student |-> cert.student,
                      source |-> "qr", key |-> cert.nonce, scannedAt |-> now,
                      clientAt |-> cert.scannedAt, timeOutAt |-> NoTime]
  <2>1. scans[r].pc = "write" /\ cert \in ScanPost
    BY <1>2, ScanAt DEF WriteTimeIn, TypeOK, ScanOK
  <2>2. row \in AttendanceRow
    BY <2>1 DEF ScanPost, AttendanceRow, OptionalTime, TypeOK, TablesOK
  <2>3. SamePair(row, cert)
    BY DEF SamePair
  <2>4. UNCHANGED <<overrides, accounts>>
    BY <1>2 DEF WriteTimeIn, tables
  <2>5. \/ attendances' = attendances
        \/ /\ ~IsDuplicate(cert)
           /\ attendances' = attendances \cup {row}
    BY <1>2 DEF WriteTimeIn
  <2> HIDE DEF row
  <2> QED
    BY <2>2, <2>3, <2>4, <2>5 DEF Quiet, DeletedStays, Inserts, IsDuplicate
<1>3. CASE WriteTimeOut(r)
  BY <1>3 DEF WriteTimeOut, TimesOut, TimedOut, Quiet, DeletedStays, tables
<1> QED
  BY <1>1, <1>2, <1>3 DEF ScanStep

LEMMA OverrideStepKinds ==
    ASSUME TypeOK, NEW r \in OverrideReqs, OverrideStep(r)
    PROVE  Quiet \/ Overrides(r)
<1>1. CASE \/ SendOverride(r) \/ FindOverrideEvent(r) \/ VerifySigner(r)
           \/ CheckOverride(r) \/ FindRow(r) \/ AuditOverride(r)
  BY <1>1 DEF SendOverride, FindOverrideEvent, VerifySigner, CheckOverride, FindRow,
              AuditOverride, OnlyOvers, tables, Quiet, DeletedStays
<1>2. CASE WriteOverride(r)
  <2>1. overs[r].cert \in OverrideCert
    BY <1>2, OverAt DEF WriteOverride, TypeOK, OverOK
  <2> QED
    BY <1>2, <2>1 DEF WriteOverride, Overrides, Quiet, DeletedStays, tables
<1> QED
  BY <1>1, <1>2 DEF OverrideStep

LEMMA EnvironmentKinds ==
    ASSUME TypeOK, Environment
    PROVE  \/ Quiet
           \/ \E e \in Events : HardDeleteEvent(e)
           \/ \E s \in Students : DeleteAccount(s)
<1>1. ASSUME NEW e \in Events, PatchEvent(e) \/ CancelEvent(e) PROVE Quiet
  BY <1>1 DEF PatchEvent, CancelEvent, Quiet, DeletedStays
<1>2. ASSUME NEW s \in Students, SetAccountStatus(s) \/ ChangeClass(s) PROVE Quiet
  BY <1>2 DEF SetAccountStatus, ChangeClass, Quiet, DeletedStays, TypeOK, TablesOK,
              AccountRow
<1>3. ASSUME NEW s \in Students, Unlist(s) PROVE Quiet
  BY <1>3 DEF Unlist, Quiet, DeletedStays
<1>4. ASSUME NEW p \in Students \cup Staff, RevokeDevice(p) PROVE Quiet
  BY <1>4 DEF RevokeDevice, Quiet, DeletedStays
<1>5. ASSUME Tick PROVE Quiet
  BY <1>5 DEF Tick, Quiet, DeletedStays, tables
<1> QED
  BY <1>1, <1>2, <1>3, <1>4, <1>5 DEF Environment

LEMMA StepKinds ==
    ASSUME TypeOK, [Next]_vars
    PROVE  \/ Quiet
           \/ \E r \in ScanReqs : Inserts(r) \/ TimesOut(r)
           \/ \E r \in OverrideReqs : Overrides(r)
           \/ \E e \in Events : HardDeleteEvent(e)
           \/ \E s \in Students : DeleteAccount(s)
<1>1. CASE UNCHANGED vars
  BY <1>1 DEF vars, tables, Quiet, DeletedStays
<1> QED
  BY <1>1, ScanStepKinds, OverrideStepKinds, EnvironmentKinds DEF Next

-----------------------------------------------------------------------------
(* What the three writes do to one row. *)

LEMMA TimedOutRow ==
    ASSUME NEW row \in AttendanceRow, NEW t
    PROVE  /\ SamePair(TimedOut(row, t), row)
           /\ TimedOut(row, t).source = row.source
           /\ TimedOut(row, t).timeOutAt = t
BY DEF TimedOut, SamePair, AttendanceRow

LEMMA AttestedRow ==
    ASSUME NEW row \in AttendanceRow, NEW cert
    PROVE  /\ SamePair(Attested(row, cert), row)
           /\ Attested(row, cert).source = "override"
           /\ Attested(row, cert).timeOutAt = row.timeOutAt
BY DEF Attested, SamePair, AttendanceRow

(* After an override, the rows of other pairs are what they were, and the  *)
(* pair has rows that are overrides, each with the time-out of the one it  *)
(* comes from.                                                             *)
LEMMA UpsertedRows ==
    ASSUME attendances \subseteq AttendanceRow, NEW r, NEW cert \in OverrideCert
    PROVE  /\ \A row \in Upserted(r, cert) :
                \/ row \in attendances /\ ~SamePair(row, cert)
                \/ SamePair(row, cert) /\ row.source = "override"
           /\ \A row \in attendances : ~SamePair(row, cert) => row \in Upserted(r, cert)
           /\ \E row \in Upserted(r, cert) : SamePair(row, cert)
<1> DEFINE rows == RowsOf(cert.event, cert.student)
           new  == [event |-> cert.event, student |-> cert.student,
                    source |-> "override", key |-> r, scannedAt |-> now,
                    clientAt |-> cert.createdAt, timeOutAt |-> NoTime]
<1>1. \A row \in attendances : row \in rows <=> SamePair(row, cert)
  BY DEF RowsOf, SamePair
<1>2. CASE rows = {}
  <2>1. Upserted(r, cert) = attendances \cup {new}
    BY <1>2 DEF Upserted
  <2>2. SamePair(new, cert) /\ new.source = "override"
    BY DEF SamePair
  <2> HIDE DEF rows, new
  <2> QED
    BY <1>1, <1>2, <2>1, <2>2
<1>3. CASE rows # {}
  <2>1. Upserted(r, cert) = (attendances \ rows) \cup {Attested(row, cert) : row \in rows}
    BY <1>3 DEF Upserted
  <2>2. \A row \in rows : /\ SamePair(Attested(row, cert), cert)
                          /\ Attested(row, cert).source = "override"
    BY <1>1, AttestedRow DEF RowsOf, SamePair
  <2> HIDE DEF rows
  <2> QED
    BY <1>1, <1>3, <2>1, <2>2
<1> QED
  BY <1>2, <1>3

-----------------------------------------------------------------------------
(* One attempt per student and event. *)

LEMMA InsertKeepsUnique ==
    ASSUME UniqueAttendance, NEW r \in ScanReqs, Inserts(r)
    PROVE  UniqueAttendance'
<1> DEFINE cert == scans[r].post
<1>1. PICK new \in AttendanceRow : /\ SamePair(new, cert)
                                   /\ attendances' = attendances \cup {new}
  BY DEF Inserts
<1>2. \A row \in attendances : ~SamePair(row, new)
  BY <1>1 DEF Inserts, RowsOf, SamePair
<1> QED
  BY <1>1, <1>2 DEF UniqueAttendance, SamePair

LEMMA TimeOutKeepsUnique ==
    ASSUME TypeOK, UniqueAttendance, NEW r \in ScanReqs, TimesOut(r)
    PROVE  UniqueAttendance'
<1> DEFINE t    == scans[r].post.scannedAt
           open == OpenRows(scans[r])
<1>1. attendances \subseteq AttendanceRow /\ open \subseteq attendances
  BY DEF TypeOK, TablesOK, OpenRows, RowsOf
<1>2. \A row \in open : SamePair(TimedOut(row, t), row)
  BY <1>1, TimedOutRow
<1>3. \A row \in attendances' :
         \/ row \in attendances \ open
         \/ \E from \in open : row = TimedOut(from, t)
  BY DEF TimesOut
<1> HIDE DEF open, t
<1> SUFFICES ASSUME NEW row \in attendances', NEW other \in attendances',
                    SamePair(row, other)
             PROVE  row = other
  BY DEF UniqueAttendance, SamePair
<1>4. PICK from \in attendances : /\ SamePair(row, from)
                                  /\ row = IF from \in open THEN TimedOut(from, t) ELSE from
  BY <1>1, <1>2, <1>3 DEF SamePair
<1>5. PICK source \in attendances : /\ SamePair(other, source)
                                    /\ other = IF source \in open THEN TimedOut(source, t) ELSE source
  BY <1>1, <1>2, <1>3 DEF SamePair
<1>6. from = source
  BY <1>4, <1>5 DEF UniqueAttendance, SamePair
<1> QED
  BY <1>4, <1>5, <1>6

LEMMA OverrideKeepsUnique ==
    ASSUME TypeOK, UniqueAttendance, NEW r \in OverrideReqs, Overrides(r)
    PROVE  UniqueAttendance'
<1> DEFINE cert == overs[r].cert
           rows == RowsOf(cert.event, cert.student)
<1>1. \A row \in attendances' :
         \/ row \in attendances /\ ~SamePair(row, cert)
         \/ SamePair(row, cert)
  BY UpsertedRows DEF Overrides, TypeOK, TablesOK
<1>2. ASSUME NEW row \in attendances', NEW other \in attendances',
             SamePair(row, cert), SamePair(other, cert)
      PROVE  row = other
  <2>1. rows = {} \/ \E one \in attendances : rows = {one}
    BY DEF UniqueAttendance, RowsOf
  <2>2. \A any \in attendances : SamePair(any, cert) <=> any \in rows
    BY DEF RowsOf, SamePair
  <2>3. attendances' = Upserted(r, cert)
    BY DEF Overrides
  <2>4. \E one : \A any \in attendances' : SamePair(any, cert) => any = one
    BY <2>1, <2>2, <2>3 DEF Upserted
  <2> QED
    BY <1>2, <2>4
<1> QED
  BY <1>1, <1>2 DEF UniqueAttendance, SamePair

LEMMA UniqueKept ==
    ASSUME TypeOK, UniqueAttendance, [Next]_vars
    PROVE  UniqueAttendance'
<1>1. CASE attendances' \subseteq attendances
  BY <1>1 DEF UniqueAttendance
<1>2. ASSUME Quiet \/ (\E e \in Events : HardDeleteEvent(e))
                   \/ (\E s \in Students : DeleteAccount(s))
      PROVE  attendances' \subseteq attendances
  BY <1>2 DEF Quiet, HardDeleteEvent, DeleteAccount
<1> QED
  BY <1>1, <1>2, StepKinds, InsertKeepsUnique, TimeOutKeepsUnique, OverrideKeepsUnique

(* However many scans, retries and overrides of one student for one event  *)
(* overlap, the event has at most one attendance row of that student.      *)
THEOREM OneAttempt == Spec => []UniqueAttendance
<1>1. Init => UniqueAttendance
  BY DEF Init, UniqueAttendance
<1>2. TypeOK /\ UniqueAttendance /\ [Next]_vars => UniqueAttendance'
  BY UniqueKept
<1> QED
  BY <1>1, <1>2, TypeCorrect, PTL DEF Spec

-----------------------------------------------------------------------------
(* An override marks the attendance row. *)

MarkedFor(o) == \E row \in attendances : SamePair(row, o) /\ row.source = "override"

LEMMA MarkedRows ==
    OverridesAreMarked <=> \A o \in overrides : accounts[o.student].status # "deleted" => MarkedFor(o)
BY DEF OverridesAreMarked, MarkedFor, RowsOf, SamePair

LEMMA MarkedKept ==
    ASSUME TypeOK, OverridesAreMarked, [Next]_vars
    PROVE  OverridesAreMarked'
<1> SUFFICES ASSUME NEW o \in overrides', accounts'[o.student].status # "deleted"
             PROVE  \E row \in attendances' : SamePair(row, o) /\ row.source = "override"
  BY DEF OverridesAreMarked, RowsOf, SamePair
<1>1. attendances \subseteq AttendanceRow /\ overrides \subseteq OverrideRow
  BY DEF TypeOK, TablesOK
<1>2. CASE Quiet
  BY <1>1, <1>2, MarkedRows DEF Quiet, DeletedStays, OverrideRow, MarkedFor
<1>3. ASSUME NEW r \in ScanReqs, Inserts(r) PROVE MarkedFor(o)'
  BY <1>3, MarkedRows DEF Inserts, MarkedFor
<1>4. ASSUME NEW r \in ScanReqs, TimesOut(r) PROVE MarkedFor(o)'
  <2> DEFINE t == scans[r].post.scannedAt
  <2>1. PICK row \in attendances : SamePair(row, o) /\ row.source = "override"
    BY <1>4, MarkedRows DEF TimesOut, MarkedFor
  <2>2. /\ SamePair(TimedOut(row, t), o)
        /\ TimedOut(row, t).source = "override"
    BY <1>1, <2>1, TimedOutRow DEF SamePair
  <2>3. row \in attendances' \/ TimedOut(row, t) \in attendances'
    BY <1>4, <2>1 DEF TimesOut
  <2> QED
    BY <2>1, <2>2, <2>3 DEF MarkedFor
<1>5. ASSUME NEW r \in OverrideReqs, Overrides(r) PROVE MarkedFor(o)'
  <2> DEFINE cert == overs[r].cert
  <2>1. /\ cert \in OverrideCert
        /\ attendances' = Upserted(r, cert)
        /\ UNCHANGED accounts
        /\ o \in overrides \/ SamePair(o, cert)
    BY <1>5 DEF Overrides, SamePair
  <2> HIDE DEF cert
  <2>2. CASE SamePair(o, cert)
    <3>1. PICK row \in attendances' : SamePair(row, cert)
      BY <1>1, <2>1, UpsertedRows
    <3>2. row.source = "override"
      BY <1>1, <2>1, <3>1, UpsertedRows
    <3> QED
      BY <2>2, <3>1, <3>2 DEF MarkedFor, SamePair
  <2>3. CASE ~SamePair(o, cert)
    <3>1. PICK row \in attendances : SamePair(row, o) /\ row.source = "override"
      BY <2>1, <2>3, MarkedRows DEF MarkedFor
    <3>2. row \in attendances'
      BY <1>1, <2>1, <2>3, <3>1, UpsertedRows DEF SamePair
    <3> QED
      BY <3>1, <3>2 DEF MarkedFor
  <2> QED
    BY <2>2, <2>3
<1>6. ASSUME NEW e \in Events, HardDeleteEvent(e) PROVE MarkedFor(o)'
  BY <1>6, MarkedRows DEF HardDeleteEvent, MarkedFor, SamePair
<1>7. ASSUME NEW s \in Students, DeleteAccount(s) PROVE MarkedFor(o)'
  <2>1. o \in overrides /\ o.student \in Students
    BY <1>1, <1>7 DEF DeleteAccount, OverrideRow
  <2>2. o.student # s /\ accounts[o.student].status # "deleted"
    BY <1>7, <2>1 DEF DeleteAccount, TypeOK, TablesOK, AccountRow
  <2> QED
    BY <1>7, <2>1, <2>2, MarkedRows DEF DeleteAccount, MarkedFor, SamePair
<1> QED
  BY <1>2, <1>3, <1>4, <1>5, <1>6, <1>7, StepKinds DEF MarkedFor

(* Where an organizer's override stands, the student's attendance row is   *)
(* there and marked as an override, whatever scans raced with it.          *)
THEOREM OverridesStayMarked == Spec => []OverridesAreMarked
<1>1. Init => OverridesAreMarked
  BY DEF Init, OverridesAreMarked
<1>2. TypeOK /\ OverridesAreMarked /\ [Next]_vars => OverridesAreMarked'
  BY MarkedKept
<1> QED
  BY <1>1, <1>2, TypeCorrect, PTL DEF Spec

-----------------------------------------------------------------------------
(* A recorded time-out is final. *)

FinalTimeOuts ==
    \A row \in attendances :
        Given(row.timeOutAt) =>
          \A next \in attendances' :
              next.event = row.event /\ next.student = row.student =>
                  next.timeOutAt = row.timeOutAt

LEMMA TimeOutKept ==
    ASSUME TypeOK, UniqueAttendance, [Next]_vars
    PROVE  FinalTimeOuts
<1> SUFFICES ASSUME NEW row \in attendances, Given(row.timeOutAt),
                    NEW next \in attendances', SamePair(next, row)
             PROVE  next.timeOutAt = row.timeOutAt
  BY DEF FinalTimeOuts, SamePair
<1>1. attendances \subseteq AttendanceRow
  BY DEF TypeOK, TablesOK
<1>2. CASE next \in attendances
  BY <1>2 DEF UniqueAttendance, SamePair
<1>3. ASSUME NEW r \in ScanReqs, Inserts(r) PROVE next \in attendances
  BY <1>3 DEF Inserts, RowsOf, SamePair
<1>4. ASSUME NEW r \in ScanReqs, TimesOut(r), next \notin attendances PROVE FALSE
  <2>1. PICK from \in OpenRows(scans[r]) : next = TimedOut(from, scans[r].post.scannedAt)
    BY <1>4 DEF TimesOut
  <2>2. from \in attendances /\ ~Given(from.timeOutAt)
    BY <2>1 DEF OpenRows, RowsOf
  <2>3. SamePair(from, row)
    BY <1>1, <2>1, <2>2, TimedOutRow DEF SamePair
  <2> QED
    BY <2>2, <2>3 DEF UniqueAttendance, SamePair
<1>5. ASSUME NEW r \in OverrideReqs, Overrides(r), next \notin attendances
      PROVE  next.timeOutAt = row.timeOutAt
  <2> DEFINE cert == overs[r].cert
             rows == RowsOf(cert.event, cert.student)
  <2>1. attendances' = Upserted(r, cert) /\ cert \in OverrideCert
    BY <1>5 DEF Overrides
  <2>2. SamePair(next, cert)
    BY <1>1, <1>5, <2>1, UpsertedRows
  <2>3. row \in rows
    BY <2>2 DEF RowsOf, SamePair
  <2>4. rows = {row}
    BY <2>3 DEF RowsOf, UniqueAttendance
  <2>5. next = Attested(row, cert)
    BY <1>5, <2>1, <2>4 DEF Upserted
  <2> QED
    BY <1>1, <2>5, AttestedRow
<1>6. ASSUME Quiet \/ (\E e \in Events : HardDeleteEvent(e))
                   \/ (\E s \in Students : DeleteAccount(s))
      PROVE  next \in attendances
  BY <1>6 DEF Quiet, HardDeleteEvent, DeleteAccount
<1> QED
  BY <1>2, <1>3, <1>4, <1>5, <1>6, StepKinds

(* Once a row has its time-out, no later scan, retry or override moves or  *)
(* clears it.                                                              *)
THEOREM TimeOutsFinal == Spec => TimeOutIsFinal
<1>1. TypeOK /\ UniqueAttendance /\ [Next]_vars => [FinalTimeOuts]_vars
  BY TimeOutKept
<1> QED
  BY <1>1, TypeCorrect, OneAttempt, PTL DEF Spec, TimeOutIsFinal, FinalTimeOuts

-----------------------------------------------------------------------------
(* Rows come and go with their event and their account. *)

Present(e, s) == \E row \in attendances : row.event = e /\ row.student = s

Left(e, s) ==
    \E row \in attendances : row.event = e /\ row.student = s /\ Given(row.timeOutAt)

NoOrphans == \A row \in attendances : ~ Gone(row.event, row.student)

(* What is gone stays so, and only a deletion makes it so. *)
LEMMA EventGoneSteps ==
    ASSUME TypeOK, [Next]_vars, NEW e \in Events
    PROVE  events'[e] = None <=> events[e] = None \/ HardDeleteEvent(e)
<1>0. events[e] \in EventRow \cup {None} /\ events \in [Events -> EventRow \cup {None}]
  BY DEF TypeOK, TablesOK
<1> DEFINE Goal == events'[e] = None <=> events[e] = None \/ HardDeleteEvent(e)
<1>1. ASSUME events' = events PROVE Goal
  BY <1>0, <1>1 DEF HardDeleteEvent
<1>2. ASSUME NEW r \in ScanReqs, ScanStep(r) PROVE events' = events
  BY <1>2 DEF ScanStep, SendScan, FindExisting, FindEvent, VerifyDevice, CheckScan, WriteTimeIn,
              WriteTimeOut, AuditScan, OnlyScans, tables
<1>3. ASSUME NEW r \in OverrideReqs, OverrideStep(r) PROVE events' = events
  BY <1>3 DEF OverrideStep, SendOverride, FindOverrideEvent, VerifySigner, CheckOverride, FindRow,
              WriteOverride, AuditOverride, OnlyOvers, tables
<1>4. ASSUME NEW f \in Events, PatchEvent(f) \/ CancelEvent(f) PROVE Goal
  <2>1. events[f] \in EventRow
    BY <1>4 DEF PatchEvent, CancelEvent, TypeOK, TablesOK
  <2>2. ASSUME PatchEvent(f)
        PROVE  \E row \in EventRow : events' = [events EXCEPT ![f] = row]
    <3>1. PICK times \in Schedules, target \in Targets :
             events' = [events EXCEPT ![f] = [events[f] EXCEPT !.times = times,
                                                              !.target = target]]
      BY <2>2 DEF PatchEvent
    <3>2. [events[f] EXCEPT !.times = times, !.target = target] \in EventRow
      BY <2>1, AttendanceAssumption DEF EventRow
    <3> QED BY <3>1, <3>2
  <2>3. ASSUME CancelEvent(f)
        PROVE  \E row \in EventRow : events' = [events EXCEPT ![f] = row]
    <3>1. events' = [events EXCEPT ![f] = [events[f] EXCEPT !.status = "cancelled"]]
      BY <2>3 DEF CancelEvent
    <3>2. [events[f] EXCEPT !.status = "cancelled"] \in EventRow
      BY <2>1 DEF EventRow
    <3> QED BY <3>1, <3>2
  <2>4. PICK row \in EventRow : events' = [events EXCEPT ![f] = row]
    BY <1>4, <2>2, <2>3
  <2>5. events'[e] = None <=> events[e] = None
    BY <1>0, <2>1, <2>4, AttendanceAssumption
  <2>6. ~ HardDeleteEvent(e)
    BY <1>0, <2>1, <2>4, AttendanceAssumption DEF HardDeleteEvent
  <2> QED BY <2>5, <2>6
<1>5. ASSUME NEW f \in Events, HardDeleteEvent(f) PROVE Goal
  BY <1>0, <1>5 DEF HardDeleteEvent
<1>6. ASSUME \/ \E s \in Students : \/ SetAccountStatus(s) \/ DeleteAccount(s)
                                    \/ ChangeClass(s) \/ Unlist(s)
             \/ \E p \in Students \cup Staff : RevokeDevice(p)
             \/ Tick \/ UNCHANGED vars
      PROVE  events' = events
  BY <1>6 DEF SetAccountStatus, DeleteAccount, ChangeClass, Unlist, RevokeDevice, Tick, vars,
              tables
<1> QED BY <1>1, <1>2, <1>3, <1>4, <1>5, <1>6 DEF Next, Environment

LEMMA AccountGoneSteps ==
    ASSUME TypeOK, [Next]_vars, NEW s \in Students
    PROVE  /\ accounts[s].status = "deleted" => accounts'[s].status = "deleted"
           /\ accounts'[s].status = "deleted" =>
                 accounts[s].status = "deleted" \/ DeleteAccount(s)
<1>0. accounts[s] \in AccountRow /\ accounts \in [Students -> AccountRow]
  BY DEF TypeOK, TablesOK
<1>1. ASSUME NEW r \in ScanReqs, ScanStep(r) PROVE accounts' = accounts
  BY <1>1 DEF ScanStep, SendScan, FindExisting, FindEvent, VerifyDevice, CheckScan, WriteTimeIn,
              WriteTimeOut, AuditScan, OnlyScans, tables
<1>2. ASSUME NEW r \in OverrideReqs, OverrideStep(r) PROVE accounts' = accounts
  BY <1>2 DEF OverrideStep, SendOverride, FindOverrideEvent, VerifySigner, CheckOverride, FindRow,
              WriteOverride, AuditOverride, OnlyOvers, tables
<1>3. ASSUME NEW t \in Students, SetAccountStatus(t) \/ ChangeClass(t)
      PROVE  accounts'[s].status = "deleted" <=> accounts[s].status = "deleted"
  BY <1>0, <1>3 DEF SetAccountStatus, ChangeClass, AccountRow
<1>4. ASSUME NEW t \in Students, DeleteAccount(t)
      PROVE  /\ accounts[s].status = "deleted" => accounts'[s].status = "deleted"
             /\ accounts'[s].status = "deleted" => accounts[s].status = "deleted" \/ t = s
  BY <1>0, <1>4 DEF DeleteAccount, AccountRow
<1>5. ASSUME \/ \E e \in Events : PatchEvent(e) \/ CancelEvent(e) \/ HardDeleteEvent(e)
             \/ \E t \in Students : Unlist(t)
             \/ \E p \in Students \cup Staff : RevokeDevice(p)
             \/ Tick \/ UNCHANGED vars
      PROVE  accounts' = accounts
  BY <1>5 DEF PatchEvent, CancelEvent, HardDeleteEvent, Unlist, RevokeDevice, Tick, vars, tables
<1> QED BY <1>1, <1>2, <1>3, <1>4, <1>5 DEF Next, Environment

LEMMA GoneSteps ==
    ASSUME TypeOK, [Next]_vars, NEW e \in Events, NEW s \in Students
    PROVE  /\ Gone(e, s) => Gone(e, s)'
           /\ Gone(e, s)' => Gone(e, s) \/ HardDeleteEvent(e) \/ DeleteAccount(s)
BY EventGoneSteps, AccountGoneSteps DEF Gone

(* What is written is the row of an event and an account that are there. *)
LEMMA WritesAreThere ==
    ASSUME TypeOK, [Next]_vars, NEW row \in attendances', ~ Present(row.event, row.student)
    PROVE  ~ Gone(row.event, row.student)'
<1>1. ASSUME NEW r \in ScanReqs, ScanStep(r) PROVE ~ Gone(row.event, row.student)'
  <2>0. ~ (attendances' = attendances)
    BY DEF Present
  <2>1. CASE WriteTimeIn(r)
    <3>1. ForeignKeysHold(scans[r].post) /\ UNCHANGED <<events, accounts>>
      BY <2>0, <2>1 DEF WriteTimeIn, tables
    <3>2. row.event = scans[r].post.event /\ row.student = scans[r].post.student
      BY <2>1 DEF WriteTimeIn, Present
    <3> QED BY <3>1, <3>2 DEF ForeignKeysHold, Gone
  <2>2. CASE WriteTimeOut(r)
    <3>1. \A new \in attendances' : \/ new \in attendances
                                    \/ \E old \in OpenRows(scans[r]) :
                                          new = TimedOut(old, scans[r].post.scannedAt)
      BY <2>2 DEF WriteTimeOut, TimedOut
    <3>2. OpenRows(scans[r]) \subseteq attendances /\ attendances \subseteq AttendanceRow
      BY DEF OpenRows, RowsOf, TypeOK, TablesOK
    <3> QED BY <3>1, <3>2, TimedOutRow DEF Present, SamePair
  <2>3. CASE \/ SendScan(r) \/ FindExisting(r) \/ FindEvent(r) \/ VerifyDevice(r)
             \/ CheckScan(r) \/ AuditScan(r)
    BY <2>0, <2>3 DEF SendScan, FindExisting, FindEvent, VerifyDevice, CheckScan, AuditScan,
                      OnlyScans
  <2> QED BY <1>1, <2>1, <2>2, <2>3 DEF ScanStep
<1>2. ASSUME NEW r \in OverrideReqs, OverrideStep(r) PROVE ~ Gone(row.event, row.student)'
  <2>0. ~ (attendances' = attendances)
    BY DEF Present
  <2>1. WriteOverride(r)
    BY <1>2, <2>0 DEF OverrideStep, SendOverride, FindOverrideEvent, VerifySigner,
                      CheckOverride, FindRow, AuditOverride, OnlyOvers
  <2> DEFINE cert == overs[r].cert
  <2>2. cert \in OverrideCert
    BY <2>1, OverAt DEF WriteOverride, TypeOK, OverOK
  <2>3. ForeignKeysHold(cert) /\ attendances' = Upserted(r, cert) /\ UNCHANGED <<events, accounts>>
    BY <2>0, <2>1 DEF WriteOverride, tables
  <2>4. SamePair(row, cert)
    BY <2>2, <2>3, UpsertedRows DEF Present, TypeOK, TablesOK
  <2> QED BY <2>3, <2>4 DEF ForeignKeysHold, Gone, SamePair
<1>3. ASSUME Environment \/ UNCHANGED vars PROVE attendances' \subseteq attendances
  BY <1>3 DEF Environment, PatchEvent, CancelEvent, HardDeleteEvent, SetAccountStatus,
              DeleteAccount, ChangeClass, Unlist, RevokeDevice, Tick, vars
<1> QED BY <1>1, <1>2, <1>3 DEF Next, Present

LEMMA NoOrphansKept ==
    ASSUME TypeOK, NoOrphans, [Next]_vars, TypeOK' PROVE NoOrphans'
<1> SUFFICES ASSUME NEW row \in attendances' PROVE ~ Gone(row.event, row.student)'
  BY DEF NoOrphans
<1>1. row.event \in Events /\ row.student \in Students
  BY DEF TypeOK, TablesOK, AttendanceRow
<1>2. CASE ~ Present(row.event, row.student)
  BY <1>2, WritesAreThere
<1>3. CASE Present(row.event, row.student)
  <2>1. ~ Gone(row.event, row.student)
    BY <1>3 DEF NoOrphans, Present
  <2>2. ~ HardDeleteEvent(row.event) /\ ~ DeleteAccount(row.student)
    BY DEF HardDeleteEvent, DeleteAccount
  <2> QED BY <1>1, <2>1, <2>2, GoneSteps
<1> QED BY <1>2, <1>3

(* A row, and its time-out, last as long as the event and the account. *)
LEMMA Lasting ==
    ASSUME TypeOK, UniqueAttendance, [Next]_vars, NEW e \in Events, NEW s \in Students
    PROVE  /\ Gone(e, s) => Gone(e, s)'
           /\ Present(e, s) => Present(e, s)' \/ Gone(e, s)'
           /\ Left(e, s) => Left(e, s)' \/ Gone(e, s)'
<1>0. attendances \subseteq AttendanceRow
  BY DEF TypeOK, TablesOK
<1>1. ASSUME NEW row \in attendances, row.event = e, row.student = s
      PROVE  Present(e, s)' \/ Gone(e, s)'
  <2>1. CASE Quiet
    BY <1>1, <2>1 DEF Quiet, Present
  <2>2. ASSUME NEW r \in ScanReqs, Inserts(r) PROVE Present(e, s)'
    BY <1>1, <2>2 DEF Inserts, Present
  <2>3. ASSUME NEW r \in ScanReqs, TimesOut(r) PROVE Present(e, s)'
    BY <1>0, <1>1, <2>3, TimedOutRow DEF TimesOut, Present, SamePair
  <2>4. ASSUME NEW r \in OverrideReqs, Overrides(r) PROVE Present(e, s)'
    BY <1>0, <1>1, <2>4, UpsertedRows DEF Overrides, Present, SamePair
  <2>5. ASSUME NEW f \in Events, HardDeleteEvent(f) PROVE Present(e, s)' \/ Gone(e, s)'
    BY <1>1, <2>5 DEF HardDeleteEvent, Present, Gone, TypeOK, TablesOK
  <2>6. ASSUME NEW t \in Students, DeleteAccount(t) PROVE Present(e, s)' \/ Gone(e, s)'
    BY <1>1, <2>6 DEF DeleteAccount, Present, Gone, TypeOK, TablesOK, AccountRow
  <2> QED BY <2>1, <2>2, <2>3, <2>4, <2>5, <2>6, StepKinds
<1>2. ASSUME NEW row \in attendances, row.event = e, row.student = s, Given(row.timeOutAt)
      PROVE  Left(e, s)' \/ Gone(e, s)'
  <2>1. FinalTimeOuts
    BY TimeOutKept
  <2>2. CASE Present(e, s)'
    <3>1. PICK next \in attendances' : next.event = e /\ next.student = s
      BY <2>2 DEF Present
    <3>2. next.timeOutAt = row.timeOutAt
      BY <1>2, <2>1, <3>1 DEF FinalTimeOuts
    <3> QED BY <1>2, <3>1, <3>2 DEF Left
  <2> QED BY <1>1, <1>2, <2>2
<1> QED BY <1>1, <1>2, GoneSteps DEF Present, Left

-----------------------------------------------------------------------------
(* A certificate and its nonce. *)

Sent(r) == scans[r].pc # "idle"

(* A request carries the certificate that its nonce's request carried      *)
(* first, for the same event but maybe for another student.                *)
SameCert(post, other) == post.nonce = other.nonce /\ post.event = other.event

CertsKnown ==
    \A r \in ScanReqs :
        Sent(r) => /\ Sent(scans[r].post.nonce)
                   /\ SameCert(scans[scans[r].post.nonce].post, scans[r].post)

(* This request wrote a check-in. *)
Counted(r) == scans[r].pc \in {"audit", "done"} /\ scans[r].reply = "time_in"

(* A scanned row was written by a request of its pair that carried the     *)
(* certificate whose nonce it has.                                         *)
WrittenBy(row, r) ==
    Counted(r) /\ scans[r].post.nonce = row.key /\ SamePair(row, scans[r].post)

RowsKnown ==
    \A row \in attendances :
        row.key \in ScanReqs => \E r \in ScanReqs : WrittenBy(row, r)

(* The certificate was counted for another student. *)
Elsewhere(post) ==
    \E r \in ScanReqs : /\ Counted(r)
                        /\ scans[r].post.nonce = post.nonce
                        /\ scans[r].post.student # post.student

(* A request keeps the certificate it was sent with. *)
LEMMA CertsStay ==
    ASSUME TypeOK, [Next]_vars, NEW r \in ScanReqs, Sent(r)
    PROVE  Sent(r)' /\ scans'[r].post = scans[r].post
<1>0. scans \in [ScanReqs -> ScanState]
  BY DEF TypeOK, ScansOK
<1>1. ASSUME scans' = scans PROVE Sent(r)' /\ scans'[r].post = scans[r].post
  BY <1>1 DEF Sent
<1>2. ASSUME NEW q \in ScanReqs, q # r, ScanStep(q) PROVE scans'[r] = scans[r]
  BY <1>0, <1>2 DEF ScanStep, SendScan, FindExisting, FindEvent, KeepEvent, VerifyDevice,
                    CheckScan, WriteTimeIn, WriteTimeOut, AuditScan, Answer, Advance
<1>3. ASSUME ScanStep(r) PROVE Sent(r)' /\ scans'[r].post = scans[r].post
  <2>1. ~ SendScan(r)
    BY DEF SendScan, Sent
  <2>2. ASSUME NEW reply, Answer(r, reply) PROVE Sent(r)' /\ scans'[r].post = scans[r].post
    BY <1>0, <2>2 DEF Answer, Sent, ScanState
  <2>3. ASSUME NEW pc \in {"event", "check", "write"}, Advance(r, pc)
        PROVE  Sent(r)' /\ scans'[r].post = scans[r].post
    BY <1>0, <2>3 DEF Advance, Sent, ScanState
  <2>4. CASE FindExisting(r)
    BY <1>0, <2>2, <2>3, <2>4 DEF FindExisting, Sent, ScanState
  <2>5. CASE FindEvent(r)
    BY <1>0, <2>2, <2>5 DEF FindEvent, KeepEvent, Sent, ScanState
  <2>6. CASE VerifyDevice(r) \/ CheckScan(r)
    BY <2>2, <2>3, <2>6 DEF VerifyDevice, CheckScan
  <2>7. CASE WriteTimeIn(r)
    BY <1>0, <2>2, <2>7 DEF WriteTimeIn, Sent, ScanState
  <2>8. CASE WriteTimeOut(r)
    BY <1>0, <2>2, <2>8 DEF WriteTimeOut, Sent, ScanState
  <2>9. CASE AuditScan(r)
    BY <2>2, <2>9 DEF AuditScan
  <2> QED BY <1>3, <2>1, <2>4, <2>5, <2>6, <2>7, <2>8, <2>9 DEF ScanStep
<1>4. ASSUME NEW q \in OverrideReqs, OverrideStep(q) PROVE scans' = scans
  BY <1>4 DEF OverrideStep, SendOverride, FindOverrideEvent, VerifySigner, CheckOverride, FindRow,
              WriteOverride, AuditOverride, OnlyOvers
<1>5. ASSUME Environment \/ UNCHANGED vars PROVE scans' = scans
  BY <1>5 DEF Environment, PatchEvent, CancelEvent, HardDeleteEvent, SetAccountStatus,
              DeleteAccount, ChangeClass, Unlist, RevokeDevice, Tick, vars
<1> QED
  <2>1. ASSUME NEW q \in ScanReqs, ScanStep(q) PROVE Sent(r)' /\ scans'[r].post = scans[r].post
    BY <1>2, <1>3, <2>1 DEF Sent
  <2> QED BY <1>1, <1>4, <1>5, <2>1 DEF Next

(* ... and a check-in it wrote. *)
LEMMA CountedStays ==
    ASSUME TypeOK, [Next]_vars, NEW r \in ScanReqs, Counted(r)
    PROVE  Counted(r)' /\ scans'[r].post = scans[r].post
<1>0. scans \in [ScanReqs -> ScanState]
  BY DEF TypeOK, ScansOK
<1>1. scans'[r].post = scans[r].post
  BY CertsStay DEF Counted, Sent
<1>2. ASSUME scans' = scans PROVE Counted(r)'
  BY <1>2 DEF Counted
<1>3. ASSUME NEW q \in ScanReqs, q # r, ScanStep(q) PROVE scans'[r] = scans[r]
  BY <1>0, <1>3 DEF ScanStep, SendScan, FindExisting, FindEvent, KeepEvent, VerifyDevice,
                    CheckScan, WriteTimeIn, WriteTimeOut, AuditScan, Answer, Advance
<1>4. ASSUME ScanStep(r) PROVE Counted(r)'
  <2>1. AuditScan(r)
    BY <1>4 DEF ScanStep, Counted, SendScan, FindExisting, FindEvent, VerifyDevice, CheckScan,
                WriteTimeIn, WriteTimeOut
  <2> QED BY <1>0, <2>1 DEF AuditScan, Answer, Counted, ScanState
<1>5. ASSUME NEW q \in OverrideReqs, OverrideStep(q) PROVE scans' = scans
  BY <1>5 DEF OverrideStep, SendOverride, FindOverrideEvent, VerifySigner, CheckOverride,
              FindRow, WriteOverride, AuditOverride, OnlyOvers
<1>6. ASSUME Environment \/ UNCHANGED vars PROVE scans' = scans
  BY <1>6 DEF Environment, PatchEvent, CancelEvent, HardDeleteEvent, SetAccountStatus,
              DeleteAccount, ChangeClass, Unlist, RevokeDevice, Tick, vars
<1> QED
  <2>1. ASSUME NEW q \in ScanReqs, ScanStep(q) PROVE Counted(r)'
    BY <1>3, <1>4, <2>1 DEF Counted
  <2> QED BY <1>1, <1>2, <1>5, <1>6, <2>1 DEF Next

LEMMA ElsewhereStays ==
    ASSUME TypeOK, [Next]_vars, NEW post, Elsewhere(post)
    PROVE  Elsewhere(post)'
BY CountedStays DEF Elsewhere

(* A request is sent by one step: with a certificate of its own, or with   *)
(* one that was sent before.                                               *)
LEMMA Sending ==
    ASSUME TypeOK, [Next]_vars, NEW r \in ScanReqs, ~ Sent(r), Sent(r)'
    PROVE  \/ scans'[r].post.nonce = r
           \/ \E q \in ScanReqs : Sent(q) /\ SameCert(scans'[r].post, scans[q].post)
<1>0. scans \in [ScanReqs -> ScanState]
  BY DEF TypeOK, ScansOK
<1>1. scans' # scans
  BY DEF Sent
<1>2. PICK q \in ScanReqs : ScanStep(q)
  <2>1. ASSUME NEW o \in OverrideReqs, OverrideStep(o) PROVE FALSE
    BY <1>1, <2>1 DEF OverrideStep, SendOverride, FindOverrideEvent, VerifySigner,
                      CheckOverride, FindRow, WriteOverride, AuditOverride, OnlyOvers
  <2>2. ASSUME Environment \/ UNCHANGED vars PROVE FALSE
    BY <1>1, <2>2 DEF Environment, PatchEvent, CancelEvent, HardDeleteEvent,
              SetAccountStatus, DeleteAccount, ChangeClass, Unlist, RevokeDevice, Tick, vars
  <2> QED BY <2>1, <2>2 DEF Next
<1>3. q = r
  BY <1>0, <1>2 DEF ScanStep, SendScan, FindExisting, FindEvent, KeepEvent, VerifyDevice,
                    CheckScan, WriteTimeIn, WriteTimeOut, AuditScan, Answer, Advance, Sent
<1>4. SendScan(r)
  BY <1>2, <1>3 DEF ScanStep, FindExisting, FindEvent, VerifyDevice, CheckScan, WriteTimeIn,
                    WriteTimeOut, AuditScan, Sent
<1>5. PICK post \in NewPosts(r) \cup SentAgain :
          scans' = [scans EXCEPT ![r] =
                      [scans[r] EXCEPT !.pc = "lookup", !.post = post,
                                       !.class = accounts[post.student].class]]
  BY <1>4 DEF SendScan
<1>6. scans'[r].post = post
  BY <1>0, <1>5 DEF ScanState
<1>7. CASE post \in NewPosts(r)
  BY <1>6, <1>7 DEF NewPosts
<1>8. CASE post \in SentAgain
  <2>1. PICK p \in ScanReqs, s \in Students :
           Sent(p) /\ post = [scans[p].post EXCEPT !.student = s]
    BY <1>8 DEF SentAgain, Sent
  <2>2. scans[p].post \in ScanPost
    BY <2>1 DEF TypeOK, ScansOK, Sent
  <2> QED BY <1>6, <2>1, <2>2 DEF SameCert, ScanPost
<1> QED BY <1>5, <1>7, <1>8

LEMMA CertsKnownKept ==
    ASSUME TypeOK, CertsKnown, [Next]_vars
    PROVE  CertsKnown'
<1> DEFINE known(r) == /\ Sent(scans[r].post.nonce)
                       /\ SameCert(scans[scans[r].post.nonce].post, scans[r].post)
<1> SUFFICES ASSUME NEW r \in ScanReqs, Sent(r)' PROVE known(r)'
  BY DEF CertsKnown
<1>1. ASSUME NEW q \in ScanReqs, Sent(q), SameCert(scans'[r].post, scans[q].post)
      PROVE  known(r)'
  <2>1. PICK n \in ScanReqs : /\ n = scans[q].post.nonce
                              /\ Sent(n) /\ SameCert(scans[n].post, scans[q].post)
    BY <1>1, ScanAt DEF CertsKnown, Sent, TypeOK, ScanOK, ScanPost
  <2>2. Sent(n)' /\ scans'[n].post = scans[n].post
    BY <2>1, CertsStay
  <2> QED BY <1>1, <2>1, <2>2 DEF Sent, SameCert
<1>2. CASE Sent(r)
  BY <1>1, <1>2, CertsStay DEF SameCert
<1>3. CASE ~ Sent(r)
  <2>1. CASE scans'[r].post.nonce = r
    BY <2>1 DEF Sent, SameCert
  <2> QED BY <1>1, <1>3, <2>1, Sending
<1> QED BY <1>2, <1>3

(* The two tables' lemmas again, for the keys of the rows. *)
LEMMA RowsKnownKept ==
    ASSUME TypeOK, TypeOK', RowsKnown, [Next]_vars
    PROVE  RowsKnown'
<1> SUFFICES ASSUME NEW row \in attendances', row.key \in ScanReqs
             PROVE  \E r \in ScanReqs : WrittenBy(row, r)'
  BY DEF RowsKnown
<1>0. attendances \subseteq AttendanceRow
  BY DEF TypeOK, TablesOK
<1>1. ASSUME NEW old \in attendances, old.key = row.key, SamePair(row, old)
      PROVE  \E r \in ScanReqs : WrittenBy(row, r)'
  <2>1. PICK r \in ScanReqs : WrittenBy(old, r)
    BY <1>1 DEF RowsKnown
  <2>2. Counted(r)' /\ scans'[r].post = scans[r].post
    BY <2>1, CountedStays DEF WrittenBy
  <2> QED BY <1>1, <2>1, <2>2 DEF WrittenBy, SamePair
<1>2. CASE row \in attendances
  BY <1>1, <1>2 DEF SamePair
<1>3. ASSUME NEW r \in ScanReqs, WriteTimeIn(r), row \notin attendances
      PROVE  WrittenBy(row, r)'
  <2>1. /\ row.key = scans[r].post.nonce /\ SamePair(row, scans[r].post)
        /\ scans' = [scans EXCEPT ![r] = [scans[r] EXCEPT !.pc = "audit",
                                                          !.reply = "time_in"]]
    BY <1>3 DEF WriteTimeIn, SamePair
  <2>2. scans \in [ScanReqs -> ScanState]
    BY DEF TypeOK, ScansOK
  <2>3. Counted(r)' /\ scans'[r].post = scans[r].post
    BY <2>1, <2>2 DEF Counted, ScanState
  <2> QED BY <2>1, <2>3 DEF WrittenBy, SamePair
<1>4. ASSUME NEW r \in ScanReqs, WriteTimeOut(r), row \notin attendances
      PROVE  \E q \in ScanReqs : WrittenBy(row, q)'
  <2>1. PICK old \in OpenRows(scans[r]) : row = TimedOut(old, scans[r].post.scannedAt)
    BY <1>4 DEF WriteTimeOut, TimedOut
  <2>2. old \in attendances
    BY DEF OpenRows, RowsOf
  <2>3. SamePair(row, old) /\ row.key = old.key
    BY <1>0, <2>1, <2>2 DEF TimedOut, AttendanceRow, SamePair
  <2> QED BY <1>1, <2>2, <2>3
<1>5. ASSUME NEW r \in OverrideReqs, WriteOverride(r), row \notin attendances
      PROVE  \E q \in ScanReqs : WrittenBy(row, q)'
  <2> DEFINE cert == overs[r].cert
  <2>1. attendances' = Upserted(r, cert)
    BY <1>5 DEF WriteOverride
  <2>2. row.key # r
    BY AttendanceAssumption
  <2>3. PICK old \in RowsOf(cert.event, cert.student) : row = Attested(old, cert)
    BY <1>5, <2>1, <2>2 DEF Upserted
  <2>4. old \in attendances
    BY DEF RowsOf
  <2>5. SamePair(row, old) /\ row.key = old.key
    BY <1>0, <2>3, <2>4 DEF Attested, AttendanceRow, SamePair
  <2> QED BY <1>1, <2>4, <2>5
<1>6. ASSUME NEW r \in ScanReqs, ScanStep(r), row \notin attendances
      PROVE  WriteTimeIn(r) \/ WriteTimeOut(r)
  BY <1>6 DEF ScanStep, SendScan, FindExisting, FindEvent, VerifyDevice, CheckScan, AuditScan,
              OnlyScans
<1>7. ASSUME NEW r \in OverrideReqs, OverrideStep(r), row \notin attendances
      PROVE  WriteOverride(r)
  BY <1>7 DEF OverrideStep, SendOverride, FindOverrideEvent, VerifySigner, CheckOverride, FindRow,
              AuditOverride, OnlyOvers
<1>8. ASSUME Environment \/ UNCHANGED vars PROVE row \in attendances
  BY <1>8 DEF Environment, PatchEvent, CancelEvent, HardDeleteEvent, SetAccountStatus,
              DeleteAccount, ChangeClass, Unlist, RevokeDevice, Tick, vars
<1> QED BY <1>2, <1>3, <1>4, <1>5, <1>6, <1>7, <1>8 DEF Next

-----------------------------------------------------------------------------
(* What a student is told. *)

PresentOrGone(e, s) == Present(e, s) \/ Gone(e, s)

LeftOrGone(e, s) == Left(e, s) \/ Gone(e, s)

(* A request that found a row, or answers so, is right about it. *)
Told(scan) ==
    /\ scan.pc = "idle" => scan.seen = None /\ scan.reply = "none"
    /\ scan.seen # None \/ scan.reply \in {"time_in", "timeout_not_open"} =>
           PresentOrGone(scan.post.event, scan.post.student)
    /\ scan.reply = "already_scanned" =>
           PresentOrGone(scan.post.event, scan.post.student) \/ Elsewhere(scan.post)
    /\ scan.reply \in {"time_out", "already_complete"} =>
           LeftOrGone(scan.post.event, scan.post.student)

AllTold == \A r \in ScanReqs : Told(scans[r])

ToldInv == UniqueAttendance /\ CertsKnown /\ RowsKnown /\ AllTold

(* A handler that does not move stays right, whatever the others do. *)
LEMMA ToldStays ==
    ASSUME TypeOK, UniqueAttendance, [Next]_vars, NEW r \in ScanReqs, Told(scans[r]),
           scans'[r] = scans[r]
    PROVE  Told(scans[r])'
<1>1. CASE ~ Sent(r)
  BY <1>1 DEF Told, Sent
<1>2. CASE Sent(r)
  <2>1. PICK e \in Events, s \in Students : scans[r].post.event = e /\ scans[r].post.student = s
    BY <1>2, ScanAt DEF Sent, TypeOK, ScanOK, ScanPost
  <2>2. Elsewhere(scans[r].post) => Elsewhere(scans[r].post)'
    BY ElsewhereStays
  <2> QED BY <2>1, <2>2, Lasting DEF Told, PresentOrGone, LeftOrGone
<1> QED BY <1>1, <1>2

(* The steps that only read. *)
LEMMA ToldReads ==
    ASSUME TypeOK, [Next]_vars, NEW r \in ScanReqs, Told(scans[r]),
           \/ SendScan(r) \/ FindExisting(r) \/ FindEvent(r) \/ VerifyDevice(r)
           \/ CheckScan(r) \/ AuditScan(r)
    PROVE  Told(scans[r])'
<1>0. scans \in [ScanReqs -> ScanState] /\ scans[r] \in ScanState
  BY DEF TypeOK, ScansOK
<1>1. events' = events /\ accounts' = accounts /\ attendances' = attendances
  BY DEF SendScan, FindExisting, FindEvent, VerifyDevice, CheckScan, AuditScan, OnlyScans, tables
<1>2. ASSUME scans'[r].pc # "idle", scans'[r].post = scans[r].post,
             scans'[r].seen # None \/ scans'[r].reply \in {"time_in", "timeout_not_open"} =>
                PresentOrGone(scans[r].post.event, scans[r].post.student),
             scans'[r].reply = "already_scanned" =>
                \/ PresentOrGone(scans[r].post.event, scans[r].post.student)
                \/ Elsewhere(scans[r].post),
             scans'[r].reply \in {"time_out", "already_complete"} =>
                LeftOrGone(scans[r].post.event, scans[r].post.student)
      PROVE  Told(scans[r])'
  <2>1. Elsewhere(scans[r].post) => Elsewhere(scans[r].post)'
    BY <1>2, ElsewhereStays
  <2> QED BY <1>1, <1>2, <2>1 DEF Told, PresentOrGone, LeftOrGone, Present, Left, Gone
<1>3. ASSUME NEW reply, Answer(r, reply)
      PROVE  /\ scans'[r].pc = "done" /\ scans'[r].post = scans[r].post
             /\ scans'[r].seen = None /\ scans'[r].reply = reply
  BY <1>0, <1>3 DEF Answer, ScanState
<1>4. ASSUME NEW pc \in {"event", "check", "write"}, Advance(r, pc)
      PROVE  /\ scans'[r].pc = pc /\ scans'[r].post = scans[r].post
             /\ scans'[r].seen = scans[r].seen /\ scans'[r].reply = scans[r].reply
  BY <1>0, <1>4 DEF Advance, ScanState
<1>5. CASE SendScan(r)
  <2>1. /\ scans'[r].pc # "idle" /\ scans'[r].seen = scans[r].seen
        /\ scans'[r].reply = scans[r].reply
    <3>1. PICK post : scans' = [scans EXCEPT ![r] =
                         [scans[r] EXCEPT !.pc = "lookup", !.post = post,
                                          !.class = accounts[post.student].class]]
      BY <1>5 DEF SendScan
    <3> QED BY <1>0, <3>1 DEF ScanState
  <2>2. scans[r].seen = None /\ scans[r].reply = "none"
    BY <1>5 DEF SendScan, Told
  <2> QED BY <2>1, <2>2 DEF Told
<1>6. CASE FindExisting(r)
  <2> DEFINE rows == RowsOf(scans[r].post.event, scans[r].post.student)
  <2>1. CASE Advance(r, "event")
    BY <1>2, <1>4, <2>1 DEF Told
  <2>2. ASSUME NEW row \in rows, Given(row.timeOutAt), Answer(r, "already_complete")
        PROVE  Told(scans[r])'
    <3>1. LeftOrGone(scans[r].post.event, scans[r].post.student)
      BY <2>2 DEF RowsOf, LeftOrGone, Left
    <3> QED BY <1>2, <1>3, <2>2, <3>1
  <2>3. ASSUME NEW row \in rows,
               scans' = [scans EXCEPT ![r] = [scans[r] EXCEPT !.pc = "event", !.seen = row]]
        PROVE  Told(scans[r])'
    <3>1. PresentOrGone(scans[r].post.event, scans[r].post.student)
      BY <2>3 DEF RowsOf, PresentOrGone, Present
    <3>2. /\ scans'[r].pc = "event" /\ scans'[r].post = scans[r].post
          /\ scans'[r].reply = scans[r].reply
      BY <1>0, <2>3 DEF ScanState
    <3> QED BY <1>2, <3>1, <3>2 DEF Told
  <2> QED BY <1>6, <2>1, <2>2, <2>3 DEF FindExisting
<1>7. CASE FindEvent(r)
  <2>1. ASSUME NEW reply \in {"not_found", "rejected"}, Answer(r, reply)
        PROVE  Told(scans[r])'
    BY <1>2, <1>3, <2>1
  <2>2. ASSUME NEW reply \in {"timeout_not_open", "already_scanned"}, Answer(r, reply),
               scans[r].seen # None
        PROVE  Told(scans[r])'
    BY <1>2, <1>3, <2>2 DEF Told
  <2>3. ASSUME NEW ev, KeepEvent(r, ev) PROVE Told(scans[r])'
    <3>1. /\ scans'[r].pc = "verify" /\ scans'[r].post = scans[r].post
          /\ scans'[r].seen = scans[r].seen /\ scans'[r].reply = scans[r].reply
      BY <1>0, <2>3 DEF KeepEvent, ScanState
    <3> QED BY <1>2, <3>1 DEF Told
  <2> QED BY <1>7, <2>1, <2>2, <2>3 DEF FindEvent
<1>8. CASE VerifyDevice(r) \/ CheckScan(r)
  <2>1. CASE Answer(r, "rejected")
    BY <1>2, <1>3, <2>1
  <2>2. ASSUME NEW pc \in {"check", "write"}, Advance(r, pc) PROVE Told(scans[r])'
    BY <1>2, <1>4, <2>2 DEF Told
  <2> QED BY <1>8, <2>1, <2>2 DEF VerifyDevice, CheckScan
<1>9. CASE AuditScan(r)
  BY <1>2, <1>3, <1>9 DEF AuditScan, Told
<1> QED BY <1>5, <1>6, <1>7, <1>8, <1>9

(* The two that write. *)
LEMMA ToldWrites ==
    ASSUME TypeOK, [Next]_vars, RowsKnown, CertsKnown, NEW r \in ScanReqs, Told(scans[r]),
           WriteTimeIn(r) \/ WriteTimeOut(r)
    PROVE  Told(scans[r])'
<1> DEFINE cert == scans[r].post
<1>0. /\ scans \in [ScanReqs -> ScanState] /\ scans[r] \in ScanState
      /\ scans[r].pc = "write" /\ cert \in ScanPost
  BY ScanAt DEF TypeOK, ScansOK, ScanOK, WriteTimeIn, WriteTimeOut
<1>1. events' = events /\ accounts' = accounts
  BY DEF WriteTimeIn, WriteTimeOut, tables
<1>2. ASSUME NEW reply, Answer(r, reply)
      PROVE  /\ scans'[r].pc = "done" /\ scans'[r].post = cert
             /\ scans'[r].seen = None /\ scans'[r].reply = reply
  BY <1>0, <1>2 DEF Answer, ScanState
<1>3. CASE WriteTimeIn(r)
  <2>1. CASE Answer(r, "error")
    BY <1>2, <2>1 DEF Told
  <2>2. CASE IsDuplicate(cert) /\ attendances' = attendances /\ Answer(r, "already_scanned")
    <3>1. PICK row \in attendances : \/ row \in RowsOf(cert.event, cert.student)
                                     \/ row.key = cert.nonce
      BY <2>2 DEF IsDuplicate, RowsOf
    <3>2. SamePair(row, cert) \/ Elsewhere(cert)
      <4>1. CASE row.key = cert.nonce
        <5>1. PICK q \in ScanReqs : WrittenBy(row, q)
          BY <1>0, <4>1 DEF RowsKnown, ScanPost
        <5>2. SameCert(scans[q].post, cert)
          BY <1>0, <4>1, <5>1 DEF WrittenBy, Counted, CertsKnown, Sent, SameCert
        <5> QED BY <4>1, <5>1, <5>2 DEF WrittenBy, SameCert, SamePair, Elsewhere
      <4> QED BY <3>1, <4>1 DEF RowsOf, SamePair
    <3>3. Present(cert.event, cert.student)' \/ Elsewhere(cert)'
      BY <2>2, <3>2, ElsewhereStays, CertsStay, <1>0 DEF Present, SamePair, Sent
    <3>4. /\ scans'[r].pc = "done" /\ scans'[r].seen = None /\ scans'[r].post = cert
          /\ scans'[r].reply = "already_scanned"
      BY <1>2, <2>2
    <3> QED BY <3>3, <3>4 DEF Told, PresentOrGone
  <2>3. CASE /\ \E row \in attendances' : SamePair(row, cert)
             /\ scans' = [scans EXCEPT ![r] = [scans[r] EXCEPT !.pc = "audit",
                                                               !.reply = "time_in"]]
    <3>1. scans'[r].pc = "audit" /\ scans'[r].post = cert /\ scans'[r].reply = "time_in"
      BY <1>0, <2>3 DEF ScanState
    <3>2. Present(cert.event, cert.student)'
      BY <2>3, <3>1 DEF Present, SamePair
    <3> QED BY <3>1, <3>2 DEF Told, PresentOrGone
  <2>4. \/ Answer(r, "error")
        \/ IsDuplicate(cert) /\ attendances' = attendances /\ Answer(r, "already_scanned")
        \/ /\ \E row \in attendances' : SamePair(row, cert)
           /\ scans' = [scans EXCEPT ![r] = [scans[r] EXCEPT !.pc = "audit",
                                                             !.reply = "time_in"]]
    <3> DEFINE row == [event |-> cert.event, student |-> cert.student,
                       source |-> "qr", key |-> cert.nonce, scannedAt |-> now,
                       clientAt |-> cert.scannedAt, timeOutAt |-> NoTime]
    <3>1. SamePair(row, cert)
      BY DEF SamePair
    <3>2. \/ Answer(r, "error")
          \/ IsDuplicate(cert) /\ attendances' = attendances /\ Answer(r, "already_scanned")
          \/ /\ attendances' = attendances \cup {row}
             /\ scans' = [scans EXCEPT ![r] = [scans[r] EXCEPT !.pc = "audit",
                                                               !.reply = "time_in"]]
      BY <1>3 DEF WriteTimeIn
    <3> HIDE DEF row
    <3> QED BY <3>1, <3>2
  <2> QED BY <2>1, <2>2, <2>3, <2>4
<1>4. CASE WriteTimeOut(r)
  <2>1. PresentOrGone(cert.event, cert.student)
    BY <1>4 DEF WriteTimeOut, Told
  <2>2. CASE OpenRows(scans[r]) = {} /\ attendances' = attendances /\ Answer(r, "time_out")
    <3>1. LeftOrGone(cert.event, cert.student)
      BY <2>1, <2>2 DEF OpenRows, RowsOf, PresentOrGone, LeftOrGone, Present, Left
    <3>2. LeftOrGone(cert.event, cert.student)'
      BY <1>1, <1>2, <2>2, <3>1 DEF LeftOrGone, Left, Gone
    <3> QED BY <1>2, <2>2, <3>2 DEF Told
  <2>3. CASE /\ OpenRows(scans[r]) # {}
             /\ attendances' = (attendances \ OpenRows(scans[r])) \cup
                   {[row EXCEPT !.timeOutAt = cert.scannedAt] : row \in OpenRows(scans[r])}
             /\ scans' = [scans EXCEPT ![r] = [scans[r] EXCEPT !.pc = "audit",
                                                               !.reply = "time_out"]]
    <3>1. PICK old \in attendances : SamePair(old, cert) /\ old \in OpenRows(scans[r])
      BY <2>3 DEF OpenRows, RowsOf, SamePair
    <3> DEFINE row == TimedOut(old, cert.scannedAt)
    <3>2. row \in attendances'
      BY <2>3, <3>1 DEF TimedOut
    <3>3. SamePair(row, cert) /\ row.timeOutAt = cert.scannedAt
      BY <3>1, TimedOutRow DEF SamePair, TypeOK, TablesOK
    <3>4. Given(cert.scannedAt)
      BY <1>0, EventTimeAssumption DEF Given, ScanPost
    <3>5. scans'[r].pc = "audit" /\ scans'[r].post = cert /\ scans'[r].reply = "time_out"
      BY <1>0, <2>3 DEF ScanState
    <3> HIDE DEF row
    <3>6. \E any \in attendances' : SamePair(any, cert) /\ Given(any.timeOutAt)
      BY <3>2, <3>3, <3>4
    <3>7. Present(cert.event, cert.student)' /\ Left(cert.event, cert.student)'
      BY <3>5, <3>6 DEF Present, Left, SamePair
    <3> QED BY <3>5, <3>7 DEF Told, PresentOrGone, LeftOrGone
  <2> QED BY <1>4, <2>2, <2>3 DEF WriteTimeOut
<1> QED BY <1>3, <1>4

LEMMA AllToldKept ==
    ASSUME TypeOK, ToldInv, [Next]_vars
    PROVE  AllTold'
<1> SUFFICES ASSUME NEW r \in ScanReqs PROVE Told(scans[r])'
  BY DEF AllTold
<1>0. scans \in [ScanReqs -> ScanState] /\ Told(scans[r])
  BY DEF TypeOK, ScansOK, ToldInv, AllTold
<1>1. CASE scans'[r] = scans[r]
  BY <1>0, <1>1, ToldStays DEF ToldInv
<1>2. CASE ScanStep(r)
  BY <1>0, <1>2, ToldReads, ToldWrites DEF ScanStep, ToldInv
<1>3. ASSUME NEW q \in ScanReqs, q # r, ScanStep(q) PROVE scans'[r] = scans[r]
  BY <1>0, <1>3 DEF ScanStep, SendScan, FindExisting, FindEvent, KeepEvent, VerifyDevice,
                    CheckScan, WriteTimeIn, WriteTimeOut, AuditScan, Answer, Advance
<1>4. ASSUME NEW q \in OverrideReqs, OverrideStep(q) PROVE scans' = scans
  BY <1>4 DEF OverrideStep, SendOverride, FindOverrideEvent, VerifySigner, CheckOverride, FindRow,
              WriteOverride, AuditOverride, OnlyOvers
<1>5. ASSUME Environment \/ UNCHANGED vars PROVE scans' = scans
  BY <1>5 DEF Environment, PatchEvent, CancelEvent, HardDeleteEvent, SetAccountStatus,
              DeleteAccount, ChangeClass, Unlist, RevokeDevice, Tick, vars
<1> QED BY <1>1, <1>2, <1>3, <1>4, <1>5 DEF Next

(* The same for what an organizer is told of an entry. *)
ToldOver(over) ==
    /\ over.pc = "idle" => over.reply = "none"
    /\ over.pc = "audit" => over.reply = "created"
    /\ over.reply \in {"created", "conflict"} =>
           PresentOrGone(over.cert.event, over.cert.student)

AllOversTold == \A r \in OverrideReqs : ToldOver(overs[r])

LEMMA ToldOverStays ==
    ASSUME TypeOK, UniqueAttendance, [Next]_vars, NEW r \in OverrideReqs, ToldOver(overs[r]),
           overs'[r] = overs[r]
    PROVE  ToldOver(overs[r])'
<1>1. CASE overs[r].pc = "idle"
  BY <1>1 DEF ToldOver
<1>2. CASE overs[r].pc # "idle"
  <2>1. PICK e \in Events, s \in Students : overs[r].cert.event = e /\ overs[r].cert.student = s
    BY <1>2, OverAt DEF TypeOK, OverOK, OverrideCert
  <2> QED BY <2>1, Lasting DEF ToldOver, PresentOrGone
<1> QED BY <1>1, <1>2

LEMMA ToldOverSteps ==
    ASSUME TypeOK, OverridesAreMarked, NEW r \in OverrideReqs, ToldOver(overs[r]),
           OverrideStep(r)
    PROVE  ToldOver(overs[r])'
<1> DEFINE cert == overs[r].cert
<1>0. overs \in [OverrideReqs -> OverState] /\ overs[r] \in OverState
  BY DEF TypeOK, OversOK
<1>1. events' = events /\ accounts' = accounts
  BY DEF OverrideStep, SendOverride, FindOverrideEvent, VerifySigner, CheckOverride, FindRow,
         WriteOverride, AuditOverride, OnlyOvers, tables
<1>2. ASSUME NEW reply, AnswerOverride(r, reply)
      PROVE  overs'[r].pc = "done" /\ overs'[r].cert = cert /\ overs'[r].reply = reply
  BY <1>0, <1>2 DEF AnswerOverride, OverState
<1>3. ASSUME attendances' = attendances, overs'[r].cert = cert, overs'[r].pc \notin {"idle", "audit"},
             \/ overs'[r].reply = overs[r].reply
             \/ overs'[r].reply \in {"created", "conflict"} =>
                    PresentOrGone(cert.event, cert.student)
      PROVE  ToldOver(overs[r])'
  BY <1>1, <1>3 DEF ToldOver, PresentOrGone, Present, Gone
<1>4. CASE SendOverride(r)
  <2>1. overs'[r].pc = "event" /\ overs'[r].reply = overs[r].reply
    BY <1>0, <1>4 DEF SendOverride, OverState
  <2>2. overs[r].reply = "none"
    BY <1>4 DEF SendOverride, ToldOver
  <2> QED BY <2>1, <2>2 DEF ToldOver
<1>5. CASE \/ FindOverrideEvent(r) \/ VerifySigner(r) \/ CheckOverride(r) \/ FindRow(r)
  <2>1. attendances' = attendances
    BY <1>5 DEF FindOverrideEvent, VerifySigner, CheckOverride, FindRow, OnlyOvers
  <2>2. ASSUME NEW reply \in {"not_found", "rejected"}, AnswerOverride(r, reply)
        PROVE  ToldOver(overs[r])'
    BY <1>2, <1>3, <2>1, <2>2
  <2>3. ASSUME NEW pc \in {"check", "write", "insert", "update"}, AdvanceOverride(r, pc)
        PROVE  ToldOver(overs[r])'
    <3>1. overs'[r].pc = pc /\ overs'[r].cert = cert /\ overs'[r].reply = overs[r].reply
      BY <1>0, <2>3 DEF AdvanceOverride, OverState
    <3> QED BY <1>3, <2>1, <3>1
  <2>4. ASSUME NEW ev, overs' = [overs EXCEPT ![r] = [overs[r] EXCEPT !.pc = "verify",
                                                                      !.event = ev]]
        PROVE  ToldOver(overs[r])'
    <3>1. overs'[r].pc = "verify" /\ overs'[r].cert = cert /\ overs'[r].reply = overs[r].reply
      BY <1>0, <2>4 DEF OverState
    <3> QED BY <1>3, <2>1, <3>1
  <2> QED
    BY <1>5, <2>2, <2>3, <2>4 DEF FindOverrideEvent, VerifySigner, CheckOverride, FindRow
<1>6. CASE WriteOverride(r)
  <2>0. overs[r].pc \in {"insert", "update"} /\ cert \in OverrideCert
    BY <1>6, OverAt DEF WriteOverride, TypeOK, OverOK
  <2>1. CASE attendances' = attendances /\ AnswerOverride(r, "rejected")
    BY <1>2, <1>3, <2>1
  <2>2. CASE /\ ForeignKeysHold(cert) /\ Collides(r, cert)
             /\ attendances' = attendances /\ AnswerOverride(r, "conflict")
    <3>1. RowsOf(cert.event, cert.student) # {}
      BY <2>2 DEF Collides, IsOverridden, OverridesAreMarked, ForeignKeysHold
    <3>2. PresentOrGone(cert.event, cert.student)
      BY <3>1 DEF PresentOrGone, Present, RowsOf
    <3> QED BY <1>2, <1>3, <2>2, <3>2
  <2>3. CASE /\ attendances' = Upserted(r, cert)
             /\ overs' = [overs EXCEPT ![r] = [overs[r] EXCEPT !.pc = "audit",
                                                               !.reply = "created"]]
    <3>1. overs'[r].cert = cert /\ overs'[r].pc = "audit" /\ overs'[r].reply = "created"
      BY <1>0, <2>3 DEF OverState
    <3>2. \E row \in attendances' : SamePair(row, cert)
      BY <2>0, <2>3, UpsertedRows DEF TypeOK, TablesOK
    <3> QED BY <3>1, <3>2 DEF ToldOver, PresentOrGone, Present, SamePair
  <2> QED BY <1>6, <2>1, <2>2, <2>3 DEF WriteOverride
<1>7. CASE AuditOverride(r)
  <2>1. attendances' = attendances /\ AnswerOverride(r, "created")
    BY <1>7 DEF AuditOverride
  <2>2. overs[r].reply = "created"
    BY <1>7 DEF AuditOverride, ToldOver
  <2> QED BY <1>2, <1>3, <2>1, <2>2
<1> QED BY <1>4, <1>5, <1>6, <1>7 DEF OverrideStep

LEMMA AllOversToldKept ==
    ASSUME TypeOK, UniqueAttendance, OverridesAreMarked, AllOversTold, [Next]_vars
    PROVE  AllOversTold'
<1> SUFFICES ASSUME NEW r \in OverrideReqs PROVE ToldOver(overs[r])'
  BY DEF AllOversTold
<1>0. overs \in [OverrideReqs -> OverState] /\ ToldOver(overs[r])
  BY DEF TypeOK, OversOK, AllOversTold
<1>1. CASE overs'[r] = overs[r]
  BY <1>0, <1>1, ToldOverStays
<1>2. CASE OverrideStep(r)
  BY <1>0, <1>2, ToldOverSteps
<1>3. ASSUME NEW q \in OverrideReqs, q # r, OverrideStep(q) PROVE overs'[r] = overs[r]
  BY <1>0, <1>3 DEF OverrideStep, SendOverride, FindOverrideEvent, VerifySigner,
                    CheckOverride, FindRow, WriteOverride, AuditOverride, AnswerOverride,
                    AdvanceOverride
<1>4. ASSUME NEW q \in ScanReqs, ScanStep(q) PROVE overs' = overs
  BY <1>4 DEF ScanStep, SendScan, FindExisting, FindEvent, VerifyDevice, CheckScan,
              WriteTimeIn, WriteTimeOut, AuditScan, OnlyScans
<1>5. ASSUME Environment \/ UNCHANGED vars PROVE overs' = overs
  BY <1>5 DEF Environment, PatchEvent, CancelEvent, HardDeleteEvent, SetAccountStatus,
              DeleteAccount, ChangeClass, Unlist, RevokeDevice, Tick, vars
<1> QED BY <1>1, <1>2, <1>3, <1>4, <1>5 DEF Next

(* Whatever was told of a scan or of an entry is true of the database,     *)
(* then and later: the requests of others, retries, overrides and          *)
(* deletions around it included, and a certificate that was counted for    *)
(* another student aside.                                                  *)
THEOREM AnswersStayTrue == Spec => []AnswersAreTrue
<1>1. Init => ToldInv /\ AllOversTold
  BY DEF Init, ToldInv, UniqueAttendance, CertsKnown, RowsKnown, AllTold, Told, Sent,
         AllOversTold, ToldOver
<1>2. TypeOK /\ TypeOK' /\ ToldInv /\ [Next]_vars => ToldInv'
  BY UniqueKept, CertsKnownKept, RowsKnownKept, AllToldKept DEF ToldInv
<1>3. TypeOK /\ UniqueAttendance /\ OverridesAreMarked /\ AllOversTold /\ [Next]_vars
        => AllOversTold'
  BY AllOversToldKept
<1>4. ToldInv /\ AllOversTold => AnswersAreTrue
  <2> SUFFICES ASSUME ToldInv, AllOversTold PROVE AnswersAreTrue
    OBVIOUS
  <2>1. ASSUME NEW r \in ScanReqs, Elsewhere(scans[r].post) PROVE CountedForAnother(r)
    BY <2>1 DEF Elsewhere, Counted, CountedForAnother
  <2> QED
    BY <2>1 DEF ToldInv, AllTold, Told, AllOversTold, ToldOver, AnswersAreTrue,
                PresentOrGone, LeftOrGone, Present, Left, Gone, RowsOf
<1> QED BY <1>1, <1>2, <1>3, <1>4, TypeCorrect, OneAttempt, OverridesStayMarked, PTL DEF Spec

-----------------------------------------------------------------------------
(* What the audit log says. *)

Transitions == {"time_in", "time_out"}

(* Request r made the transition a: it has logged it, or is about to. *)
Claims(r, a) ==
    \/ scans[r].pc = "audit" /\ scans[r].reply = a
    \/ \E row \in audits : row.req = r /\ row.action = a

AuditsKnown ==
    \A row \in audits :
        row.action \in Transitions =>
            /\ row.req \in ScanReqs
            /\ scans[row.req].pc = "done" /\ scans[row.req].reply = row.action
            /\ SamePair(row, scans[row.req].post)

ClaimedOnce ==
    \A r, q \in ScanReqs, a \in Transitions :
        Claims(r, a) /\ Claims(q, a) /\ SamePair(scans[r].post, scans[q].post) => r = q

AuditInv == ToldInv /\ NoOrphans /\ AuditsKnown /\ ClaimedOnce

LEMMA OthersStay ==
    ASSUME TypeOK, NEW r \in ScanReqs, NEW q \in ScanReqs, q # r, ScanStep(r)
    PROVE  scans'[q] = scans[q]
BY DEF TypeOK, ScansOK, ScanStep, SendScan, FindExisting, FindEvent, KeepEvent, VerifyDevice,
       CheckScan, WriteTimeIn, WriteTimeOut, AuditScan, Answer, Advance

(* A step that is no scan handler's logs no transition. *)
LEMMA NoScanStep ==
    ASSUME (\E o \in OverrideReqs : OverrideStep(o)) \/ Environment \/ UNCHANGED vars
    PROVE  /\ scans' = scans
           /\ \A row \in audits' : row \in audits \/ row.action = "override"
<1>1. ASSUME NEW o \in OverrideReqs, OverrideStep(o)
      PROVE  scans' = scans /\ \A row \in audits' : row \in audits \/ row.action = "override"
  <2>1. CASE AuditOverride(o)
    BY <2>1 DEF AuditOverride, Log
  <2>2. CASE ~ AuditOverride(o)
    BY <1>1, <2>2 DEF OverrideStep, SendOverride, FindOverrideEvent, VerifySigner,
                      CheckOverride, FindRow, WriteOverride, OnlyOvers
  <2> QED BY <2>1, <2>2
<1>2. ASSUME Environment \/ UNCHANGED vars PROVE scans' = scans /\ audits' = audits
  BY <1>2 DEF Environment, PatchEvent, CancelEvent, HardDeleteEvent, SetAccountStatus,
              DeleteAccount, ChangeClass, Unlist, RevokeDevice, Tick, vars
<1> QED BY <1>1, <1>2

LEMMA AuditedScan ==
    ASSUME TypeOK, NEW r \in ScanReqs, AuditScan(r)
    PROVE  /\ scans'[r].pc = "done" /\ scans'[r].post = scans[r].post
           /\ scans'[r].reply = scans[r].reply
           /\ \A row \in audits' :
                \/ row \in audits
                \/ /\ row.req = r /\ row.action = scans[r].reply
                   /\ SamePair(row, scans[r].post)
<1>1. scans \in [ScanReqs -> ScanState]
  BY DEF TypeOK, ScansOK
<1> QED BY <1>1 DEF AuditScan, Log, Answer, ScanState, SamePair

LEMMA NoAuditStep ==
    ASSUME NEW r \in ScanReqs, ScanStep(r), ~ AuditScan(r)
    PROVE  audits' = audits /\ scans[r].pc # "done"
BY DEF ScanStep, SendScan, FindExisting, FindEvent, VerifyDevice, CheckScan, WriteTimeIn,
       WriteTimeOut, OnlyScans

LEMMA AuditsKnownKept ==
    ASSUME TypeOK, AuditsKnown, [Next]_vars
    PROVE  AuditsKnown'
<1> SUFFICES ASSUME NEW row \in audits', row.action \in Transitions
             PROVE  /\ row.req \in ScanReqs
                    /\ scans'[row.req].pc = "done" /\ scans'[row.req].reply = row.action
                    /\ SamePair(row, scans'[row.req].post)
  BY DEF AuditsKnown, SamePair
<1>1. ASSUME row \in audits
      PROVE  /\ row.req \in ScanReqs
             /\ scans[row.req].pc = "done" /\ scans[row.req].reply = row.action
             /\ SamePair(row, scans[row.req].post)
  BY <1>1 DEF AuditsKnown
<1>2. ASSUME NEW r \in ScanReqs, ScanStep(r)
      PROVE  /\ row.req \in ScanReqs
             /\ scans'[row.req].pc = "done" /\ scans'[row.req].reply = row.action
             /\ SamePair(row, scans'[row.req].post)
  <2>1. CASE AuditScan(r)
    <3>1. scans[r].pc = "audit"
      BY <2>1 DEF AuditScan
    <3>2. CASE row \in audits
      BY <1>1, <1>2, <3>1, <3>2, OthersStay DEF SamePair
    <3>3. CASE row \notin audits
      BY <2>1, <3>3, AuditedScan DEF SamePair
    <3> QED BY <3>2, <3>3
  <2>2. CASE ~ AuditScan(r)
    BY <1>1, <1>2, <2>2, NoAuditStep, OthersStay DEF SamePair
  <2> QED BY <2>1, <2>2
<1>3. CASE (\E o \in OverrideReqs : OverrideStep(o)) \/ Environment \/ UNCHANGED vars
  <2>1. row \in audits /\ scans' = scans
    BY <1>3, NoScanStep DEF Transitions
  <2> QED BY <1>1, <2>1 DEF SamePair
<1> QED BY <1>2, <1>3 DEF Next

(* A transition is claimed by the one write that makes it. *)
LEMMA NewClaim ==
    ASSUME TypeOK, [Next]_vars, NEW r \in ScanReqs, NEW a \in Transitions,
           Claims(r, a)', ~ Claims(r, a)
    PROVE  /\ ScanStep(r) /\ audits' = audits /\ scans'[r].post = scans[r].post
           /\ \/ /\ a = "time_in"
                 /\ ForeignKeysHold(scans[r].post) /\ ~ IsDuplicate(scans[r].post)
              \/ /\ a = "time_out"
                 /\ OpenRows(scans[r]) # {}
<1>0. scans \in [ScanReqs -> ScanState] /\ scans[r] \in ScanState
  BY DEF TypeOK, ScansOK
<1>1. PICK q \in ScanReqs : ScanStep(q)
  BY NoScanStep DEF Next, Claims, Transitions
<1>2. q = r
  <2>1. ASSUME q # r PROVE FALSE
    <3>1. scans'[r] = scans[r]
      BY <1>1, <2>1, OthersStay
    <3>2. \A row \in audits' : row \in audits \/ row.req = q
      BY <1>1, AuditedScan, NoAuditStep
    <3> QED BY <2>1, <3>1, <3>2 DEF Claims
  <2> QED BY <2>1
<1>3. ~ AuditScan(r)
  <2>1. ASSUME AuditScan(r) PROVE FALSE
    <3>1. scans[r].pc = "audit" /\ scans'[r].pc = "done"
      BY <2>1, AuditedScan DEF AuditScan
    <3>2. PICK row \in audits' : row.req = r /\ row.action = a
      BY <3>1 DEF Claims
    <3> QED BY <2>1, <3>1, <3>2, AuditedScan DEF Claims
  <2> QED BY <2>1
<1>4. audits' = audits /\ scans'[r].pc = "audit" /\ scans'[r].reply = a
  BY <1>1, <1>2, <1>3, NoAuditStep DEF Claims
<1>5. ASSUME NEW reply, Answer(r, reply) PROVE FALSE
  BY <1>0, <1>4, <1>5 DEF Answer, ScanState
<1>6. ASSUME NEW pc \in {"event", "check", "write"}, Advance(r, pc) PROVE FALSE
  BY <1>0, <1>4, <1>6 DEF Advance, ScanState
<1>7. ASSUME SendScan(r) PROVE FALSE
  <2>1. PICK post : scans' = [scans EXCEPT ![r] =
                         [scans[r] EXCEPT !.pc = "lookup", !.post = post,
                                          !.class = accounts[post.student].class]]
    BY <1>7 DEF SendScan
  <2> QED BY <1>0, <1>4, <2>1 DEF ScanState
<1>8. ASSUME FindExisting(r) PROVE FALSE
  BY <1>0, <1>4, <1>5, <1>6, <1>8 DEF FindExisting, ScanState
<1>9. ASSUME FindEvent(r) PROVE FALSE
  BY <1>0, <1>4, <1>5, <1>9 DEF FindEvent, KeepEvent, ScanState
<1>10. ASSUME VerifyDevice(r) \/ CheckScan(r) PROVE FALSE
  BY <1>5, <1>6, <1>10 DEF VerifyDevice, CheckScan
<1>11. ASSUME WriteTimeIn(r)
       PROVE  /\ scans' = [scans EXCEPT ![r] = [scans[r] EXCEPT !.pc = "audit",
                                                               !.reply = "time_in"]]
              /\ ForeignKeysHold(scans[r].post) /\ ~ IsDuplicate(scans[r].post)
  BY <1>5, <1>11 DEF WriteTimeIn
<1>12. ASSUME WriteTimeOut(r)
       PROVE  /\ scans' = [scans EXCEPT ![r] = [scans[r] EXCEPT !.pc = "audit",
                                                               !.reply = "time_out"]]
              /\ OpenRows(scans[r]) # {}
  BY <1>5, <1>12 DEF WriteTimeOut
<1>13. WriteTimeIn(r) \/ WriteTimeOut(r)
  BY <1>1, <1>2, <1>3, <1>7, <1>8, <1>9, <1>10 DEF ScanStep
<1> QED BY <1>0, <1>1, <1>2, <1>4, <1>11, <1>12, <1>13 DEF ScanState

(* ... and nobody has claimed it before. *)
LEMMA NotClaimedBefore ==
    ASSUME TypeOK, AuditInv, [Next]_vars, NEW r \in ScanReqs, NEW q \in ScanReqs,
           NEW a \in Transitions, Claims(r, a)', ~ Claims(r, a), Claims(q, a),
           SamePair(scans[r].post, scans[q].post)
    PROVE  FALSE
<1> DEFINE cert == scans[r].post
<1>1. scans[q].reply = a /\ Told(scans[q])
  BY DEF Claims, AuditInv, AuditsKnown, ToldInv, AllTold
<1>2. CASE a = "time_in"
  <2>1. PresentOrGone(cert.event, cert.student)
    BY <1>1, <1>2 DEF Told, SamePair
  <2>2. ForeignKeysHold(cert) /\ ~ IsDuplicate(cert)
    BY <1>2, NewClaim
  <2> QED BY <2>1, <2>2 DEF PresentOrGone, Present, Gone, ForeignKeysHold, IsDuplicate, RowsOf
<1>3. CASE a = "time_out"
  <2>1. LeftOrGone(cert.event, cert.student)
    BY <1>1, <1>3 DEF Told, SamePair
  <2>2. PICK row \in attendances : SamePair(row, cert) /\ ~ Given(row.timeOutAt)
    BY <1>3, NewClaim DEF OpenRows, RowsOf, SamePair
  <2> QED BY <2>1, <2>2 DEF LeftOrGone, Left, Gone, NoOrphans, AuditInv, ToldInv,
                            UniqueAttendance, SamePair
<1> QED BY <1>2, <1>3 DEF Transitions

LEMMA ClaimedOnceKept ==
    ASSUME TypeOK, AuditInv, [Next]_vars
    PROVE  ClaimedOnce'
<1> SUFFICES ASSUME NEW r \in ScanReqs, NEW q \in ScanReqs, NEW a \in Transitions,
                    Claims(r, a)', Claims(q, a)', SamePair(scans'[r].post, scans'[q].post),
                    r # q
             PROVE  FALSE
  BY DEF ClaimedOnce, SamePair
<1>1. ASSUME NEW p \in ScanReqs, Claims(p, a)' PROVE scans'[p].post = scans[p].post
  <2>1. CASE Claims(p, a)
    BY <2>1, CertsStay DEF Claims, AuditInv, AuditsKnown, Sent
  <2> QED BY <1>1, <2>1, NewClaim
<1>2. SamePair(scans[r].post, scans[q].post) /\ SamePair(scans[q].post, scans[r].post)
  BY <1>1 DEF SamePair
<1>3. ~ Claims(r, a) \/ ~ Claims(q, a)
  BY <1>2 DEF AuditInv, ClaimedOnce
<1>4. CASE Claims(r, a) \/ Claims(q, a)
  BY <1>2, <1>3, <1>4, NotClaimedBefore
<1>5. CASE ~ Claims(r, a) /\ ~ Claims(q, a)
  <2>1. scans'[q] = scans[q] /\ audits' = audits
    BY <1>5, NewClaim, OthersStay
  <2> QED BY <1>5, <2>1 DEF Claims
<1> QED BY <1>4, <1>5

(* However many requests race to check one student in or out, exactly the  *)
(* one whose write went through is in the audit log.                       *)
THEOREM OneAuditEach == Spec => []AuditedOnce
<1>1. Init => AuditInv
  BY DEF Init, AuditInv, ToldInv, UniqueAttendance, CertsKnown, RowsKnown, AllTold, Told, Sent,
         NoOrphans, AuditsKnown, ClaimedOnce, Claims
<1>2. TypeOK /\ TypeOK' /\ AuditInv /\ [Next]_vars => AuditInv'
  <2>1. TypeOK /\ TypeOK' /\ ToldInv /\ [Next]_vars => ToldInv'
    BY UniqueKept, CertsKnownKept, RowsKnownKept, AllToldKept DEF ToldInv
  <2> QED BY <2>1, NoOrphansKept, AuditsKnownKept, ClaimedOnceKept DEF AuditInv
<1>3. TypeOK /\ AuditInv => AuditedOnce
  <2> SUFFICES ASSUME TypeOK, AuditInv, NEW a \in audits, NEW b \in audits,
                      a.action \in Transitions, a.action = b.action, SamePair(a, b)
               PROVE  a = b
    BY DEF AuditedOnce, Transitions, SamePair
  <2>1. a \in AuditRow /\ b \in AuditRow
    BY DEF TypeOK, TablesOK
  <2>2. /\ a.req \in ScanReqs /\ b.req \in ScanReqs
        /\ SamePair(scans[a.req].post, scans[b.req].post)
    BY DEF AuditInv, AuditsKnown, SamePair
  <2>3. a.req = b.req
    BY <2>2 DEF AuditInv, ClaimedOnce, Claims
  <2> QED BY <2>1, <2>3 DEF AuditRow, SamePair
<1> QED BY <1>1, <1>2, <1>3, TypeCorrect, PTL DEF Spec

-----------------------------------------------------------------------------
(* The event a handler works with. *)

ScheduleKnown == \A e \in Events : events[e] # None => events[e].times \in versions[e]

ScanWorks(scan) ==
    /\ scan.pc \in {"verify", "check", "write"} =>
          scan.event.status = "active" /\ scan.event.times \in versions[scan.post.event]
    /\ scan.pc = "write" => ScannedInWindow(scan)

InSomeWindow(times, t) == InCheckIn(times, t) \/ InTimeOut(times, t)

Checked == {"write", "insert", "update"}

OverWorks(over) ==
    /\ over.pc \in {"verify", "check"} \cup Checked =>
           over.event.times \in versions[over.cert.event]
    /\ over.pc \in Checked => /\ over.event.status = "active"
                              /\ InSomeWindow(over.event.times, over.cert.createdAt)

WorkInv ==
    /\ ScheduleKnown
    /\ \A r \in ScanReqs : ScanWorks(scans[r])
    /\ \A r \in OverrideReqs : OverWorks(overs[r])

LEMMA VersionsGrow ==
    ASSUME TypeOK, [Next]_vars
    PROVE  \A e \in Events : versions[e] \subseteq versions'[e]
<1>0. versions \in [Events -> SUBSET Schedules]
  BY DEF TypeOK, TablesOK
<1>1. ASSUME NEW r \in ScanReqs, ScanStep(r) PROVE versions' = versions
  BY <1>1 DEF ScanStep, SendScan, FindExisting, FindEvent, VerifyDevice, CheckScan, WriteTimeIn,
              WriteTimeOut, AuditScan, OnlyScans
<1>2. ASSUME NEW r \in OverrideReqs, OverrideStep(r) PROVE versions' = versions
  BY <1>2 DEF OverrideStep, SendOverride, FindOverrideEvent, VerifySigner, CheckOverride, FindRow,
              WriteOverride, AuditOverride, OnlyOvers
<1>3. ASSUME NEW e \in Events, PatchEvent(e) PROVE \A f \in Events : versions[f] \subseteq versions'[f]
  BY <1>0, <1>3 DEF PatchEvent
<1>4. ASSUME NEW e \in Events, CancelEvent(e) \/ HardDeleteEvent(e) PROVE versions' = versions
  BY <1>4 DEF CancelEvent, HardDeleteEvent
<1>5. ASSUME \/ \E s \in Students : \/ SetAccountStatus(s) \/ DeleteAccount(s)
                                    \/ ChangeClass(s) \/ Unlist(s)
             \/ \E p \in Students \cup Staff : RevokeDevice(p)
             \/ Tick \/ UNCHANGED vars
      PROVE  versions' = versions
  BY <1>5 DEF SetAccountStatus, DeleteAccount, ChangeClass, Unlist, RevokeDevice, Tick, vars
<1> QED BY <1>1, <1>2, <1>3, <1>4, <1>5 DEF Next, Environment

LEMMA ScheduleKnownKept ==
    ASSUME TypeOK, ScheduleKnown, [Next]_vars
    PROVE  ScheduleKnown'
<1>0. /\ versions \in [Events -> SUBSET Schedules]
      /\ events \in [Events -> EventRow \cup {None}]
  BY DEF TypeOK, TablesOK
<1>1. ASSUME events' = events PROVE ScheduleKnown'
  BY <1>1, VersionsGrow DEF ScheduleKnown
<1>2. ASSUME NEW r \in ScanReqs, ScanStep(r) PROVE events' = events
  BY <1>2 DEF ScanStep, SendScan, FindExisting, FindEvent, VerifyDevice, CheckScan, WriteTimeIn,
              WriteTimeOut, AuditScan, OnlyScans, tables
<1>3. ASSUME NEW r \in OverrideReqs, OverrideStep(r) PROVE events' = events
  BY <1>3 DEF OverrideStep, SendOverride, FindOverrideEvent, VerifySigner, CheckOverride, FindRow,
              WriteOverride, AuditOverride, OnlyOvers, tables
<1>4. ASSUME NEW e \in Events, PatchEvent(e) PROVE ScheduleKnown'
  <2>1. PICK times \in Schedules, target \in Targets :
           /\ events' = [events EXCEPT ![e] = [events[e] EXCEPT !.times = times,
                                                               !.target = target]]
           /\ versions' = [versions EXCEPT ![e] = versions[e] \cup {times}]
    BY <1>4 DEF PatchEvent
  <2>2. events[e] \in EventRow
    BY <1>0, <1>4 DEF PatchEvent
  <2>3. events'[e].times = times /\ times \in versions'[e]
    BY <1>0, <2>1, <2>2 DEF EventRow
  <2>4. \A f \in Events : f # e => events'[f] = events[f] /\ versions'[f] = versions[f]
    BY <1>0, <2>1
  <2> QED BY <2>3, <2>4 DEF ScheduleKnown
<1>5. ASSUME NEW e \in Events, CancelEvent(e) PROVE ScheduleKnown'
  <2>1. events[e] \in EventRow /\ versions' = versions
    BY <1>0, <1>5 DEF CancelEvent
  <2>2. events' = [events EXCEPT ![e] = [events[e] EXCEPT !.status = "cancelled"]]
    BY <1>5 DEF CancelEvent
  <2>3. \A f \in Events : events'[f] # None => events[f] # None /\ events'[f].times = events[f].times
    BY <1>0, <2>1, <2>2, AttendanceAssumption DEF EventRow
  <2> QED BY <2>1, <2>3 DEF ScheduleKnown
<1>6. ASSUME NEW e \in Events, HardDeleteEvent(e) PROVE ScheduleKnown'
  BY <1>0, <1>6 DEF HardDeleteEvent, ScheduleKnown
<1>7. ASSUME \/ \E s \in Students : \/ SetAccountStatus(s) \/ DeleteAccount(s)
                                    \/ ChangeClass(s) \/ Unlist(s)
             \/ \E p \in Students \cup Staff : RevokeDevice(p)
             \/ Tick \/ UNCHANGED vars
      PROVE  events' = events
  BY <1>7 DEF SetAccountStatus, DeleteAccount, ChangeClass, Unlist, RevokeDevice, Tick, vars,
              tables
<1> QED BY <1>1, <1>2, <1>3, <1>4, <1>5, <1>6, <1>7 DEF Next, Environment

(* A handler that keeps its certificate and its event works on. *)
LEMMA ScanStaysAtWork ==
    ASSUME TypeOK, [Next]_vars, NEW r \in ScanReqs, ScanWorks(scans[r]), scans'[r] = scans[r]
    PROVE  ScanWorks(scans[r])'
<1>1. scans[r].pc \in {"verify", "check", "write"} => scans[r].post.event \in Events
  BY ScanAt DEF TypeOK, ScanOK, ScanPost
<1> QED BY <1>1, VersionsGrow DEF ScanWorks, ScannedInWindow

LEMMA ScanGoesToWork ==
    ASSUME TypeOK, [Next]_vars, ScheduleKnown, NEW r \in ScanReqs, ScanWorks(scans[r]),
           ScanStep(r)
    PROVE  ScanWorks(scans[r])'
<1>0. /\ scans \in [ScanReqs -> ScanState] /\ scans[r] \in ScanState
      /\ scans[r].pc # "idle" => scans[r].post.event \in Events
  BY ScanAt DEF TypeOK, ScansOK, ScanOK, ScanPost
<1>1. ASSUME scans'[r].pc \notin {"verify", "check", "write"} PROVE ScanWorks(scans[r])'
  BY <1>1 DEF ScanWorks
<1>2. ASSUME NEW reply, Answer(r, reply) PROVE ScanWorks(scans[r])'
  BY <1>0, <1>1, <1>2 DEF Answer, ScanState
<1>3. ASSUME SendScan(r) PROVE ScanWorks(scans[r])'
  <2>1. PICK post : scans' = [scans EXCEPT ![r] =
                         [scans[r] EXCEPT !.pc = "lookup", !.post = post,
                                          !.class = accounts[post.student].class]]
    BY <1>3 DEF SendScan
  <2> QED BY <1>0, <1>1, <2>1 DEF ScanState
<1>4. ASSUME FindExisting(r) PROVE ScanWorks(scans[r])'
  BY <1>0, <1>1, <1>2, <1>4 DEF FindExisting, Advance, ScanState
<1>5. ASSUME FindEvent(r) PROVE ScanWorks(scans[r])'
  <2> DEFINE ev == events[scans[r].post.event]
  <2>1. \/ \E reply : Answer(r, reply)
        \/ KeepEvent(r, ev) /\ ev # None /\ ev.status = "active"
    BY <1>5 DEF FindEvent
  <2>2. ASSUME KeepEvent(r, ev), ev # None, ev.status = "active" PROVE ScanWorks(scans[r])'
    <3>1. /\ scans'[r].pc = "verify" /\ scans'[r].event = ev
          /\ scans'[r].post = scans[r].post
      BY <1>0, <2>2 DEF KeepEvent, ScanState
    <3>2. ev.times \in versions[scans[r].post.event] /\ versions' = versions
      BY <1>0, <1>5, <2>2 DEF ScheduleKnown, FindEvent, OnlyScans
    <3> QED BY <2>2, <3>1, <3>2 DEF ScanWorks
  <2> QED BY <1>2, <2>1, <2>2
<1>6. ASSUME NEW pc \in {"check", "write"}, Advance(r, pc),
             scans[r].pc \in {"verify", "check"}, versions' = versions,
             pc = "write" => ScannedInWindow(scans[r])
      PROVE  ScanWorks(scans[r])'
  <2>1. /\ scans'[r].pc = pc /\ scans'[r].event = scans[r].event
        /\ scans'[r].post = scans[r].post /\ scans'[r].seen = scans[r].seen
    BY <1>0, <1>6 DEF Advance, ScanState
  <2> QED BY <1>6, <2>1 DEF ScanWorks, ScannedInWindow
<1>7. ASSUME VerifyDevice(r) \/ CheckScan(r) PROVE ScanWorks(scans[r])'
  BY <1>2, <1>6, <1>7 DEF VerifyDevice, CheckScan, Acceptable, OnlyScans
<1>8. ASSUME WriteTimeIn(r) PROVE ScanWorks(scans[r])'
  <2>1. \/ \E reply : Answer(r, reply)
        \/ scans' = [scans EXCEPT ![r] = [scans[r] EXCEPT !.pc = "audit", !.reply = "time_in"]]
    BY <1>8 DEF WriteTimeIn
  <2> QED BY <1>0, <1>1, <1>2, <2>1 DEF ScanState
<1>9. ASSUME WriteTimeOut(r) PROVE ScanWorks(scans[r])'
  BY <1>0, <1>1, <1>2, <1>9 DEF WriteTimeOut, ScanState
<1>10. ASSUME AuditScan(r) PROVE ScanWorks(scans[r])'
  BY <1>2, <1>10 DEF AuditScan
<1> QED BY <1>3, <1>4, <1>5, <1>7, <1>8, <1>9, <1>10 DEF ScanStep

LEMMA OverStaysAtWork ==
    ASSUME TypeOK, [Next]_vars, NEW r \in OverrideReqs, OverWorks(overs[r]), overs'[r] = overs[r]
    PROVE  OverWorks(overs[r])'
<1>1. overs[r].pc \in {"verify", "check"} \cup Checked => overs[r].cert.event \in Events
  BY OverAt DEF TypeOK, OverOK, OverrideCert, Checked
<1> QED BY <1>1, VersionsGrow DEF OverWorks

LEMMA OverGoesToWork ==
    ASSUME TypeOK, [Next]_vars, ScheduleKnown, NEW r \in OverrideReqs, OverWorks(overs[r]),
           OverrideStep(r)
    PROVE  OverWorks(overs[r])'
<1>0. /\ overs \in [OverrideReqs -> OverState] /\ overs[r] \in OverState
      /\ overs[r].pc # "idle" => overs[r].cert.event \in Events
  BY OverAt DEF TypeOK, OversOK, OverOK, OverrideCert
<1> USE DEF Checked
<1>1. ASSUME overs'[r].pc \notin {"verify", "check"} \cup Checked PROVE OverWorks(overs[r])'
  BY <1>1 DEF OverWorks
<1>2. ASSUME NEW reply, AnswerOverride(r, reply) PROVE OverWorks(overs[r])'
  BY <1>0, <1>1, <1>2 DEF AnswerOverride, OverState
<1>3. ASSUME SendOverride(r) PROVE OverWorks(overs[r])'
  <2>1. PICK cert, actor : overs' = [overs EXCEPT ![r] =
                         [overs[r] EXCEPT !.pc = "event", !.cert = cert, !.actor = actor]]
    BY <1>3 DEF SendOverride
  <2> QED BY <1>0, <1>1, <2>1 DEF OverState
<1>4. ASSUME FindOverrideEvent(r) PROVE OverWorks(overs[r])'
  <2> DEFINE ev == events[overs[r].cert.event]
  <2>1. \/ \E reply : AnswerOverride(r, reply)
        \/ /\ ev # None
           /\ overs' = [overs EXCEPT ![r] = [overs[r] EXCEPT !.pc = "verify", !.event = ev]]
    BY <1>4 DEF FindOverrideEvent
  <2>2. ASSUME ev # None,
               overs' = [overs EXCEPT ![r] = [overs[r] EXCEPT !.pc = "verify", !.event = ev]]
        PROVE  OverWorks(overs[r])'
    <3>1. /\ overs'[r].pc = "verify" /\ overs'[r].event = ev
          /\ overs'[r].cert = overs[r].cert
      BY <1>0, <2>2 DEF OverState
    <3>2. ev.times \in versions[overs[r].cert.event] /\ versions' = versions
      BY <1>0, <1>4, <2>2 DEF ScheduleKnown, FindOverrideEvent, OnlyOvers
    <3> QED BY <3>1, <3>2 DEF OverWorks
  <2> QED BY <1>2, <2>1, <2>2
<1>5. ASSUME NEW pc \in {"check"} \cup Checked, AdvanceOverride(r, pc),
             overs[r].pc \in {"verify", "check", "write"}, versions' = versions,
             pc \in Checked => /\ overs[r].event.status = "active"
                               /\ InSomeWindow(overs[r].event.times, overs[r].cert.createdAt)
      PROVE  OverWorks(overs[r])'
  <2>1. /\ overs'[r].pc = pc /\ overs'[r].event = overs[r].event
        /\ overs'[r].cert = overs[r].cert
    BY <1>0, <1>5 DEF AdvanceOverride, OverState
  <2> QED BY <1>5, <2>1 DEF OverWorks
<1>6. ASSUME VerifySigner(r) PROVE OverWorks(overs[r])'
  BY <1>2, <1>5, <1>6 DEF VerifySigner, OnlyOvers
<1>7. ASSUME CheckOverride(r) PROVE OverWorks(overs[r])'
  BY <1>2, <1>5, <1>7 DEF CheckOverride, EntryAllowed, InSomeWindow, OnlyOvers
<1>8. ASSUME WriteOverride(r) PROVE OverWorks(overs[r])'
  BY <1>0, <1>1, <1>2, <1>8 DEF WriteOverride, OverState
<1>9. ASSUME AuditOverride(r) PROVE OverWorks(overs[r])'
  BY <1>2, <1>9 DEF AuditOverride
<1>10. ASSUME FindRow(r) PROVE OverWorks(overs[r])'
  BY <1>5, <1>10 DEF FindRow, OverWorks, OnlyOvers
<1> QED BY <1>3, <1>4, <1>6, <1>7, <1>8, <1>9, <1>10 DEF OverrideStep

LEMMA WorkInvKept ==
    ASSUME TypeOK, WorkInv, [Next]_vars
    PROVE  WorkInv'
<1>1. ASSUME NEW r \in ScanReqs PROVE ScanWorks(scans[r])'
  <2>1. ScanWorks(scans[r]) /\ ScheduleKnown
    BY DEF WorkInv
  <2>2. CASE ScanStep(r)
    BY <2>1, <2>2, ScanGoesToWork
  <2>3. CASE scans'[r] = scans[r]
    BY <2>1, <2>3, ScanStaysAtWork
  <2>4. ASSUME NEW q \in ScanReqs, q # r, ScanStep(q) PROVE scans'[r] = scans[r]
    BY <2>4, OthersStay
  <2> QED BY <2>2, <2>3, <2>4, NoScanStep DEF Next
<1>2. ASSUME NEW r \in OverrideReqs PROVE OverWorks(overs[r])'
  <2>1. OverWorks(overs[r]) /\ ScheduleKnown
    BY DEF WorkInv
  <2>2. CASE OverrideStep(r)
    BY <2>1, <2>2, OverGoesToWork
  <2>3. CASE overs'[r] = overs[r]
    BY <2>1, <2>3, OverStaysAtWork
  <2>4. ASSUME NEW q \in OverrideReqs, q # r, OverrideStep(q) PROVE overs'[r] = overs[r]
    BY <2>4 DEF TypeOK, OversOK, OverrideStep, SendOverride, FindOverrideEvent, VerifySigner,
                CheckOverride, FindRow, WriteOverride, AuditOverride, AnswerOverride, AdvanceOverride
  <2>5. ASSUME NEW q \in ScanReqs, ScanStep(q) PROVE overs' = overs
    BY <2>5 DEF ScanStep, SendScan, FindExisting, FindEvent, VerifyDevice, CheckScan,
                WriteTimeIn, WriteTimeOut, AuditScan, OnlyScans
  <2>6. ASSUME Environment \/ UNCHANGED vars PROVE overs' = overs
    BY <2>6 DEF Environment, PatchEvent, CancelEvent, HardDeleteEvent, SetAccountStatus,
                DeleteAccount, ChangeClass, Unlist, RevokeDevice, Tick, vars
  <2> QED BY <2>2, <2>3, <2>4, <2>5, <2>6 DEF Next
<1> QED BY <1>1, <1>2, ScheduleKnownKept DEF WorkInv

-----------------------------------------------------------------------------
(* What a new or a changed row says, and of whose event. *)

AddedBy(row) ==
    \/ \E r \in ScanReqs : WriteTimeIn(r)
          /\ row = [event |-> scans[r].post.event, student |-> scans[r].post.student,
                    source |-> "qr", key |-> scans[r].post.nonce, scannedAt |-> now,
                    clientAt |-> scans[r].post.scannedAt, timeOutAt |-> NoTime]
    \/ \E r \in ScanReqs : WriteTimeOut(r)
          /\ \E old \in OpenRows(scans[r]) : row = TimedOut(old, scans[r].post.scannedAt)
    \/ \E r \in OverrideReqs : WriteOverride(r)
          /\ \/ row = [event |-> overs[r].cert.event, student |-> overs[r].cert.student,
                       source |-> "override", key |-> r, scannedAt |-> now,
                       clientAt |-> overs[r].cert.createdAt, timeOutAt |-> NoTime]
             \/ \E old \in RowsOf(overs[r].cert.event, overs[r].cert.student) :
                    row = Attested(old, overs[r].cert)

LEMMA RowsAdded ==
    ASSUME [Next]_vars, NEW row \in attendances', row \notin attendances
    PROVE  AddedBy(row)
<1>1. ASSUME NEW r \in ScanReqs, WriteTimeIn(r) PROVE AddedBy(row)
  <2> DEFINE new == [event |-> scans[r].post.event, student |-> scans[r].post.student,
                     source |-> "qr", key |-> scans[r].post.nonce, scannedAt |-> now,
                     clientAt |-> scans[r].post.scannedAt, timeOutAt |-> NoTime]
  <2>1. attendances' = attendances \/ attendances' = attendances \cup {new}
    BY <1>1 DEF WriteTimeIn
  <2>2. row = new
    <3> HIDE DEF new
    <3> QED BY <2>1
  <2> QED BY <1>1, <2>2, Zenon DEF AddedBy
<1>2. ASSUME NEW r \in ScanReqs, WriteTimeOut(r) PROVE AddedBy(row)
  <2>1. \E old \in OpenRows(scans[r]) : row = TimedOut(old, scans[r].post.scannedAt)
    BY <1>2 DEF WriteTimeOut, TimedOut
  <2> QED BY <1>2, <2>1, Zenon DEF AddedBy
<1>3. ASSUME NEW r \in OverrideReqs, WriteOverride(r) PROVE AddedBy(row)
  <2> DEFINE rows == RowsOf(overs[r].cert.event, overs[r].cert.student)
             new  == [event |-> overs[r].cert.event, student |-> overs[r].cert.student,
                      source |-> "override", key |-> r, scannedAt |-> now,
                      clientAt |-> overs[r].cert.createdAt, timeOutAt |-> NoTime]
  <2>1. \/ attendances' = attendances
        \/ attendances' = attendances \cup {new}
        \/ attendances' = (attendances \ rows) \cup {Attested(old, overs[r].cert) : old \in rows}
    BY <1>3 DEF WriteOverride, Upserted
  <2>2. row = new \/ \E old \in rows : row = Attested(old, overs[r].cert)
    <3> HIDE DEF new, rows
    <3> QED BY <2>1
  <2> QED BY <1>3, <2>2, Zenon DEF AddedBy
<1>4. ASSUME NEW r \in ScanReqs, ScanStep(r) PROVE WriteTimeIn(r) \/ WriteTimeOut(r)
  BY <1>4 DEF ScanStep, SendScan, FindExisting, FindEvent, VerifyDevice, CheckScan, AuditScan,
              OnlyScans
<1>5. ASSUME NEW r \in OverrideReqs, OverrideStep(r) PROVE WriteOverride(r)
  BY <1>5 DEF OverrideStep, SendOverride, FindOverrideEvent, VerifySigner, CheckOverride, FindRow,
              AuditOverride, OnlyOvers
<1>6. ASSUME Environment \/ UNCHANGED vars PROVE FALSE
  BY <1>6 DEF Environment, PatchEvent, CancelEvent, HardDeleteEvent, SetAccountStatus,
              DeleteAccount, ChangeClass, Unlist, RevokeDevice, Tick, vars
<1> QED BY <1>1, <1>2, <1>3, <1>4, <1>5, <1>6 DEF Next

(* An instant in a window of a schedule the event has had. *)
FellInWindows(row) ==
    /\ \E times \in versions[row.event] :
          \/ InCheckIn(times, row.clientAt)
          \/ row.source = "override" /\ InTimeOut(times, row.clientAt)
    /\ Given(row.timeOutAt) =>
          \E times \in versions[row.event] : InTimeOut(times, row.timeOutAt)

LEMMA FellStays ==
    ASSUME TypeOK, [Next]_vars, NEW row \in attendances, FellInWindows(row)
    PROVE  FellInWindows(row)'
<1>1. row.event \in Events
  BY DEF TypeOK, TablesOK, AttendanceRow
<1> QED BY <1>1, VersionsGrow DEF FellInWindows

LEMMA AddedFell ==
    ASSUME TypeOK, WorkInv, InstantsFellInWindows, NEW row, AddedBy(row)
    PROVE  FellInWindows(row)
<1>0. attendances \subseteq AttendanceRow
  BY DEF TypeOK, TablesOK
<1>1. ASSUME NEW r \in ScanReqs, WriteTimeIn(r),
             row = [event |-> scans[r].post.event, student |-> scans[r].post.student,
                    source |-> "qr", key |-> scans[r].post.nonce, scannedAt |-> now,
                    clientAt |-> scans[r].post.scannedAt, timeOutAt |-> NoTime]
      PROVE  FellInWindows(row)
  <2>1. /\ scans[r].event.times \in versions[scans[r].post.event]
        /\ InCheckIn(scans[r].event.times, scans[r].post.scannedAt)
    BY <1>1 DEF WriteTimeIn, WorkInv, ScanWorks, ScannedInWindow
  <2>2. /\ row.event = scans[r].post.event /\ row.clientAt = scans[r].post.scannedAt
        /\ ~ Given(row.timeOutAt)
    BY <1>1 DEF Given
  <2> QED BY <2>1, <2>2 DEF FellInWindows
<1>2. ASSUME NEW r \in ScanReqs, WriteTimeOut(r), NEW old \in OpenRows(scans[r]),
             row = TimedOut(old, scans[r].post.scannedAt)
      PROVE  FellInWindows(row)
  <2>1. /\ scans[r].event.times \in versions[scans[r].post.event]
        /\ InTimeOut(scans[r].event.times, scans[r].post.scannedAt)
    BY <1>2 DEF WriteTimeOut, WorkInv, ScanWorks, ScannedInWindow
  <2>2. old \in attendances /\ old.event = scans[r].post.event
    BY DEF OpenRows, RowsOf
  <2>3. FellInWindows(old)
    BY <2>2 DEF FellInWindows, InstantsFellInWindows
  <2>4. /\ row.event = old.event /\ row.clientAt = old.clientAt /\ row.source = old.source
        /\ row.timeOutAt = scans[r].post.scannedAt
    BY <1>0, <1>2, <2>2 DEF TimedOut, AttendanceRow
  <2> QED BY <2>1, <2>2, <2>3, <2>4 DEF FellInWindows
<1>3. ASSUME NEW r \in OverrideReqs, WriteOverride(r),
             row = [event |-> overs[r].cert.event, student |-> overs[r].cert.student,
                    source |-> "override", key |-> r, scannedAt |-> now,
                    clientAt |-> overs[r].cert.createdAt, timeOutAt |-> NoTime]
      PROVE  FellInWindows(row)
  <2>1. /\ overs[r].event.times \in versions[overs[r].cert.event]
        /\ InSomeWindow(overs[r].event.times, overs[r].cert.createdAt)
    BY <1>3 DEF WriteOverride, WorkInv, OverWorks, Checked
  <2>2. /\ row.event = overs[r].cert.event /\ row.clientAt = overs[r].cert.createdAt
        /\ row.source = "override" /\ ~ Given(row.timeOutAt)
    BY <1>3 DEF Given
  <2> QED BY <2>1, <2>2 DEF FellInWindows, InSomeWindow
<1>4. ASSUME NEW r \in OverrideReqs, NEW old \in RowsOf(overs[r].cert.event, overs[r].cert.student),
             row = Attested(old, overs[r].cert)
      PROVE  FellInWindows(row)
  <2>1. old \in attendances
    BY DEF RowsOf
  <2>2. FellInWindows(old)
    BY <2>1 DEF FellInWindows, InstantsFellInWindows
  <2>3. /\ row.event = old.event /\ row.clientAt = old.clientAt
        /\ row.source = "override" /\ row.timeOutAt = old.timeOutAt
    BY <1>0, <1>4, <2>1 DEF Attested, AttendanceRow
  <2> QED BY <2>2, <2>3 DEF FellInWindows
<1> QED BY <1>1, <1>2, <1>3, <1>4 DEF AddedBy

(* However late a scan or an entry is synced, and however the schedule was *)
(* edited meanwhile, the instants a row vouches for fell in a window the   *)
(* event has had.                                                          *)
THEOREM InstantsAreVouchedFor == Spec => []InstantsFellInWindows
<1>1. Init => WorkInv /\ InstantsFellInWindows
  <2> SUFFICES ASSUME Init PROVE WorkInv /\ InstantsFellInWindows
    OBVIOUS
  <2>1. ScheduleKnown
    BY DEF Init, ScheduleKnown
  <2> QED BY <2>1 DEF Init, WorkInv, ScanWorks, OverWorks, Checked, InstantsFellInWindows
<1>2. TypeOK /\ WorkInv /\ InstantsFellInWindows /\ [Next]_vars
        => WorkInv' /\ InstantsFellInWindows'
  <2> SUFFICES ASSUME TypeOK, WorkInv, InstantsFellInWindows, [Next]_vars,
                      NEW row \in attendances'
               PROVE  FellInWindows(row)'
    BY WorkInvKept DEF InstantsFellInWindows, FellInWindows
  <2>1. CASE row \in attendances
    BY <2>1, FellStays DEF InstantsFellInWindows, FellInWindows
  <2>2. CASE row \notin attendances
    <3>1. AddedBy(row)
      BY <2>2, RowsAdded
    <3>2. FellInWindows(row)
      BY <3>1, AddedFell
    <3>3. versions' = versions
      BY <3>1 DEF AddedBy, WriteTimeIn, WriteTimeOut, WriteOverride
    <3> QED BY <3>2, <3>3 DEF FellInWindows
  <2> QED BY <2>1, <2>2
<1> QED BY <1>1, <1>2, TypeCorrect, PTL DEF Spec

FrozenOnceCancelled ==
    \A e \in Events :
        events[e] # None /\ events[e].status = "cancelled" /\ ~HoldsActive(e) =>
            \A row \in attendances' : row.event = e => row \in attendances

(* Once the requests that read an event before its cancellation are over,  *)
(* no request that is still to come changes its attendance.                *)
THEOREM CancelledStaysFrozen == Spec => CancelledEventIsFrozen
<1>1. TypeOK /\ WorkInv /\ [Next]_vars => [FrozenOnceCancelled]_vars
  <2> SUFFICES ASSUME TypeOK, WorkInv, [Next]_vars, NEW e \in Events, ~ HoldsActive(e),
                      NEW row \in attendances', row.event = e, row \notin attendances
               PROVE  FALSE
    BY DEF FrozenOnceCancelled
  <2>0. attendances \subseteq AttendanceRow
    BY DEF TypeOK, TablesOK
  <2>1. ASSUME NEW r \in ScanReqs, scans[r].pc = "write", scans[r].post.event = e PROVE FALSE
    <3>1. scans[r].event \in EventRow /\ scans[r].event.status = "active"
      BY <2>1 DEF TypeOK, ScansOK, WorkInv, ScanWorks
    <3> QED BY <2>1, <3>1, AttendanceAssumption DEF HoldsActive
  <2>2. ASSUME NEW r \in OverrideReqs, overs[r].pc \in Checked, overs[r].cert.event = e
        PROVE  FALSE
    <3>1. overs[r].event \in EventRow /\ overs[r].event.status = "active"
      BY <2>2 DEF TypeOK, OversOK, WorkInv, OverWorks, Checked
    <3> QED BY <2>2, <3>1, AttendanceAssumption DEF HoldsActive
  <2>3. AddedBy(row)
    BY RowsAdded
  <2>4. ASSUME NEW r \in ScanReqs, WriteTimeIn(r),
               row = [event |-> scans[r].post.event, student |-> scans[r].post.student,
                      source |-> "qr", key |-> scans[r].post.nonce, scannedAt |-> now,
                      clientAt |-> scans[r].post.scannedAt, timeOutAt |-> NoTime]
        PROVE  FALSE
    BY <2>1, <2>4 DEF WriteTimeIn
  <2>5. ASSUME NEW r \in ScanReqs, WriteTimeOut(r), NEW old \in OpenRows(scans[r]),
               row = TimedOut(old, scans[r].post.scannedAt)
        PROVE  FALSE
    BY <2>0, <2>1, <2>5, TimedOutRow DEF WriteTimeOut, OpenRows, RowsOf, SamePair
  <2>6. ASSUME NEW r \in OverrideReqs, WriteOverride(r),
               \/ row = [event |-> overs[r].cert.event, student |-> overs[r].cert.student,
                         source |-> "override", key |-> r, scannedAt |-> now,
                         clientAt |-> overs[r].cert.createdAt, timeOutAt |-> NoTime]
               \/ \E old \in RowsOf(overs[r].cert.event, overs[r].cert.student) :
                      row = Attested(old, overs[r].cert)
        PROVE  FALSE
    <3>1. overs[r].pc \in Checked
      BY <2>6 DEF WriteOverride, Checked
    <3>2. row.event = overs[r].cert.event
      BY <2>0, <2>6, AttestedRow DEF RowsOf, SamePair
    <3> QED BY <2>2, <3>1, <3>2
  <2> QED BY <2>3, <2>4, <2>5, <2>6 DEF AddedBy
<1>2. Init => WorkInv
  BY DEF Init, WorkInv, ScheduleKnown, ScanWorks, OverWorks, Checked
<1>3. TypeOK /\ WorkInv /\ [Next]_vars => WorkInv'
  BY WorkInvKept
<1> QED
  BY <1>1, <1>2, <1>3, TypeCorrect, PTL DEF Spec, CancelledEventIsFrozen, FrozenOnceCancelled

-----------------------------------------------------------------------------
(* The handlers implement the ledger of AttendanceLedger. *)

EntryOf(row) == [source |-> row.source, timedOut |-> Given(row.timeOutAt)]

RowsIn(A, e, s) == {row \in A : row.event = e /\ row.student = s}

EntryIn(A, e, s) ==
    IF \E row \in RowsIn(A, e, s) : TRUE
    THEN EntryOf(CHOOSE row \in RowsIn(A, e, s) : TRUE)
    ELSE None

ledgerOf(A) == [p \in Events \X Students |-> EntryIn(A, p[1], p[2])]

goneNow == {e \in Events : events[e] = None}
             \cup {s \in Students : accounts[s].status = "deleted"}

LEMMA EntryAbsent ==
    ASSUME NEW A, NEW e, NEW s, RowsIn(A, e, s) = {}
    PROVE  EntryIn(A, e, s) = None
BY DEF EntryIn

LEMMA EntryThere ==
    ASSUME NEW A, NEW e, NEW s, NEW row \in RowsIn(A, e, s),
           \A other \in RowsIn(A, e, s) : other = row
    PROVE  EntryIn(A, e, s) = EntryOf(row)
<1>1. (CHOOSE other \in RowsIn(A, e, s) : TRUE) \in RowsIn(A, e, s)
  BY Zenon
<1> QED BY <1>1 DEF EntryIn

LEMMA EntrySame ==
    ASSUME NEW A, NEW B, NEW e, NEW s, RowsIn(A, e, s) = RowsIn(B, e, s)
    PROVE  EntryIn(A, e, s) = EntryIn(B, e, s)
BY DEF EntryIn

LEMMA EntryKinds ==
    ASSUME NEW row \in AttendanceRow
    PROVE  /\ EntryOf(row) # None
           /\ EntryOf(row).timedOut = Given(row.timeOutAt)
           /\ [EntryOf(row) EXCEPT !.timedOut = TRUE] = [source |-> row.source, timedOut |-> TRUE]
<1>1. Given(row.timeOutAt) \in BOOLEAN
  BY DEF Given
<1>2. row.source \in {"qr", "override"}
  BY DEF AttendanceRow
<1>3. EntryOf(row) \in Ledger!Entry
  BY <1>1, <1>2, Zenon DEF EntryOf, Ledger!Entry
<1>4. EntryOf(row).timedOut = Given(row.timeOutAt)
  BY Zenon DEF EntryOf
<1>5. [EntryOf(row) EXCEPT !.timedOut = TRUE] = [source |-> row.source, timedOut |-> TRUE]
  <2>1. ASSUME NEW source, NEW before, NEW after
        PROVE  [[source |-> source, timedOut |-> before] EXCEPT !.timedOut = after] =
                  [source |-> source, timedOut |-> after]
    OBVIOUS
  <2> QED BY <2>1, Zenon DEF EntryOf
<1> QED BY <1>3, <1>4, <1>5, LedgerAssumption

(* When only the rows of one pair change, so does only its entry. *)
LEMMA LedgerExcept ==
    ASSUME NEW A, NEW B, NEW e \in Events, NEW s \in Students,
           \A f \in Events, t \in Students :
               f # e \/ t # s => RowsIn(B, f, t) = RowsIn(A, f, t)
    PROVE  ledgerOf(B) = [ledgerOf(A) EXCEPT ![<<e, s>>] = EntryIn(B, e, s)]
<1> DEFINE new == [ledgerOf(A) EXCEPT ![<<e, s>>] = EntryIn(B, e, s)]
<1>1. ASSUME NEW p \in Events \X Students PROVE ledgerOf(B)[p] = new[p]
  <2>1. PICK f \in Events, t \in Students : p = <<f, t>>
    OBVIOUS
  <2>2. CASE f = e /\ t = s
    BY <2>1, <2>2 DEF ledgerOf
  <2>3. CASE f # e \/ t # s
    <3>1. EntryIn(B, f, t) = EntryIn(A, f, t)
      BY <2>3, EntrySame
    <3> QED BY <2>1, <2>3, <3>1 DEF ledgerOf
  <2> QED BY <2>2, <2>3
<1>2. DOMAIN new = Events \X Students /\ DOMAIN ledgerOf(B) = Events \X Students
  BY DEF ledgerOf
<1> QED BY <1>1, <1>2 DEF ledgerOf

LEMMA LedgerAt ==
    ASSUME NEW A, NEW e \in Events, NEW s \in Students
    PROVE  <<e, s>> \in Events \X Students /\ ledgerOf(A)[<<e, s>>] = EntryIn(A, e, s)
BY DEF ledgerOf

(* The moves of the ledger, said with ledgerOf and goneNow. *)
Opened(e, s) == e \notin goneNow /\ s \notin goneNow

Moved(e, s, entry) ==
    /\ ledgerOf(attendances') = [ledgerOf(attendances) EXCEPT ![<<e, s>>] = entry]
    /\ goneNow' = goneNow

ChecksIn(e, s) ==
    /\ Opened(e, s)
    /\ EntryIn(attendances, e, s) = None
    /\ Moved(e, s, [source |-> "qr", timedOut |-> FALSE])

TimesOutEntry(e, s) ==
    \E row \in attendances :
        /\ EntryIn(attendances, e, s) = EntryOf(row) /\ ~ Given(row.timeOutAt)
        /\ Moved(e, s, [source |-> row.source, timedOut |-> TRUE])

Attests(e, s) ==
    /\ Opened(e, s)
    /\ LET entry == EntryIn(attendances, e, s)
       IN  Moved(e, s, [source |-> "override", timedOut |-> entry # None /\ entry.timedOut])

Deletes(x) ==
    /\ goneNow' = goneNow \cup {x}
    /\ ledgerOf(attendances') =
          [p \in Events \X Students |-> IF x \in {p[1], p[2]} THEN None
                                                              ELSE ledgerOf(attendances)[p]]

LEMMA GoneUnlessDeleted ==
    ASSUME TypeOK, [Next]_vars, \A e \in Events : ~ HardDeleteEvent(e),
           \A s \in Students : ~ DeleteAccount(s)
    PROVE  goneNow' = goneNow
<1>1. \A e \in Events : events'[e] = None <=> events[e] = None
  BY EventGoneSteps
<1>2. \A s \in Students : accounts'[s].status = "deleted" <=> accounts[s].status = "deleted"
  BY AccountGoneSteps
<1> QED BY <1>1, <1>2 DEF goneNow

LEMMA OpenedPair ==
    ASSUME NEW cert, cert.event \in Events, cert.student \in Students, ForeignKeysHold(cert)
    PROVE  Opened(cert.event, cert.student)
BY LedgerAssumption DEF Opened, goneNow, ForeignKeysHold

LEMMA CheckInMoves ==
    ASSUME TypeOK, NEW r \in ScanReqs, WriteTimeIn(r), attendances' # attendances
    PROVE  ChecksIn(scans[r].post.event, scans[r].post.student)
<1> DEFINE cert == scans[r].post
           row  == [event |-> cert.event, student |-> cert.student,
                    source |-> "qr", key |-> cert.nonce, scannedAt |-> now,
                    clientAt |-> cert.scannedAt, timeOutAt |-> NoTime]
<1>1. cert.event \in Events /\ cert.student \in Students
  BY ScanAt DEF WriteTimeIn, TypeOK, ScanOK, ScanPost
<1>2. /\ ForeignKeysHold(cert) /\ ~ IsDuplicate(cert)
      /\ attendances' = attendances \cup {row}
      /\ goneNow' = goneNow
  BY DEF WriteTimeIn, tables, goneNow
<1>3. row.event = cert.event /\ row.student = cert.student /\ EntryOf(row) =
         [source |-> "qr", timedOut |-> FALSE]
  BY DEF EntryOf, Given
<1> HIDE DEF row
<1>4. RowsIn(attendances, cert.event, cert.student) = {}
  BY <1>2 DEF IsDuplicate, RowsOf, RowsIn
<1>5. RowsIn(attendances', cert.event, cert.student) = {row}
  BY <1>2, <1>3, <1>4 DEF RowsIn
<1>6. EntryIn(attendances', cert.event, cert.student) = EntryOf(row)
  BY <1>5, EntryThere
<1>7. \A f \in Events, t \in Students :
         f # cert.event \/ t # cert.student =>
            RowsIn(attendances', f, t) = RowsIn(attendances, f, t)
  BY <1>2, <1>3 DEF RowsIn
<1>8. ledgerOf(attendances') = [ledgerOf(attendances) EXCEPT
         ![<<cert.event, cert.student>>] = EntryIn(attendances', cert.event, cert.student)]
  BY <1>1, <1>7, LedgerExcept
<1> QED BY <1>1, <1>2, <1>3, <1>4, <1>6, <1>8, EntryAbsent, OpenedPair DEF ChecksIn, Moved

LEMMA TimeOutMoves ==
    ASSUME TypeOK, UniqueAttendance, NEW r \in ScanReqs, WriteTimeOut(r),
           attendances' # attendances
    PROVE  TimesOutEntry(scans[r].post.event, scans[r].post.student)
<1> DEFINE cert == scans[r].post
<1>1. /\ cert.event \in Events /\ cert.student \in Students /\ cert.scannedAt \in Int
      /\ attendances \subseteq AttendanceRow
  BY ScanAt DEF WriteTimeOut, TypeOK, ScanOK, ScanPost, TablesOK
<1>2. /\ OpenRows(scans[r]) # {}
      /\ attendances' = (attendances \ OpenRows(scans[r])) \cup
            {TimedOut(row, cert.scannedAt) : row \in OpenRows(scans[r])}
      /\ goneNow' = goneNow
  BY DEF WriteTimeOut, TimedOut, tables, goneNow
<1>3. PICK old \in OpenRows(scans[r]) : TRUE
  BY <1>2
<1>4. /\ old \in attendances /\ ~ Given(old.timeOutAt)
      /\ SamePair(old, cert)
  BY DEF OpenRows, RowsOf, SamePair
<1>5. \A other \in attendances : SamePair(other, cert) => other = old
  BY <1>4 DEF UniqueAttendance, SamePair
<1>6. OpenRows(scans[r]) = {old}
  BY <1>3, <1>5 DEF OpenRows, RowsOf, SamePair
<1> DEFINE row == TimedOut(old, cert.scannedAt)
<1>7. SamePair(row, cert) /\ EntryOf(row) = [source |-> old.source, timedOut |-> TRUE]
  <2>1. /\ SamePair(row, cert) /\ row.source = old.source
        /\ row.timeOutAt = cert.scannedAt
    BY <1>1, <1>4, TimedOutRow DEF SamePair
  <2>2. Given(row.timeOutAt) = TRUE
    BY <1>1, <2>1, EventTimeAssumption DEF Given
  <2> HIDE DEF row
  <2> QED BY <2>1, <2>2 DEF EntryOf
<1>8. attendances' = (attendances \ {old}) \cup {row}
  BY <1>2, <1>6
<1> HIDE DEF row
<1>9. /\ RowsIn(attendances, cert.event, cert.student) = {old}
      /\ RowsIn(attendances', cert.event, cert.student) = {row}
  BY <1>4, <1>5, <1>7, <1>8 DEF RowsIn, SamePair
<1>10. /\ EntryIn(attendances, cert.event, cert.student) = EntryOf(old)
       /\ EntryIn(attendances', cert.event, cert.student) = EntryOf(row)
  BY <1>9, EntryThere
<1>11. \A f \in Events, t \in Students :
         f # cert.event \/ t # cert.student =>
            RowsIn(attendances', f, t) = RowsIn(attendances, f, t)
  BY <1>4, <1>7, <1>8 DEF RowsIn, SamePair
<1>12. ledgerOf(attendances') = [ledgerOf(attendances) EXCEPT
         ![<<cert.event, cert.student>>] = EntryIn(attendances', cert.event, cert.student)]
  BY <1>1, <1>11, LedgerExcept
<1> QED BY <1>2, <1>4, <1>7, <1>10, <1>12 DEF TimesOutEntry, Moved

LEMMA OverrideMoves ==
    ASSUME TypeOK, UniqueAttendance, NEW r \in OverrideReqs, WriteOverride(r),
           attendances' # attendances
    PROVE  Attests(overs[r].cert.event, overs[r].cert.student)
<1> DEFINE cert  == overs[r].cert
           rows  == RowsIn(attendances, cert.event, cert.student)
           entry == EntryIn(attendances, cert.event, cert.student)
           new   == [event |-> cert.event, student |-> cert.student,
                     source |-> "override", key |-> r, scannedAt |-> now,
                     clientAt |-> cert.createdAt, timeOutAt |-> NoTime]
<1>1. /\ cert.event \in Events /\ cert.student \in Students
      /\ attendances \subseteq AttendanceRow
  BY OverAt DEF WriteOverride, TypeOK, OverOK, OverrideCert, TablesOK
<1>2. /\ ForeignKeysHold(cert) /\ attendances' = Upserted(r, cert) /\ goneNow' = goneNow
  BY DEF WriteOverride, tables, goneNow
<1>3. rows = RowsOf(cert.event, cert.student)
  BY DEF RowsIn, RowsOf
<1>4. ASSUME NEW row, SamePair(row, cert), NEW old,
             attendances' = (attendances \ old) \cup {row}, old = rows
      PROVE  Moved(cert.event, cert.student, EntryOf(row))
  <2>1. RowsIn(attendances', cert.event, cert.student) = {row}
    BY <1>4 DEF RowsIn, SamePair
  <2>2. EntryIn(attendances', cert.event, cert.student) = EntryOf(row)
    BY <2>1, EntryThere
  <2>3. \A f \in Events, t \in Students :
           f # cert.event \/ t # cert.student =>
              RowsIn(attendances', f, t) = RowsIn(attendances, f, t)
    BY <1>4 DEF RowsIn, SamePair
  <2>4. ledgerOf(attendances') = [ledgerOf(attendances) EXCEPT
           ![<<cert.event, cert.student>>] = EntryIn(attendances', cert.event, cert.student)]
    BY <1>1, <2>3, LedgerExcept
  <2> QED BY <1>2, <2>2, <2>4 DEF Moved
<1>5. CASE rows = {}
  <2>1. SamePair(new, cert) /\ EntryOf(new) = [source |-> "override", timedOut |-> FALSE]
    BY DEF SamePair, EntryOf, Given
  <2>2. attendances' = (attendances \ rows) \cup {new}
    BY <1>2, <1>3, <1>5 DEF Upserted
  <2>3. entry = None
    BY <1>5, EntryAbsent
  <2> HIDE DEF new, rows
  <2>4. Moved(cert.event, cert.student, EntryOf(new))
    BY <1>4, <2>1, <2>2
  <2> QED BY <1>1, <1>2, <2>1, <2>3, <2>4, OpenedPair DEF Attests
<1>6. CASE rows # {}
  <2>1. PICK old \in rows : TRUE
    BY <1>6
  <2>2. old \in attendances /\ SamePair(old, cert) /\ rows = {old}
    BY <2>1 DEF RowsIn, SamePair, UniqueAttendance
  <2> DEFINE row == Attested(old, cert)
  <2>3. /\ SamePair(row, cert)
        /\ EntryOf(row) = [source |-> "override", timedOut |-> Given(old.timeOutAt)]
    BY <1>1, <2>2, AttestedRow DEF SamePair, EntryOf
  <2>4. attendances' = (attendances \ rows) \cup {row}
    BY <1>2, <1>3, <1>6, <2>2 DEF Upserted
  <2>5. entry = EntryOf(old)
    BY <2>2, EntryThere
  <2>6. EntryOf(old) # None /\ EntryOf(old).timedOut = Given(old.timeOutAt)
    BY <1>1, <2>2, EntryKinds
  <2>7. (entry # None /\ entry.timedOut) = Given(old.timeOutAt)
    BY <2>5, <2>6, Zenon DEF Given
  <2> HIDE DEF row, rows, entry
  <2>8. Moved(cert.event, cert.student, EntryOf(row))
    BY <1>4, <2>3, <2>4
  <2>9. Moved(cert.event, cert.student,
              [source |-> "override", timedOut |-> entry # None /\ entry.timedOut])
    BY <2>3, <2>7, <2>8
  <2> QED BY <1>1, <1>2, <2>9, OpenedPair DEF Attests, entry
<1> QED BY <1>5, <1>6

LEMMA EventDeletes ==
    ASSUME TypeOK, NEW e \in Events, HardDeleteEvent(e)
    PROVE  Deletes(e)
<1>1. goneNow' = goneNow \cup {e}
  BY DEF HardDeleteEvent, goneNow, TypeOK, TablesOK
<1>2. ASSUME NEW p \in Events \X Students
      PROVE  ledgerOf(attendances')[p] = IF e \in {p[1], p[2]} THEN None
                                                               ELSE ledgerOf(attendances)[p]
  <2>1. PICK f \in Events, s \in Students : p = <<f, s>>
    OBVIOUS
  <2>2. ledgerOf(attendances')[p] = EntryIn(attendances', f, s)
        /\ ledgerOf(attendances)[p] = EntryIn(attendances, f, s)
    BY <2>1, LedgerAt
  <2>3. CASE f = e
    <3>1. RowsIn(attendances', f, s) = {}
      BY <2>3 DEF HardDeleteEvent, RowsIn
    <3> QED BY <2>1, <2>2, <2>3, <3>1, EntryAbsent
  <2>4. CASE f # e
    <3>1. RowsIn(attendances', f, s) = RowsIn(attendances, f, s)
      BY <2>4 DEF HardDeleteEvent, RowsIn
    <3> QED BY <2>1, <2>2, <2>4, <3>1, EntrySame, LedgerAssumption
  <2> QED BY <2>3, <2>4
<1>3. ledgerOf(attendances') = [p \in Events \X Students |-> ledgerOf(attendances')[p]]
  BY DEF ledgerOf
<1> QED BY <1>1, <1>2, <1>3 DEF Deletes

LEMMA AccountDeletes ==
    ASSUME TypeOK, NEW s \in Students, DeleteAccount(s)
    PROVE  Deletes(s)
<1>1. goneNow' = goneNow \cup {s}
  BY DEF DeleteAccount, goneNow, TypeOK, TablesOK, AccountRow
<1>2. ASSUME NEW p \in Events \X Students
      PROVE  ledgerOf(attendances')[p] = IF s \in {p[1], p[2]} THEN None
                                                               ELSE ledgerOf(attendances)[p]
  <2>1. PICK f \in Events, t \in Students : p = <<f, t>>
    OBVIOUS
  <2>2. ledgerOf(attendances')[p] = EntryIn(attendances', f, t)
        /\ ledgerOf(attendances)[p] = EntryIn(attendances, f, t)
    BY <2>1, LedgerAt
  <2>3. CASE t = s
    <3>1. RowsIn(attendances', f, t) = {}
      BY <2>3 DEF DeleteAccount, RowsIn
    <3> QED BY <2>1, <2>2, <2>3, <3>1, EntryAbsent
  <2>4. CASE t # s
    <3>1. RowsIn(attendances', f, t) = RowsIn(attendances, f, t)
      BY <2>4 DEF DeleteAccount, RowsIn
    <3> QED BY <2>1, <2>2, <2>4, <3>1, EntrySame, LedgerAssumption
  <2> QED BY <2>3, <2>4
<1>3. ledgerOf(attendances') = [p \in Events \X Students |-> ledgerOf(attendances')[p]]
  BY DEF ledgerOf
<1> QED BY <1>1, <1>2, <1>3 DEF Deletes

(* Every step is one move of one entry, a deletion, or nothing. *)
LEMMA LedgerMoves ==
    ASSUME TypeOK, UniqueAttendance, [Next]_vars
    PROVE  \/ ledgerOf(attendances') = ledgerOf(attendances) /\ goneNow' = goneNow
           \/ \E e \in Events, s \in Students :
                 ChecksIn(e, s) \/ TimesOutEntry(e, s) \/ Attests(e, s)
           \/ \E x \in Events \cup Students : Deletes(x)
<1>1. CASE (\E e \in Events : HardDeleteEvent(e)) \/ (\E s \in Students : DeleteAccount(s))
  BY <1>1, EventDeletes, AccountDeletes
<1>2. CASE ~ ((\E e \in Events : HardDeleteEvent(e)) \/ (\E s \in Students : DeleteAccount(s)))
  <2>1. goneNow' = goneNow
    BY <1>2, GoneUnlessDeleted
  <2>2. CASE attendances' = attendances
    BY <2>1, <2>2
  <2>3. ASSUME NEW r \in ScanReqs, ScanStep(r), attendances' # attendances
        PROVE  \E e \in Events, s \in Students : ChecksIn(e, s) \/ TimesOutEntry(e, s)
    <3>1. WriteTimeIn(r) \/ WriteTimeOut(r)
      BY <2>3 DEF ScanStep, SendScan, FindExisting, FindEvent, VerifyDevice, CheckScan,
                  AuditScan, OnlyScans
    <3>2. scans[r].post.event \in Events /\ scans[r].post.student \in Students
      BY <3>1, ScanAt DEF WriteTimeIn, WriteTimeOut, TypeOK, ScanOK, ScanPost
    <3> QED BY <2>3, <3>1, <3>2, CheckInMoves, TimeOutMoves
  <2>4. ASSUME NEW r \in OverrideReqs, OverrideStep(r), attendances' # attendances
        PROVE  \E e \in Events, s \in Students : Attests(e, s)
    <3>1. WriteOverride(r)
      BY <2>4 DEF OverrideStep, SendOverride, FindOverrideEvent, VerifySigner, CheckOverride, FindRow,
                  AuditOverride, OnlyOvers
    <3>2. overs[r].cert.event \in Events /\ overs[r].cert.student \in Students
      BY <3>1, OverAt DEF WriteOverride, TypeOK, OverOK, OverrideCert
    <3> QED BY <2>4, <3>1, <3>2, OverrideMoves
  <2>5. ASSUME Environment \/ UNCHANGED vars PROVE attendances' = attendances
    BY <1>2, <2>5 DEF Environment, PatchEvent, CancelEvent, SetAccountStatus, ChangeClass,
                      Unlist, RevokeDevice, Tick, vars
  <2> QED BY <2>2, <2>3, <2>4, <2>5 DEF Next
<1> QED BY <1>1, <1>2

(* With all that goes on around them, the handlers of scans and overrides  *)
(* keep the ledger's promise: one entry per event and student, checked in  *)
(* or overridden while both exist, timed out once, and gone with them.     *)
THEOREM LedgerImplemented == Spec => ImplementsLedger
<1> DEFINE theLedger == [p \in Events \X Students |-> LedgerOf(p[1], p[2])]
<1>1. theLedger = ledgerOf(attendances)
  BY DEF ledgerOf, LedgerOf, EntryIn, EntryOf, RowsIn, RowsOf
<1>2. theLedger' = ledgerOf(attendances')
  BY DEF ledgerOf, LedgerOf, EntryIn, EntryOf, RowsIn, RowsOf
<1>3. Init => Ledger!Init
  <2> SUFFICES ASSUME Init PROVE Ledger!Init
    OBVIOUS
  <2>1. goneNow = {}
    <3>1. \A e \in Events : events[e] # None
      <4>1. PICK o \in Staff, times \in Schedules :
               events = [e \in Events |-> [status |-> "active", owner |-> o,
                                           target |-> OpenToAll, times |-> times]]
        BY DEF Init
      <4>2. [status |-> "active", owner |-> o, target |-> OpenToAll, times |-> times] \in EventRow
        BY AttendanceAssumption DEF EventRow
      <4> QED BY <4>1, <4>2, AttendanceAssumption
    <3>2. \A s \in Students : accounts[s].status # "deleted"
      BY DEF Init
    <3> QED BY <3>1, <3>2 DEF goneNow
  <2>2. \A e, s : EntryIn(attendances, e, s) = None
    BY DEF Init, EntryIn, RowsIn
  <2>3. ledgerOf(attendances) = [p \in Events \X Students |-> None]
    BY <2>2 DEF ledgerOf
  <2> QED BY <1>1, <2>1, <2>3 DEF Ledger!Init, Ledger!Pairs, goneNow
<1>4. TypeOK /\ UniqueAttendance /\ [Next]_vars => [Ledger!Next]_<<theLedger, goneNow>>
  <2> SUFFICES ASSUME TypeOK, UniqueAttendance, [Next]_vars
               PROVE  Ledger!Next \/ UNCHANGED <<theLedger, goneNow>>
    OBVIOUS
  <2> HIDE DEF theLedger
  <2>1. CASE ledgerOf(attendances') = ledgerOf(attendances) /\ goneNow' = goneNow
    BY <1>1, <1>2, <2>1
  <2>2. ASSUME NEW e \in Events, NEW s \in Students,
               ChecksIn(e, s) \/ TimesOutEntry(e, s) \/ Attests(e, s)
        PROVE  Ledger!Next
    <3>1. /\ <<e, s>> \in Ledger!Pairs
          /\ theLedger[<<e, s>>] = EntryIn(attendances, e, s)
      BY <1>1, LedgerAt DEF Ledger!Pairs
    <3>2. CASE ChecksIn(e, s)
      <4>1. Ledger!CheckIn(<<e, s>>)
        BY <1>1, <1>2, <3>1, <3>2 DEF ChecksIn, Moved, Opened, Ledger!CheckIn, Ledger!Open,
                                      goneNow, theLedger
      <4> QED BY <3>1, <4>1 DEF Ledger!Next
    <3>3. CASE TimesOutEntry(e, s)
      <4>1. PICK row \in attendances :
               /\ EntryIn(attendances, e, s) = EntryOf(row) /\ ~ Given(row.timeOutAt)
               /\ Moved(e, s, [source |-> row.source, timedOut |-> TRUE])
        BY <3>3 DEF TimesOutEntry
      <4>2. row \in AttendanceRow
        BY DEF TypeOK, TablesOK
      <4>3. /\ theLedger[<<e, s>>] # None /\ ~ theLedger[<<e, s>>].timedOut
            /\ [theLedger[<<e, s>>] EXCEPT !.timedOut = TRUE] =
                  [source |-> row.source, timedOut |-> TRUE]
        BY <3>1, <4>1, <4>2, EntryKinds
      <4>4. /\ theLedger' = [theLedger EXCEPT ![<<e, s>>] =
                               [theLedger[<<e, s>>] EXCEPT !.timedOut = TRUE]]
            /\ goneNow' = goneNow
        BY <1>1, <1>2, <4>1, <4>3 DEF Moved
      <4>5. Ledger!TimeOut(<<e, s>>)
        BY <4>3, <4>4 DEF Ledger!TimeOut, goneNow, theLedger
      <4> QED BY <3>1, <4>5 DEF Ledger!Next
    <3>4. CASE Attests(e, s)
      <4>1. Ledger!Override(<<e, s>>)
        BY <1>1, <1>2, <3>1, <3>4 DEF Attests, Moved, Opened, Ledger!Override, Ledger!Open,
                                      goneNow, theLedger
      <4> QED BY <3>1, <4>1 DEF Ledger!Next
    <3> QED BY <2>2, <3>2, <3>3, <3>4
  <2>3. ASSUME NEW x \in Events \cup Students, Deletes(x) PROVE Ledger!Next
    <3>1. Ledger!Delete(x)
      BY <1>1, <1>2, <2>3 DEF Deletes, Ledger!Delete, Ledger!Pairs, goneNow, theLedger
    <3> QED BY <3>1 DEF Ledger!Next
  <2> QED BY <2>1, <2>2, <2>3, LedgerMoves
<1> QED
  BY <1>3, <1>4, TypeCorrect, OneAttempt, PTL DEF Spec, ImplementsLedger, Ledger!Spec, goneNow
=============================================================================
