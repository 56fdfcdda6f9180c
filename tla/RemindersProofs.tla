--------------------------- MODULE RemindersProofs ----------------------------
(***************************************************************************)
(* The theorems of the events API and of the reminder job, for any number  *)
(* of requests, events, students, runs and errors.  First the rows of the  *)
(* events, whatever patches overlap; then what a run has read and still    *)
(* has to do, while runs, requests and students change around it.          *)
(***************************************************************************)
EXTENDS Reminders, TLAPS

(* A row of the table. *)
IsRow(ev) == Columns \subseteq DOMAIN ev /\ HasInstants(ev) /\ IsForAll(ev)

(* What an update may write: who makes an event departmental clears its    *)
(* target, and who leaves the scope alone leaves the target alone.         *)
IsPatch(d) ==
    /\ HasInstants(d)
    /\ "scope" \in DOMAIN d /\ d.scope = "departmental" =>
             /\ {"targetProgram", "targetSection"} \subseteq DOMAIN d
             /\ d.targetProgram = Null /\ d.targetSection = Null
    /\ "scope" \notin DOMAIN d => {"targetProgram", "targetSection"} \cap DOMAIN d = {}

EventsInv ==
    /\ time \in Nat
    /\ \A id \in DOMAIN events : IsRow(events[id])
    /\ requests = [r \in Requests |-> requests[r]]
    /\ \A r \in Requests : requests[r].pc = "update" => IsPatch(requests[r].data)

(* What Over returns. *)
LEMMA OverDomain ==
  ASSUME NEW d, NEW e
  PROVE  DOMAIN Over(d, e) = DOMAIN d \cup DOMAIN e
BY DEF Over

LEMMA OverFirst ==
  ASSUME NEW d, NEW e, NEW field \in DOMAIN d
  PROVE  Over(d, e)[field] = d[field]
BY DEF Over

LEMMA OverSecond ==
  ASSUME NEW d, NEW e, NEW field \in DOMAIN e, field \notin DOMAIN d
  PROVE  Over(d, e)[field] = e[field]
BY DEF Over

LEMMA OverHasInstants ==
  ASSUME NEW d, NEW e, HasInstants(d), HasInstants(e)
  PROVE  HasInstants(Over(d, e))
<1> DEFINE new == Over(d, e)
<1>1. \A field \in DOMAIN new :
         \/ field \in DOMAIN d /\ new[field] = d[field]
         \/ field \in DOMAIN e /\ new[field] = e[field]
  BY DEF Over
<1>2. "scheduledAt" \in DOMAIN new => new["scheduledAt"] \in Int
  BY <1>1 DEF HasInstants
<1>3. ASSUME NEW field \in Times \cap DOMAIN new PROVE new[field] \in OptionalTime
  BY <1>1 DEF HasInstants
<1> QED BY <1>2, <1>3 DEF HasInstants

LEMMA OverIsRow ==
  ASSUME NEW d, NEW ev, IsPatch(d), IsRow(ev)
  PROVE  IsRow(Over(d, ev))
<1> DEFINE new == Over(d, ev)
<1>1. HasInstants(new) /\ Columns \subseteq DOMAIN new
  BY OverHasInstants, OverDomain DEF IsRow, IsPatch
<1>2. ASSUME new.scope = "departmental" PROVE Target(new) = OpenToAll
  <2>1. CASE "scope" \in DOMAIN d
    <3>1. new.scope = d.scope
      BY <2>1, OverFirst
    <3>2. /\ {"targetProgram", "targetSection"} \subseteq DOMAIN d
          /\ d.targetProgram = Null /\ d.targetSection = Null
      BY <1>2, <2>1, <3>1 DEF IsPatch
    <3>3. new.targetProgram = Null /\ new.targetSection = Null
      BY <3>2, OverFirst
    <3> QED BY <3>3 DEF Target, OpenToAll
  <2>2. CASE "scope" \notin DOMAIN d
    <3>1. /\ "scope" \in DOMAIN ev \ DOMAIN d
          /\ "targetProgram" \in DOMAIN ev \ DOMAIN d
          /\ "targetSection" \in DOMAIN ev \ DOMAIN d
      <4>1. "targetProgram" \notin DOMAIN d /\ "targetSection" \notin DOMAIN d
        BY <2>2 DEF IsPatch
      <4>2. "scope" \in Columns /\ "targetProgram" \in Columns /\ "targetSection" \in Columns
        BY DEF Columns
      <4> QED BY <2>2, <4>1, <4>2 DEF IsRow
    <3>2. /\ new.scope = ev.scope /\ new.targetProgram = ev.targetProgram
          /\ new.targetSection = ev.targetSection
      BY <3>1, OverSecond
    <3> QED BY <1>2, <3>2 DEF IsRow, IsForAll, Target
  <2> QED BY <2>1, <2>2
<1> QED BY <1>1, <1>2 DEF IsRow, IsForAll

(* The target a body means, once the schema has given it a scope. *)
LEMMA RetargetedIs ==
  ASSUME NEW s, NEW ev, NEW d, HasInstants(d), "scope" \in DOMAIN d
  PROVE  /\ IsPatch(Retargeted(s, ev, d))
         /\ DOMAIN d \subseteq DOMAIN Retargeted(s, ev, d)
<1> DEFINE own == IF s \notin Admins /\ "targetProgram" \in DOMAIN d
                  THEN Over([targetProgram |-> ProgramOf[s]], d)
                  ELSE d
           new == Retargeted(s, ev, d)
<1>1. /\ HasInstants(own) /\ DOMAIN d \subseteq DOMAIN own
      /\ own.scope = d.scope
  <2>1. HasInstants([targetProgram |-> ProgramOf[s]])
    BY DEF HasInstants, Times
  <2>2. /\ HasInstants(Over([targetProgram |-> ProgramOf[s]], d))
        /\ DOMAIN d \subseteq DOMAIN Over([targetProgram |-> ProgramOf[s]], d)
    BY <2>1, OverHasInstants, OverDomain
  <2>3. Over([targetProgram |-> ProgramOf[s]], d).scope = d.scope
    BY DEF Over
  <2> QED BY <2>2, <2>3
<1>2. Over(d, ev).scope = d.scope
  BY OverFirst
<1>3. new = IF d.scope = "departmental"
            THEN Over([targetProgram |-> Null, targetSection |-> Null], own)
            ELSE own
  BY <1>2 DEF Retargeted
<1> HIDE DEF own, new
<1>4. CASE d.scope # "departmental"
  BY <1>1, <1>3, <1>4 DEF IsPatch, new
<1>5. CASE d.scope = "departmental"
  <2> DEFINE none == [targetProgram |-> Null, targetSection |-> Null]
  <2>1. HasInstants(none)
    BY DEF HasInstants, Times
  <2>2. new = Over(none, own)
    BY <1>3, <1>5
  <2>3. HasInstants(new) /\ DOMAIN new = DOMAIN none \cup DOMAIN own
    BY <1>1, <2>1, <2>2, OverHasInstants, OverDomain
  <2>4. new.targetProgram = Null /\ new.targetSection = Null
    BY <2>2 DEF Over
  <2>5. new.scope = d.scope
    BY <1>1, <2>2 DEF Over
  <2> QED BY <1>1, <2>3, <2>4, <2>5 DEF IsPatch, new
<1> QED BY <1>4, <1>5

LEMMA ParsedIs ==
  ASSUME NEW body \in Bodies
  PROVE  HasInstants(Parsed(body)) /\ "scope" \in DOMAIN Parsed(body)
<1>1. HasInstants([scope |-> "academic"])
  BY DEF HasInstants, Times
<1>2. HasInstants(body)
  BY EventsAssumption
<1> QED BY <1>1, <1>2, OverHasInstants, OverDomain DEF Parsed

-----------------------------------------------------------------------------
(* The requests of the events API. *)

(* A request moves on: the others stay, and what it is to write is right. *)
LEMMA RequestMoves ==
  ASSUME EventsInv, NEW r \in Requests, NEW q, requests' = [requests EXCEPT ![r] = q],
         q.pc = "update" => IsPatch(q.data)
  PROVE  /\ requests' = [p \in Requests |-> requests'[p]]
         /\ \A p \in Requests : requests'[p].pc = "update" => IsPatch(requests'[p].data)
BY DEF EventsInv

LEMMA RequestStarts ==
  ASSUME EventsInv, NEW r \in Requests, NEW pc, NEW id, NEW data, Start(r, pc, id, data),
         pc = "update" => IsPatch(data), UNCHANGED <<time, events>>
  PROVE  EventsInv'
<1>1. /\ requests' = [p \in Requests |-> requests'[p]]
      /\ \A p \in Requests : requests'[p].pc = "update" => IsPatch(requests'[p].data)
  BY RequestMoves DEF Start
<1> QED BY <1>1 DEF EventsInv

LEMMA RequestFinishes ==
  ASSUME EventsInv, NEW r \in Requests, Finish(r), time' = time,
         \A id \in DOMAIN events' : IsRow(events'[id])
  PROVE  EventsInv'
<1>1. /\ requests' = [p \in Requests |-> requests'[p]]
      /\ \A p \in Requests : requests'[p].pc = "update" => IsPatch(requests'[p].data)
  BY RequestMoves DEF Finish, Done
<1> QED BY <1>1 DEF EventsInv

LEMMA CreateKeepsRows ==
  ASSUME EventsInv, NEW r \in Requests, NEW s \in Staff, NEW body \in Bodies,
         CreateEvent(r, s, body), time' = time
  PROVE  EventsInv'
<1> DEFINE d   == Parsed(body)
           row == NewRow(s)
           all == Over(d, row)
           new == Retargeted(s, row, all)
<1>1. "scheduledAt" \in DOMAIN d /\ HasInstants(d) /\ "scope" \in DOMAIN d
  BY ParsedIs DEF CreateEvent
<1>2. HasInstants(row) /\ Columns \subseteq DOMAIN row \cup {"scheduledAt"}
  <2>1. Columns \subseteq DOMAIN row \cup {"scheduledAt"}
    BY DEF NewRow, Times, Columns
  <2>2. ASSUME NEW field \in Times PROVE row[field] \in OptionalTime
    BY DEF NewRow, Times, OptionalTime
  <2>3. "scheduledAt" \notin DOMAIN row
    BY DEF NewRow
  <2> QED BY <2>1, <2>2, <2>3 DEF HasInstants
<1>3. HasInstants(all) /\ Columns \subseteq DOMAIN all /\ "scope" \in DOMAIN all
  <2> HIDE DEF d, row
  <2>1. HasInstants(all)
    BY <1>1, <1>2, OverHasInstants
  <2>2. DOMAIN all = DOMAIN d \cup DOMAIN row
    BY OverDomain
  <2> QED BY <1>1, <1>2, <2>1, <2>2
<1>4. IsPatch(new) /\ Columns \subseteq DOMAIN new
  BY <1>3, RetargetedIs
<1>5. "scope" \in Columns
  BY DEF Columns
<1>6. IsRow(new)
  BY <1>4, <1>5 DEF IsPatch, IsRow, IsForAll, Target, OpenToAll
<1>7. events' = Over(events, [id \in {created'} |-> new]) /\ Finish(r)
  BY DEF CreateEvent
<1> HIDE DEF new
<1>8. ASSUME NEW id \in DOMAIN events' PROVE IsRow(events'[id])
  BY <1>6, <1>7, <1>8 DEF Over, EventsInv
<1> QED BY <1>7, <1>8, RequestFinishes

LEMMA PatchKeepsRows ==
  ASSUME EventsInv, NEW r \in Requests, NEW s \in Staff, NEW id \in EventIds,
         NEW body \in Bodies, StartPatch(r, s, id, body), time' = time
  PROVE  EventsInv'
<1>1. IsPatch(Retargeted(s, events[id], Parsed(body)))
  BY ParsedIs, RetargetedIs
<1> QED BY <1>1, RequestStarts DEF StartPatch

LEMMA CancelKeepsRows ==
  ASSUME EventsInv, NEW r \in Requests, NEW s \in Staff, NEW id \in EventIds,
         StartCancel(r, s, id) \/ StartHardDelete(r, s, id), time' = time
  PROVE  EventsInv'
<1>1. IsPatch([status |-> "cancelled"])
  BY DEF IsPatch, HasInstants, Times
<1> QED BY <1>1, RequestStarts DEF StartCancel, StartHardDelete

LEMMA WriteKeepsRows ==
  ASSUME EventsInv, NEW r \in Requests, Update(r) \/ HardDelete(r), time' = time
  PROVE  EventsInv'
<1>1. ASSUME NEW id \in DOMAIN events' PROVE IsRow(events'[id])
  <2>1. CASE Update(r)
    <3>1. IsPatch(requests[r].data)
      BY <2>1 DEF Update, EventsInv
    <3>2. /\ id \in DOMAIN events
          /\ events'[id] = events[id] \/ events'[id] = Over(requests[r].data, events[id])
      BY <1>1, <2>1 DEF Update
    <3> QED BY <3>1, <3>2, OverIsRow DEF EventsInv
  <2>2. CASE HardDelete(r)
    BY <1>1, <2>2 DEF HardDelete, EventsInv
  <2> QED BY <2>1, <2>2
<1> QED BY <1>1, RequestFinishes DEF Update, HardDelete

LEMMA EventStepKeepsRows ==
  ASSUME EventsInv, EventStep, time' = time
  PROVE  EventsInv'
BY CreateKeepsRows, PatchKeepsRows, CancelKeepsRows, WriteKeepsRows DEF EventStep

LEMMA EventsInitially ==
  ASSUME EventsInit PROVE EventsInv
BY EventsAssumption DEF EventsInit, EventsInv, IsRow, Open
-----------------------------------------------------------------------------
(* What a run has read and still has to do. *)

Reminded(p, now) ==
    \E n \in notifications : n.event = p[1] /\ n.student = p[2] /\ n.at > now - Memory

(* A run in progress began at its now, and has its steady pairs to remind. *)
Begun(r) ==
    runs[r].pc \in Running =>
        /\ {"try", "now", "since"} \subseteq DOMAIN runs[r]
        /\ runs[r].now \in Nat /\ runs[r].now <= time
        /\ runs[r].since \in Nat /\ runs[r].since <= inserts
        /\ steady[r] \subseteq Due(r)

(* The events it has found start in its window. *)
HasLooked(r) ==
    runs[r].pc \in {"students", "existing", "create"} =>
        /\ "upcoming" \in DOMAIN runs[r]
        /\ \A id \in DOMAIN runs[r].upcoming :
              /\ runs[r].upcoming[id].scheduledAt \in Int
              /\ runs[r].now < runs[r].upcoming[id].scheduledAt
              /\ runs[r].upcoming[id].scheduledAt < runs[r].now + Lead

(* What is steady is what it has found, is about to write, or is written. *)
LosesNone(r) ==
    /\ runs[r].pc = "students" =>
          \A p \in steady[r] :
             /\ p[1] \in DOMAIN runs[r].upcoming
             /\ runs[r].upcoming[p[1]].target = Target(events[p[1]])
    /\ runs[r].pc = "existing" => steady[r] \subseteq runs[r].audience
    /\ runs[r].pc = "create" =>
          \A p \in steady[r] : p \in runs[r].missing \/ Reminded(p, runs[r].now)
    /\ runs[r].pc = "done" =>
          \A p \in steady[r] : p[2] \in DOMAIN students => Reminded(p, runs[r].now)

(* What it is about to write is of the events it has found, and of what    *)
(* was there when it began it writes nothing again.                        *)
RepeatsNone(r) ==
    /\ runs[r].pc = "existing" =>
          \A p \in runs[r].audience : p[1] \in DOMAIN runs[r].upcoming
    /\ runs[r].pc = "create" =>
          \A p \in runs[r].missing :
             /\ p[1] \in DOMAIN runs[r].upcoming
             /\ \A n \in notifications :
                   /\ n.event = p[1] /\ n.student = p[2]
                   /\ n.of = runs[r].upcoming[p[1]].scheduledAt
                   => n.nr > runs[r].since

RunInv(r) == Begun(r) /\ HasLooked(r) /\ LosesNone(r) /\ RepeatsNone(r)

(* A reminder is written not long before what it reminds of. *)
IsNote(n) ==
    /\ n.at \in Nat /\ n.of \in Int /\ n.of < n.at + Lead
    /\ n.nr \in Nat /\ n.since \in Nat /\ n.since < n.nr /\ n.nr <= inserts

RemindersInv ==
    /\ EventsInv
    /\ inserts \in Nat
    /\ runs = [r \in Runs |-> runs[r]] /\ steady = [r \in Runs |-> steady[r]]
    /\ \A n \in notifications : IsNote(n)
    /\ RemindedOnce
    /\ \A r \in Runs : RunInv(r)

(* What Watch makes of the steady pairs of a run that goes on, that begins *)
(* a try, and that is over.                                                *)
LEMMA WatchGoesOn ==
  ASSUME NEW r \in Runs, Watch, runs[r].pc \in Running, runs'[r].pc \in Running,
         runs[r].try = runs'[r].try
  PROVE  /\ steady'[r] \subseteq steady[r] /\ steady'[r] \subseteq Due(r)'
         /\ \A p \in steady'[r] : Kept(p)
BY DEF Watch

LEMMA WatchBegins ==
  ASSUME NEW r \in Runs, Watch, runs'[r].pc \in Running,
         ~ (runs[r].pc \in Running /\ runs[r].try = runs'[r].try)
  PROVE  steady'[r] = Due(r)'
BY DEF Watch

LEMMA WatchEnds ==
  ASSUME NEW r \in Runs, Watch, runs'[r].pc \notin Running
  PROVE  steady'[r] = steady[r]
BY DEF Watch

(* What a step leaves to a run that takes no part in it: reminders go only *)
(* with their students, and those that come are newer.                     *)
Around ==
    /\ time' \in Nat /\ time <= time' /\ inserts' \in Nat /\ inserts <= inserts'
    /\ \A n \in notifications : n.student \in DOMAIN students' => n \in notifications'
    /\ \A n \in notifications' : n \in notifications \/ (n.nr \in Nat /\ n.nr > inserts)
    /\ DOMAIN students' \subseteq DOMAIN students

LEMMA RemindedStays ==
  ASSUME Around, NEW p, NEW now, p[2] \in DOMAIN students', Reminded(p, now)
  PROVE  Reminded(p, now)'
BY DEF Around, Reminded

LEMMA DueIsReachable ==
  ASSUME NEW r \in Runs, NEW p \in Due(r)
  PROVE  /\ p[2] \in DOMAIN students
         /\ p[1] \in EventIds /\ Upcoming(p[1], runs[r].now)
BY DEF Due, Reachable

LEMMA OtherRun ==
  ASSUME RemindersInv, NEW r \in Runs, runs'[r] = runs[r], Watch, Around
  PROVE  RunInv(r)'
<1>1. RunInv(r) /\ inserts \in Nat /\ time \in Nat
  BY DEF RemindersInv, EventsInv
<1>2. HasLooked(r)'
  BY <1>1 DEF RunInv, HasLooked
<1>3. RepeatsNone(r)'
  <2>1. ASSUME runs[r].pc = "create", NEW p \in runs[r].missing, NEW n \in notifications',
               n.event = p[1], n.student = p[2],
               n.of = runs[r].upcoming[p[1]].scheduledAt
        PROVE  n.nr > runs[r].since
    <3>1. CASE n \in notifications
      BY <1>1, <2>1, <3>1 DEF RunInv, RepeatsNone
    <3>2. CASE n.nr \in Nat /\ n.nr > inserts
      <4>1. runs[r].since \in Nat /\ runs[r].since <= inserts
        BY <1>1, <2>1 DEF RunInv, Begun, Running
      <4> QED BY <1>1, <3>2, <4>1
    <3> QED BY <3>1, <3>2 DEF Around
  <2> QED BY <1>1, <2>1 DEF RunInv, RepeatsNone
<1>4. CASE runs[r].pc \in Running
  <2>1. /\ steady'[r] \subseteq steady[r] /\ steady'[r] \subseteq Due(r)'
        /\ \A p \in steady'[r] : Kept(p)
    BY <1>4, WatchGoesOn
  <2>2. Begun(r)'
    BY <1>1, <1>4, <2>1 DEF RunInv, Begun, Around
  <2>3. \A p \in steady'[r] : p[2] \in DOMAIN students'
    BY <2>1 DEF Due, Reachable
  <2>4. runs[r].pc = "students" =>
           \A p \in steady'[r] :
              /\ p[1] \in DOMAIN runs[r].upcoming
              /\ runs[r].upcoming[p[1]].target = Target(events'[p[1]])
    BY <1>1, <2>1 DEF RunInv, LosesNone, Kept, Target
  <2>5. runs[r].pc = "create" =>
           \A p \in steady'[r] : p \in runs[r].missing \/ Reminded(p, runs[r].now)'
    BY <1>1, <2>1, <2>3, RemindedStays DEF RunInv, LosesNone
  <2>6. runs[r].pc = "existing" => steady'[r] \subseteq runs[r].audience
    BY <1>1, <2>1 DEF RunInv, LosesNone
  <2>7. LosesNone(r)'
    BY <1>4, <2>4, <2>5, <2>6 DEF LosesNone, Running, Reminded, Target
  <2> QED BY <1>2, <1>3, <2>2, <2>7 DEF RunInv
<1>5. CASE runs[r].pc \notin Running
  <2>1. steady'[r] = steady[r]
    BY <1>5, WatchEnds
  <2>2. runs[r].pc = "done" =>
           \A p \in steady'[r] : p[2] \in DOMAIN students' => Reminded(p, runs[r].now)'
    BY <1>1, <2>1, RemindedStays DEF RunInv, LosesNone, Around
  <2>3. LosesNone(r)'
    BY <1>5, <2>2 DEF LosesNone, Running, Reminded
  <2> QED BY <1>2, <1>3, <1>5, <2>3 DEF RunInv, Begun
<1> QED BY <1>4, <1>5

-----------------------------------------------------------------------------
(* The steps of a run. *)

LEMMA TryBegins ==
  ASSUME RemindersInv, NEW r \in Runs, NEW try, Begin(r, try), Watch,
         runs[r].pc \in Running => runs[r].try # try,
         time' = time, inserts' \in Nat, inserts <= inserts'
  PROVE  RunInv(r)'
<1>1. runs'[r] = [pc |-> "events", try |-> try, now |-> time, since |-> inserts]
  BY DEF Begin, RemindersInv
<1>2. /\ runs'[r].pc = "events" /\ runs'[r].try = try
      /\ runs'[r].now = time /\ runs'[r].since = inserts
      /\ {"try", "now", "since"} \subseteq DOMAIN runs'[r]
  BY <1>1
<1>3. steady'[r] = Due(r)'
  BY <1>2, WatchBegins DEF Running
<1>4. time \in Nat /\ inserts \in Nat
  BY DEF RemindersInv, EventsInv
<1>5. Begun(r)'
  BY <1>2, <1>3, <1>4 DEF Begun
<1> QED BY <1>2, <1>5 DEF RunInv, HasLooked, LosesNone, RepeatsNone

(* A run that fails promises nothing. *)
LEMMA RunGivesUp ==
  ASSUME RemindersInv, NEW r \in Runs, End(r, "failed")
  PROVE  RunInv(r)'
<1>1. runs'[r].pc = "failed"
  BY DEF End, RemindersInv
<1> QED BY <1>1 DEF RunInv, Begun, HasLooked, LosesNone, RepeatsNone, Running

(* A run that reports success has reminded whoever was steady. *)
LEMMA RunSucceeds ==
  ASSUME RemindersInv, NEW r \in Runs, End(r, "done"), Watch,
         \A p \in steady[r] : p[2] \in DOMAIN students' => Reminded(p, runs[r].now)'
  PROVE  RunInv(r)'
<1>1. runs'[r].pc = "done" /\ runs'[r].now = runs[r].now
  BY DEF End, RemindersInv
<1>2. steady'[r] = steady[r]
  BY <1>1, WatchEnds DEF Running
<1>3. LosesNone(r)'
  BY <1>1, <1>2 DEF LosesNone
<1> QED BY <1>1, <1>3 DEF RunInv, Begun, HasLooked, RepeatsNone, Running

(* A run that goes on keeps what it knew. *)
LEMMA RunGoesOn ==
  ASSUME RemindersInv, NEW r \in Runs, runs[r].pc \in Running, NEW q, GoOn(r, q), Watch,
         "pc" \in DOMAIN q, q.pc \in Running,
         {"try", "now", "since"} \cap DOMAIN q = {},
         UNCHANGED <<time, inserts>>
  PROVE  /\ runs'[r] = Over(q, runs[r]) /\ runs'[r].pc = q.pc
         /\ runs'[r].try = runs[r].try /\ runs'[r].now = runs[r].now
         /\ runs'[r].since = runs[r].since
         /\ steady'[r] \subseteq steady[r] /\ \A p \in steady'[r] : Kept(p)
         /\ Begun(r)'
<1>1. Begun(r)
  BY DEF RemindersInv, RunInv
<1>2. runs'[r] = Over(q, runs[r])
  BY DEF GoOn, RemindersInv
<1>3. DOMAIN runs'[r] = DOMAIN q \cup DOMAIN runs[r]
  BY <1>2, OverDomain
<1>4. runs'[r].pc = q.pc
  BY <1>2, OverFirst
<1>5. /\ "try" \in DOMAIN runs[r] /\ "now" \in DOMAIN runs[r] /\ "since" \in DOMAIN runs[r]
      /\ "try" \notin DOMAIN q /\ "now" \notin DOMAIN q /\ "since" \notin DOMAIN q
  BY <1>1 DEF Begun
<1>6. /\ runs'[r].try = runs[r].try /\ runs'[r].now = runs[r].now
      /\ runs'[r].since = runs[r].since
  BY <1>2, <1>5, OverSecond
<1>7. /\ steady'[r] \subseteq steady[r] /\ steady'[r] \subseteq Due(r)'
      /\ \A p \in steady'[r] : Kept(p)
  BY <1>4, <1>6, WatchGoesOn
<1>8. Begun(r)'
  BY <1>1, <1>3, <1>6, <1>7 DEF Begun
<1> QED BY <1>2, <1>4, <1>6, <1>7, <1>8

LEMMA FindsEvents ==
  ASSUME RemindersInv, NEW r \in Runs, FindEvents(r), Watch,
         UNCHANGED <<time, inserts, events, students, notifications>>
  PROVE  RunInv(r)'
<1> DEFINE found == {id \in EventIds : Upcoming(id, runs[r].now)}
           upcoming == [id \in found |-> [target |-> Target(events[id]),
                                          scheduledAt |-> events[id].scheduledAt]]
<1>1. runs[r].pc = "events" /\ runs[r].pc \in Running /\ Begun(r)
  BY DEF FindEvents, RemindersInv, RunInv, Running
<1>2. \A p \in steady[r] : p[1] \in found
  BY <1>1, DueIsReachable DEF Begun
<1>3. CASE found = {}
  <2>1. steady[r] = {}
    BY <1>2, <1>3
  <2> QED BY <1>3, <2>1, RunSucceeds DEF FindEvents
<1>4. CASE found # {}
  <2> DEFINE q == [pc |-> "students", upcoming |-> upcoming]
  <2>1. GoOn(r, q)
    BY <1>4 DEF FindEvents
  <2>2. /\ "pc" \in DOMAIN q /\ q.pc = "students" /\ q.pc \in Running
        /\ {"try", "now", "since"} \cap DOMAIN q = {}
    BY DEF Running
  <2>3. "upcoming" \in DOMAIN q /\ q.upcoming = upcoming
    OBVIOUS
  <2> HIDE DEF q
  <2>4. /\ runs'[r] = Over(q, runs[r]) /\ runs'[r].pc = "students"
        /\ runs'[r].now = runs[r].now
        /\ steady'[r] \subseteq steady[r] /\ \A p \in steady'[r] : Kept(p)
        /\ Begun(r)'
    BY <1>1, <2>1, <2>2, RunGoesOn
  <2>5. "upcoming" \in DOMAIN runs'[r] /\ runs'[r].upcoming = upcoming
    <3> HIDE DEF upcoming
    <3>1. DOMAIN Over(q, runs[r]) = DOMAIN q \cup DOMAIN runs[r]
      BY OverDomain
    <3>2. Over(q, runs[r]).upcoming = q.upcoming
      BY <2>3, OverFirst
    <3> QED BY <2>3, <2>4, <3>1, <3>2
  <2>6. \A id \in found :
           /\ events[id].scheduledAt \in Int
           /\ runs[r].now < events[id].scheduledAt
           /\ events[id].scheduledAt < runs[r].now + Lead
    BY DEF Upcoming, RemindersInv, EventsInv, IsRow, HasInstants, Columns
  <2>7. HasLooked(r)'
    BY <2>4, <2>5, <2>6 DEF HasLooked
  <2>8. LosesNone(r)'
    BY <1>2, <2>4, <2>5 DEF LosesNone, Kept, Target
  <2> QED BY <2>4, <2>7, <2>8 DEF RunInv, RepeatsNone
<1> QED BY <1>3, <1>4

(* ... and the events it has found. *)
LEMMA KeepsUpcoming ==
  ASSUME RemindersInv, NEW r \in Runs, runs[r].pc \in {"students", "existing"}, NEW q,
         runs'[r] = Over(q, runs[r]), runs'[r].now = runs[r].now,
         "upcoming" \notin DOMAIN q
  PROVE  runs'[r].upcoming = runs[r].upcoming /\ HasLooked(r)'
<1>1. HasLooked(r)
  BY DEF RemindersInv, RunInv
<1>2. "upcoming" \in DOMAIN runs[r]
  BY <1>1 DEF HasLooked
<1>3. Over(q, runs[r]).upcoming = runs[r].upcoming
  BY <1>2, OverSecond
<1>4. DOMAIN Over(q, runs[r]) = DOMAIN q \cup DOMAIN runs[r]
  BY OverDomain
<1>5. runs'[r].upcoming = runs[r].upcoming /\ "upcoming" \in DOMAIN runs'[r]
  BY <1>2, <1>3, <1>4
<1> QED BY <1>1, <1>5 DEF HasLooked

LEMMA FindsStudents ==
  ASSUME RemindersInv, NEW r \in Runs, FindStudents(r), Watch,
         UNCHANGED <<time, inserts, events, students, notifications>>
  PROVE  RunInv(r)'
<1> DEFINE audience ==
               {p \in (DOMAIN runs[r].upcoming) \X {s \in Students : Reachable(s)} :
                   RemindedFor(students[p[2]].class, runs[r].upcoming[p[1]].target)}
           q == [pc |-> "existing", audience |-> audience]
<1>1. GoOn(r, q) /\ runs[r].pc = "students" /\ RunInv(r)
  BY DEF FindStudents, RemindersInv
<1>2. /\ "pc" \in DOMAIN q /\ q.pc = "existing" /\ q.pc \in Running
      /\ {"try", "now", "since"} \cap DOMAIN q = {} /\ "upcoming" \notin DOMAIN q
      /\ runs[r].pc \in Running
  BY <1>1 DEF Running
<1>3. "audience" \in DOMAIN q /\ q.audience = audience
  OBVIOUS
<1> HIDE DEF q, audience
<1>4. /\ runs'[r] = Over(q, runs[r]) /\ runs'[r].pc = "existing"
      /\ runs'[r].now = runs[r].now
      /\ steady'[r] \subseteq steady[r]
      /\ Begun(r)'
  BY <1>1, <1>2, RunGoesOn
<1>5. runs'[r].upcoming = runs[r].upcoming /\ HasLooked(r)'
  BY <1>1, <1>2, <1>4, KeepsUpcoming
<1>6. runs'[r].audience = audience
  <2>1. Over(q, runs[r]).audience = q.audience
    BY <1>3, OverFirst
  <2> QED BY <1>3, <1>4, <2>1
<1>7. ASSUME NEW p \in steady[r] PROVE p \in audience
  <2>1. p \in Due(r)
    BY <1>1, <1>2, <1>7 DEF RunInv, Begun
  <2>2. /\ p \in EventIds \X Students /\ Reachable(p[2])
        /\ RemindedFor(students[p[2]].class, Target(events[p[1]]))
    BY <2>1 DEF Due
  <2>3. /\ p[1] \in DOMAIN runs[r].upcoming
        /\ runs[r].upcoming[p[1]].target = Target(events[p[1]])
    BY <1>1, <1>7 DEF RunInv, LosesNone
  <2> QED BY <2>2, <2>3 DEF audience
<1>8. LosesNone(r)'
  BY <1>4, <1>6, <1>7 DEF LosesNone
<1>9. RepeatsNone(r)'
  BY <1>4, <1>5, <1>6 DEF RepeatsNone, audience
<1> QED BY <1>4, <1>5, <1>8, <1>9 DEF RunInv

(* A reminder of this start of the event, written before the run began,    *)
(* counts as recent: it is no older than Lead, and Lead is within Memory.  *)
LEMMA SameStartIsRecent ==
  ASSUME NEW n, IsNote(n), NEW now \in Nat, n.of > now
  PROVE  n.at > now - Memory
BY RemindersAssumption DEF IsNote

LEMMA FindsExisting ==
  ASSUME RemindersInv, NEW r \in Runs, FindExisting(r), Watch,
         UNCHANGED <<time, inserts, events, students, notifications>>
  PROVE  RunInv(r)'
<1> DEFINE missing ==
               {p \in runs[r].audience :
                   ~ \E n \in notifications : IsRecent(n, runs[r].now) /\ IsFor(n, p)}
           q == [pc |-> "create", missing |-> missing]
<1>1. runs[r].pc = "existing" /\ RunInv(r)
  BY DEF FindExisting, RemindersInv
<1>2. ASSUME NEW p \in runs[r].audience, p \notin missing
      PROVE  Reminded(p, runs[r].now)
  BY <1>2 DEF Reminded, IsRecent, IsFor
<1>3. steady[r] \subseteq runs[r].audience
  BY <1>1 DEF RunInv, LosesNone
<1>4. CASE missing = {}
  <2>1. End(r, "done")
    BY <1>4 DEF FindExisting
  <2>2. runs'[r].now = runs[r].now
    BY <2>1 DEF End, RemindersInv
  <2>3. \A p \in steady[r] : Reminded(p, runs[r].now)
    BY <1>2, <1>3, <1>4
  <2>4. \A p \in steady[r] : Reminded(p, runs[r].now)'
    BY <2>2, <2>3 DEF Reminded
  <2> QED BY <2>1, <2>4, RunSucceeds
<1>5. CASE missing # {}
  <2>1. GoOn(r, q)
    BY <1>5 DEF FindExisting
  <2>2. /\ "pc" \in DOMAIN q /\ q.pc = "create" /\ q.pc \in Running
        /\ {"try", "now", "since"} \cap DOMAIN q = {} /\ "upcoming" \notin DOMAIN q
        /\ runs[r].pc \in Running
    BY <1>1 DEF Running
  <2>3. "missing" \in DOMAIN q /\ q.missing = missing
    OBVIOUS
  <2> HIDE DEF q, missing
  <2>4. /\ runs'[r] = Over(q, runs[r]) /\ runs'[r].pc = "create"
        /\ runs'[r].now = runs[r].now /\ runs'[r].since = runs[r].since
        /\ steady'[r] \subseteq steady[r]
        /\ Begun(r)'
    BY <2>1, <2>2, RunGoesOn
  <2>5. runs'[r].upcoming = runs[r].upcoming /\ HasLooked(r)'
    BY <1>1, <2>2, <2>4, KeepsUpcoming
  <2>6. runs'[r].missing = missing
    <3>1. Over(q, runs[r]).missing = q.missing
      BY <2>3, OverFirst
    <3> QED BY <2>3, <2>4, <3>1
  <2>7. LosesNone(r)'
    BY <1>2, <1>3, <2>4, <2>6 DEF LosesNone, Reminded
  <2>8. ASSUME NEW p \in missing
        PROVE  /\ p[1] \in DOMAIN runs[r].upcoming
               /\ \A n \in notifications :
                     ~ (/\ n.event = p[1] /\ n.student = p[2]
                        /\ n.of = runs[r].upcoming[p[1]].scheduledAt)
    <3>1. p[1] \in DOMAIN runs[r].upcoming
      BY <1>1, <2>8 DEF RunInv, RepeatsNone, missing
    <3>2. runs[r].upcoming[p[1]].scheduledAt > runs[r].now /\ runs[r].now \in Nat
      BY <1>1, <2>2, <3>1 DEF RunInv, HasLooked, Begun
    <3>3. ASSUME NEW n \in notifications, n.event = p[1], n.student = p[2],
                 n.of = runs[r].upcoming[p[1]].scheduledAt
          PROVE  FALSE
      <4>1. n.at > runs[r].now - Memory
        BY <3>2, <3>3, SameStartIsRecent DEF RemindersInv
      <4> QED BY <2>8, <3>3, <4>1 DEF missing, IsRecent, IsFor
    <3> QED BY <3>1, <3>3
  <2>9. RepeatsNone(r)'
    BY <2>4, <2>5, <2>6, <2>8 DEF RepeatsNone
  <2> QED BY <2>4, <2>5, <2>7, <2>9 DEF RunInv
<1> QED BY <1>4, <1>5

(* The reminder of a pair that a run inserts. *)
Note(r, p) ==
    [event |-> p[1], student |-> p[2], at |-> time,
     of |-> runs[r].upcoming[p[1]].scheduledAt,
     nr |-> inserts + 1, since |-> runs[r].since]

LEMMA NoteIs ==
  ASSUME RemindersInv, NEW r \in Runs, runs[r].pc = "create", NEW p \in runs[r].missing
  PROVE  /\ Note(r, p).at \in Nat /\ Note(r, p).of \in Int
         /\ Note(r, p).of < Note(r, p).at + Lead
         /\ Note(r, p).at > runs[r].now - Memory
         /\ Note(r, p).since \in Nat /\ Note(r, p).since <= inserts
         /\ Note(r, p).nr = inserts + 1
         /\ \A n \in notifications :
               /\ n.event = Note(r, p).event /\ n.student = Note(r, p).student
               /\ n.of = Note(r, p).of
               => n.nr > Note(r, p).since
<1>1. RunInv(r) /\ time \in Nat /\ inserts \in Nat
  BY DEF RemindersInv, EventsInv
<1>2. /\ runs[r].now \in Nat /\ runs[r].now <= time
      /\ runs[r].since \in Nat /\ runs[r].since <= inserts
  BY <1>1 DEF RunInv, Begun, Running
<1>3. p[1] \in DOMAIN runs[r].upcoming
  BY <1>1 DEF RunInv, RepeatsNone
<1>4. /\ runs[r].upcoming[p[1]].scheduledAt \in Int
      /\ runs[r].now < runs[r].upcoming[p[1]].scheduledAt
      /\ runs[r].upcoming[p[1]].scheduledAt < runs[r].now + Lead
  BY <1>1, <1>3 DEF RunInv, HasLooked
<1>5. \A n \in notifications :
         /\ n.event = p[1] /\ n.student = p[2]
         /\ n.of = runs[r].upcoming[p[1]].scheduledAt
         => n.nr > runs[r].since
  BY <1>1 DEF RunInv, RepeatsNone
<1>6. /\ Note(r, p).event = p[1] /\ Note(r, p).student = p[2] /\ Note(r, p).at = time
      /\ Note(r, p).of = runs[r].upcoming[p[1]].scheduledAt
      /\ Note(r, p).nr = inserts + 1 /\ Note(r, p).since = runs[r].since
  BY DEF Note
<1>7. time + Lead > runs[r].upcoming[p[1]].scheduledAt /\ time > runs[r].now - Memory
  BY <1>1, <1>2, <1>4, RemindersAssumption
<1> QED BY <1>1, <1>2, <1>4, <1>5, <1>6, <1>7

LEMMA InsertKeepsTable ==
  ASSUME RemindersInv, NEW r \in Runs, runs[r].pc = "create", Insert(r),
         UNCHANGED <<time, students>>
  PROVE  /\ Around
         /\ \A n \in notifications' : IsNote(n)'
         /\ RemindedOnce'
<1>1. inserts \in Nat /\ inserts' = inserts + 1 /\ time \in Nat
  BY DEF Insert, RemindersInv, EventsInv
<1>2. notifications' = notifications \cup {Note(r, p) : p \in runs[r].missing}
  BY DEF Insert, Note
<1>3. \A n \in notifications : IsNote(n)
  BY DEF RemindersInv
<1>4. Around
  <2>1. \A n \in notifications' : n \in notifications \/ (n.nr \in Nat /\ n.nr > inserts)
    <3>1. \A p \in runs[r].missing : Note(r, p).nr = inserts + 1
      BY NoteIs
    <3> QED BY <1>1, <1>2, <3>1
  <2>2. notifications \subseteq notifications'
    BY <1>2
  <2>3. DOMAIN students' = DOMAIN students
    OBVIOUS
  <2> QED BY <1>1, <2>1, <2>2, <2>3 DEF Around
<1>5. ASSUME NEW n \in notifications' PROVE IsNote(n)'
  <2>1. CASE n \in notifications
    BY <1>1, <1>3, <2>1 DEF IsNote
  <2>2. ASSUME NEW p \in runs[r].missing, n = Note(r, p) PROVE IsNote(n)'
    BY <1>1, <2>2, NoteIs DEF IsNote
  <2> QED BY <1>2, <2>1, <2>2
<1>6. ASSUME NEW n \in notifications', NEW m \in notifications',
             n.event = m.event, n.student = m.student, n.of = m.of, n # m
      PROVE  n.nr > m.since
  <2>1. CASE n \in notifications /\ m \in notifications
    BY <1>6, <2>1 DEF RemindersInv, RemindedOnce
  <2>2. ASSUME NEW p \in runs[r].missing, m = Note(r, p), n \in notifications
        PROVE  n.nr > m.since
    BY <1>6, <2>2, NoteIs
  <2>3. ASSUME NEW p \in runs[r].missing, n = Note(r, p), m \in notifications
        PROVE  n.nr > m.since
    <3>1. m.since \in Nat /\ m.nr \in Nat /\ m.since < m.nr /\ m.nr <= inserts
      BY <1>3, <2>3 DEF IsNote
    <3> QED BY <1>1, <2>3, <3>1, NoteIs
  <2>4. ASSUME NEW p \in runs[r].missing, NEW q \in runs[r].missing,
               n = Note(r, p), m = Note(r, q)
        PROVE  FALSE
    <3>1. p[1] = q[1] /\ p[2] = q[2]
      BY <1>6, <2>4 DEF Note
    <3> QED BY <1>6, <2>4, <3>1 DEF Note
  <2> QED BY <1>2, <2>1, <2>2, <2>3, <2>4
<1>7. RemindedOnce'
  BY <1>6 DEF RemindedOnce
<1> QED BY <1>4, <1>5, <1>7

(* What is left as it is stays so. *)
LEMMA TableStays ==
  ASSUME RemindersInv, UNCHANGED <<notifications, inserts>>
  PROVE  /\ \A n \in notifications' : IsNote(n)'
         /\ RemindedOnce'
BY DEF RemindersInv, IsNote, RemindedOnce

LEMMA NothingAround ==
  ASSUME RemindersInv, UNCHANGED <<time, students, notifications, inserts>>
  PROVE  Around
<1>1. time' \in Nat /\ time <= time' /\ inserts' \in Nat /\ inserts <= inserts'
  BY DEF RemindersInv, EventsInv
<1>2. \A n \in notifications : n.student \in DOMAIN students' => n \in notifications'
  OBVIOUS
<1>3. \A n \in notifications' : n \in notifications \/ (n.nr \in Nat /\ n.nr > inserts)
  OBVIOUS
<1>4. DOMAIN students' \subseteq DOMAIN students
  OBVIOUS
<1> QED BY <1>1, <1>2, <1>3, <1>4 DEF Around

LEMMA Creates ==
  ASSUME RemindersInv, NEW r \in Runs, Create(r), Watch, UNCHANGED <<time, events, students>>
  PROVE  RunInv(r)' /\ Around /\ (\A n \in notifications' : IsNote(n)') /\ RemindedOnce'
<1>1. runs[r].pc = "create" /\ RunInv(r) /\ inserts \in Nat /\ time \in Nat
  BY DEF Create, RemindersInv, EventsInv
<1>2. CASE AllAccountsThere(r)
  <2>1. Insert(r) /\ End(r, "done")
    BY <1>2 DEF Create
  <2>2. Around /\ (\A n \in notifications' : IsNote(n)') /\ RemindedOnce'
    BY <1>1, <2>1, InsertKeepsTable
  <2>3. runs'[r].now = runs[r].now
    BY <2>1 DEF End, RemindersInv
  <2>4. ASSUME NEW p \in steady[r], p[2] \in DOMAIN students'
        PROVE  Reminded(p, runs[r].now)'
    <3>1. CASE p \in runs[r].missing
      <4>1. Note(r, p) \in notifications'
        BY <2>1, <3>1 DEF Insert, Note
      <4>2. Note(r, p).event = p[1] /\ Note(r, p).student = p[2]
        BY DEF Note
      <4>3. Note(r, p).at > runs[r].now - Memory
        BY <1>1, <3>1, NoteIs
      <4> HIDE DEF Note
      <4> QED BY <2>3, <4>1, <4>2, <4>3 DEF Reminded
    <3>2. CASE Reminded(p, runs[r].now)
      <4>1. PICK n \in notifications :
               n.event = p[1] /\ n.student = p[2] /\ n.at > runs[r].now - Memory
        BY <3>2 DEF Reminded
      <4>2. n \in notifications'
        BY <2>1, <4>1 DEF Insert
      <4> QED BY <2>3, <4>1, <4>2 DEF Reminded
    <3> QED BY <1>1, <3>1, <3>2 DEF RunInv, LosesNone
  <2> QED BY <2>1, <2>2, <2>4, RunSucceeds
<1>3. CASE ~ AllAccountsThere(r)
  <2>1. UNCHANGED <<notifications, inserts>> /\ End(r, "failed")
    BY <1>3 DEF Create
  <2>2. Around
    BY <2>1, NothingAround
  <2> QED BY <2>1, <2>2, RunGivesUp, TableStays
<1> QED BY <1>2, <1>3

LEMMA Fails ==
  ASSUME RemindersInv, NEW r \in Runs, Fail(r), Watch, UNCHANGED <<time, events, students>>
  PROVE  RunInv(r)' /\ Around /\ (\A n \in notifications' : IsNote(n)') /\ RemindedOnce'
<1>1. inserts \in Nat /\ time \in Nat
  BY DEF RemindersInv, EventsInv
<1>2. Around /\ (\A n \in notifications' : IsNote(n)') /\ RemindedOnce'
  <2>1. CASE UNCHANGED <<notifications, inserts>>
    BY <2>1, TableStays, NothingAround
  <2>2. CASE runs[r].pc = "create" /\ Insert(r)
    BY <2>2, InsertKeepsTable
  <2> QED BY <2>1, <2>2 DEF Fail
<1>3. RunInv(r)'
  <2>1. CASE runs[r].try = 1
    <3>1. Begin(r, 2)
      BY <2>1 DEF Fail, Retry
    <3> QED BY <1>1, <1>2, <2>1, <3>1, TryBegins DEF Around
  <2>2. CASE runs[r].try # 1
    BY <2>2, RunGivesUp DEF Fail, Retry
  <2> QED BY <2>1, <2>2
<1> QED BY <1>2, <1>3

-----------------------------------------------------------------------------
(* The whole. *)

(* A run takes a step; the others are left to theirs. *)
LEMMA RunStepKeeps ==
  ASSUME RemindersInv, RunStep, Watch
  PROVE  RemindersInv'
<1>1. UNCHANGED <<time, events, created, requests, students>>
  BY DEF RunStep, eventVars
<1>2. EventsInv'
  BY <1>1 DEF RemindersInv, EventsInv
<1>3. steady' = [r \in Runs |-> steady'[r]]
  BY DEF Watch
<1>4. PICK r \in Runs :
         \/ /\ Fire(r) \/ FindEvents(r) \/ FindStudents(r) \/ FindExisting(r)
            /\ UNCHANGED <<notifications, inserts>>
         \/ Create(r)
         \/ Fail(r)
  BY DEF RunStep
<1>5. /\ runs' = [q \in Runs |-> runs'[q]]
      /\ \A q \in Runs \ {r} : runs'[q] = runs[q]
  <2>1. \E v : runs' = [runs EXCEPT ![r] = v]
    BY <1>4 DEF Fire, Begin, FindEvents, FindStudents, FindExisting, GoOn, End, Create, Fail,
                Retry
  <2> QED BY <2>1 DEF RemindersInv
<1>6. RunInv(r)' /\ Around /\ (\A n \in notifications' : IsNote(n)') /\ RemindedOnce'
  <2>1. CASE Create(r)
    BY <1>1, <2>1, Creates
  <2>2. CASE Fail(r)
    BY <1>1, <2>2, Fails
  <2>3. CASE /\ Fire(r) \/ FindEvents(r) \/ FindStudents(r) \/ FindExisting(r)
             /\ UNCHANGED <<notifications, inserts>>
    <3>1. Around /\ (\A n \in notifications' : IsNote(n)') /\ RemindedOnce'
      BY <1>1, <2>3, NothingAround, TableStays
    <3>2. CASE Fire(r)
      <4>1. Begin(r, 1) /\ runs[r].pc \notin Running
        BY <3>2 DEF Fire, Idle, Running
      <4> QED BY <1>1, <3>1, <4>1, TryBegins DEF Around
    <3>3. CASE FindEvents(r)
      BY <1>1, <2>3, <3>1, <3>3, FindsEvents
    <3>4. CASE FindStudents(r)
      BY <1>1, <2>3, <3>1, <3>4, FindsStudents
    <3>5. CASE FindExisting(r)
      BY <1>1, <2>3, <3>1, <3>5, FindsExisting
    <3> QED BY <2>3, <3>1, <3>2, <3>3, <3>4, <3>5
  <2> QED BY <1>4, <2>1, <2>2, <2>3
<1>7. \A q \in Runs : RunInv(q)'
  BY <1>5, <1>6, OtherRun
<1>8. inserts' \in Nat
  BY <1>6 DEF Around
<1> QED BY <1>2, <1>3, <1>5, <1>6, <1>7, <1>8 DEF RemindersInv

(* A step around the runs: they go on as if nothing had happened. *)
LEMMA AroundKeeps ==
  ASSUME RemindersInv, UNCHANGED <<runs, inserts>>, Watch, Around, EventsInv',
         notifications' \subseteq notifications
  PROVE  RemindersInv'
<1>1. steady' = [r \in Runs |-> steady'[r]]
  BY DEF Watch
<1>2. \A r \in Runs : RunInv(r)'
  BY OtherRun
<1>3. \A n \in notifications' : IsNote(n)'
  BY DEF RemindersInv, IsNote
<1>4. RemindedOnce'
  BY DEF RemindersInv, RemindedOnce
<1>5. runs' = [r \in Runs |-> runs'[r]] /\ inserts' \in Nat
  BY DEF RemindersInv
<1> QED BY <1>1, <1>2, <1>3, <1>4, <1>5 DEF RemindersInv

LEMMA StudentChanges ==
  ASSUME RemindersInv, NEW s \in Students, ChangeStudent(s), Watch
  PROVE  RemindersInv'
<1>1. UNCHANGED <<time, events, created, requests, inserts, runs>>
  BY DEF ChangeStudent, eventVars
<1>2. EventsInv'
  BY <1>1 DEF RemindersInv, EventsInv
<1>3. /\ DOMAIN students' \subseteq DOMAIN students
      /\ notifications' \subseteq notifications
      /\ \A n \in notifications : n.student \in DOMAIN students' => n \in notifications'
  <2>1. CASE /\ DOMAIN students' = DOMAIN students
             /\ notifications' = notifications
    BY <2>1
  <2>2. CASE /\ students' = [t \in DOMAIN students \ {s} |-> students[t]]
             /\ notifications' = {n \in notifications : n.student # s}
    BY <2>2
  <2> QED BY <2>1, <2>2 DEF ChangeStudent
<1>4. Around
  BY <1>1, <1>3 DEF Around, RemindersInv, EventsInv
<1> QED BY <1>1, <1>2, <1>3, <1>4, AroundKeeps

LEMMA ClockTicks ==
  ASSUME RemindersInv, Tick, Watch
  PROVE  RemindersInv'
<1>1. /\ UNCHANGED <<events, created, requests, students, notifications, inserts, runs>>
      /\ time' = time + 1 /\ time \in Nat /\ inserts \in Nat
  BY DEF Tick, eventVars, RemindersInv, EventsInv
<1>2. EventsInv'
  BY <1>1 DEF RemindersInv, EventsInv
<1>3. Around
  <2>1. \A n \in notifications' : n \in notifications
    BY <1>1
  <2>2. \A n \in notifications : n \in notifications'
    BY <1>1
  <2>3. DOMAIN students' \subseteq DOMAIN students
    BY <1>1
  <2>4. time' \in Nat /\ time <= time' /\ inserts' \in Nat /\ inserts <= inserts'
    BY <1>1
  <2> QED BY <2>1, <2>2, <2>3, <2>4 DEF Around
<1> QED BY <1>1, <1>2, <1>3, AroundKeeps

LEMMA RequestKeeps ==
  ASSUME RemindersInv, EventStep, Watch,
         UNCHANGED <<time, students, changes, failures, notifications, inserts, runs>>
  PROVE  RemindersInv'
<1>1. EventsInv'
  BY EventStepKeepsRows DEF RemindersInv
<1>2. Around
  BY NothingAround
<1> QED BY <1>1, <1>2, AroundKeeps

LEMMA Invariance == Spec => []RemindersInv
<1>1. Init => RemindersInv
  <2> SUFFICES ASSUME Init PROVE RemindersInv
    OBVIOUS
  <2>1. EventsInv
    BY EventsInitially DEF Init
  <2>2. \A r \in Runs : runs[r].pc = "idle"
    BY DEF Init, Idle
  <2>3. \A r \in Runs : RunInv(r)
    BY <2>2 DEF RunInv, Begun, HasLooked, LosesNone, RepeatsNone, Running
  <2>4. RemindedOnce /\ \A n \in notifications : IsNote(n)
    BY DEF Init, RemindedOnce
  <2>5. inserts \in Nat /\ runs = [r \in Runs |-> runs[r]] /\ steady = [r \in Runs |-> steady[r]]
    BY DEF Init
  <2> QED BY <2>1, <2>3, <2>4, <2>5 DEF RemindersInv
<1>2. RemindersInv /\ [Next]_vars => RemindersInv'
  <2> SUFFICES ASSUME RemindersInv, [Next]_vars PROVE RemindersInv'
    OBVIOUS
  <2>1. CASE UNCHANGED vars
    <3>1. UNCHANGED <<time, events, created, requests, students, notifications, inserts, runs,
                      steady>>
      BY <2>1 DEF vars, eventVars
    <3>2. EventsInv'
      BY <3>1 DEF RemindersInv, EventsInv
    <3>3. \A r \in Runs : RunInv(r)'
      BY <3>1 DEF RemindersInv, RunInv, Begun, HasLooked, LosesNone, RepeatsNone, Reminded, Due,
                  Upcoming, Reachable, Target
    <3>4. RemindedOnce' /\ \A n \in notifications' : IsNote(n)'
      BY <3>1, TableStays
    <3> QED BY <3>1, <3>2, <3>3, <3>4 DEF RemindersInv
  <2>2. CASE Next
    BY <2>2, RunStepKeeps, RequestKeeps, StudentChanges, ClockTicks DEF Next
  <2> QED BY <2>1, <2>2
<1> QED BY <1>1, <1>2, PTL DEF Spec

(* Whatever classes, targets and preferences change while a run is on its  *)
(* way, and however runs overlap and lose answers: when it reports         *)
(* success, whoever was to be reminded all along has a recent reminder.    *)
THEOREM NobodyIsLeftOut == Spec => []EveryoneIsReminded
<1>1. RemindersInv => EveryoneIsReminded
  BY DEF RemindersInv, RunInv, LosesNone, EveryoneIsReminded, Reminded
<1> QED BY <1>1, Invariance, PTL

(* Two reminders of one start to one student are of runs that overlapped:  *)
(* the look at the last hour suffices, since a run looks less far ahead.   *)
THEOREM NobodyIsPestered == Spec => []RemindedOnce
<1>1. RemindersInv => RemindedOnce
  BY DEF RemindersInv
<1> QED BY <1>1, Invariance, PTL

(* Patches that overlap leave no target on a department-wide event: each   *)
(* of them writes the scope together with the target it means.             *)
THEOREM DepartmentalStaysForAll == Spec => []DepartmentalIsForAll
<1>1. RemindersInv => DepartmentalIsForAll
  BY DEF RemindersInv, EventsInv, IsRow, DepartmentalIsForAll
<1> QED BY <1>1, Invariance, PTL

(* Any mixture of times that patches leave in a row gives a time-out       *)
(* window that opens before it closes, if it was given a time at all and   *)
(* not two in the wrong order.                                             *)
THEOREM TimeOutsOpen == Spec => []GivenTimeOutOpens
<1>1. RemindersInv => GivenTimeOutOpens
  <2> SUFFICES ASSUME RemindersInv, NEW id \in DOMAIN events,
                      Given(events[id].timeOutOpensAt) \/ Given(events[id].timeOutClosesAt),
                      Given(events[id].timeOutOpensAt) /\ Given(events[id].timeOutClosesAt)
                         => events[id].timeOutOpensAt < events[id].timeOutClosesAt
               PROVE  TimeOutWindow(events[id]).opensAt < TimeOutWindow(events[id]).closesAt
    BY DEF GivenTimeOutOpens
  <2> DEFINE ev == events[id]
  <2>1. /\ ev.scheduledAt \in Int
        /\ ev.endsAt \in OptionalTime
        /\ ev.timeOutOpensAt \in OptionalTime
        /\ ev.timeOutClosesAt \in OptionalTime
    BY DEF RemindersInv, EventsInv, IsRow, HasInstants, Columns, Times
  <2> HIDE DEF ev
  <2>2. TimeOutWindow(ev).opensAt < TimeOutWindow(ev).closesAt
    BY <2>1, EventTimeAssumption DEF TimeOutWindow, Window, OrElse, Given, OptionalTime, ev
  <2> QED BY <2>2 DEF ev
<1> QED BY <1>1, Invariance, PTL
=============================================================================
