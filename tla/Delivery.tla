------------------------------ MODULE Delivery -------------------------------
(***************************************************************************)
(* From a phone to the attendance table: the scan queue of a student, the  *)
(* requests that its drains send and the registration of the phone's key,  *)
(* which a signature starts in the background (scanner.tsx), against a     *)
(* server that does to the table what AttendanceLedger allows, which is    *)
(* what the handlers of Attendance have been shown to do.                  *)
(*                                                                         *)
(* A request that was given up, or whose page was closed, may be on its    *)
(* way still and reach the table later.  An answer comes to the drain that *)
(* sent the request.  The key is the phone's one key, kept for good, and   *)
(* the session that sends a scan is of the student whose queue it is in.   *)
(***************************************************************************)
EXTENDS ScanQueue

CONSTANTS EventOf,          \* the event of each scan
          Student

Occasions == {EventOf[i] : i \in Items}

VARIABLES ledger, gone,     \* the table, and what was deleted
          deviceKey,        \* what the server has made of the phone's key
          marked,           \* ... and its registered flag in IndexedDB
          calls,            \* the registration that each signature started
          replies,          \* what becomes of the request each drain waits for
          late,             \* scans with a request nobody waits for any more
          answers,          \* history: the errors that each scan came back with
          marking           \* history: scans signed when the flag was set

Ledger == INSTANCE AttendanceLedger
    WITH Events <- Occasions, Students <- {Student}, Absent <- Nothing

(* An entry is told from none. *)
ASSUME DeliveryAssumption == Nothing \notin Ledger!Entry

table == <<ledger, gone>>
keys == <<deviceKey, marked, calls>>
history == <<answers, marking>>
deliveryVars == <<vars, table, keys, replies, late, history>>

Calls == {"none", "asked", "adrift", "granted"}

Replies == {"none", "sent", "lost", "ok", "unregistered", "rejected"}

Pair(i) == <<EventOf[i], Student>>

Present(i) == ledger[Pair(i)] # Nothing

Deleted(i) == ~Ledger!Open(Pair(i))

-----------------------------------------------------------------------------
(* The server. *)

(* POST /api/attendance: a scan is recorded or found recorded, or it is    *)
(* turned away, for its key or for another reason (it is late, the event   *)
(* is over, the limiter).                                                  *)
Serve(i, reply) ==
    \/ /\ reply = "ok" /\ Present(i)
       /\ UNCHANGED table
    \/ /\ reply = "ok" /\ deviceKey = "active"
       /\ Ledger!CheckIn(Pair(i)) \/ Ledger!TimeOut(Pair(i))
    \/ /\ \/ reply = "unregistered" /\ deviceKey # "active"
          \/ reply = "rejected"
       /\ UNCHANGED table

Handle(d) ==
    /\ replies[d] = "sent"
    /\ \E reply \in {"ok", "unregistered", "rejected"} :
          /\ Serve(drains[d].at, reply)
          /\ replies' = [replies EXCEPT ![d] = reply]
    /\ UNCHANGED <<vars, keys, late, history>>

HandleLate(i) ==
    /\ i \in late
    /\ \E reply \in {"ok", "unregistered", "rejected"} : Serve(i, reply)
    /\ late' = late \ {i}
    /\ UNCHANGED <<vars, keys, replies, history>>

(* registerDeviceKey: a key that was revoked stays so.                     *)
Registered == IF deviceKey = "revoked" THEN "revoked" ELSE "active"

(* A registration that meets the cap: before it did anything, or when it   *)
(* counts again and revokes the key, be it one it found there, if it can.  *)
TurnedAway == {IF deviceKey = "unknown" THEN "refused" ELSE deviceKey, "revoked"}

(* What a call comes to, if the phone still waits for it. *)
AfterGrant(call) == IF call = "asked" THEN "granted" ELSE "none"

AfterRefusal_AsGrant(call) == AfterGrant(call)

AfterRefusal(call) == "none"

(* The registration that the signature of i began; the key may be there    *)
(* for a while before the keys are counted again.                          *)
Register(i) ==
    /\ calls[i] \in {"asked", "adrift"}
    /\ \/ /\ deviceKey' = Registered
          /\ calls' = calls \/ calls' = [calls EXCEPT ![i] = AfterGrant(@)]
       \/ /\ deviceKey' \in TurnedAway
          /\ calls' = [calls EXCEPT ![i] = AfterRefusal(@)]
    /\ UNCHANGED <<vars, table, marked, replies, late, history>>

RevokeKey ==
    /\ deviceKey = "active" /\ deviceKey' = "revoked"
    /\ UNCHANGED <<vars, table, marked, calls, replies, late, history>>

(* An organizer enters the student, or the event or the account goes.      *)
TableStep ==
    /\ \/ \E i \in Items : Ledger!Override(Pair(i))
       \/ \E x \in Occasions \cup {Student} : Ledger!Delete(x)
    /\ UNCHANGED <<vars, keys, replies, late, history>>

-----------------------------------------------------------------------------
(* The phone. *)

(* A drain that now waits has sent a request; without a network it fails.  *)
Sends(d) ==
    replies' = [replies EXCEPT ![d] = IF drains'[d].at = Nothing THEN "none"
                                      ELSE IF link THEN "sent" ELSE "lost"]

(* The end of handleDecode: the scan is queued, and the key registered in  *)
(* the background unless it is marked.  Without a network that fails, and  *)
(* nothing but the next scan begins it again.                              *)
Capture(v, i) ==
    /\ Enqueue(v, i)
    /\ calls' = [calls EXCEPT ![i] = IF ~marked /\ link THEN "asked" ELSE "none"]
    /\ marking' = IF marked THEN marking \cup {i} ELSE marking
    /\ UNCHANGED <<table, deviceKey, marked, replies, late, answers>>

(* The registration is answered: markDeviceKeyRegistered. *)
Mark(i) ==
    /\ calls[i] = "granted"
    /\ marked' = TRUE
    /\ calls' = [calls EXCEPT ![i] = "none"]
    /\ UNCHANGED <<vars, table, deviceKey, replies, late, history>>

(* ... or not, or the answer is lost; the request may arrive all the same. *)
Unanswered(i) ==
    /\ calls[i] \in {"asked", "granted"}
    /\ calls' = [calls EXCEPT ![i] = IF @ = "asked" THEN "adrift" ELSE "none"]
    /\ UNCHANGED <<vars, table, deviceKey, marked, replies, late, history>>

Begins(d) ==
    /\ SendNow(d) \/ \E v \in Views : Fire(v, d)
    /\ Sends(d)
    /\ UNCHANGED <<table, keys, late, history>>

Accept(d) ==
    /\ replies[d] = "ok"
    /\ Accepted(d)
    /\ Sends(d)
    /\ UNCHANGED <<table, keys, late, history>>

(* An error is shown, or no answer comes: either counts as a try. *)
ComesBack(d, reason) ==
    /\ Retried(d)
    /\ answers' = [answers EXCEPT ![drains[d].at] = @ \cup {reason}]
    /\ Sends(d)
    /\ UNCHANGED <<table, keys, marking>>

Refuse(d) ==
    /\ replies[d] \in {"unregistered", "rejected"}
    /\ ComesBack(d, replies[d])
    /\ UNCHANGED late

StillSent(d) == IF replies[d] = "sent" THEN {drains[d].at} ELSE {}

NoAnswer(d) ==
    /\ ComesBack(d, "network")
    /\ late' = late \cup StillSent(d)

(* The page closes: what it sent goes on. *)
Close ==
    /\ Crash
    /\ replies' = [d \in Drains |-> "none"]
    /\ late' = late \cup UNION {StillSent(d) : d \in Drains}
    /\ calls' = [i \in Items |-> CASE calls[i] = "asked" -> "adrift"
                                   [] calls[i] = "granted" -> "none"
                                   [] OTHER -> calls[i]]
    /\ UNCHANGED <<table, deviceKey, marked, history>>

(* Steps of the queue that neither send nor are answered. *)
QueueStep ==
    /\ \/ Mount \/ Unmount \/ Effect \/ LinkDown \/ LinkUp \/ ClearSynced
       \/ \E i \in Items : RemoveScan(i)
    /\ UNCHANGED <<table, keys, replies, late, history>>

PhoneStep ==
    \/ \E i \in Items : Mark(i) \/ Unanswered(i) \/ \E v \in Views : Capture(v, i)
    \/ \E d \in Drains : Begins(d) \/ Accept(d) \/ Refuse(d) \/ NoAnswer(d)
    \/ Close \/ QueueStep

ServerStep ==
    \/ \E d \in Drains : Handle(d)
    \/ \E i \in Items : HandleLate(i) \/ Register(i)
    \/ RevokeKey \/ TableStep

DeliveryInit ==
    /\ Init
    /\ Ledger!Init
    /\ deviceKey = "unknown" /\ marked = FALSE
    /\ calls = [i \in Items |-> "none"]
    /\ replies = [d \in Drains |-> "none"]
    /\ late = {}
    /\ answers = [i \in Items |-> {}] /\ marking = {}

DeliveryNext == PhoneStep \/ ServerStep

DeliverySpec == DeliveryInit /\ [][DeliveryNext]_deliveryVars

-----------------------------------------------------------------------------
(* Properties. *)

(* The type invariant of what Delivery adds to the queue. *)
DeliveryTypeOK ==
    /\ Ledger!TypeOK
    /\ deviceKey \in {"unknown", "refused", "active", "revoked"} /\ marked \in BOOLEAN
    /\ calls \in [Items -> Calls]
    /\ replies \in [Drains -> Replies]
    /\ late \subseteq Items
    /\ answers \in [Items -> SUBSET {"network", "unregistered", "rejected"}]
    /\ marking \subseteq Items

(* What the queue shows as sent, and what it let the user clear away, is   *)
(* in the table of attendance, or the event or the account is gone: across *)
(* requests that were lost, answered twice or given up, drains of views    *)
(* that are gone and pages that closed.                                    *)
SentIsPresent ==
    \A i \in Items : status[i] \in {"synced", "gone"} => Present(i) \/ Deleted(i)

(* A scan signed on a phone that holds its key for registered is never     *)
(* turned away for the key, unless the key was revoked: by the user, or by *)
(* a registration that met the cap.                                        *)
MarkedIsKnown ==
    \A i \in marking : deviceKey # "revoked" => "unregistered" \notin answers[i]

(* The documented promise of the offline queue: a scan made without a      *)
(* network counts when it is sent in time.  So one that reached the server *)
(* at each try, with nothing against it but a key whose registration was   *)
(* not begun, as there was no network, is not given up.                    *)
DeadZoneCounts ==
    \A i \in Items :
        status[i] = "failed" /\ deviceKey = "unknown" /\ calls[i] = "none" =>
            answers[i] \cap {"network", "rejected"} # {}
=============================================================================
