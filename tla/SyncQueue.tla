------------------------------ MODULE SyncQueue ------------------------------
(***************************************************************************)
(* The offline queue of a phone, as use-scan-queue.ts and, line for line,  *)
(* use-override-queue.ts have it: signed certificates in localStorage,     *)
(* sent to the server by drains that a timer starts.  This module has what *)
(* the two hooks share; ScanQueue and OverrideQueue add how each of them   *)
(* takes an error, and the whole next-state relations.                     *)
(*                                                                         *)
(* One page, in which the view that mounts the hook comes and goes.  Each  *)
(* time it is mounted anew it has its own timer and its own idea of being  *)
(* online, while the drains of the view before, which nothing stops, go on *)
(* over the same localStorage.  A crash is the page closed or reloaded.    *)
(* JavaScript runs to the next await: what a drain does between two        *)
(* answers is one step, and the effect that follows a render another.      *)
(*                                                                         *)
(* A definition named X_Y is X with the slip Y, as in Attendance.          *)
(***************************************************************************)
EXTENDS Integers, Sequences, FiniteSets

CONSTANTS Items,            \* the certificates the user ever signs
          Drains,           \* bound on the drains in flight at once
          MaxAttempts,      \* 5 in the code
          MaxViews,         \* bound on how often the view is mounted
          MaxDrops,         \* bound on how often the network goes away
          Nothing           \* a drain that waits for no answer

VARIABLES order,            \* localStorage: the queued items, newest first
          status,           \* ... the status of each
          attempts,         \* ... and how often it was answered
          view,             \* how many times the view was mounted so far
          mounted,          \* whether it is mounted now
          shown,            \* its React state: the statuses it last saw
          changed,          \* its effect on [queue, online] is due
          timer,            \* each view's timer; "dead": the page closed
          online,           \* each view's onlineRef
          link, drops,      \* the network, and how often it went away
          drains,           \* the drains in flight
          saved             \* history: items the server answered were saved

stored == <<order, status, attempts>>
page == <<view, mounted, shown, changed, timer, online>>
net == <<link, drops>>
vars == <<stored, page, net, drains, saved>>

Views == 1 .. MaxViews

(* "new": not signed yet; "gone": taken out of the queue. *)
Queued == {"pending", "syncing", "synced", "failed"}
Statuses == Queued \cup {"new", "gone"}

Idle == [view |-> 0, at |-> Nothing, rest |-> {}]

Drain == [view : 0 .. MaxViews, at : Items \cup {Nothing}, rest : SUBSET Items]

ASSUME SyncQueueAssumption ==
    /\ Nothing \notin Items
    /\ MaxAttempts \in Nat \ {0}
    /\ MaxViews \in Nat \ {0}
    /\ MaxDrops \in Nat

Init ==
    /\ order = << >>
    /\ status = [i \in Items |-> "new"]
    /\ attempts = [i \in Items |-> 0]
    /\ view = 0 /\ mounted = FALSE /\ changed = FALSE
    /\ shown = [i \in Items |-> "new"]
    /\ timer = [v \in Views |-> "off"]
    /\ online = [v \in Views |-> TRUE]
    /\ link \in BOOLEAN /\ drops = 0
    /\ drains = [d \in Drains |-> Idle]
    /\ saved = {}

-----------------------------------------------------------------------------
(* persist: localStorage is written, and the state of the view that runs   *)
(* the hook; to a view that is gone setQueue does nothing.                 *)
Persist(v, next) ==
    /\ status' = next
    /\ IF mounted /\ v = view THEN shown' = next /\ changed' = TRUE
                              ELSE UNCHANGED <<shown, changed>>

SetTimer(v, t) == timer' = [timer EXCEPT ![v] = t]

(* What a drain has left of its items: those that are in the queue still.  *)
Remaining(items, st) == {i \in items : st[i] \in Queued}

(* The queue's order, which a drain keeps; nothing ever changes that of    *)
(* two items that stay.                                                    *)
IsBefore(i, j) == \E m, n \in DOMAIN order : m < n /\ order[m] = i /\ order[n] = j

(* A drain goes on: it marks its next item, whatever its status is by now, *)
(* and waits for the answer; or it is over.  saves: this step has written  *)
(* the queue already.                                                      *)
Proceed(d, v, items, st, saves) ==
    LET left == Remaining(items, st)
    IN  \/ /\ left = {}
           /\ drains' = [drains EXCEPT ![d] = Idle]
           /\ IF saves THEN Persist(v, st) ELSE UNCHANGED <<status, shown, changed>>
        \/ \E i \in left :
              /\ \A j \in left \ {i} : IsBefore(i, j)
              /\ drains' = [drains EXCEPT ![d] = [view |-> v, at |-> i, rest |-> left \ {i}]]
              /\ Persist(v, [st EXCEPT ![i] = "syncing"])

Waiting_NotSynced(st) == {i \in Items : st[i] \in Queued \ {"synced"}}

(* What drain loads when it starts. *)
Waiting(st) == {i \in Items : st[i] = "pending"}

(* drain, called in view v. *)
StartDrain(d, v) ==
    /\ drains[d] = Idle
    /\ IF online[v] THEN Proceed(d, v, Waiting(status), status, FALSE)
                    ELSE UNCHANGED <<status, shown, changed, drains>>
    /\ UNCHANGED <<order, attempts>>

-----------------------------------------------------------------------------
(* The page. *)

Recovered_Kept(st) == st

(* Hydration: what a page that closed left as syncing is pending again. *)
Recovered(st) == [i \in Items |-> IF st[i] = "syncing" THEN "pending" ELSE st[i]]

Mount ==
    /\ ~mounted
    /\ view < MaxViews
    /\ view' = view + 1 /\ mounted' = TRUE
    /\ status' = Recovered(status)
    /\ shown' = Recovered(status) /\ changed' = TRUE
    /\ online' = [online EXCEPT ![view + 1] = link]
    /\ UNCHANGED <<order, attempts, timer, net, drains, saved>>

(* The user leaves the view.  The last view stays. *)
Unmount ==
    /\ mounted
    /\ view < MaxViews
    /\ mounted' = FALSE /\ changed' = FALSE
    /\ SetTimer(view, "off")
    /\ UNCHANGED <<stored, view, shown, online, net, drains, saved>>

(* The page closes: nothing is left of it but localStorage. *)
Crash ==
    /\ view \in 1 .. MaxViews - 1
    /\ mounted' = FALSE /\ changed' = FALSE
    /\ timer' = [v \in Views |-> IF v <= view THEN "dead" ELSE timer[v]]
    /\ drains' = [d \in Drains |-> Idle]
    /\ UNCHANGED <<stored, view, shown, online, net, saved>>

(* The effect on [queue, online]: drain at once if something is pending.   *)
Effect ==
    /\ changed
    /\ changed' = FALSE
    /\ IF online[view] /\ \E i \in Items : shown[i] = "pending"
       THEN SetTimer(view, "now")
       ELSE UNCHANGED timer
    /\ UNCHANGED <<stored, view, mounted, shown, online, net, drains, saved>>

LinkDown ==
    /\ link /\ drops < MaxDrops
    /\ link' = FALSE /\ drops' = drops + 1
    /\ IF mounted THEN online' = [online EXCEPT ![view] = FALSE] /\ changed' = TRUE
                  ELSE UNCHANGED <<online, changed>>
    /\ UNCHANGED <<stored, view, mounted, shown, timer, drains, saved>>

LinkUp ==
    /\ ~link
    /\ link' = TRUE
    /\ IF mounted THEN /\ online' = [online EXCEPT ![view] = TRUE]
                       /\ changed' = TRUE
                       /\ SetTimer(view, "now")
                  ELSE UNCHANGED <<online, changed, timer>>
    /\ UNCHANGED <<stored, view, mounted, shown, drops, drains, saved>>

-----------------------------------------------------------------------------
(* The queue. *)

(* enqueueSigned.  The signature was begun in view v, which may be gone.   *)
Enqueue(v, i) ==
    /\ v <= view /\ timer[v] # "dead"
    /\ status[i] = "new"
    /\ order' = <<i>> \o order
    /\ Persist(v, [status EXCEPT ![i] = "pending"])
    /\ SetTimer(v, "now")
    /\ UNCHANGED <<attempts, view, mounted, online, net, drains, saved>>

(* A timer fires, of this view or of one that is gone. *)
Fire(v, d) ==
    /\ timer[v] \in {"now", "backoff"}
    /\ SetTimer(v, "off")
    /\ StartDrain(d, v)
    /\ UNCHANGED <<view, mounted, online, net, saved>>

(* "Send now", shown while something is not synced. *)
SendNow(d) ==
    /\ mounted /\ link
    /\ \E i \in Items : shown[i] \in {"pending", "syncing", "failed"}
    /\ StartDrain(d, view)
    /\ UNCHANGED <<view, mounted, timer, online, net, saved>>

(* An answer about the item the drain waits for: its new status, if it is  *)
(* in the queue still.                                                     *)
Settled(i, result) == IF status[i] \in Queued THEN [status EXCEPT ![i] = result] ELSE status

Counted(i) ==
    attempts' = IF status[i] \in Queued THEN [attempts EXCEPT ![i] = @ + 1] ELSE attempts

(* The server has it: 2xx, new or already present. *)
Accepted(d) ==
    LET i == drains[d].at
    IN  /\ i # Nothing
        /\ Proceed(d, drains[d].view, drains[d].rest, Settled(i, "synced"),
                   status[i] \in Queued)
        /\ Counted(i)
        /\ saved' = saved \cup {i}
        /\ UNCHANGED <<order, view, mounted, timer, online, net>>

(* An error that may pass: the item waits, or fails for good when it was   *)
(* tried often enough; the drain is over and its view's timer backs off.   *)
Retried(d) ==
    LET i == drains[d].at
        v == drains[d].view
    IN  /\ i # Nothing
        /\ IF status[i] \in Queued
           THEN Persist(v, [status EXCEPT ![i] = IF attempts[i] + 1 >= MaxAttempts
                                                 THEN "failed" ELSE "pending"])
           ELSE UNCHANGED <<status, shown, changed>>
        /\ Counted(i)
        /\ drains' = [drains EXCEPT ![d] = Idle]
        /\ SetTimer(v, "backoff")
        /\ UNCHANGED <<order, view, mounted, online, net, saved>>

(* Items are taken out of the queue. *)
TakeOut(out) ==
    /\ mounted
    /\ order' = SelectSeq(order, LAMBDA i : i \notin out)
    /\ Persist(view, [i \in Items |-> IF i \in out THEN "gone" ELSE status[i]])
    /\ UNCHANGED <<attempts, view, mounted, timer, online, net, drains, saved>>

Clearable_NotPending == {i \in Items : status[i] \in Queued \ {"pending"}}

Clearable == {i \in Items : status[i] = "synced"}

ClearSynced == TakeOut(Clearable)

-----------------------------------------------------------------------------
(* Properties of both queues. *)

TypeOK ==
    /\ order \in Seq(Items)
    /\ status \in [Items -> Statuses]
    /\ attempts \in [Items -> Nat]
    /\ view \in 0 .. MaxViews /\ mounted \in BOOLEAN /\ changed \in BOOLEAN
    /\ shown \in [Items -> Statuses]
    /\ timer \in [Views -> {"off", "now", "backoff", "dead"}]
    /\ online \in [Views -> BOOLEAN]
    /\ link \in BOOLEAN /\ drops \in 0 .. MaxDrops
    /\ drains \in [Drains -> Drain]
    /\ saved \subseteq Items
    /\ mounted => view # 0
    /\ \A d \in Drains : drains[d].at # Nothing => drains[d].view # 0
    /\ \A i \in Items : status[i] \in Queued <=> \E n \in DOMAIN order : order[n] = i
    /\ \A m, n \in DOMAIN order : order[m] = order[n] => m = n

(* What the queue calls sent, the server has: no drain, crash or remount   *)
(* turns an item nobody acknowledged into a synced one.                    *)
SyncedWasSaved == \A i \in Items : status[i] = "synced" => i \in saved

(* While the view is there, an item shown as being sent has a drain that   *)
(* waits for its answer: none hangs, whatever drains overlapped or died.   *)
NoneStranded ==
    mounted => \A i \in Items : status[i] = "syncing" => \E d \in Drains : drains[d].at = i

Holds(d, i) == drains[d].at = i \/ i \in drains[d].rest

(* An item that was sent or given up is sent again only because a drain    *)
(* had taken it before, or because the user asked (its count restarts).    *)
SettledStays ==
    [][\A i \in Items :
          status[i] \in {"synced", "failed"} /\ status'[i] \in {"pending", "syncing"} =>
              (\E d \in Drains : Holds(d, i)) \/ attempts'[i] = 0]_vars

(* Saved scans are sent on their own once the phone is connected again:    *)
(* every item that waits is answered or given up in the end.               *)
AutoSyncs ==
    \A i \in Items :
        status[i] = "pending" ~> (i \in saved \/ status[i] \in {"failed", "gone"})

(* Nothing that was begun in a view goes on in the next one. *)
NoneOutlives ==
    /\ \A d \in Drains : drains[d].at # Nothing => drains[d].view = view
    /\ \A v \in Views : timer[v] \in {"now", "backoff"} => v = view

(* That much holds through network losses, overlapping drains and pages    *)
(* that close, provided no drain, timer or signature outlives its view     *)
(* into the next one (leaving the view stops its timer, not the others).   *)
EverySettles == []NoneOutlives => AutoSyncs
=============================================================================
