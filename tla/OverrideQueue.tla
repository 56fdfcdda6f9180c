---------------------------- MODULE OverrideQueue ----------------------------
(***************************************************************************)
(* The organizer's override queue (use-override-queue.ts, in               *)
(* overrides.tsx).  It tells errors apart: a 409 is taken for an entry     *)
(* that is there already, another 4xx for one that can never be accepted,  *)
(* and neither stops the drain; only what may pass (429, 5xx, the network) *)
(* puts the rest off.  A failed entry has a Retry button, any entry a bin. *)
(***************************************************************************)
EXTENDS SyncQueue

CONSTANT MaxRetries         \* bound on the user's retries

VARIABLES recorded,         \* the server's side: the entries it has
          scanned,          \* ... and those whose student a scan marked present
          refused,          \* history: items answered with a plain 4xx
          retries           \* how often the user retried

server == <<recorded, scanned>>
allVars == <<vars, server, refused, retries>>

(* How an error is classified: isAlreadyOverridden, then isRetryable. *)
Errors == {"conflict", "client", "rate_limited", "server", "network"}

AlreadyOverridden_None == {}

AlreadyOverridden == {"conflict"}

Retryable == {"rate_limited", "server", "network"} \ AlreadyOverridden

Terminal == Errors \ (AlreadyOverridden \cup Retryable)

(* An error that cannot pass: the item fails at once, the drain goes on. *)
Refused(d) ==
    LET i == drains[d].at
    IN  /\ i # Nothing
        /\ Proceed(d, drains[d].view, drains[d].rest, Settled(i, "failed"),
                   status[i] \in Queued)
        /\ Counted(i)
        /\ UNCHANGED <<order, view, mounted, timer, online, net, saved>>

(* What an error does to the queue. *)
Failed(d, e) ==
    \/ e \in AlreadyOverridden /\ Accepted(d)
    \/ e \in Retryable /\ Retried(d)
    \/ e \in Terminal /\ Refused(d)

(* What it says of the server.  A conflict: the entry is there, this one   *)
(* or another organizer's; or a scan of the student's came between the two *)
(* statements of the upsert, and there is a row but no entry (module       *)
(* Attendance, Collides).  An answer that was lost, or a 5xx after the     *)
(* commit: nothing.                                                        *)
RecordedAfter(i, e) ==
    \/ e = "conflict" /\ recorded' = recorded \cup {i} /\ UNCHANGED scanned
    \/ e = "conflict" /\ scanned' = scanned \cup {i} /\ UNCHANGED recorded
    \/ e \in {"server", "network"} /\ recorded' = recorded \cup {i} /\ UNCHANGED scanned
    \/ e # "conflict" /\ UNCHANGED server

EntryAnswered(d) ==
    /\ LET i == drains[d].at
       IN  \/ /\ Accepted(d)
              /\ i \notin recorded
              /\ recorded' = recorded \cup {i}
              /\ UNCHANGED <<scanned, refused>>
           \/ \E e \in Errors :
                 /\ Failed(d, e)
                 /\ RecordedAfter(i, e)
                 /\ refused' = IF e = "client" THEN refused \cup {i} ELSE refused
    /\ UNCHANGED retries

RemoveEntry(i) == status[i] \in Queued /\ TakeOut({i})

(* retryItem, from the button on a row that the view shows as failed. *)
RetryItem(i) ==
    /\ mounted
    /\ retries < MaxRetries /\ retries' = retries + 1
    /\ shown[i] = "failed"
    /\ status[i] \in Queued
    /\ attempts' = [attempts EXCEPT ![i] = 0]
    /\ Persist(view, [status EXCEPT ![i] = "pending"])
    /\ SetTimer(view, "now")
    /\ UNCHANGED <<order, view, mounted, online, net, drains, saved>>
    /\ refused' = refused \ {i}
    /\ UNCHANGED server

Own(A) == A /\ UNCHANGED <<server, refused, retries>>

Mounting == Own(Mount)
Reconnecting == Own(LinkUp)
Rendering == Own(Effect)
Firing(v) == \E d \in Drains : Own(Fire(v, d))

PageStep ==
    \/ Mounting \/ Reconnecting \/ Rendering
    \/ Own(Unmount) \/ Own(Crash) \/ Own(LinkDown) \/ Own(ClearSynced)
    \/ \E v \in Views : Firing(v)
    \/ \E i \in Items : Own(RemoveEntry(i)) \/ \E v \in Views : Own(Enqueue(v, i))

OverrideNext ==
    \/ \E d \in Drains : EntryAnswered(d)
    \/ PageStep
    \/ \E i \in Items : RetryItem(i)

(* As for the scan queue; the user need not retry. *)
OverrideFairness ==
    /\ WF_allVars(Mounting) /\ WF_allVars(Reconnecting) /\ WF_allVars(Rendering)
    /\ \A d \in Drains : WF_allVars(EntryAnswered(d))
    /\ \A v \in Views : WF_allVars(Firing(v))

OverrideSpec ==
    /\ Init /\ recorded = {} /\ scanned = {} /\ refused = {} /\ retries = 0
    /\ [][OverrideNext]_allVars
    /\ OverrideFairness

-----------------------------------------------------------------------------
(* An entry the server has does not end up failed because an answer was    *)
(* lost: the next try is a conflict, which counts as sent.  It takes as    *)
(* many lost answers as there are attempts, or a refusal (the event was    *)
(* cancelled meanwhile, the deadline is over).                             *)
RecordedIsNotFailed ==
    \A i \in Items :
        i \in recorded /\ status[i] = "failed"
            => attempts[i] >= MaxAttempts \/ i \in refused

(* The student of an entry that the queue calls sent is present in the     *)
(* server's table: by the entry, or by a scan that came before it.         *)
SyncedIsPresent == \A i \in Items : status[i] = "synced" => i \in recorded \cup scanned
=============================================================================
