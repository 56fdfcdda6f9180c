------------------------------ MODULE ScanQueue ------------------------------
(***************************************************************************)
(* The student's scan queue (use-scan-queue.ts, in scanner.tsx): any error *)
(* counts as one that may pass.                                            *)
(***************************************************************************)
EXTENDS SyncQueue

(* The button on a row that the view shows as synced; what is in           *)
(* localStorage by then may say otherwise, it goes all the same.           *)
RemoveScan(i) == shown[i] = "synced" /\ status[i] \in Queued /\ TakeOut({i})

ScanAnswered(d) == Accepted(d) \/ Retried(d)

UserStep ==
    \/ \E i \in Items : RemoveScan(i) \/ \E v \in Views : Enqueue(v, i)
    \/ \E d \in Drains : SendNow(d)
    \/ ClearSynced

ScanNext ==
    \/ UserStep
    \/ Mount \/ Unmount \/ Crash \/ Effect \/ LinkDown \/ LinkUp
    \/ \E d \in Drains : ScanAnswered(d) \/ \E v \in Views : Fire(v, d)

(* Timers fire and effects run (the event loop), a request is answered or  *)
(* fails (the browser and maxDuration see to it); the network comes back   *)
(* and the user returns to the scanner.                                    *)
ScanFairness ==
    /\ WF_vars(Mount) /\ WF_vars(LinkUp) /\ WF_vars(Effect)
    /\ \A d \in Drains : WF_vars(ScanAnswered(d))
    /\ \A v \in Views : WF_vars(\E d \in Drains : Fire(v, d))

ScanSpec == Init /\ [][ScanNext]_vars /\ ScanFairness

(* ... and the user who sees something unsent goes on pressing Send now.   *)
InsistentSpec == ScanSpec /\ WF_vars(\E d \in Drains : SendNow(d))

-----------------------------------------------------------------------------
(* What is off the list was saved: the confirmation of "Clear sent scans"  *)
(* promises it, and removing a row by hand keeps it too.                   *)
RemovedWasSaved == \A i \in Items : status[i] = "gone" => i \in saved

(* The documented backoff: once a retry is put off, only a new scan or the *)
(* network coming back brings it forward.                                  *)
BackoffRespected ==
    [][\A v \in Views :
          timer[v] = "backoff" /\ timer'[v] = "now" =>
              Len(order') > Len(order) \/ (link' /\ ~link)]_vars

(* The documented manual retry: a failed scan does not stay failed while   *)
(* the user presses Send now.                                              *)
FailedIsRetried == \A i \in Items : status[i] = "failed" ~> status[i] # "failed"
=============================================================================
