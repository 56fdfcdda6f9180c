------------------------------- MODULE MCQueues ------------------------------
(***************************************************************************)
(* The two queues for TLC.  The hooks share nothing but the code that      *)
(* SyncQueue models: a behaviour is of the student's (ScanQueue), whose    *)
(* drains may overlap, or of the organizer's (OverrideQueue), of which one *)
(* drain at a time is checked.  Two items, a view that is mounted twice; a *)
(* network that goes away once, of the student's; a user who retries an    *)
(* entry once.                                                             *)
(***************************************************************************)
EXTENDS ScanQueue, OverrideQueue

CONSTANT Spare              \* drains only the student's hook has here

VARIABLE hook

(* The answers a drain waits for: every request is answered in the end.    *)
Answered(d) ==
    \/ hook = "scans" /\ Own(ScanAnswered(d))
    \/ hook = "overrides" /\ EntryAnswered(d)

OneAtATime == drops' = 0 /\ \A d \in Spare : drains'[d] = Idle

MCInit ==
    /\ Init /\ recorded = {} /\ scanned = {} /\ refused = {} /\ retries = 0
    /\ hook \in {"scans", "overrides"}

MCNext ==
    /\ \/ hook = "scans" /\ ScanNext /\ UNCHANGED <<server, refused, retries>>
       \/ hook = "overrides" /\ OverrideNext /\ OneAtATime
    /\ UNCHANGED hook

MCFairness ==
    /\ WF_allVars(Mounting) /\ WF_allVars(Reconnecting) /\ WF_allVars(Rendering)
    /\ \A d \in Drains : WF_allVars(Answered(d))
    /\ \A v \in Views : WF_allVars(Firing(v))

MCSpec == MCInit /\ [][MCNext]_<<allVars, hook>> /\ MCFairness
=============================================================================
