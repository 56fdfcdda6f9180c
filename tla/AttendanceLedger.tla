--------------------------- MODULE AttendanceLedger --------------------------
(***************************************************************************)
(* What attendance promises, without requests, certificates or windows:    *)
(* one entry per event and student.  An entry appears once, as a scan or   *)
(* as an organizer's override; it may be timed out, once; it may become an *)
(* override, never a scan again; and it goes only with its event or its    *)
(* student, after which there is no entry for them any more.               *)
(***************************************************************************)
CONSTANTS Events, Students, Absent

VARIABLES ledger,           \* the entry of each <<event, student>>, or Absent
          gone              \* events and students that were deleted

Pairs == Events \X Students

Entry == [source : {"qr", "override"}, timedOut : BOOLEAN]

TypeOK ==
    /\ ledger \in [Pairs -> Entry \cup {Absent}]
    /\ gone \subseteq Events \cup Students

Open(p) == p[1] \notin gone /\ p[2] \notin gone

Init ==
    /\ ledger = [p \in Pairs |-> Absent]
    /\ gone = {}

CheckIn(p) ==
    /\ Open(p)
    /\ ledger[p] = Absent
    /\ ledger' = [ledger EXCEPT ![p] = [source |-> "qr", timedOut |-> FALSE]]
    /\ UNCHANGED gone

TimeOut(p) ==
    /\ ledger[p] # Absent
    /\ ~ledger[p].timedOut
    /\ ledger' = [ledger EXCEPT ![p].timedOut = TRUE]
    /\ UNCHANGED gone

Override(p) ==
    /\ Open(p)
    /\ ledger' = [ledger EXCEPT ![p] =
                     [source |-> "override",
                      timedOut |-> @ # Absent /\ @.timedOut]]
    /\ UNCHANGED gone

Delete(x) ==
    /\ gone' = gone \cup {x}
    /\ ledger' = [p \in Pairs |-> IF x \in {p[1], p[2]} THEN Absent ELSE ledger[p]]

Next ==
    \/ \E p \in Pairs : CheckIn(p) \/ TimeOut(p) \/ Override(p)
    \/ \E x \in Events \cup Students : Delete(x)

Spec == Init /\ [][Next]_<<ledger, gone>>
=============================================================================
