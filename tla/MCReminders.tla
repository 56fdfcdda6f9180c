----------------------------- MODULE MCReminders -----------------------------
(***************************************************************************)
(* Reminders for TLC: two runs, a student whose class may change, an       *)
(* organizer's event that is due soon, and two changes: requests of the    *)
(* events API or changes of the student.                                   *)
(***************************************************************************)
EXTENDS Reminders, TLC

CONSTANTS admin, organizer, p1, x1

MCProgramOf == [s \in {admin, organizer} |-> IF s = organizer THEN p1 ELSE Null]

MCEvent == NewRow(organizer) @@ [scheduledAt |-> 2]

MCTables == {1 :> ([targetProgram |-> p1] @@ MCEvent)}

MCStudents ==
    {[s \in Students |-> [class |-> [program |-> p1, section |-> x1], reachable |-> TRUE]]}

MCBodies ==
    {[scheduledAt |-> 2, endsAt |-> 3, enableTimeOut |-> TRUE, timeOutClosesAt |-> 3],
     [scope |-> "departmental"],
     [targetSection |-> x1]}

MCSymmetry ==
    Permutations(Requests) \cup Permutations(Runs) \cup Permutations(Students)
=============================================================================
