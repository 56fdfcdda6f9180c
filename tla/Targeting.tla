------------------------------ MODULE Targeting -------------------------------
(***************************************************************************)
(* Whom an event is for.  An event may name a program, a section, both or  *)
(* neither; a student has a program and a section, or not yet.  Three      *)
(* places decide whether a student belongs: the scan route asks for what   *)
(* the student's list of events shows (src/lib/event-visibility.ts), the   *)
(* override route compares whatever the event names, and so do, row by     *)
(* row, the reminders (src/lib/event-targeting.ts).  The first differs     *)
(* from the others on an event that names a section only.                  *)
(***************************************************************************)
CONSTANTS Programs, Sections, Null

ASSUME TargetingAssumption == Null \notin Programs \cup Sections

(* What a student's account says, or the whitelist of the student; and     *)
(* what an event names.                                                    *)
Class == [program : Programs \cup {Null}, section : Sections \cup {Null}]

OpenToAll == [program |-> Null, section |-> Null]

(* isEventVisibleToStudent: a section without a program is for nobody. *)
VisibleTo(class, target) ==
    \/ target = OpenToAll
    \/ /\ target.program # Null
       /\ class.program = target.program
       /\ target.section \in {Null, class.section}

(* The override route: each of the two, if named, is the student's. *)
ListedFor(class, target) ==
    /\ target.program \in {Null, class.program}
    /\ target.section \in {Null, class.section}

(* eligibleAccountIdsForEvent, one disjunct per audience shape. *)
RemindedFor(class, target) ==
    \/ target.program = Null /\ target.section = Null
    \/ target.program # Null /\ target.section # Null /\ class = target
    \/ /\ target.program # Null /\ target.section = Null
       /\ class.program = target.program
    \/ /\ target.program = Null /\ target.section # Null
       /\ class.section = target.section
=============================================================================
