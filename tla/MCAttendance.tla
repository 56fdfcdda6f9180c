----------------------------- MODULE MCAttendance ----------------------------
(***************************************************************************)
(* Attendance for TLC, bounded in one of three ways that a behaviour       *)
(* chooses at its start.  In the first, two scans (of one certificate, or  *)
(* of two), and an entry by either of two members of the staff race for    *)
(* one student's row.  In the second, one scan and one entry overlap edits *)
(* of the event, the account, the list and the devices.  In the third, two *)
(* scans are posted under the session of either student, whichever device  *)
(* signed them, and s2's device may be revoked and s2 deleted.             *)
(***************************************************************************)
EXTENDS Attendance, TLC

CONSTANTS x1, o1,           \* a section, and an organizer
          s1                \* the student of the first two bounds

VARIABLE bound

Times(endsAt, in, timed, out) ==
    [scheduledAt |-> 1, endsAt |-> endsAt,
     checkInOpensAt |-> in[1], checkInClosesAt |-> in[2],
     enableTimeOut |-> timed,
     timeOutOpensAt |-> out[1], timeOutClosesAt |-> out[2]]

Unset == <<NoTime, NoTime>>

(* Check-in and time-out meet at instant 1, as createEventSchema allows.   *)
Adjacent == Times(NoTime, <<0, 1>>, TRUE, <<1, 3>>)

(* Nothing explicit: the default windows, which overlap. *)
Defaults == Times(NoTime, Unset, TRUE, Unset)

(* The adjacent windows, or the same event with its time-out moved later. *)
MovedTimeOut == {Adjacent, Times(NoTime, <<0, 1>>, TRUE, <<2, 3>>)}

AdjacentOrDefaults == {Adjacent, Defaults}

MCSchedules == MovedTimeOut \cup AdjacentOrDefaults

(* Students of two sections of a program; an event is for everyone or for  *)
(* one of the sections.                                                    *)
FullClasses == [program : Programs, section : Sections]

SomeTargets == {OpenToAll} \cup [program : Programs, section : {x1}]

MCSymmetry == Permutations(ScanReqs)

Began(r) == scans[r].pc # "idle"

MCInit ==
    /\ Init
    /\ \A e \in Events : events[e].owner = o1
    /\ \/ /\ bound = "races"
          /\ \A e \in Events : events[e].times \in MovedTimeOut
          /\ \A s \in Students : listed[s].section = x1
       \/ /\ bound = "edits"
          /\ \A e \in Events : events[e].times = Adjacent
       \/ /\ bound = "sessions"
          /\ \A e \in Events : events[e].times = Adjacent
          /\ \A s \in Students : listed[s].section = x1

(* A scan that s1 signed and posts, an entry for s1. *)
ScanByS1(r) ==
    ScanStep(r) /\ scans'[r].post.student = s1 /\ scans'[r].post.signer = s1

EntryForS1(r) == OverrideStep(r) /\ overs'[r].cert.student = s1

(* No edits.                                                               *)
Races ==
    \/ \E r \in ScanReqs : ScanByS1(r)
    \/ \E r \in OverrideReqs : EntryForS1(r)
    \/ Tick

(* One scan, an entry by o1, no edit of o2's device, two of anything else. *)
Alone(r) == \A q \in ScanReqs \ {r} : ~ Began(q)

ByO1(r) == overs'[r].actor = o1 /\ overs'[r].cert.signer = o1

Edits ==
    \/ \E r \in ScanReqs : Alone(r) /\ ScanByS1(r)
    \/ \E r \in OverrideReqs : EntryForS1(r) /\ ByO1(r)
    \/ /\ Environment
       /\ \A p \in (Staff \cup Students) \ {o1, s1} : devices'[p] = devices[p]
       /\ \A s \in Students \ {s1} : accounts'[s] = accounts[s] /\ listed'[s] = listed[s]
       /\ \A e \in Events : versions'[e] \subseteq AdjacentOrDefaults

(* Every scan, no entry, one edit about the students but s1. *)
Posts ==
    \/ \E r \in ScanReqs : ScanStep(r)
    \/ /\ edits < 1
       /\ \E s \in Students \ {s1} : DeleteAccount(s) \/ RevokeDevice(s)
    \/ Tick

MCNext ==
    /\ \/ bound = "races" /\ Races
       \/ bound = "edits" /\ Edits
       \/ bound = "sessions" /\ Posts
    /\ UNCHANGED bound

MCSpec == MCInit /\ [][MCNext]_<<vars, bound>>
=============================================================================
