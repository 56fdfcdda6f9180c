------------------------------- MODULE Profile -------------------------------
(***************************************************************************)
(* The profile of one account, as its owner changes it (PATCH              *)
(* /api/profile) and as an administrator does (PATCH /api/accounts/[id]).  *)
(* An owner's request reads the row, waits for its own body, checks the    *)
(* body against what it read, and writes on condition that the cooldown    *)
(* has run out; several overlap, and administrators write in between.  The *)
(* cooldown is the only condition of the write: that a course is changed   *)
(* once, and that year and section agree, was checked on what was read.    *)
(***************************************************************************)
EXTENDS Cooldown

CONSTANTS Names, Programs, Years, Letters,
          Patches,          \* requests there may be at a time
          Profiles,         \* the profile may be one of these at first
          Bodies,           \* what the owner may submit,
          AdminBodies,      \* ... and what an administrator may
          MaxEdits,         \* bound on the administrators' updates
          Null,
          Blank,            \* the empty string, for a program
          Omitted           \* a field the body does not have

Sections == Years \X Letters  \* "2-A": the year it is for, and a letter

(* courseModifiedAt is only asked whether it is there. *)
Row ==
    [name : Names, program : Programs \cup {Null, Blank}, year : Years \cup {Null},
     section : Sections \cup {Null}, lastProfileUpdateAt : Dates,
     courseModified : BOOLEAN]

Body ==
    [name : Names, program : Programs \cup {Blank, Omitted},
     year : Years \cup {Omitted}, section : Sections \cup {Omitted}]

AdminBody ==
    [name : Names \cup {Omitted}, program : Programs \cup {Null, Blank, Omitted},
     year : Years \cup {Null, Omitted}, section : Sections \cup {Null, Omitted}]

(* isYearSectionConsistent, where both are there. *)
Consistent(year, section) == year \in Years /\ section \in Sections => section[1] = year

(* What updateProfileSchema and updateAccountSchema ask of a body. *)
IsValid(b) ==
    /\ b.program \in Programs <=> b.section \in Sections
    /\ Consistent(b.year, b.section)

(* Null, Blank and Omitted are told from values and from each other; a new *)
(* profile has an agreeing class or none, and no cooldown runs.            *)
ASSUME ProfileAssumption ==
    /\ MaxEdits \in Nat
    /\ {Null, Blank, Omitted} \cap (Names \cup Programs \cup Years \cup Sections) = {}
    /\ Null # Omitted /\ Blank # Omitted /\ Null # Blank
    /\ Bodies \subseteq Body /\ AdminBodies \subseteq AdminBody
    /\ Profiles \subseteq {row \in Row : /\ row.lastProfileUpdateAt = Never
                                       /\ ~row.courseModified
                                       /\ Consistent(row.year, row.section)}

VARIABLES profile,
          patches,
          edits,            \* how often an administrator wrote
          edited,           \* history: the year and section there are were
                            \* not all checked by a request of the owner
          courseSets,       \* history: how often the owner set the course
          writtenAt         \* history: when the owner's last update was made

profileVars == <<clock, profile, patches, edits, edited, courseSets, writtenAt>>

Effective(value, current) == IF value = Omitted THEN current ELSE value

EffectiveProgram(b, seen) ==
    IF b.program = Blank THEN Null ELSE Effective(b.program, seen.program)

ChangesProgram(b, seen) == EffectiveProgram(b, seen) # seen.program

-----------------------------------------------------------------------------
(* Requests of the owner. *)

NoPatch == [pc |-> "idle"]

(* findUnique.  The role is that of the session, which may be an old one. *)
Read(r, role) ==
    /\ patches[r] = NoPatch
    /\ patches' = [patches EXCEPT ![r] =
          [pc |-> "read", role |-> role, began |-> clock, overtaken |-> FALSE,
           seen |-> profile]]
    /\ UNCHANGED <<clock, profile, edits, edited, courseSets, writtenAt>>

ConsistentWith_OnlyBody(b, seen) == Consistent(b.year, b.section)

ConsistentWith(b, seen) ==
    Consistent(Effective(b.year, seen.year), Effective(b.section, seen.section))

HasChanges(role, b, seen) ==
    \/ b.name # seen.name
    \/ /\ role = "USER"
       /\ \/ ChangesProgram(b, seen)
          \/ Effective(b.section, seen.section) # seen.section
          \/ Effective(b.year, seen.year) # seen.year

MayChangeCourse_Again(b, seen) == TRUE

MayChangeCourse(b, seen) == ChangesProgram(b, seen) => ~seen.courseModified

Admits(role, b, seen) ==
    /\ IsValid(b)
    /\ role = "USER" => ConsistentWith(b, seen)
    /\ HasChanges(role, b, seen)
    /\ IsCooldownExpired(seen.lastProfileUpdateAt, clock)
    /\ role = "USER" => MayChangeCourse(b, seen)

UpdateData(role, b, seen) ==
    IF role = "USER"
    THEN [b EXCEPT !.program =
             IF ChangesProgram(b, seen) /\ EffectiveProgram(b, seen) # Null
             THEN EffectiveProgram(b, seen) ELSE Omitted]
    ELSE [name |-> b.name, program |-> Omitted, year |-> Omitted, section |-> Omitted]

(* The body has come, and everything up to the update is one piece. *)
Check(r, b) ==
    LET q == patches[r]
    IN  /\ q.pc = "read"
        /\ patches' = [patches EXCEPT ![r] =
              IF Admits(q.role, b, q.seen)
              THEN [pc |-> "write", role |-> q.role, began |-> q.began,
                    overtaken |-> q.overtaken, at |-> clock,
                    update |-> UpdateData(q.role, b, q.seen)]
              ELSE NoPatch]
        /\ UNCHANGED <<clock, profile, edits, edited, courseSets, writtenAt>>

With(row, u) ==
    [row EXCEPT !.name = Effective(u.name, @), !.program = Effective(u.program, @),
                !.year = Effective(u.year, @), !.section = Effective(u.section, @)]

Granted_Unconditional(q) == TRUE

Granted(q) == MayStamp(profile.lastProfileUpdateAt, CooldownCutoff(q.at))

(* updateMany; without a row it changes nothing. *)
Write(r) ==
    LET q == patches[r]
        setsCourse == q.update.program # Omitted
    IN  /\ q.pc = "write"
        /\ patches' = [patches EXCEPT ![r] = NoPatch]
        /\ IF Granted(q)
           THEN /\ profile' = [With(profile, q.update) EXCEPT
                                  !.lastProfileUpdateAt = q.at,
                                  !.courseModified = @ \/ setsCourse]
                /\ courseSets' = IF setsCourse THEN courseSets + 1 ELSE courseSets
                /\ edited' = IF q.role = "USER" THEN q.overtaken ELSE edited
                /\ writtenAt' = clock
           ELSE UNCHANGED <<profile, courseSets, edited, writtenAt>>
        /\ UNCHANGED <<clock, edits>>

(* The instance dies, or the platform ends the request. *)
Die(r) ==
    /\ patches[r] # NoPatch
    /\ patches' = [patches EXCEPT ![r] = NoPatch]
    /\ UNCHANGED <<clock, profile, edits, edited, courseSets, writtenAt>>

-----------------------------------------------------------------------------
(* An administrator's update: no cooldown, and no look at the row. *)
Edit(b) ==
    LET moves == b.year # Omitted \/ b.section # Omitted
    IN  /\ edits < MaxEdits /\ edits' = edits + 1
        /\ IsValid(b)
        /\ profile' = With(profile, b)
        /\ edited' = (edited \/ moves)
        /\ patches' = [r \in Patches |->
              IF patches[r] # NoPatch /\ moves
              THEN [patches[r] EXCEPT !.overtaken = TRUE] ELSE patches[r]]
        /\ UNCHANGED <<clock, courseSets, writtenAt>>

ProfileTick ==
    /\ Pass({patches[r].began : r \in {q \in Patches : patches[q] # NoPatch}})
    /\ UNCHANGED <<profile, patches, edits, edited, courseSets, writtenAt>>

ProfileInit ==
    /\ clock = 0
    /\ profile \in Profiles
    /\ patches = [r \in Patches |-> NoPatch]
    /\ edits = 0 /\ edited = FALSE /\ courseSets = 0 /\ writtenAt = Never

OwnerStep(r) ==
    \/ \E role \in {"USER", "ORGANIZER"} : Read(r, role)
    \/ \E b \in Bodies : Check(r, b)
    \/ Write(r)
    \/ Die(r)

ProfileNext ==
    \/ \E r \in Patches : OwnerStep(r)
    \/ \E b \in AdminBodies : Edit(b)
    \/ ProfileTick

ProfileSpec == ProfileInit /\ [][ProfileNext]_profileVars

-----------------------------------------------------------------------------
(* Properties. *)

ReadPatch ==
    [pc : {"read"}, role : {"USER", "ORGANIZER"}, began : Nat, overtaken : BOOLEAN,
     seen : Row]

WritePatch ==
    [pc : {"write"}, role : {"USER", "ORGANIZER"}, began : Nat, overtaken : BOOLEAN,
     at : Nat,
     update : [name : Names, program : Programs \cup {Omitted},
               year : Years \cup {Omitted}, section : Sections \cup {Omitted}]]

(* The type invariant of the rows and the requests. *)
ProfileTypeOK ==
    /\ clock \in Nat
    /\ profile \in Row
    /\ patches \in [Patches -> {NoPatch} \cup ReadPatch \cup WritePatch]
    /\ edits \in 0 .. MaxEdits /\ edited \in BOOLEAN
    /\ courseSets \in Nat
    /\ writtenAt \in Dates

(* A student sets the course of the profile at most once, however many     *)
(* requests read the row before one of them wrote: the write does not ask  *)
(* for courseModifiedAt, and only the cooldown keeps the others out        *)
(* (PATCH of src/app/api/profile/route.ts).                                *)
CourseOnce == courseSets <= 1

(* Year and section of a profile agree as long as they were all set by     *)
(* requests of the owner that no administrator's edit overtook, although a *)
(* request may send one and take the other from what it read.              *)
PlaceConsistent == ~edited => Consistent(profile.year, profile.section)

Updates(r) == patches[r].pc = "write" /\ Granted(patches[r])

(* Between two updates by the owner lies the cooldown, but for the time a  *)
(* request may run between taking its stamp and writing it: concurrent     *)
(* requests do not shorten it.                                             *)
UpdatesSpaced ==
    [][\A r \in Patches : Write(r) /\ Updates(r) /\ writtenAt # Never =>
          clock > writtenAt + COOLDOWN_MS - MaxDuration]_profileVars

(* A submission that saves nothing does not begin a cooldown, as the       *)
(* comment on the detection of no-ops has it; no administrator being at it *)
(* meanwhile.                                                              *)
NoOpsAreFree ==
    [][\A r \in Patches : Write(r) /\ Updates(r) /\ edits = 0 =>
          With(profile, patches[r].update) # profile]_profileVars
=============================================================================
