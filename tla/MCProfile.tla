------------------------------ MODULE MCProfile ------------------------------
(***************************************************************************)
(* What the cooldown limits, for TLC: a behaviour is of the profile or of  *)
(* the password.  An account is new from a registration, or from a sign-in *)
(* with Google, which leaves the class open.  The owner submits anything,  *)
(* another name by itself; an administrator corrects a name, moves the     *)
(* student to another class, forgets half of that, or clears it.           *)
(***************************************************************************)
EXTENDS Profile, PasswordChange, TLC

CONSTANTS n1, n2, p1, a

VARIABLE part

MCNames == {n1, n2}
MCPrograms == {p1}
MCLetters == {a}

New(program, year, section) ==
    [name |-> n1, program |-> program, year |-> year, section |-> section,
     lastProfileUpdateAt |-> Never, courseModified |-> FALSE]

MCProfiles == {New(p1, 1, <<1, a>>), New(Null, Null, Null)}

Nothing == [name |-> Omitted, program |-> Omitted, year |-> Omitted, section |-> Omitted]

MCBodies ==
    {b \in Body : IsValid(b) /\ (b.name = n2 => b = [Nothing EXCEPT !.name = n2])}

MCAdminBodies ==
    {[Nothing EXCEPT !.name = n2],
     [Nothing EXCEPT !.program = p1, !.year = 2, !.section = <<2, a>>],
     [Nothing EXCEPT !.program = p1, !.section = <<2, a>>],
     [Nothing EXCEPT !.program = Null, !.year = Null, !.section = Null],
     [Nothing EXCEPT !.program = Blank, !.section = Null]}

Symmetry == Permutations(Patches) \cup Permutations(Passwords)

MCInit ==
    /\ ProfileInit /\ PasswordInit
    /\ \/ part = "profile" /\ ~ authProvider /\ lastPasswordChangeAt = Never
       \/ part = "password" /\ profile = New(Null, Null, Null)

MCNext ==
    /\ \/ /\ part = "profile" /\ ProfileNext
          /\ UNCHANGED <<password, authProvider, lastPasswordChangeAt, posts, changes, unstamped>>
       \/ /\ part = "password" /\ PasswordNext
          /\ UNCHANGED <<profile, patches, edits, edited, courseSets, writtenAt>>
    /\ UNCHANGED part

MCSpec == MCInit /\ [][MCNext]_<<profileVars, passwordVars, part>>
=============================================================================
