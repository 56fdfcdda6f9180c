----------------------------- MODULE MCAccounts ------------------------------
(***************************************************************************)
(* AccountRequests for TLC: an administrator, one other account in any     *)
(* condition (or none yet), an id and two login users to spare, two        *)
(* addresses and three requests of any kind.                               *)
(***************************************************************************)
EXTENDS AccountRequests, TLC

CONSTANTS id1, id2, id3, ua, ub, uc, e1, e2

Row(email, role, status, deactivated, verified, uid) ==
    [email |-> email, role |-> role, status |-> status, isDeactivated |-> deactivated,
     emailVerified |-> verified, uid |-> uid]

Boss == Row(e1, "ADMIN", "ACTIVE", FALSE, TRUE, ua)

Others ==
    {None,
     Row(e2, "ADMIN", "ACTIVE", FALSE, TRUE, ub),
     Row(e2, "ADMIN", "SUSPENDED", FALSE, TRUE, ub),
     Row(e2, "OTHER", "ACTIVE", FALSE, TRUE, ub),
     Row(e2, "OTHER", "ACTIVE", FALSE, FALSE, None),
     Row(e2, "OTHER", "PENDING_VERIFICATION", FALSE, FALSE, ub),
     Row(e2, "OTHER", "SUSPENDED", FALSE, TRUE, ub),
     Row(e2, "OTHER", "DEACTIVATED", TRUE, TRUE, ub)}

MCTables == {(id1 :> Boss) @@ (id2 :> other) @@ (id3 :> None) : other \in Others}

MCSymmetry == Permutations(Requests)
=============================================================================
