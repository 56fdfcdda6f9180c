------------------------------ MODULE MCSignIn -------------------------------
(***************************************************************************)
(* SecondFactor for TLC: three requests of any kind on an account that has *)
(* no second factor yet, is enrolling one, or has one and two challenges   *)
(* open, the last attempt of one of them left.                             *)
(***************************************************************************)
EXTENDS SecondFactor, TLC

CONSTANTS h1, h2, s1, s2, c1, c2, c3, k1, k2, r1, r2, r3

Row(failed, enabled, secret, codes, passkey) ==
    [status |-> "ACTIVE", failed |-> failed, lockedUntil |-> None, mfaEnabled |-> enabled,
     secret |-> secret, codes |-> codes, passkey |-> passkey]

Fresh(attempts) == [attempts |-> attempts, consumed |-> FALSE, expires |-> 1]

NoChallenges == (h1 :> None) @@ (h2 :> None)

TwoChallenges == (h1 :> Fresh(0)) @@ (h2 :> Fresh(MaxAttempts - 1))

MCInitialStates ==
    {[account |-> Row(0, FALSE, None, {}, [id |-> k1, counter |-> 0]), challenges |-> NoChallenges],
     [account |-> Row(1, FALSE, s1, {}, None), challenges |-> NoChallenges],
     [account |-> Row(0, TRUE, s1, {c1, c2}, None), challenges |-> TwoChallenges]}

MCCodeSets == {{c1, c2}, {c3}}

MCSymmetry == Permutations(Requests) \cup Permutations({k1, k2})
=============================================================================
