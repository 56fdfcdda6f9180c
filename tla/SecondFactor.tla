---------------------------- MODULE SecondFactor -----------------------------
(***************************************************************************)
(* The second factor of SignIn's account: challenges are answered with a   *)
(* code of the authenticator app or with a backup code, and the factor is  *)
(* enrolled, verified and disabled.                                        *)
(***************************************************************************)
EXTENDS SignIn

(* What a client may send: a right code for some secret (the one of the    *)
(* app it has), a backup code, or anything else.                           *)
Proofs == [secret : Secrets] \cup [code : Codes] \cup {[wrong |-> TRUE]}

ByApp(proof) == "secret" \in DOMAIN proof

ByBackup(proof) == "code" \in DOMAIN proof

(* verifyTotp, then verifyBackupCode, on the account as read. *)
Accepted(proof, seen) ==
    \/ ByApp(proof) /\ proof.secret = seen.secret
    \/ ByBackup(proof) /\ proof.code \in seen.codes

Open(h) == challenges[h] # None /\ ~challenges[h].consumed

-----------------------------------------------------------------------------
(* POST /api/auth/mfa/login-verify *)

(* The challenge of the cookie is read. *)
StartSecond(r) ==
    /\ At(r, "idle")
    /\ \E h \in Challenges :
          /\ challenges[h] # None
          /\ IF ~Open(h) \/ challenges[h].expires < now
             THEN AnswerAtOnce(r, "second", "refused")
             ELSE requests' = [requests EXCEPT ![r] =
                     [Idle EXCEPT !.kind = "second", !.challenge = h,
                                  !.pc = IF challenges[h].attempts >= MaxAttempts
                                         THEN "use_up" ELSE "read_account"]]
    /\ NoWrite

UseUp(r) ==
    /\ At(r, "use_up")
    /\ challenges' = [challenges EXCEPT ![requests[r].challenge].consumed = TRUE]
    /\ Answer(r, "too_many")
    /\ UNCHANGED <<account, history>>

(* The account is read and the code checked against it. *)
ReadAccount(r) ==
    /\ At(r, "read_account")
    /\ IF ~account.mfaEnabled \/ account.secret = None THEN Answer(r, "refused")
       ELSE \E proof \in Proofs :
               requests' = [requests EXCEPT
                   ![r].seen = account, ![r].proof = proof,
                   ![r].pc = IF Accepted(proof, account) THEN "consume" ELSE "bump"]
    /\ NoWrite

MayCount_WhileOpen(h) == Open(h)

MayCount(h) == Open(h) /\ challenges[h].attempts < MaxAttempts

(* A wrong code is counted while the challenge is open ...                 *)
Bump(r) ==
    /\ At(r, "bump")
    /\ LET h == requests[r].challenge
       IN  IF MayCount(h)
           THEN /\ challenges' = [challenges EXCEPT ![h].attempts = @ + 1]
                /\ GoTo(r, "close")
           ELSE Answer(r, "refused") /\ UNCHANGED challenges
    /\ UNCHANGED <<account, history>>

(* ... and the last one closes it, in a call of its own.                   *)
Close(r) ==
    /\ At(r, "close")
    /\ LET h == requests[r].challenge
       IN  challenges' = IF Open(h) /\ challenges[h].attempts >= MaxAttempts
                         THEN [challenges EXCEPT ![h].consumed = TRUE]
                         ELSE challenges
    /\ Answer(r, "refused")
    /\ UNCHANGED <<account, history>>

MayConsume_AsRead(h) == challenges[h] # None

MayConsume(h) == Open(h)

(* The right code consumes the challenge, and only one request can.        *)
Consume(r) ==
    /\ At(r, "consume")
    /\ LET h == requests[r].challenge
       IN  IF MayConsume(h)
           THEN /\ challenges' = [challenges EXCEPT ![h].consumed = TRUE]
                /\ GoTo(r, IF ByBackup(requests[r].proof) THEN "spend_code" ELSE "enter")
           ELSE Answer(r, "refused") /\ UNCHANGED challenges
    /\ UNCHANGED <<account, history>>

MaySpend_IfLeft(seen, proof) == proof.code \in seen.codes

MaySpend(seen, proof) == account.codes = seen.codes

(* The codes that remain are stored if the codes are as they were read;    *)
(* otherwise the challenge is consumed for nothing.                        *)
SpendCode(r) ==
    /\ At(r, "spend_code")
    /\ LET seen  == requests[r].seen
           proof == requests[r].proof
       IN  IF MaySpend(seen, proof)
           THEN /\ account' = [account EXCEPT !.codes = seen.codes \ {proof.code}]
                /\ GoTo(r, "enter")
           ELSE Answer(r, "refused") /\ UNCHANGED account
    /\ UNCHANGED <<challenges, history>>

SpentBy(proof) ==
    [c \in Codes |-> IF ByBackup(proof) /\ proof.code = c
                     THEN history.spent[c] + 1 ELSE history.spent[c]]

(* The counters are reset and the session is marked as verified.           *)
Enter(r) ==
    /\ At(r, "enter")
    /\ account' = ResetCounters(account)
    /\ history' = [history EXCEPT
           !.wrong = 0, !.entered[requests[r].challenge] = @ + 1,
           !.spent = SpentBy(requests[r].proof)]
    /\ Answer(r, "signed_in")
    /\ UNCHANGED challenges

-----------------------------------------------------------------------------
(* The request r is done; it replaced or removed the secret that others    *)
(* are verifying.                                                          *)
Overtake(r, kind) ==
    requests' = [q \in Requests |->
        IF q = r THEN [Idle EXCEPT !.pc = "done", !.kind = kind, !.reply = "ok"]
        ELSE [requests[q] EXCEPT !.overtaken = @ \/ At(q, "enable")]]

Enrolled_KeptOn(s) == [account EXCEPT !.secret = s]

Enrolled(s) == [account EXCEPT !.secret = s, !.mfaEnabled = FALSE, !.codes = {}]

(* POST /api/auth/mfa/enroll: a fresh secret, whatever there was.          *)
Enroll(r) ==
    /\ At(r, "idle") /\ account.status = "ACTIVE"
    /\ \E s \in Secrets \ history.issued :
          /\ account' = Enrolled(s)
          /\ history' = [history EXCEPT !.issued = @ \cup {s}]
    /\ Overtake(r, "enroll")
    /\ UNCHANGED challenges

(* POST /api/auth/mfa/verify: the first code of the app ...                *)
StartVerify(r) ==
    /\ account.status = "ACTIVE"
    /\ IF account.secret = None \/ account.mfaEnabled
       THEN AnswerAtOnce(r, "verify", "refused") /\ UNCHANGED history
       ELSE /\ Begin(r, "verify", "enable")
            /\ history' = [history EXCEPT !.proved = @ \cup {account.secret}]
    /\ UNCHANGED <<account, challenges>>

MayEnable_AsRead(row) == TRUE

(* where: {mfaEnabled: false} *)
MayEnable(row) == ~row.mfaEnabled

(* ... enables the secret that is in the row by now, with fresh backup     *)
(* codes; of two requests only one does.                                   *)
Enable(r) ==
    /\ At(r, "enable")
    /\ IF MayEnable(account)
       THEN \E set \in CodeSets \ history.issued :
               /\ account' = [account EXCEPT !.mfaEnabled = TRUE, !.codes = set]
               /\ history' = [history EXCEPT !.issued = @ \cup {set}]
               /\ requests' = [requests EXCEPT ![r] =
                     [Idle EXCEPT !.kind = "verify", !.pc = "done", !.reply = "enabled",
                                  !.proof = [codes |-> set], !.overtaken = requests[r].overtaken]]
       ELSE Answer(r, "already_enabled") /\ UNCHANGED <<account, history>>
    /\ UNCHANGED challenges

(* POST /api/auth/mfa/disable: a code of either kind, checked on the row   *)
(* as read ...                                                             *)
StartDisable(r) ==
    /\ account.status = "ACTIVE"
    /\ IF ~account.mfaEnabled \/ account.secret = None
       THEN AnswerAtOnce(r, "disable", "refused")
       ELSE \/ AnswerAtOnce(r, "disable", "refused")
            \/ Begin(r, "disable", "clear")
    /\ NoWrite

(* ... clears the factor, whatever it is by now.                           *)
Clear(r) ==
    /\ At(r, "clear")
    /\ account' = [account EXCEPT !.mfaEnabled = FALSE, !.secret = None, !.codes = {}]
    /\ Overtake(r, "disable")
    /\ UNCHANGED <<challenges, history>>

-----------------------------------------------------------------------------
(* An administrator suspends the account (see AccountRequests). *)
Suspend ==
    /\ account.status = "ACTIVE"
    /\ account' = [account EXCEPT !.status = "SUSPENDED"]
    /\ UNCHANGED <<now, challenges, requests, history>>

Tick ==
    /\ now < MaxTime
    /\ now' = now + 1
    /\ UNCHANGED <<account, challenges, requests, history>>

Step(r) ==
    \/ StartLogin(r) \/ CheckPassword(r) \/ CountFailure(r) \/ Lock(r) \/ LoadRow(r)
    \/ CreateChallenge(r) \/ Reset(r) \/ StartCallback(r)
    \/ StartPasskey(r) \/ VerifyAssertion(r) \/ GenerateLink(r) \/ VerifyOtp(r)
    \/ RegisterPasskey(r)
    \/ StartSecond(r) \/ UseUp(r) \/ ReadAccount(r) \/ Bump(r) \/ Close(r)
    \/ Consume(r) \/ SpendCode(r) \/ Enter(r)
    \/ Enroll(r) \/ StartVerify(r) \/ Enable(r) \/ StartDisable(r) \/ Clear(r)

Next ==
    \/ \E r \in Requests : Step(r) /\ UNCHANGED now
    \/ Suspend
    \/ Tick

Spec == Init /\ [][Next]_vars

-----------------------------------------------------------------------------
(* Properties. *)

Pcs == {"idle", "done", "sign_in", "count_failure", "lock", "load_row", "challenge", "reset",
        "verify_assertion", "generate_link", "verify_otp", "use_up", "read_account", "bump",
        "close", "consume", "spend_code", "enter", "enable", "clear"}

(* The row, the challenges and the requests keep their types; a challenge  *)
(* never counts more wrong codes than it allows.                           *)
TypeOK ==
    /\ now \in 0 .. MaxTime
    /\ account \in Account
    /\ challenges \in [Challenges -> Challenge \cup {None}]
    /\ \A r \in Requests : requests[r].pc \in Pcs
    /\ history \in History

(* As many wrong passwords as are allowed since the last success lock the  *)
(* account, however many requests fail at once: none of them is lost from  *)
(* the count.  (What a request that counted and died left out, the next    *)
(* wrong password makes up for.)                                           *)
FailuresLock ==
    history.wrong >= MaxFailed =>
        \/ account.lockedUntil # None
        \/ \E r \in Requests : At(r, "lock")

(* A challenge lets somebody in once at most. *)
ChallengeOnce == \A h \in Challenges : history.entered[h] <= 1

(* A backup code lets somebody in once at most, and is not in the row any  *)
(* more when it has.                                                       *)
BackupOnce ==
    \A c \in Codes : /\ history.spent[c] <= 1
                     /\ history.spent[c] = 1 => c \notin account.codes

(* The counter of a passkey never goes back, though sign-ins by it overlap *)
(* and store what they read.                                               *)
CounterNeverBack ==
    [][account.passkey # None /\ account'.passkey # None
         /\ account'.passkey.id = account.passkey.id
            => account'.passkey.counter >= account.passkey.counter]_vars

(* The backup codes a user was shown are the ones of the row, until codes  *)
(* are spent or the factor is enrolled again or disabled: a second verify  *)
(* at the same time does not replace them.                                 *)
ShownCodesAreKept ==
    [][\A r \in Requests :
          requests[r].reply = "enabled" /\ account.codes \subseteq requests[r].proof.codes
             /\ account.mfaEnabled /\ account.mfaEnabled'
             => account.codes' \subseteq requests[r].proof.codes]_vars

(* A factor is on only if a right code for its secret was shown, or if the *)
(* factor was enrolled again or disabled while the code was being checked. *)
EnabledWasProved ==
    account.mfaEnabled =>
        \/ account.secret \in history.proved
        \/ \E r \in Requests : requests[r].reply = "enabled" /\ requests[r].overtaken
=============================================================================
