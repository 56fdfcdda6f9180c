------------------------------- MODULE SignIn --------------------------------
(***************************************************************************)
(* One account signing in: by password, by a link from a mail or by a      *)
(* passkey, then by a second factor when the account has one; and the      *)
(* account's second factor being enrolled, verified and disabled.          *)
(*                                                                         *)
(* A request is a process and takes one step per call of the database or   *)
(* of the authentication service; what it read may be out of date.  A      *)
(* request that never goes on is one whose instance died.  Accounts that   *)
(* are pending, deleted or unlinked are in AccountRequests.                *)
(***************************************************************************)
EXTENDS Naturals, FiniteSets

CONSTANTS Requests,
          Challenges,       \* rows of MfaChallenge there are or may be
          Secrets,          \* secrets of authenticator apps
          CodeSets,         \* sets of backup codes, generated together
          Passkeys,         \* ids of passkey credentials
          None,
          MaxFailed,        \* MAX_FAILED_ATTEMPTS of the login (5)
          LockFor,          \* LOCK_DURATION_MS (15 min)
          MaxAttempts,      \* MAX_ATTEMPTS of a challenge (5)
          ChallengeFor,     \* how long a challenge is good (5 min)
          MaxTime,          \* bounds of the model: the clock,
          MaxCounter,       \* the signature counter of a passkey,
          InitialStates     \* accounts and challenges to begin with

Codes == UNION CodeSets

ASSUME SignInAssumption ==
    /\ MaxFailed \in Nat \ {0} /\ MaxAttempts \in Nat \ {0}
    /\ LockFor \in Nat \ {0} /\ ChallengeFor \in Nat \ {0}
    /\ MaxTime \in Nat /\ MaxCounter \in Nat
    /\ None \notin Challenges \cup Secrets \cup Passkeys \cup Nat
    /\ \A s, t \in CodeSets : s # t => s \cap t = {}

VARIABLES now,
          account,          \* the row of the account
          challenges,       \* table MfaChallenge
          requests,
          history           \* what happened, for the properties only

vars == <<now, account, challenges, requests, history>>

Instants == 0 .. (MaxTime + LockFor + ChallengeFor)

Passkey == [id : Passkeys, counter : 0 .. MaxCounter]

Account ==
    [status : {"ACTIVE", "SUSPENDED"}, failed : Nat, lockedUntil : Instants \cup {None},
     mfaEnabled : BOOLEAN, secret : Secrets \cup {None}, codes : SUBSET Codes,
     passkey : Passkey \cup {None}]

Challenge == [attempts : 0 .. MaxAttempts, consumed : BOOLEAN, expires : Instants]

(* wrong: passwords refused since the counters were last reset; entered:   *)
(* how often each challenge let somebody in; spent: how often each backup  *)
(* code did; proved: secrets a right code was shown for; issued: secrets   *)
(* and code sets that are used up.                                         *)
History ==
    [wrong : Nat, entered : [Challenges -> Nat], spent : [Codes -> Nat],
     proved : SUBSET Secrets, issued : SUBSET (Secrets \cup CodeSets)]

(* The service starts from rows it wrote: an enabled factor has a secret,  *)
(* and a row with too many failures is locked.                             *)
ASSUME InitialStatesAssumption ==
    /\ None \notin Challenge
    /\ \A s \in InitialStates :
          /\ s.account \in Account
          /\ s.challenges \in [Challenges -> Challenge \cup {None}]
          /\ s.account.mfaEnabled => s.account.secret # None
          /\ s.account.failed >= MaxFailed => s.account.lockedUntil # None

(* seen is the account as read; proof what the client sent, or the codes   *)
(* it was shown; overtaken says that the secret was replaced after it was  *)
(* read.                                                                   *)
Idle == [pc |-> "idle", kind |-> None, seen |-> None, challenge |-> None,
         proof |-> None, overtaken |-> FALSE, reply |-> "none"]

Init ==
    /\ now = 0
    /\ \E s \in InitialStates :
          /\ account = s.account /\ challenges = s.challenges
          /\ history = [wrong |-> s.account.failed,
                        entered |-> [h \in Challenges |-> 0],
                        spent |-> [c \in Codes |-> 0],
                        proved |-> IF s.account.mfaEnabled THEN {s.account.secret} ELSE {},
                        issued |-> ({s.account.secret} \ {None}) \cup
                                   {set \in CodeSets : set \cap s.account.codes # {}}]
    /\ requests = [r \in Requests |-> Idle]

-----------------------------------------------------------------------------
At(r, pc) == requests[r].pc = pc

Begin(r, kind, pc) ==
    /\ At(r, "idle")
    /\ requests' = [requests EXCEPT ![r] = [Idle EXCEPT !.kind = kind, !.pc = pc]]

AnswerAtOnce(r, kind, reply) ==
    /\ At(r, "idle")
    /\ requests' = [requests EXCEPT ![r] = [Idle EXCEPT !.kind = kind, !.pc = "done",
                                                        !.reply = reply]]

GoTo(r, pc) == requests' = [requests EXCEPT ![r].pc = pc]

Answer(r, reply) ==
    requests' = [requests EXCEPT ![r] = [Idle EXCEPT !.kind = requests[r].kind, !.pc = "done",
                                                     !.reply = reply]]

NoWrite == UNCHANGED <<account, challenges, history>>

Locked(row) == row.lockedUntil # None /\ row.lockedUntil > now

ResetCounters(row) == [row EXCEPT !.failed = 0, !.lockedUntil = None]

(* The row is written with its counters reset.                             *)
WriteReset ==
    /\ account' = ResetCounters(account)
    /\ history' = [history EXCEPT !.wrong = 0]

-----------------------------------------------------------------------------
(* POST /api/auth/login *)

(* The lock is looked at before the password. *)
StartLogin(r) ==
    /\ IF Locked(account) THEN AnswerAtOnce(r, "password", "locked")
       ELSE /\ At(r, "idle")
            /\ requests' = [requests EXCEPT ![r] = [Idle EXCEPT !.kind = "password", !.pc = "sign_in",
                                                                !.seen = account]]
    /\ NoWrite

(* signInWithPassword of the authentication service. *)
CheckPassword(r) ==
    /\ At(r, "sign_in")
    /\ \/ GoTo(r, "count_failure")
       \/ GoTo(r, "load_row")
    /\ NoWrite

Counted_AsRead(r) == requests[r].seen.failed + 1

(* failedLoginAttempts: {increment: 1}, by the database. *)
Counted(r) == account.failed + 1

CountFailure(r) ==
    /\ At(r, "count_failure")
    /\ account' = [account EXCEPT !.failed = Counted(r)]
    /\ history' = [history EXCEPT !.wrong = @ + 1]
    /\ IF account'.failed >= MaxFailed THEN GoTo(r, "lock") ELSE Answer(r, "refused")
    /\ UNCHANGED challenges

(* The lock is set where there is none, an expired one included. *)
Lock(r) ==
    /\ At(r, "lock")
    /\ account' = IF account.lockedUntil = None
                  THEN [account EXCEPT !.lockedUntil = now + LockFor]
                  ELSE account
    /\ Answer(r, "refused")
    /\ UNCHANGED <<challenges, history>>

LoadRow(r) ==
    /\ At(r, "load_row")
    /\ IF account.status = "SUSPENDED" THEN Answer(r, "suspended")
       ELSE IF account.mfaEnabled THEN GoTo(r, "challenge")
       ELSE GoTo(r, "reset")
    /\ NoWrite

(* Also of the callback and of the passkey: the account has a second factor. *)
CreateChallenge(r) ==
    /\ At(r, "challenge")
    /\ \E h \in Challenges :
          /\ challenges[h] = None
          /\ challenges' = [challenges EXCEPT ![h] =
                 [attempts |-> 0, consumed |-> FALSE, expires |-> now + ChallengeFor]]
    /\ Answer(r, "mfa_required")
    /\ UNCHANGED <<account, history>>

(* Also of the callback, which has no second factor to ask for. *)
Reset(r) ==
    /\ At(r, "reset")
    /\ WriteReset
    /\ Answer(r, "signed_in")
    /\ UNCHANGED challenges

-----------------------------------------------------------------------------
(* GET /api/auth/callback, of an account that was active when it was read. *)
StartCallback(r) ==
    /\ account.status = "ACTIVE"
    /\ IF Locked(account) THEN AnswerAtOnce(r, "link", "locked")
       ELSE Begin(r, "link", IF account.mfaEnabled THEN "challenge" ELSE "reset")
    /\ NoWrite

-----------------------------------------------------------------------------
(* POST /api/auth/passkey/login-verify *)

(* The account of the credential is read; the assertion is right, and its  *)
(* counter is n.                                                           *)
StartPasskey(r) ==
    /\ At(r, "idle") /\ account.passkey # None
    /\ \E n \in 0 .. MaxCounter :
          requests' = [requests EXCEPT ![r] =
              [Idle EXCEPT !.kind = "passkey", !.pc = "verify_assertion", !.seen = account,
                           !.proof = [counter |-> n]]]
    /\ NoWrite

(* The library refuses a counter that does not grow, unless both are 0.    *)
CounterGrows(n, stored) == n > stored \/ (n = 0 /\ stored = 0)

MayStoreCounter_Always(stored, seen) == stored # None

MayStoreCounter(stored, seen) == stored = seen

(* The new counter is stored if the credential is still as it was read;    *)
(* the sign-in goes on in any case.                                        *)
VerifyAssertion(r) ==
    /\ At(r, "verify_assertion")
    /\ LET seen == requests[r].seen
           n    == requests[r].proof.counter
       IN  IF ~CounterGrows(n, seen.passkey.counter) THEN Answer(r, "refused") /\ NoWrite
           ELSE /\ account' = IF MayStoreCounter(account.passkey, seen.passkey)
                              THEN [account EXCEPT !.passkey = [seen.passkey EXCEPT !.counter = n]]
                              ELSE account
                /\ IF seen.status = "SUSPENDED" THEN Answer(r, "suspended")
                                                ELSE GoTo(r, "generate_link")
                /\ UNCHANGED <<challenges, history>>

(* generateLink, which may fail; then the counters are reset, before there *)
(* is a session.                                                           *)
GenerateLink(r) ==
    /\ At(r, "generate_link")
    /\ \/ Answer(r, "error") /\ NoWrite
       \/ WriteReset /\ GoTo(r, "verify_otp") /\ UNCHANGED challenges

(* verifyOtp opens the session, or fails twice. *)
VerifyOtp(r) ==
    /\ At(r, "verify_otp")
    /\ \/ Answer(r, "error")
       \/ IF requests[r].seen.mfaEnabled THEN GoTo(r, "challenge") ELSE Answer(r, "signed_in")
    /\ NoWrite

(* POST /api/auth/passkey/register-verify: the one credential is replaced. *)
RegisterPasskey(r) ==
    /\ account.status = "ACTIVE"
    /\ \E id \in Passkeys :
          /\ account.passkey # None => account.passkey.id # id
          /\ account' = [account EXCEPT !.passkey = [id |-> id, counter |-> 0]]
    /\ AnswerAtOnce(r, "register_passkey", "ok")
    /\ UNCHANGED <<challenges, history>>
=============================================================================
