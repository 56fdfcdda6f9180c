-------------------------- MODULE SecondFactorProofs --------------------------
(***************************************************************************)
(* What the sign-in of an account promises however its requests overlap:   *)
(* a challenge and a backup code are good once, wrong passwords add up to  *)
(* a lock, and a factor that is on was proved.  For any number of          *)
(* requests, challenges, secrets and backup codes.                         *)
(***************************************************************************)
EXTENDS SecondFactor, TLAPS

Kinds ==
    {None, "password", "link", "passkey", "register_passkey", "second", "enroll", "verify",
     "disable"}

Replies ==
    {"none", "locked", "refused", "suspended", "mfa_required", "signed_in", "error", "ok",
     "too_many", "enabled", "already_enabled"}

Counters == [counter : 0 .. MaxCounter]

Request ==
    [pc : Pcs, kind : Kinds, seen : Account \cup {None}, challenge : Challenges \cup {None},
     proof : Proofs \cup Counters \cup [codes : CodeSets] \cup {None},
     overtaken : BOOLEAN, reply : Replies]

(* The steps of a second factor whose challenge was found, and those whose *)
(* code was accepted. *)
Second == {"use_up", "read_account", "bump", "close", "consume", "spend_code", "enter"}

Right == {"consume", "spend_code", "enter"}

RequestOK(q, rows) ==
    /\ q \in Request
    /\ q.pc \in Second => q.challenge \in Challenges /\ rows[q.challenge] # None
    /\ q.pc \in Right => q.proof \in Proofs /\ q.seen \in Account /\ Accepted(q.proof, q.seen)
    /\ q.pc = "verify_assertion" =>
          q.seen \in Account /\ q.seen.passkey # None /\ q.proof \in Counters

TypeInv ==
    /\ now \in 0 .. MaxTime
    /\ account \in Account
    /\ challenges \in [Challenges -> Challenge \cup {None}]
    /\ history \in History
    /\ requests = [r \in Requests |-> requests[r]]
    /\ \A r \in Requests : RequestOK(requests[r], challenges)

-----------------------------------------------------------------------------
(* The rows. *)

LEMMA AccountEdits ==
  ASSUME NEW a \in Account
  PROVE  /\ ResetCounters(a) \in Account
         /\ \A n \in Nat : [a EXCEPT !.failed = n] \in Account
         /\ \A t \in Instants : [a EXCEPT !.lockedUntil = t] \in Account
         /\ \A k \in Passkey : [a EXCEPT !.passkey = k] \in Account
         /\ \A c \in SUBSET Codes : [a EXCEPT !.codes = c] \in Account
BY DEF Account, ResetCounters

LEMMA HistoryEdits ==
  ASSUME NEW h \in History
  PROVE  /\ \A n \in Nat : [h EXCEPT !.wrong = n] \in History
         /\ \A s \in SUBSET Secrets : [h EXCEPT !.proved = s] \in History
         /\ \A s \in SUBSET (Secrets \cup CodeSets) : [h EXCEPT !.issued = s] \in History
BY DEF History

(* A challenge that is there stays there, whatever becomes of it. *)
Kept == \A h \in Challenges : challenges[h] # None => challenges'[h] # None

LEMMA StillOK ==
  ASSUME NEW q, RequestOK(q, challenges), Kept PROVE RequestOK(q, challenges')
BY DEF RequestOK, Kept

LEMMA OneMoves ==
  ASSUME TypeInv, NEW r \in Requests, NEW q, requests' = [requests EXCEPT ![r] = q],
         RequestOK(q, challenges'), Kept
  PROVE  /\ requests' = [x \in Requests |-> requests'[x]]
         /\ \A x \in Requests : RequestOK(requests'[x], challenges')
<1>1. /\ requests' = [x \in Requests |-> requests'[x]]
      /\ \A x \in Requests : requests'[x] = IF x = r THEN q ELSE requests[x]
  BY DEF TypeInv
<1> QED BY <1>1, StillOK DEF TypeInv

(* An idle or a finished request is well-formed. *)
LEMMA FreshOK ==
  ASSUME NEW kind \in Kinds, NEW reply \in Replies, NEW pc \in Pcs \ (Second \cup {"verify_assertion"})
  PROVE  /\ Idle \in Request
         /\ RequestOK([Idle EXCEPT !.kind = kind, !.pc = pc, !.reply = reply], challenges')
         /\ RequestOK([Idle EXCEPT !.kind = kind, !.pc = pc], challenges')
<1>1. Idle \in Request /\ Idle.pc = "idle"
  BY DEF Idle, Request, Kinds, Replies, Pcs
<1>2. ASSUME NEW q \in Request, q.pc = pc PROVE RequestOK(q, challenges')
  BY <1>2 DEF RequestOK, Second, Right
<1>3. /\ [Idle EXCEPT !.kind = kind, !.pc = pc, !.reply = reply] \in Request
      /\ [Idle EXCEPT !.kind = kind, !.pc = pc, !.reply = reply].pc = pc
      /\ [Idle EXCEPT !.kind = kind, !.pc = pc] \in Request
      /\ [Idle EXCEPT !.kind = kind, !.pc = pc].pc = pc
  BY <1>1 DEF Request
<1> QED BY <1>1, <1>2, <1>3

(* Answering, beginning and going on keep the requests well-formed. *)
RequestsOK ==
    /\ requests' = [x \in Requests |-> requests'[x]]
    /\ \A x \in Requests : RequestOK(requests'[x], challenges')

LEMMA AnswerOK ==
  ASSUME TypeInv, NEW r \in Requests, NEW reply \in Replies, Answer(r, reply), Kept
  PROVE  RequestsOK
<1>1. requests[r].kind \in Kinds
  BY DEF TypeInv, RequestOK, Request
<1>2. "done" \in Pcs \ (Second \cup {"verify_assertion"})
  BY DEF Pcs, Second
<1> QED BY <1>1, <1>2, FreshOK, OneMoves DEF Answer, RequestsOK

LEMMA AnswerAtOnceOK ==
  ASSUME TypeInv, NEW r \in Requests, NEW kind \in Kinds, NEW reply \in Replies,
         AnswerAtOnce(r, kind, reply), Kept
  PROVE  RequestsOK
<1>1. "done" \in Pcs \ (Second \cup {"verify_assertion"})
  BY DEF Pcs, Second
<1> QED BY <1>1, FreshOK, OneMoves DEF AnswerAtOnce, RequestsOK

LEMMA BeginOK ==
  ASSUME TypeInv, NEW r \in Requests, NEW kind \in Kinds,
         NEW pc \in Pcs \ (Second \cup {"verify_assertion"}), Begin(r, kind, pc), Kept
  PROVE  RequestsOK
<1>1. "none" \in Replies
  BY DEF Replies
<1> QED BY <1>1, FreshOK, OneMoves DEF Begin, RequestsOK

LEMMA GoToOK ==
  ASSUME TypeInv, NEW r \in Requests, NEW pc \in Pcs, GoTo(r, pc), Kept,
         \/ pc \notin Second \cup {"verify_assertion"}
         \/ pc \in Right /\ requests[r].pc \in Right
         \/ pc \in Second \ Right /\ requests[r].pc \in Second
  PROVE  RequestsOK
<1> DEFINE q == [requests[r] EXCEPT !.pc = pc]
<1>1. requests' = [requests EXCEPT ![r] = q]
  BY DEF GoTo
<1>2. RequestOK(requests[r], challenges')
  BY StillOK DEF TypeInv
<1>3. /\ q \in Request /\ q.pc = pc
      /\ q.challenge = requests[r].challenge /\ q.proof = requests[r].proof
      /\ q.seen = requests[r].seen
  BY <1>2 DEF RequestOK, Request
<1>4. RequestOK(q, challenges')
  <2> HIDE DEF q
  <2> QED BY <1>2, <1>3 DEF RequestOK, Second, Right
<1> QED BY <1>1, <1>4, OneMoves DEF RequestsOK

-----------------------------------------------------------------------------
(* What the steps of a request do to the rows. *)

RowsOK ==
    /\ account' \in Account
    /\ challenges' \in [Challenges -> Challenge \cup {None}]
    /\ history' \in History
    /\ Kept

StepOK == RowsOK /\ RequestsOK

LEMMA NoWriteOK ==
  ASSUME TypeInv, UNCHANGED <<account, challenges, history>> PROVE RowsOK
BY DEF TypeInv, RowsOK, Kept

LEMMA Time ==
  ASSUME TypeInv PROVE now + LockFor \in Instants /\ now + ChallengeFor \in Instants
BY SignInAssumption DEF TypeInv, Instants

LEMMA LoginOK ==
  ASSUME TypeInv, NEW r \in Requests,
         \/ StartLogin(r) \/ CheckPassword(r) \/ CountFailure(r) \/ Lock(r) \/ LoadRow(r)
         \/ CreateChallenge(r) \/ Reset(r) \/ StartCallback(r)
  PROVE  StepOK
<1> USE DEF StepOK
<1>1. CASE StartLogin(r)
  <2>1. RowsOK
    BY <1>1, NoWriteOK DEF StartLogin, NoWrite
  <2>2. CASE Locked(account)
    BY <1>1, <2>1, <2>2, AnswerAtOnceOK DEF StartLogin, RowsOK, Kinds, Replies
  <2>3. CASE ~Locked(account)
    <3> DEFINE q == [Idle EXCEPT !.kind = "password", !.pc = "sign_in", !.seen = account]
    <3>1. requests' = [requests EXCEPT ![r] = q]
      BY <1>1, <2>3 DEF StartLogin
    <3>2. q \in Request /\ q.pc = "sign_in"
      BY DEF TypeInv, Idle, Request, Kinds, Replies, Pcs
    <3>3. RequestOK(q, challenges')
      BY <3>2 DEF RequestOK, Second, Right
    <3> QED BY <2>1, <3>1, <3>3, OneMoves DEF RowsOK, RequestsOK
  <2> QED BY <2>2, <2>3
<1>2. CASE CheckPassword(r)
  BY <1>2, NoWriteOK, GoToOK DEF CheckPassword, NoWrite, RowsOK, Pcs, Second
<1>3. CASE CountFailure(r)
  <2>1. account' \in Account /\ history' \in History
    <3>1. account.failed + 1 \in Nat /\ history.wrong + 1 \in Nat
      BY DEF TypeInv, Account, History
    <3>2. /\ account' = [account EXCEPT !.failed = account.failed + 1]
          /\ history' = [history EXCEPT !.wrong = history.wrong + 1]
      BY <1>3 DEF CountFailure, Counted
    <3> QED BY <3>1, <3>2, AccountEdits, HistoryEdits DEF TypeInv
  <2>2. RowsOK
    BY <1>3, <2>1 DEF CountFailure, RowsOK, TypeInv, Kept
  <2> QED BY <1>3, <2>2, GoToOK, AnswerOK DEF CountFailure, RowsOK, Pcs, Second, Replies
<1>4. CASE Lock(r)
  <2>1. account' \in Account
    BY <1>4, AccountEdits, Time DEF Lock, TypeInv
  <2>2. RowsOK
    BY <1>4, <2>1 DEF Lock, RowsOK, TypeInv, Kept
  <2> QED BY <1>4, <2>2, AnswerOK DEF Lock, RowsOK, Replies
<1>5. CASE LoadRow(r)
  BY <1>5, NoWriteOK, GoToOK, AnswerOK DEF LoadRow, NoWrite, RowsOK, Pcs, Second, Replies
<1>6. CASE CreateChallenge(r)
  <2>1. PICK h \in Challenges :
           /\ challenges[h] = None
           /\ challenges' = [challenges EXCEPT ![h] =
                  [attempts |-> 0, consumed |-> FALSE, expires |-> now + ChallengeFor]]
    BY <1>6 DEF CreateChallenge
  <2>2. [attempts |-> 0, consumed |-> FALSE, expires |-> now + ChallengeFor] \in Challenge
    BY Time, SignInAssumption DEF Challenge
  <2>3. RowsOK
    BY <1>6, <2>1, <2>2, InitialStatesAssumption DEF CreateChallenge, RowsOK, TypeInv, Kept
  <2> QED BY <1>6, <2>3, AnswerOK DEF CreateChallenge, RowsOK, Replies
<1>7. CASE Reset(r)
  <2>1. account' \in Account /\ history' \in History
    BY <1>7, AccountEdits, HistoryEdits DEF Reset, WriteReset, TypeInv
  <2>2. RowsOK
    BY <1>7, <2>1 DEF Reset, RowsOK, TypeInv, Kept
  <2> QED BY <1>7, <2>2, AnswerOK DEF Reset, RowsOK, Replies
<1>8. CASE StartCallback(r)
  BY <1>8, NoWriteOK, AnswerAtOnceOK, BeginOK
     DEF StartCallback, NoWrite, RowsOK, Kinds, Replies, Pcs, Second
<1> QED BY <1>1, <1>2, <1>3, <1>4, <1>5, <1>6, <1>7, <1>8

LEMMA PasskeyOK ==
  ASSUME TypeInv, NEW r \in Requests,
         \/ StartPasskey(r) \/ VerifyAssertion(r) \/ GenerateLink(r) \/ VerifyOtp(r)
         \/ RegisterPasskey(r)
  PROVE  StepOK
<1> USE DEF StepOK
<1>1. CASE StartPasskey(r)
  <2>1. RowsOK
    BY <1>1, NoWriteOK DEF StartPasskey, NoWrite
  <2>2. PICK n \in 0 .. MaxCounter :
           requests' = [requests EXCEPT ![r] =
               [Idle EXCEPT !.kind = "passkey", !.pc = "verify_assertion", !.seen = account,
                            !.proof = [counter |-> n]]]
    BY <1>1 DEF StartPasskey
  <2> DEFINE q == [Idle EXCEPT !.kind = "passkey", !.pc = "verify_assertion", !.seen = account,
                               !.proof = [counter |-> n]]
  <2>3. [counter |-> n] \in Counters
    BY DEF Counters
  <2>4. /\ q \in Request /\ q.pc = "verify_assertion" /\ q.seen = account
        /\ q.proof = [counter |-> n]
    BY <2>3 DEF TypeInv, Idle, Request, Kinds, Replies, Pcs
  <2>5. RequestOK(q, challenges')
    <3> HIDE DEF q
    <3> QED BY <1>1, <2>3, <2>4 DEF RequestOK, Second, Right, StartPasskey, TypeInv
  <2> QED BY <2>1, <2>2, <2>5, OneMoves DEF RowsOK, RequestsOK
<1>2. CASE VerifyAssertion(r)
  <2> DEFINE seen == requests[r].seen
             n    == requests[r].proof.counter
  <2>1. seen \in Account /\ seen.passkey # None /\ n \in 0 .. MaxCounter
    BY <1>2 DEF VerifyAssertion, At, TypeInv, RequestOK, Counters
  <2>2. [seen.passkey EXCEPT !.counter = n] \in Passkey
    BY <2>1 DEF Account, Passkey
  <2>3. account' \in Account /\ UNCHANGED <<challenges, history>>
    <3>1. \/ account' = account
          \/ account' = [account EXCEPT !.passkey = [seen.passkey EXCEPT !.counter = n]]
      BY <1>2 DEF VerifyAssertion, NoWrite
    <3>2. UNCHANGED <<challenges, history>>
      BY <1>2 DEF VerifyAssertion, NoWrite
    <3> QED BY <2>2, <3>1, <3>2, AccountEdits DEF TypeInv
  <2>4. RowsOK
    BY <2>3 DEF RowsOK, TypeInv, Kept
  <2>5. Answer(r, "refused") \/ Answer(r, "suspended") \/ GoTo(r, "generate_link")
    BY <1>2 DEF VerifyAssertion
  <2> QED BY <2>4, <2>5, AnswerOK, GoToOK DEF RowsOK, Replies, Pcs, Second
<1>3. CASE GenerateLink(r)
  <2>1. account' \in Account /\ history' \in History
    BY <1>3, AccountEdits, HistoryEdits DEF GenerateLink, NoWrite, WriteReset, TypeInv
  <2>2. RowsOK
    BY <1>3, <2>1 DEF GenerateLink, NoWrite, RowsOK, TypeInv, Kept
  <2> QED BY <1>3, <2>2, AnswerOK, GoToOK DEF GenerateLink, RowsOK, Replies, Pcs, Second
<1>4. CASE VerifyOtp(r)
  BY <1>4, NoWriteOK, GoToOK, AnswerOK DEF VerifyOtp, NoWrite, RowsOK, Pcs, Second, Replies
<1>5. CASE RegisterPasskey(r)
  <2>1. PICK id \in Passkeys : account' = [account EXCEPT !.passkey = [id |-> id, counter |-> 0]]
    BY <1>5 DEF RegisterPasskey
  <2>2. [id |-> id, counter |-> 0] \in Passkey
    BY SignInAssumption DEF Passkey
  <2>3. RowsOK
    BY <1>5, <2>1, <2>2, AccountEdits DEF RegisterPasskey, RowsOK, TypeInv, Kept
  <2> QED BY <1>5, <2>3, AnswerAtOnceOK DEF RegisterPasskey, RowsOK, Replies, Kinds
<1> QED BY <1>1, <1>2, <1>3, <1>4, <1>5

(* A challenge that is there is edited and stays one. *)
LEMMA ChallengeEdits ==
  ASSUME TypeInv, NEW h \in Challenges, challenges[h] # None,
         NEW c \in Challenge, challenges' = [challenges EXCEPT ![h] = c]
  PROVE  challenges' \in [Challenges -> Challenge \cup {None}] /\ Kept
BY InitialStatesAssumption DEF TypeInv, Kept

LEMMA SecondOK ==
  ASSUME TypeInv, NEW r \in Requests,
         \/ StartSecond(r) \/ UseUp(r) \/ ReadAccount(r) \/ Bump(r) \/ Close(r)
         \/ Consume(r) \/ SpendCode(r) \/ Enter(r)
  PROVE  StepOK
<1> USE DEF StepOK
<1> DEFINE h == requests[r].challenge
<1>0. ASSUME requests[r].pc \in Second
      PROVE  h \in Challenges /\ challenges[h] # None /\ challenges[h] \in Challenge
  BY <1>0 DEF TypeInv, RequestOK
<1>1. CASE StartSecond(r)
  <2>1. RowsOK
    BY <1>1, NoWriteOK DEF StartSecond, NoWrite
  <2>2. PICK g \in Challenges :
           /\ challenges[g] # None
           /\ IF ~Open(g) \/ challenges[g].expires < now
              THEN AnswerAtOnce(r, "second", "refused")
              ELSE requests' = [requests EXCEPT ![r] =
                      [Idle EXCEPT !.kind = "second", !.challenge = g,
                                   !.pc = IF challenges[g].attempts >= MaxAttempts
                                          THEN "use_up" ELSE "read_account"]]
    BY <1>1 DEF StartSecond
  <2>3. CASE AnswerAtOnce(r, "second", "refused")
    BY <2>1, <2>3, AnswerAtOnceOK DEF RowsOK, Kinds, Replies
  <2>4. ASSUME NEW pc \in {"use_up", "read_account"},
               requests' = [requests EXCEPT ![r] =
                   [Idle EXCEPT !.kind = "second", !.challenge = g, !.pc = pc]]
        PROVE  StepOK
    <3> DEFINE q == [Idle EXCEPT !.kind = "second", !.challenge = g, !.pc = pc]
    <3>1. q \in Request /\ q.pc = pc /\ q.challenge = g
      BY DEF TypeInv, Idle, Request, Kinds, Replies, Pcs
    <3>2. RequestOK(q, challenges')
      <4> HIDE DEF q
      <4> QED BY <2>1, <2>2, <3>1 DEF RequestOK, Second, Right, RowsOK, Kept
    <3> QED BY <2>1, <2>4, <3>2, OneMoves DEF RowsOK, RequestsOK
  <2> QED BY <2>2, <2>3, <2>4
<1>2. CASE UseUp(r)
  <2>1. h \in Challenges /\ challenges[h] # None /\ challenges[h] \in Challenge
    BY <1>0, <1>2 DEF UseUp, At, Second
  <2>2. challenges' = [challenges EXCEPT ![h] = [challenges[h] EXCEPT !.consumed = TRUE]]
    BY <1>2 DEF UseUp
  <2>3. [challenges[h] EXCEPT !.consumed = TRUE] \in Challenge
    BY <2>1 DEF Challenge
  <2>4. RowsOK
    BY <1>2, <2>1, <2>2, <2>3, ChallengeEdits DEF UseUp, RowsOK, TypeInv
  <2> QED BY <1>2, <2>4, AnswerOK DEF UseUp, RowsOK, Replies
<1>3. CASE ReadAccount(r)
  <2>0. RowsOK
    BY <1>3, NoWriteOK DEF ReadAccount, NoWrite
  <2>1. CASE Answer(r, "refused")
    BY <2>0, <2>1, AnswerOK DEF RowsOK, Replies
  <2>2. ASSUME NEW proof \in Proofs, NEW pc \in {"consume", "bump"},
               pc = "consume" => Accepted(proof, account),
               requests' = [requests EXCEPT ![r].seen = account, ![r].proof = proof,
                                            ![r].pc = pc]
        PROVE  StepOK
    <3> DEFINE q == [requests[r] EXCEPT !.seen = account, !.proof = proof, !.pc = pc]
    <3>1. requests' = [requests EXCEPT ![r] = q]
      BY <2>2 DEF TypeInv
    <3>2. RequestOK(requests[r], challenges') /\ requests[r].pc \in Second
      BY <1>3, <2>0, StillOK DEF TypeInv, RowsOK, ReadAccount, At, Second
    <3>3. /\ q \in Request /\ q.pc = pc /\ q.proof = proof /\ q.seen = account
          /\ q.challenge = requests[r].challenge
      BY <3>2 DEF RequestOK, Request, Pcs, TypeInv
    <3>4. RequestOK(q, challenges')
      <4> HIDE DEF q
      <4> QED BY <2>2, <3>2, <3>3 DEF RequestOK, Second, Right, TypeInv
    <3> QED BY <2>0, <3>1, <3>4, OneMoves DEF RowsOK, RequestsOK
  <2> QED BY <1>3, <2>1, <2>2 DEF ReadAccount
<1>4. CASE Bump(r)
  <2>1. h \in Challenges /\ challenges[h] # None /\ challenges[h] \in Challenge
    BY <1>0, <1>4 DEF Bump, At, Second
  <2>2. CASE MayCount(h)
    <3>1. challenges' = [challenges EXCEPT ![h] =
              [challenges[h] EXCEPT !.attempts = challenges[h].attempts + 1]]
      BY <1>4, <2>2 DEF Bump
    <3>2. [challenges[h] EXCEPT !.attempts = challenges[h].attempts + 1] \in Challenge
      BY <2>1, <2>2, SignInAssumption DEF Challenge, MayCount
    <3>3. RowsOK
      BY <1>4, <2>1, <3>1, <3>2, ChallengeEdits DEF Bump, RowsOK, TypeInv
    <3> QED BY <1>4, <2>2, <3>3, GoToOK DEF Bump, At, RowsOK, Pcs, Second, Right
  <2>3. CASE ~MayCount(h)
    <3>1. RowsOK
      BY <1>4, <2>3, NoWriteOK DEF Bump
    <3> QED BY <1>4, <2>3, <3>1, AnswerOK DEF Bump, RowsOK, Replies
  <2> QED BY <2>2, <2>3
<1>5. CASE Close(r)
  <2>1. h \in Challenges /\ challenges[h] # None /\ challenges[h] \in Challenge
    BY <1>0, <1>5 DEF Close, At, Second
  <2>2. \/ challenges' = challenges
        \/ challenges' = [challenges EXCEPT ![h] = [challenges[h] EXCEPT !.consumed = TRUE]]
    BY <1>5 DEF Close
  <2>3. [challenges[h] EXCEPT !.consumed = TRUE] \in Challenge
    BY <2>1 DEF Challenge
  <2>4. RowsOK
    BY <1>5, <2>1, <2>2, <2>3, ChallengeEdits, NoWriteOK DEF Close, RowsOK, TypeInv
  <2> QED BY <1>5, <2>4, AnswerOK DEF Close, RowsOK, Replies
<1>6. CASE Consume(r)
  <2>1. h \in Challenges /\ challenges[h] # None /\ challenges[h] \in Challenge
    BY <1>0, <1>6 DEF Consume, At, Second
  <2>2. CASE MayConsume(h)
    <3>1. challenges' = [challenges EXCEPT ![h] = [challenges[h] EXCEPT !.consumed = TRUE]]
      BY <1>6, <2>2 DEF Consume
    <3>2. [challenges[h] EXCEPT !.consumed = TRUE] \in Challenge
      BY <2>1 DEF Challenge
    <3>3. RowsOK
      BY <1>6, <2>1, <3>1, <3>2, ChallengeEdits DEF Consume, RowsOK, TypeInv
    <3> QED BY <1>6, <2>2, <3>3, GoToOK DEF Consume, At, RowsOK, Pcs, Right
  <2>3. CASE ~MayConsume(h)
    <3>1. RowsOK
      BY <1>6, <2>3, NoWriteOK DEF Consume
    <3> QED BY <1>6, <2>3, <3>1, AnswerOK DEF Consume, RowsOK, Replies
  <2> QED BY <2>2, <2>3
<1>7. CASE SpendCode(r)
  <2>1. requests[r].seen \in Account
    BY <1>7 DEF SpendCode, At, TypeInv, RequestOK, Right
  <2>2. requests[r].seen.codes \ {requests[r].proof.code} \in SUBSET Codes
    BY <2>1 DEF Account
  <2>3. account' \in Account
    BY <1>7, <2>2, AccountEdits DEF SpendCode, TypeInv
  <2>4. RowsOK
    BY <1>7, <2>3 DEF SpendCode, RowsOK, TypeInv, Kept
  <2> QED BY <1>7, <2>4, AnswerOK, GoToOK DEF SpendCode, At, RowsOK, Replies, Pcs, Right
<1>8. CASE Enter(r)
  <2>1. h \in Challenges
    BY <1>0, <1>8 DEF Enter, At, Second
  <2>2. SpentBy(requests[r].proof) \in [Codes -> Nat]
    BY DEF SpentBy, TypeInv, History
  <2>3. account' \in Account
    BY <1>8, AccountEdits DEF Enter, TypeInv
  <2>4. history' \in History
    <3> DEFINE spent   == SpentBy(requests[r].proof)
               entered == [history.entered EXCEPT ![h] = @ + 1]
    <3>1. entered \in [Challenges -> Nat]
      BY <2>1 DEF TypeInv, History
    <3>2. history' = [history EXCEPT !.wrong = 0, !.entered = entered, !.spent = spent]
      <4> HIDE DEF spent
      <4> QED BY <1>8 DEF Enter, TypeInv, History, spent
    <3> HIDE DEF entered, spent
    <3> QED BY <2>2, <3>1, <3>2 DEF TypeInv, History, spent
  <2>5. RowsOK
    BY <1>8, <2>3, <2>4 DEF Enter, RowsOK, TypeInv, Kept
  <2> QED BY <1>8, <2>5, AnswerOK DEF Enter, RowsOK, Replies
<1> QED BY <1>1, <1>2, <1>3, <1>4, <1>5, <1>6, <1>7, <1>8

-----------------------------------------------------------------------------
LEMMA OvertakeOK ==
  ASSUME TypeInv, NEW r \in Requests, NEW kind \in Kinds, Overtake(r, kind), Kept
  PROVE  RequestsOK
<1>1. requests' = [x \in Requests |-> requests'[x]]
  BY DEF Overtake
<1>2. RequestOK(requests'[r], challenges')
  <2>1. "done" \in Pcs \ (Second \cup {"verify_assertion"}) /\ "ok" \in Replies
    BY DEF Pcs, Second, Replies
  <2>2. requests'[r] = [Idle EXCEPT !.kind = kind, !.pc = "done", !.reply = "ok"]
    BY DEF Overtake, Idle
  <2>3. RequestOK([Idle EXCEPT !.kind = kind, !.pc = "done", !.reply = "ok"], challenges')
    BY <2>1, FreshOK
  <2> QED BY <2>2, <2>3
<1>3. ASSUME NEW x \in Requests, x # r PROVE RequestOK(requests'[x], challenges')
  <2> DEFINE late == requests[x].overtaken \/ At(x, "enable")
             q == [requests[x] EXCEPT !.overtaken = late]
  <2>1. requests'[x] = q
    BY <1>3 DEF Overtake
  <2>2. RequestOK(requests[x], challenges') /\ late \in BOOLEAN
    BY StillOK DEF TypeInv, At
  <2> HIDE DEF late
  <2>3. /\ q \in Request /\ q.pc = requests[x].pc /\ q.challenge = requests[x].challenge
        /\ q.proof = requests[x].proof /\ q.seen = requests[x].seen
    BY <2>2 DEF RequestOK, Request
  <2> HIDE DEF q
  <2> QED BY <2>1, <2>2, <2>3 DEF RequestOK
<1> QED BY <1>1, <1>2, <1>3 DEF RequestsOK

LEMMA FactorOK ==
  ASSUME TypeInv, NEW r \in Requests,
         Enroll(r) \/ StartVerify(r) \/ Enable(r) \/ StartDisable(r) \/ Clear(r)
  PROVE  StepOK
<1> USE DEF StepOK
<1>1. CASE Enroll(r)
  <2>1. PICK s \in Secrets \ history.issued :
           /\ account' = Enrolled(s)
           /\ history' = [history EXCEPT !.issued = @ \cup {s}]
    BY <1>1 DEF Enroll
  <2>2. Enrolled(s) \in Account
    BY DEF Enrolled, Account, TypeInv
  <2>3. history' \in History
    BY <2>1 DEF TypeInv, History
  <2>4. RowsOK
    BY <1>1, <2>1, <2>2, <2>3 DEF Enroll, RowsOK, TypeInv, Kept
  <2> QED BY <1>1, <2>4, OvertakeOK DEF Enroll, RowsOK, Kinds
<1>2. CASE StartVerify(r)
  <2>1. history' \in History
    BY <1>2 DEF StartVerify, TypeInv, History, Account
  <2>2. RowsOK
    BY <1>2, <2>1 DEF StartVerify, RowsOK, TypeInv, Kept
  <2> QED BY <1>2, <2>2, AnswerAtOnceOK, BeginOK
          DEF StartVerify, RowsOK, Kinds, Replies, Pcs, Second
<1>3. CASE Enable(r)
  <2>1. CASE MayEnable(account)
    <3>1. PICK set \in CodeSets \ history.issued :
             /\ account' = [account EXCEPT !.mfaEnabled = TRUE, !.codes = set]
             /\ history' = [history EXCEPT !.issued = @ \cup {set}]
             /\ requests' = [requests EXCEPT ![r] =
                   [Idle EXCEPT !.kind = "verify", !.pc = "done", !.reply = "enabled",
                                !.proof = [codes |-> set],
                                !.overtaken = requests[r].overtaken]]
      BY <1>3, <2>1 DEF Enable
    <3>2. set \in SUBSET Codes
      BY DEF Codes
    <3>3. account' \in Account /\ history' \in History
      BY <3>1, <3>2 DEF TypeInv, Account, History
    <3>4. RowsOK
      BY <1>3, <3>3 DEF Enable, RowsOK, TypeInv, Kept
    <3> DEFINE q == [Idle EXCEPT !.kind = "verify", !.pc = "done", !.reply = "enabled",
                                 !.proof = [codes |-> set],
                                 !.overtaken = requests[r].overtaken]
    <3>5. q \in Request /\ q.pc = "done"
      <4>1. requests[r].overtaken \in BOOLEAN
        BY DEF TypeInv, RequestOK, Request
      <4> QED BY <4>1 DEF Idle, Request, Kinds, Replies, Pcs
    <3>6. RequestOK(q, challenges')
      <4> HIDE DEF q
      <4> QED BY <3>5 DEF RequestOK, Second, Right
    <3> QED BY <3>1, <3>4, <3>6, OneMoves DEF RowsOK, RequestsOK
  <2>2. CASE ~MayEnable(account)
    <3>1. RowsOK
      BY <1>3, <2>2, NoWriteOK DEF Enable
    <3> QED BY <1>3, <2>2, <3>1, AnswerOK DEF Enable, RowsOK, Replies
  <2> QED BY <2>1, <2>2
<1>4. CASE StartDisable(r)
  BY <1>4, NoWriteOK, AnswerAtOnceOK, BeginOK
     DEF StartDisable, NoWrite, RowsOK, Kinds, Replies, Pcs, Second
<1>5. CASE Clear(r)
  <2>1. account' \in Account
    BY <1>5 DEF Clear, TypeInv, Account
  <2>2. RowsOK
    BY <1>5, <2>1 DEF Clear, RowsOK, TypeInv, Kept
  <2> QED BY <1>5, <2>2, OvertakeOK DEF Clear, RowsOK, Kinds
<1> QED BY <1>1, <1>2, <1>3, <1>4, <1>5

LEMMA TypeInit == Init => TypeInv
<1> SUFFICES ASSUME Init PROVE TypeInv
  OBVIOUS
<1>1. PICK s \in InitialStates :
         /\ account = s.account /\ challenges = s.challenges
         /\ history = [wrong |-> s.account.failed,
                       entered |-> [h \in Challenges |-> 0],
                       spent |-> [c \in Codes |-> 0],
                       proved |-> IF s.account.mfaEnabled THEN {s.account.secret} ELSE {},
                       issued |-> ({s.account.secret} \ {None}) \cup
                                  {set \in CodeSets : set \cap s.account.codes # {}}]
  BY DEF Init
<1>2. account \in Account /\ challenges \in [Challenges -> Challenge \cup {None}]
  BY <1>1, InitialStatesAssumption
<1>3. history \in History
  <2>1. /\ account.failed \in Nat /\ account.secret \in Secrets \cup {None}
        /\ account.mfaEnabled => account.secret # None
    BY <1>1, <1>2, InitialStatesAssumption DEF Account
  <2> QED BY <1>1, <2>1 DEF History
<1>4. /\ requests = [r \in Requests |-> requests[r]]
      /\ \A r \in Requests : requests[r] = Idle
  BY DEF Init
<1>5. RequestOK(Idle, challenges)
  <2>1. Idle \in Request /\ Idle.pc = "idle"
    BY DEF Idle, Request, Kinds, Replies, Pcs
  <2> QED BY <2>1 DEF RequestOK, Second, Right
<1> QED BY <1>2, <1>3, <1>4, <1>5, SignInAssumption DEF TypeInv, Init

LEMMA RequestStep ==
  ASSUME TypeInv, NEW r \in Requests, Step(r) PROVE StepOK
BY LoginOK, PasskeyOK, SecondOK, FactorOK DEF Step

LEMMA TypeStep == TypeInv /\ [Next]_vars => TypeInv'
<1> SUFFICES ASSUME TypeInv, [Next]_vars PROVE TypeInv'
  OBVIOUS
<1>1. ASSUME NEW r \in Requests, Step(r), UNCHANGED now PROVE TypeInv'
  BY <1>1, RequestStep DEF StepOK, RowsOK, RequestsOK, TypeInv
<1>2. CASE Suspend
  BY <1>2 DEF Suspend, TypeInv, Account
<1>3. CASE Tick
  BY <1>3, SignInAssumption DEF Tick, TypeInv
<1>4. CASE UNCHANGED vars
  BY <1>4 DEF vars, TypeInv
<1> QED BY <1>1, <1>2, <1>3, <1>4 DEF Next

(* The rows, the challenges and the requests keep their types, through     *)
(* every overlap of the requests; a challenge that was created is never    *)
(* missed by a request that found it.                                      *)
THEOREM TypeCorrect == Spec => []TypeOK
<1>1. TypeInv => TypeOK
  BY DEF TypeInv, TypeOK, RequestOK, Request
<1> QED BY <1>1, TypeInit, TypeStep, PTL DEF Spec

-----------------------------------------------------------------------------
(***************************************************************************)
(* The safety of SecondFactor: a challenge and a backup code let somebody  *)
(* in once, wrong passwords add up to a lock, and a factor that is on was  *)
(* proved.  Four invariants, each disturbed by a few of the steps; the     *)
(* first lemmas say what the other steps leave alone.                      *)
(***************************************************************************)

(* Somebody is about to be let in by the challenge of the request. *)
Passed == {"spend_code", "enter"}

LockInv ==
    /\ history.wrong <= account.failed
    /\ account.failed >= MaxFailed =>
          \/ account.lockedUntil # None
          \/ \E r \in Requests : At(r, "lock")

EnterInv ==
    /\ \A h \in Challenges :
          \/ history.entered[h] = 0
          \/ history.entered[h] = 1 /\ challenges[h] # None /\ challenges[h].consumed
    /\ \A r \in Requests :
          LET h == requests[r].challenge
          IN  requests[r].pc \in Passed =>
                  challenges[h] # None /\ challenges[h].consumed /\ history.entered[h] = 0
    /\ \A r, q \in Requests :
          requests[r].pc \in Passed /\ requests[q].pc \in Passed
             /\ requests[r].challenge = requests[q].challenge => r = q

(* The request has spent the code, and has not entered by it yet. *)
Spends(r, c) ==
    At(r, "enter") /\ ByBackup(requests[r].proof) /\ requests[r].proof.code = c

(* A code that is in the row or was spent comes from codes that were       *)
(* generated, so that none is generated twice.                             *)
BackupInv ==
    \A c \in Codes :
        /\ history.spent[c] \in {0, 1}
        /\ history.spent[c] = 1 \/ (\E r \in Requests : Spends(r, c)) => c \notin account.codes
        /\ \A r \in Requests : Spends(r, c) => history.spent[c] = 0
        /\ \A r, q \in Requests : Spends(r, c) /\ Spends(q, c) => r = q
        /\ history.spent[c] = 1 \/ c \in account.codes \/ (\E r \in Requests : Spends(r, c))
              => \E set \in CodeSets \cap history.issued : c \in set

FactorInv ==
    /\ EnabledWasProved
    /\ \A r \in Requests :
          /\ At(r, "enable") => requests[r].overtaken \/ account.secret \in history.proved
          /\ requests[r].reply = "enabled" => At(r, "done")

-----------------------------------------------------------------------------
(* What a step of the request r leaves alone. *)

OthersSame(r) ==
    \A x \in Requests \ {r} :
        /\ requests'[x].pc = requests[x].pc
        /\ requests'[x].challenge = requests[x].challenge
        /\ requests'[x].proof = requests[x].proof
        /\ requests'[x].reply = requests[x].reply
        /\ requests[x].overtaken => requests'[x].overtaken

LockSame(r) ==
    /\ account'.failed = account.failed /\ account'.lockedUntil = account.lockedUntil
    /\ history'.wrong = history.wrong
    /\ ~ At(r, "lock")

EnterSame(r) ==
    /\ history'.entered = history.entered
    /\ \A h \in Challenges :
          challenges[h] # None /\ challenges[h].consumed
             => challenges'[h] # None /\ challenges'[h].consumed
    /\ requests'[r].pc \notin Passed

CodesSame(r) ==
    /\ account'.codes = account.codes
    /\ history'.spent = history.spent /\ history'.issued = history.issued
    /\ requests'[r].pc # "enter"

FactorSame(r) ==
    /\ account'.mfaEnabled = account.mfaEnabled /\ account'.secret = account.secret
    /\ history'.proved = history.proved
    /\ requests'[r].pc # "enable"
    /\ requests[r].pc # "done"
    /\ requests'[r].reply # "enabled"

(* One request moves. *)
LEMMA Moves ==
  ASSUME TypeInv, NEW r \in Requests, NEW q, requests' = [requests EXCEPT ![r] = q]
  PROVE  OthersSame(r) /\ requests'[r] = q
BY DEF TypeInv, OthersSame

LEMMA Answering ==
  ASSUME TypeInv, NEW r \in Requests, NEW reply, Answer(r, reply)
  PROVE  OthersSame(r) /\ requests'[r].pc = "done" /\ requests'[r].reply = reply
<1> DEFINE q == [Idle EXCEPT !.kind = requests[r].kind, !.pc = "done", !.reply = reply]
<1>1. q.pc = "done" /\ q.reply = reply
  BY DEF Idle
<1>2. requests' = [requests EXCEPT ![r] = q]
  BY DEF Answer
<1> QED BY <1>1, <1>2, Moves

LEMMA AnsweringAtOnce ==
  ASSUME TypeInv, NEW r \in Requests, NEW kind, NEW reply, AnswerAtOnce(r, kind, reply)
  PROVE  /\ OthersSame(r) /\ At(r, "idle")
         /\ requests'[r].pc = "done" /\ requests'[r].reply = reply
<1> DEFINE q == [Idle EXCEPT !.kind = kind, !.pc = "done", !.reply = reply]
<1>1. q.pc = "done" /\ q.reply = reply
  BY DEF Idle
<1>2. requests' = [requests EXCEPT ![r] = q] /\ At(r, "idle")
  BY DEF AnswerAtOnce
<1> QED BY <1>1, <1>2, Moves

LEMMA Beginning ==
  ASSUME TypeInv, NEW r \in Requests, NEW kind, NEW pc, Begin(r, kind, pc)
  PROVE  OthersSame(r) /\ At(r, "idle") /\ requests'[r].pc = pc /\ requests'[r].reply = "none"
<1> DEFINE q == [Idle EXCEPT !.kind = kind, !.pc = pc]
<1>1. q.pc = pc /\ q.reply = "none"
  BY DEF Idle
<1>2. requests' = [requests EXCEPT ![r] = q] /\ At(r, "idle")
  BY DEF Begin
<1> QED BY <1>1, <1>2, Moves

LEMMA Going ==
  ASSUME TypeInv, NEW r \in Requests, NEW pc, GoTo(r, pc)
  PROVE  /\ OthersSame(r) /\ requests'[r].pc = pc
         /\ requests'[r].reply = requests[r].reply
         /\ requests'[r].challenge = requests[r].challenge
         /\ requests'[r].proof = requests[r].proof
<1> DEFINE q == [requests[r] EXCEPT !.pc = pc]
<1>1. /\ q.pc = pc /\ q.reply = requests[r].reply /\ q.challenge = requests[r].challenge
      /\ q.proof = requests[r].proof
  BY DEF TypeInv, RequestOK, Request
<1>2. requests' = [requests EXCEPT ![r] = q]
  BY DEF GoTo
<1> QED BY <1>1, <1>2, Moves

LEMMA Overtaking ==
  ASSUME TypeInv, NEW r \in Requests, NEW kind, Overtake(r, kind)
  PROVE  /\ OthersSame(r) /\ requests'[r].pc = "done" /\ requests'[r].reply = "ok"
         /\ \A x \in Requests \ {r} : At(x, "enable") => requests'[x].overtaken
BY DEF TypeInv, RequestOK, Request, Overtake, OthersSame, Idle, At

AllSame(r) == OthersSame(r) /\ LockSame(r) /\ EnterSame(r) /\ CodesSame(r) /\ FactorSame(r)

(* Where a request goes that neither passes a challenge nor is about to    *)
(* enable the factor. *)
Quiet(r) ==
    /\ OthersSame(r)
    /\ requests[r].pc \notin {"lock", "done"}
    /\ requests'[r].pc \notin Passed \cup {"enable"}
    /\ requests'[r].reply # "enabled"

LEMMA NotDone ==
  ASSUME FactorInv, NEW r \in Requests, requests[r].pc # "done"
  PROVE  requests[r].reply # "enabled"
BY DEF FactorInv, At

(* Steps that only read rows. *)
LEMMA ReadersQuiet ==
  ASSUME TypeInv, FactorInv, NEW r \in Requests,
         \/ StartLogin(r) \/ CheckPassword(r) \/ LoadRow(r) \/ StartCallback(r)
         \/ StartPasskey(r) \/ VerifyOtp(r) \/ StartSecond(r) \/ ReadAccount(r)
  PROVE  Quiet(r)
<1> USE DEF Passed, Quiet, At
<1>0. requests[r].pc # "done" => requests[r].reply # "enabled"
  BY NotDone
<1>1. CASE StartLogin(r)
  <2>1. CASE AnswerAtOnce(r, "password", "locked")
    BY <2>1, AnsweringAtOnce
  <2>2. CASE /\ At(r, "idle")
             /\ requests' = [requests EXCEPT ![r] =
                   [Idle EXCEPT !.kind = "password", !.pc = "sign_in", !.seen = account]]
    <3> DEFINE q == [Idle EXCEPT !.kind = "password", !.pc = "sign_in", !.seen = account]
    <3>1. q.pc = "sign_in" /\ q.reply = "none"
      BY DEF Idle
    <3>2. OthersSame(r) /\ requests'[r] = q
      BY <2>2, Moves
    <3> HIDE DEF q
    <3> QED BY <2>2, <3>1, <3>2
  <2> QED BY <1>1, <2>1, <2>2 DEF StartLogin
<1>2. CASE CheckPassword(r)
  BY <1>0, <1>2, Going DEF CheckPassword
<1>3. CASE LoadRow(r)
  BY <1>0, <1>3, Going, Answering DEF LoadRow
<1>4. CASE StartCallback(r)
  BY <1>4, AnsweringAtOnce, Beginning DEF StartCallback
<1>5. CASE StartPasskey(r)
  <2>1. PICK n \in 0 .. MaxCounter :
           requests' = [requests EXCEPT ![r] =
               [Idle EXCEPT !.kind = "passkey", !.pc = "verify_assertion", !.seen = account,
                            !.proof = [counter |-> n]]]
    BY <1>5 DEF StartPasskey
  <2> DEFINE q == [Idle EXCEPT !.kind = "passkey", !.pc = "verify_assertion", !.seen = account,
                               !.proof = [counter |-> n]]
  <2>2. q.pc = "verify_assertion" /\ q.reply = "none"
    BY DEF Idle
  <2>3. OthersSame(r) /\ requests'[r] = q
    BY <2>1, Moves
  <2> HIDE DEF q
  <2> QED BY <1>5, <2>2, <2>3 DEF StartPasskey
<1>6. CASE VerifyOtp(r)
  BY <1>0, <1>6, Going, Answering DEF VerifyOtp
<1>7. CASE StartSecond(r)
  <2>1. CASE AnswerAtOnce(r, "second", "refused")
    BY <2>1, AnsweringAtOnce
  <2>2. ASSUME NEW g, NEW pc \in {"use_up", "read_account"},
               requests' = [requests EXCEPT ![r] =
                   [Idle EXCEPT !.kind = "second", !.challenge = g, !.pc = pc]]
        PROVE  Quiet(r)
    <3> DEFINE q == [Idle EXCEPT !.kind = "second", !.challenge = g, !.pc = pc]
    <3>1. q.pc = pc /\ q.reply = "none"
      BY DEF Idle
    <3>2. OthersSame(r) /\ requests'[r] = q
      BY <2>2, Moves
    <3> HIDE DEF q
    <3> QED BY <1>7, <3>1, <3>2 DEF StartSecond
  <2> QED BY <1>7, <2>1, <2>2 DEF StartSecond
<1>8. CASE ReadAccount(r)
  <2>0. requests[r].pc = "read_account"
    BY <1>8 DEF ReadAccount
  <2>1. CASE Answer(r, "refused")
    BY <2>0, <2>1, Answering
  <2>2. ASSUME NEW proof, NEW pc \in {"consume", "bump"},
               requests' = [requests EXCEPT ![r].seen = account, ![r].proof = proof,
                                            ![r].pc = pc]
        PROVE  Quiet(r)
    <3> DEFINE q == [requests[r] EXCEPT !.seen = account, !.proof = proof, !.pc = pc]
    <3>1. requests' = [requests EXCEPT ![r] = q]
      BY <2>2 DEF TypeInv
    <3>2. q.pc = pc /\ q.reply = requests[r].reply
      BY DEF TypeInv, RequestOK, Request
    <3>3. OthersSame(r) /\ requests'[r] = q
      BY <3>1, Moves
    <3> HIDE DEF q
    <3> QED BY <1>0, <2>0, <2>2, <3>2, <3>3
  <2> QED BY <1>8, <2>1, <2>2 DEF ReadAccount
<1> QED BY <1>1, <1>2, <1>3, <1>4, <1>5, <1>6, <1>7, <1>8

(* Steps that write nothing but a challenge, a passkey or counters. *)
LEMMA WritersQuiet ==
  ASSUME TypeInv, FactorInv, NEW r \in Requests,
         \/ CreateChallenge(r) \/ VerifyAssertion(r) \/ RegisterPasskey(r)
         \/ UseUp(r) \/ Bump(r) \/ Close(r)
         \/ CountFailure(r) \/ Reset(r) \/ GenerateLink(r)
  PROVE  Quiet(r)
<1> USE DEF Passed, Quiet, At
<1>0. requests[r].pc # "done" => requests[r].reply # "enabled"
  BY NotDone
<1>1. CASE CreateChallenge(r)
  BY <1>1, Answering DEF CreateChallenge
<1>2. CASE VerifyAssertion(r)
  <2>1. Answer(r, "refused") \/ Answer(r, "suspended") \/ GoTo(r, "generate_link")
    BY <1>2 DEF VerifyAssertion
  <2> QED BY <1>0, <1>2, <2>1, Answering, Going DEF VerifyAssertion
<1>3. CASE RegisterPasskey(r)
  BY <1>3, AnsweringAtOnce DEF RegisterPasskey
<1>4. CASE UseUp(r)
  BY <1>4, Answering DEF UseUp
<1>5. CASE Bump(r)
  <2>1. Answer(r, "refused") \/ GoTo(r, "close")
    BY <1>5 DEF Bump
  <2> QED BY <1>0, <1>5, <2>1, Answering, Going DEF Bump
<1>6. CASE Close(r)
  BY <1>6, Answering DEF Close
<1>7. CASE CountFailure(r)
  <2>1. Answer(r, "refused") \/ GoTo(r, "lock")
    BY <1>7 DEF CountFailure
  <2> QED BY <1>0, <1>7, <2>1, Answering, Going DEF CountFailure
<1>8. CASE Reset(r)
  BY <1>8, Answering DEF Reset
<1>9. CASE GenerateLink(r)
  BY <1>0, <1>9, Answering, Going DEF GenerateLink
<1> QED BY <1>1, <1>2, <1>3, <1>4, <1>5, <1>6, <1>7, <1>8, <1>9

(* A quiet step that also leaves the rows the invariants are about alone. *)
LEMMA QuietSame ==
  ASSUME NEW r \in Requests, Quiet(r),
         UNCHANGED history,
         account'.failed = account.failed, account'.lockedUntil = account.lockedUntil,
         account'.codes = account.codes, account'.mfaEnabled = account.mfaEnabled,
         account'.secret = account.secret,
         \A h \in Challenges :
            challenges[h] # None /\ challenges[h].consumed
               => challenges'[h] # None /\ challenges'[h].consumed
  PROVE  AllSame(r)
BY DEF AllSame, Quiet, LockSame, EnterSame, CodesSame, FactorSame, Passed, At

LEMMA QuietSteps ==
  ASSUME TypeInv, FactorInv, NEW r \in Requests,
         \/ StartLogin(r) \/ CheckPassword(r) \/ LoadRow(r) \/ StartCallback(r)
         \/ StartPasskey(r) \/ VerifyOtp(r) \/ StartSecond(r) \/ ReadAccount(r)
         \/ CreateChallenge(r) \/ VerifyAssertion(r) \/ RegisterPasskey(r)
         \/ UseUp(r) \/ Bump(r) \/ Close(r)
  PROVE  AllSame(r)
<1>1. Quiet(r)
  BY ReadersQuiet, WritersQuiet
<1>2. CASE \/ StartLogin(r) \/ CheckPassword(r) \/ LoadRow(r) \/ StartCallback(r)
           \/ StartPasskey(r) \/ VerifyOtp(r) \/ StartSecond(r) \/ ReadAccount(r)
  <2>1. UNCHANGED <<account, challenges, history>>
    BY <1>2 DEF StartLogin, CheckPassword, LoadRow, StartCallback, StartPasskey, VerifyOtp,
                StartSecond, ReadAccount, NoWrite
  <2> QED BY <1>1, <2>1, QuietSame
<1>3. CASE CreateChallenge(r) \/ UseUp(r) \/ Bump(r) \/ Close(r)
  <2>1. UNCHANGED <<account, history>>
    BY <1>3 DEF CreateChallenge, UseUp, Bump, Close
  <2>2. ASSUME NEW h \in Challenges, challenges[h] # None, challenges[h].consumed
        PROVE  challenges'[h] # None /\ challenges'[h].consumed
    <3>1. Kept /\ challenges[h] \in Challenge
      BY <1>3, <2>2, LoginOK, SecondOK DEF StepOK, RowsOK, TypeInv
    <3>2. challenges'[h] # None
      BY <2>2, <3>1 DEF Kept
    <3>3. CASE CreateChallenge(r)
      BY <2>2, <3>3 DEF CreateChallenge, TypeInv
    <3>4. CASE UseUp(r)
      BY <2>2, <3>1, <3>4 DEF UseUp, TypeInv, Challenge
    <3>5. CASE Bump(r)
      BY <2>2, <3>1, <3>5 DEF Bump, MayCount, Open, TypeInv
    <3>6. CASE Close(r)
      BY <2>2, <3>1, <3>6 DEF Close, TypeInv, Challenge
    <3> QED BY <1>3, <3>2, <3>3, <3>4, <3>5, <3>6
  <2> QED BY <1>1, <2>1, <2>2, QuietSame
<1>4. CASE VerifyAssertion(r) \/ RegisterPasskey(r)
  <2>1. UNCHANGED <<challenges, history>>
    BY <1>4 DEF VerifyAssertion, RegisterPasskey, NoWrite
  <2>2. account' = account \/ \E k : account' = [account EXCEPT !.passkey = k]
    BY <1>4 DEF VerifyAssertion, RegisterPasskey, NoWrite
  <2>3. /\ account'.failed = account.failed /\ account'.lockedUntil = account.lockedUntil
        /\ account'.codes = account.codes /\ account'.mfaEnabled = account.mfaEnabled
        /\ account'.secret = account.secret
    BY <2>2 DEF TypeInv, Account
  <2> QED BY <1>1, <2>1, <2>3, QuietSame
<1> QED BY <1>2, <1>3, <1>4

(* Only the counters of the row change. *)
LEMMA CountersSame ==
  ASSUME TypeInv, FactorInv, NEW r \in Requests,
         CountFailure(r) \/ Lock(r) \/ Reset(r) \/ GenerateLink(r)
  PROVE  OthersSame(r) /\ EnterSame(r) /\ CodesSame(r) /\ FactorSame(r)
<1>1. /\ OthersSame(r)
      /\ requests[r].pc # "done"
      /\ requests'[r].pc \notin Passed \cup {"enable"}
      /\ requests'[r].reply # "enabled"
  <2>1. CASE Lock(r)
    BY <2>1, Answering DEF Lock, At, Passed
  <2> QED BY <2>1, WritersQuiet DEF Quiet
<1>2. /\ account'.codes = account.codes /\ account'.mfaEnabled = account.mfaEnabled
      /\ account'.secret = account.secret
  BY DEF CountFailure, Lock, Reset, GenerateLink, WriteReset, ResetCounters, NoWrite, TypeInv,
         Account
<1>3. /\ challenges' = challenges
      /\ history'.entered = history.entered /\ history'.spent = history.spent
      /\ history'.issued = history.issued /\ history'.proved = history.proved
  BY DEF CountFailure, Lock, Reset, GenerateLink, WriteReset, NoWrite, TypeInv, History
<1> QED BY <1>1, <1>2, <1>3 DEF EnterSame, CodesSame, FactorSame, Passed, At

(* Enrolling, verifying and disabling leave the counters and the challenges *)
(* alone.                                                                   *)
LEMMA FactorStepsSame ==
  ASSUME TypeInv, FactorInv, NEW r \in Requests,
         Enroll(r) \/ StartVerify(r) \/ Enable(r) \/ StartDisable(r) \/ Clear(r)
  PROVE  OthersSame(r) /\ LockSame(r) /\ EnterSame(r)
<1>1. OthersSame(r) /\ ~ At(r, "lock") /\ requests'[r].pc \notin Passed
  <2>1. CASE Enroll(r)
    BY <2>1, Overtaking DEF Enroll, At, Passed
  <2>2. CASE StartVerify(r)
    BY <2>2, AnsweringAtOnce, Beginning DEF StartVerify, At, Passed
  <2>3. CASE Enable(r)
    <3>1. CASE MayEnable(account)
      <4>1. PICK set : requests' = [requests EXCEPT ![r] =
                [Idle EXCEPT !.kind = "verify", !.pc = "done", !.reply = "enabled",
                             !.proof = [codes |-> set],
                             !.overtaken = requests[r].overtaken]]
        BY <2>3, <3>1 DEF Enable
      <4> DEFINE q == [Idle EXCEPT !.kind = "verify", !.pc = "done", !.reply = "enabled",
                                   !.proof = [codes |-> set],
                                   !.overtaken = requests[r].overtaken]
      <4>2. q.pc = "done"
        BY DEF Idle
      <4>3. OthersSame(r) /\ requests'[r] = q
        BY <4>1, Moves
      <4> QED BY <2>3, <4>2, <4>3 DEF Enable, At, Passed
    <3>2. CASE ~MayEnable(account)
      BY <2>3, <3>2, Answering DEF Enable, At, Passed
    <3> QED BY <3>1, <3>2
  <2>4. CASE StartDisable(r)
    BY <2>4, AnsweringAtOnce, Beginning DEF StartDisable, At, Passed
  <2>5. CASE Clear(r)
    BY <2>5, Overtaking DEF Clear, At, Passed
  <2> QED BY <2>1, <2>2, <2>3, <2>4, <2>5
<1>2. account'.failed = account.failed /\ account'.lockedUntil = account.lockedUntil
  BY DEF Enroll, Enrolled, StartVerify, Enable, StartDisable, Clear, NoWrite, TypeInv, Account
<1>3. /\ challenges' = challenges
      /\ history'.entered = history.entered /\ history'.wrong = history.wrong
  BY DEF Enroll, StartVerify, Enable, StartDisable, Clear, NoWrite, TypeInv, History
<1> QED BY <1>1, <1>2, <1>3 DEF LockSame, EnterSame

LEMMA ConsumeSame ==
  ASSUME TypeInv, FactorInv, NEW r \in Requests, Consume(r) \/ SpendCode(r)
  PROVE  /\ OthersSame(r) /\ LockSame(r) /\ FactorSame(r)
         /\ requests'[r].pc = "done" \/ requests'[r].challenge = requests[r].challenge
         /\ requests'[r].pc = "done" \/ requests'[r].proof = requests[r].proof
<1>0. requests[r].pc \in {"consume", "spend_code"}
  BY DEF Consume, SpendCode, At
<1>1. \/ Answer(r, "refused") \/ GoTo(r, "spend_code") \/ GoTo(r, "enter")
  BY DEF Consume, SpendCode
<1>2. /\ OthersSame(r) /\ requests'[r].pc \in {"done", "spend_code", "enter"}
      /\ requests'[r].reply # "enabled"
      /\ requests'[r].pc = "done" \/ requests'[r].challenge = requests[r].challenge
      /\ requests'[r].pc = "done" \/ requests'[r].proof = requests[r].proof
  <2>0. requests[r].reply # "enabled"
    BY <1>0, NotDone
  <2>1. CASE Answer(r, "refused")
    BY <2>1, Answering
  <2>2. ASSUME NEW pc \in {"spend_code", "enter"}, GoTo(r, pc)
        PROVE  /\ OthersSame(r) /\ requests'[r].pc = pc
               /\ requests'[r].reply # "enabled"
               /\ requests'[r].challenge = requests[r].challenge
               /\ requests'[r].proof = requests[r].proof
    BY <2>0, <2>2, Going
  <2> QED BY <1>1, <2>1, <2>2
<1>3. UNCHANGED history
  BY DEF Consume, SpendCode
<1>4. /\ account'.failed = account.failed /\ account'.lockedUntil = account.lockedUntil
      /\ account'.mfaEnabled = account.mfaEnabled /\ account'.secret = account.secret
  BY DEF Consume, SpendCode, TypeInv, Account
<1> QED BY <1>0, <1>2, <1>3, <1>4 DEF LockSame, FactorSame, At

LEMMA EnterSteps ==
  ASSUME TypeInv, FactorInv, NEW r \in Requests, Enter(r)
  PROVE  OthersSame(r) /\ FactorSame(r) /\ requests'[r].pc = "done"
<1>1. OthersSame(r) /\ requests'[r].pc = "done" /\ requests'[r].reply = "signed_in"
  BY Answering DEF Enter
<1>2. account'.mfaEnabled = account.mfaEnabled /\ account'.secret = account.secret
  BY DEF Enter, ResetCounters, TypeInv, Account
<1>3. history'.proved = history.proved
  BY DEF Enter, TypeInv, History
<1> QED BY <1>1, <1>2, <1>3 DEF FactorSame, Enter, At

-----------------------------------------------------------------------------
(* The lock. *)

LEMMA LockKept ==
  ASSUME LockInv, NEW r \in Requests, OthersSame(r), LockSame(r) PROVE LockInv'
BY DEF LockInv, OthersSame, LockSame, At

LEMMA LockStep ==
  ASSUME TypeInv, FactorInv, LockInv, NEW r \in Requests, Step(r) PROVE LockInv'
<1>0. account.failed \in Nat /\ history.wrong \in Nat
  BY DEF TypeInv, Account, History
<1>1. CASE CountFailure(r)
  <2>1. account'.failed = account.failed + 1 /\ account'.lockedUntil = account.lockedUntil
    BY <1>1 DEF CountFailure, Counted, TypeInv, Account
  <2>2. history'.wrong = history.wrong + 1
    BY <1>1 DEF CountFailure, TypeInv, History
  <2>3. account'.failed >= MaxFailed => requests'[r].pc = "lock"
    BY <1>1, Going DEF CountFailure
  <2> QED BY <1>0, <2>1, <2>2, <2>3 DEF LockInv, At
<1>2. CASE Lock(r)
  <2>1. account'.failed = account.failed /\ account'.lockedUntil # None
    BY <1>2, SignInAssumption DEF Lock, TypeInv, Account
  <2>2. history'.wrong = history.wrong
    BY <1>2 DEF Lock
  <2> QED BY <2>1, <2>2 DEF LockInv
<1>3. CASE Reset(r) \/ (GenerateLink(r) /\ WriteReset) \/ Enter(r)
  <2>1. account' = ResetCounters(account) /\ history'.wrong = 0
    BY <1>3 DEF Reset, WriteReset, Enter, TypeInv, History
  <2>2. account'.failed = 0
    BY <2>1 DEF ResetCounters, TypeInv, Account
  <2> QED BY <2>1, <2>2, SignInAssumption DEF LockInv
<1>4. CASE GenerateLink(r) /\ ~WriteReset
  <2>1. OthersSame(r)
    BY <1>4, CountersSame
  <2>2. LockSame(r)
    BY <1>4 DEF GenerateLink, NoWrite, LockSame, At
  <2> QED BY <2>1, <2>2, LockKept
<1>5. CASE AllSame(r)
  BY <1>5, LockKept DEF AllSame
<1>6. CASE Consume(r) \/ SpendCode(r)
  BY <1>6, ConsumeSame, LockKept
<1>7. CASE Enroll(r) \/ StartVerify(r) \/ Enable(r) \/ StartDisable(r) \/ Clear(r)
  BY <1>7, FactorStepsSame, LockKept
<1> QED BY <1>1, <1>2, <1>3, <1>4, <1>5, <1>6, <1>7, QuietSteps DEF Step

-----------------------------------------------------------------------------
(* The challenge. *)

LEMMA EnterKept ==
  ASSUME TypeInv, EnterInv, NEW r \in Requests, OthersSame(r), EnterSame(r) PROVE EnterInv'
<1>1. \A x \in Requests : requests[x].pc \in Passed => requests[x].challenge \in Challenges
  BY DEF TypeInv, RequestOK, Passed, Second
<1>2. \A x \in Requests : requests'[x].pc \in Passed =>
         /\ requests[x].pc \in Passed
         /\ requests'[x].challenge = requests[x].challenge
  BY DEF OthersSame, EnterSame
<1> QED BY <1>1, <1>2 DEF EnterInv, EnterSame

LEMMA EnterStep ==
  ASSUME TypeInv, FactorInv, EnterInv, NEW r \in Requests, Step(r) PROVE EnterInv'
<1> DEFINE h == requests[r].challenge
<1>0. \A x \in Requests : requests[x].pc \in Passed => requests[x].challenge \in Challenges
  BY DEF TypeInv, RequestOK, Passed, Second
<1>1. CASE Consume(r)
  <2>1. h \in Challenges /\ challenges[h] # None /\ challenges[h] \in Challenge
    BY <1>1 DEF Consume, At, TypeInv, RequestOK, Second
  <2>2. history'.entered = history.entered /\ OthersSame(r)
    BY <1>1, ConsumeSame DEF Consume
  <2>3. CASE Open(h)
    <3>1. challenges' = [challenges EXCEPT ![h] = [challenges[h] EXCEPT !.consumed = TRUE]]
      BY <1>1, <2>3 DEF Consume, MayConsume
    <3>2. /\ challenges'[h].consumed /\ challenges'[h] # None
          /\ \A g \in Challenges : g # h => challenges'[g] = challenges[g]
      <4>1. [challenges[h] EXCEPT !.consumed = TRUE] \in Challenge
        BY <2>1 DEF Challenge
      <4> QED BY <2>1, <3>1, <4>1, InitialStatesAssumption DEF TypeInv, Challenge
    <3>3. requests'[r].challenge = h
      <4>1. GoTo(r, "spend_code") \/ GoTo(r, "enter")
        BY <1>1, <2>3 DEF Consume, MayConsume
      <4> QED BY <4>1, Going
    <3>4. history.entered[h] = 0 /\ \A x \in Requests :
             requests[x].pc \in Passed => requests[x].challenge # h
      BY <2>1, <2>3 DEF EnterInv, Open
    <3>5. \A x \in Requests \ {r} : requests'[x].pc \in Passed =>
             requests[x].pc \in Passed /\ requests'[x].challenge = requests[x].challenge
      BY <2>2 DEF OthersSame
    <3> QED BY <1>0, <2>1, <2>2, <3>2, <3>3, <3>4, <3>5 DEF EnterInv
  <2>4. CASE ~Open(h)
    <3>1. requests'[r].pc = "done" /\ challenges' = challenges
      BY <1>1, <2>4, Answering DEF Consume, MayConsume
    <3> QED BY <2>2, <3>1, EnterKept DEF EnterSame, Passed
  <2> QED BY <2>3, <2>4
<1>2. CASE SpendCode(r)
  <2>1. /\ UNCHANGED <<challenges, history>> /\ OthersSame(r)
        /\ requests'[r].pc = "done" \/ requests'[r].challenge = h
        /\ requests[r].pc \in Passed
    BY <1>2, ConsumeSame DEF SpendCode, At, Passed
  <2>2. \A x \in Requests : requests'[x].pc \in Passed =>
           /\ requests[x].pc \in Passed
           /\ requests'[x].challenge = requests[x].challenge
    BY <2>1 DEF OthersSame, Passed
  <2> QED BY <1>0, <2>1, <2>2 DEF EnterInv
<1>3. CASE Enter(r)
  <2>1. OthersSame(r) /\ requests'[r].pc = "done" /\ requests[r].pc \in Passed
    BY <1>3, EnterSteps DEF Enter, At, Passed
  <2>2. /\ h \in Challenges
        /\ challenges[h] # None /\ challenges[h].consumed /\ history.entered[h] = 0
    BY <1>0, <2>1 DEF EnterInv
  <2>3. /\ challenges' = challenges
        /\ history'.entered = [history.entered EXCEPT ![h] = @ + 1]
    BY <1>3 DEF Enter, TypeInv, History
  <2>4. /\ history'.entered[h] = 1
        /\ \A g \in Challenges : g # h => history'.entered[g] = history.entered[g]
    BY <2>2, <2>3 DEF TypeInv, History
  <2>5. \A x \in Requests : requests'[x].pc \in Passed =>
           /\ requests[x].pc \in Passed /\ x # r
           /\ requests'[x].challenge = requests[x].challenge
    BY <2>1 DEF OthersSame, Passed
  <2>6. \A x \in Requests : requests'[x].pc \in Passed => requests[x].challenge # h
    BY <2>1, <2>5 DEF EnterInv
  <2> QED BY <1>0, <2>2, <2>3, <2>4, <2>5, <2>6 DEF EnterInv
<1>4. CASE AllSame(r)
  BY <1>4, EnterKept DEF AllSame
<1>5. CASE CountFailure(r) \/ Lock(r) \/ Reset(r) \/ GenerateLink(r)
  BY <1>5, CountersSame, EnterKept
<1>6. CASE Enroll(r) \/ StartVerify(r) \/ Enable(r) \/ StartDisable(r) \/ Clear(r)
  BY <1>6, FactorStepsSame, EnterKept
<1> QED BY <1>1, <1>2, <1>3, <1>4, <1>5, <1>6, QuietSteps DEF Step

-----------------------------------------------------------------------------
(* The backup codes. *)

LEMMA BackupKept ==
  ASSUME BackupInv, NEW r \in Requests, OthersSame(r),
         account'.codes \subseteq account.codes, history'.spent = history.spent,
         history.issued \subseteq history'.issued,
         \A c \in Codes : ~ Spends(r, c)'
  PROVE  BackupInv'
<1>1. ASSUME NEW c \in Codes, NEW x \in Requests, Spends(x, c)'
      PROVE  Spends(x, c)
  BY <1>1 DEF OthersSame, Spends, At
<1> QED BY <1>1 DEF BackupInv

LEMMA BackupProof ==
  ASSUME NEW proof \in Proofs, NEW seen, ByBackup(proof), Accepted(proof, seen)
  PROVE  proof.code \in Codes /\ proof.code \in seen.codes
BY DEF Proofs, ByBackup, ByApp, Accepted

LEMMA NotAtEnter ==
  ASSUME NEW r \in Requests, requests'[r].pc # "enter" \/ ~ ByBackup(requests'[r].proof)
  PROVE  \A c \in Codes : ~ Spends(r, c)'
BY DEF Spends, At

LEMMA SpendStep ==
  ASSUME TypeInv, FactorInv, BackupInv, NEW r \in Requests, SpendCode(r) PROVE BackupInv'
<1> DEFINE proof == requests[r].proof
           code  == proof.code
<1>1. /\ OthersSame(r) /\ history' = history
      /\ requests'[r].pc = "done" \/ requests'[r].proof = proof
  BY ConsumeSame DEF SpendCode
<1>2. proof \in Proofs /\ Accepted(proof, requests[r].seen)
  BY DEF SpendCode, At, TypeInv, RequestOK, Right
<1>3. account'.codes \in {account.codes, account.codes \ {code}}
  BY DEF SpendCode, MaySpend, TypeInv, Account
<1>4. CASE requests'[r].pc # "enter" \/ ~ ByBackup(proof)
  <2>1. requests'[r].pc # "enter" \/ ~ ByBackup(requests'[r].proof)
    BY <1>1, <1>4
  <2> QED BY <1>1, <1>3, <2>1, BackupKept, NotAtEnter
<1>5. CASE requests'[r].pc = "enter" /\ ByBackup(proof)
  <2>1. MaySpend(requests[r].seen, proof)
    <3>1. CASE Answer(r, "refused")
      BY <1>5, <3>1, Answering
    <3> QED BY <3>1 DEF SpendCode
  <2>2. account'.codes = account.codes \ {code} /\ code \in account.codes /\ code \in Codes
    <3>1. account' = [account EXCEPT !.codes = requests[r].seen.codes \ {code}]
      BY <2>1 DEF SpendCode
    <3> QED BY <1>2, <1>5, <2>1, <3>1, BackupProof DEF MaySpend, TypeInv, Account
  <2>3. requests'[r].proof = proof
    BY <1>1, <1>5
  <2>4. history.spent[code] = 0 /\ \A x \in Requests : ~ Spends(x, code)
    BY <2>2 DEF BackupInv
  <2>5. ASSUME NEW c \in Codes, NEW x \in Requests, Spends(x, c)'
        PROVE  Spends(x, c) \/ (x = r /\ c = code)
    BY <1>1, <2>3, <2>5 DEF OthersSame, Spends, At
  <2>6. \E set \in CodeSets \cap history.issued : code \in set
    BY <2>2 DEF BackupInv
  <2> HIDE DEF code, proof
  <2>7. ASSUME NEW c \in Codes, c = code
        PROVE  /\ history'.spent[c] = 0 /\ c \notin account'.codes
               /\ \A x \in Requests : Spends(x, c)' => x = r
    BY <1>1, <2>2, <2>4, <2>5, <2>7
  <2>8. ASSUME NEW c \in Codes, c # code
        PROVE  /\ history'.spent[c] = history.spent[c]
               /\ c \in account'.codes <=> c \in account.codes
               /\ \A x \in Requests : Spends(x, c)' => Spends(x, c)
    BY <1>1, <2>2, <2>5, <2>8
  <2>9. history'.issued = history.issued
    BY <1>1
  <2> QED BY <2>6, <2>7, <2>8, <2>9 DEF BackupInv
<1> QED BY <1>4, <1>5

LEMMA EnterSpends ==
  ASSUME TypeInv, FactorInv, BackupInv, NEW r \in Requests, Enter(r) PROVE BackupInv'
<1> DEFINE proof == requests[r].proof
<1>1. OthersSame(r) /\ requests'[r].pc = "done" /\ At(r, "enter")
  BY EnterSteps DEF Enter
<1>2. /\ account'.codes = account.codes /\ history'.issued = history.issued
      /\ history'.spent = SpentBy(proof)
  BY DEF Enter, ResetCounters, TypeInv, Account, History
<1>3. ASSUME NEW c \in Codes
      PROVE  history'.spent[c] = IF Spends(r, c) THEN history.spent[c] + 1 ELSE history.spent[c]
  BY <1>1, <1>2 DEF SpentBy, Spends
<1>4. ASSUME NEW c \in Codes, NEW x \in Requests, Spends(x, c)'
      PROVE  Spends(x, c) /\ x # r
  BY <1>1, <1>4 DEF OthersSame, Spends, At
<1>5. ASSUME NEW c \in Codes, Spends(r, c)
      PROVE  /\ history'.spent[c] = 1 /\ c \notin account'.codes
             /\ \A x \in Requests : ~ Spends(x, c)'
             /\ \E set \in CodeSets \cap history'.issued : c \in set
  BY <1>2, <1>3, <1>4, <1>5 DEF BackupInv
<1>6. ASSUME NEW c \in Codes, ~ Spends(r, c)
      PROVE  /\ history'.spent[c] = history.spent[c]
             /\ c \in account'.codes <=> c \in account.codes
             /\ \A x \in Requests : Spends(x, c)' => Spends(x, c)
  BY <1>2, <1>3, <1>4, <1>6
<1> QED BY <1>2, <1>5, <1>6 DEF BackupInv

(* New codes are none of those that were ever generated. *)
LEMMA EnableStep ==
  ASSUME TypeInv, FactorInv, BackupInv, NEW r \in Requests, Enable(r) PROVE BackupInv'
<1>1. CASE MayEnable(account)
  <2>1. PICK set \in CodeSets \ history.issued :
           /\ account' = [account EXCEPT !.mfaEnabled = TRUE, !.codes = set]
           /\ history' = [history EXCEPT !.issued = @ \cup {set}]
           /\ requests' = [requests EXCEPT ![r] =
                 [Idle EXCEPT !.kind = "verify", !.pc = "done", !.reply = "enabled",
                              !.proof = [codes |-> set],
                              !.overtaken = requests[r].overtaken]]
    BY <1>1 DEF Enable
  <2>2. /\ account'.codes = set /\ history'.spent = history.spent
        /\ history'.issued = history.issued \cup {set}
    BY <2>1 DEF TypeInv, Account, History
  <2>3. OthersSame(r) /\ requests'[r].pc = "done"
    <3> DEFINE q == [Idle EXCEPT !.kind = "verify", !.pc = "done", !.reply = "enabled",
                                 !.proof = [codes |-> set],
                                 !.overtaken = requests[r].overtaken]
    <3>1. q.pc = "done"
      BY DEF Idle
    <3> QED BY <2>1, <3>1, Moves
  <2>4. ASSUME NEW c \in Codes, NEW x \in Requests, Spends(x, c)'
        PROVE  Spends(x, c)
    BY <2>3, <2>4 DEF OthersSame, Spends, At
  <2>5. ASSUME NEW c \in set, c \in Codes
        PROVE  history.spent[c] # 1 /\ \A x \in Requests : ~ Spends(x, c)
    <3>1. \A other \in CodeSets \cap history.issued : c \notin other
      BY <2>1, <2>5, SignInAssumption
    <3> QED BY <2>5, <3>1 DEF BackupInv
  <2> QED BY <2>1, <2>2, <2>4, <2>5 DEF BackupInv
<1>2. CASE ~MayEnable(account)
  <2>1. OthersSame(r) /\ requests'[r].pc = "done" /\ UNCHANGED <<account, history>>
    BY <1>2, Answering DEF Enable
  <2> QED BY <2>1, BackupKept, NotAtEnter
<1> QED BY <1>1, <1>2

LEMMA BackupStep ==
  ASSUME TypeInv, FactorInv, BackupInv, NEW r \in Requests, Step(r) PROVE BackupInv'
<1>1. ASSUME OthersSame(r), CodesSame(r) PROVE BackupInv'
  BY <1>1, BackupKept, NotAtEnter DEF CodesSame
<1>2. CASE AllSame(r)
  BY <1>1, <1>2 DEF AllSame
<1>3. CASE CountFailure(r) \/ Lock(r) \/ Reset(r) \/ GenerateLink(r)
  BY <1>1, <1>3, CountersSame
<1>4. CASE Consume(r)
  <2>1. /\ OthersSame(r) /\ UNCHANGED <<account, history>>
        /\ requests'[r].pc = "done" \/ requests'[r].proof = requests[r].proof
    BY <1>4, ConsumeSame DEF Consume
  <2>2. requests'[r].pc # "enter" \/ ~ ByBackup(requests[r].proof)
    <3>1. \/ Answer(r, "refused") \/ GoTo(r, "spend_code")
          \/ ~ ByBackup(requests[r].proof)
      BY <1>4 DEF Consume
    <3> QED BY <3>1, Answering, Going
  <2>3. requests'[r].pc # "enter" \/ ~ ByBackup(requests'[r].proof)
    BY <2>1, <2>2
  <2> QED BY <2>1, <2>3, BackupKept, NotAtEnter
<1>5. CASE Enroll(r) \/ Clear(r)
  <2>1. OthersSame(r) /\ requests'[r].pc = "done"
    BY <1>5, Overtaking DEF Enroll, Clear
  <2>2. account'.codes = {}
    BY <1>5 DEF Enroll, Enrolled, Clear, TypeInv, Account
  <2>3. history'.spent = history.spent /\ history.issued \subseteq history'.issued
    BY <1>5 DEF Enroll, Clear, TypeInv, History
  <2> QED BY <2>1, <2>2, <2>3, BackupKept, NotAtEnter
<1>6. CASE StartVerify(r) \/ StartDisable(r)
  <2>1. OthersSame(r) /\ requests'[r].pc # "enter"
    <3>1. CASE StartVerify(r)
      BY <3>1, AnsweringAtOnce, Beginning DEF StartVerify
    <3>2. CASE StartDisable(r)
      BY <3>2, AnsweringAtOnce, Beginning DEF StartDisable
    <3> QED BY <1>6, <3>1, <3>2
  <2>2. account' = account /\ history'.spent = history.spent /\ history'.issued = history.issued
    BY <1>6 DEF StartVerify, StartDisable, NoWrite, TypeInv, History
  <2> QED BY <2>1, <2>2, BackupKept, NotAtEnter
<1> QED BY <1>2, <1>3, <1>4, <1>5, <1>6, SpendStep, EnterSpends, EnableStep, QuietSteps DEF Step

-----------------------------------------------------------------------------
(* The factor. *)

LEMMA OthersDone ==
  ASSUME FactorInv, NEW r \in Requests, OthersSame(r)
  PROVE  \A x \in Requests \ {r} : requests'[x].reply = "enabled" => At(x, "done")'
BY DEF FactorInv, OthersSame, At

(* A step of the request r that neither shows a proof nor writes the factor. *)
LEMMA FactorKept ==
  ASSUME FactorInv, NEW r \in Requests, OthersSame(r), FactorSame(r) PROVE FactorInv'
<1>1. EnabledWasProved'
  <2>1. SUFFICES ASSUME account.mfaEnabled, account.secret \notin history.proved
                 PROVE  \E x \in Requests : requests'[x].reply = "enabled" /\ requests'[x].overtaken
    BY DEF EnabledWasProved, FactorSame
  <2>2. PICK x \in Requests : requests[x].reply = "enabled" /\ requests[x].overtaken
    BY <2>1 DEF FactorInv, EnabledWasProved
  <2>3. x # r
    BY <2>2 DEF FactorInv, FactorSame, At
  <2> QED BY <2>2, <2>3 DEF OthersSame
<1>2. ASSUME NEW x \in Requests, At(x, "enable")'
      PROVE  requests'[x].overtaken \/ account'.secret \in history'.proved
  <2>1. x # r /\ At(x, "enable")
    BY <1>2 DEF OthersSame, FactorSame, At
  <2> QED BY <2>1 DEF FactorInv, OthersSame, FactorSame
<1>3. ASSUME NEW x \in Requests, requests'[x].reply = "enabled" PROVE At(x, "done")'
  BY <1>3, OthersDone DEF FactorSame
<1> QED BY <1>1, <1>2, <1>3 DEF FactorInv

LEMMA FactorStep ==
  ASSUME TypeInv, FactorInv, NEW r \in Requests, Step(r) PROVE FactorInv'
<1>1. CASE StartVerify(r)
  <2>1. CASE account.secret = None \/ account.mfaEnabled
    <3>1. AnswerAtOnce(r, "verify", "refused") /\ UNCHANGED <<account, history>>
      BY <1>1, <2>1 DEF StartVerify
    <3>2. OthersSame(r) /\ FactorSame(r)
      BY <3>1, AnsweringAtOnce DEF FactorSame, At
    <3> QED BY <3>2, FactorKept
  <2>2. CASE ~ (account.secret = None \/ account.mfaEnabled)
    <3>1. Begin(r, "verify", "enable") /\ account' = account /\ ~ account'.mfaEnabled
      BY <1>1, <2>2 DEF StartVerify
    <3>2. account'.secret \in history'.proved
      BY <1>1, <2>2, <3>1 DEF StartVerify, TypeInv, History
    <3>3. OthersSame(r) /\ requests'[r].reply = "none"
      BY <3>1, Beginning
    <3> QED BY <3>1, <3>2, <3>3, OthersDone DEF FactorInv, EnabledWasProved
  <2> QED BY <2>1, <2>2
<1>2. CASE Enable(r)
  <2>1. CASE MayEnable(account)
    <3>1. PICK set \in CodeSets \ history.issued :
             /\ account' = [account EXCEPT !.mfaEnabled = TRUE, !.codes = set]
             /\ history' = [history EXCEPT !.issued = @ \cup {set}]
             /\ requests' = [requests EXCEPT ![r] =
                   [Idle EXCEPT !.kind = "verify", !.pc = "done", !.reply = "enabled",
                                !.proof = [codes |-> set],
                                !.overtaken = requests[r].overtaken]]
      BY <1>2, <2>1 DEF Enable
    <3>2. account'.secret = account.secret /\ history'.proved = history.proved
      BY <3>1 DEF TypeInv, Account, History
    <3>3. /\ OthersSame(r) /\ requests'[r].pc = "done" /\ requests'[r].reply = "enabled"
          /\ requests'[r].overtaken = requests[r].overtaken
      <4> DEFINE q == [Idle EXCEPT !.kind = "verify", !.pc = "done", !.reply = "enabled",
                                   !.proof = [codes |-> set],
                                   !.overtaken = requests[r].overtaken]
      <4>1. q.pc = "done" /\ q.reply = "enabled" /\ q.overtaken = requests[r].overtaken
        BY DEF Idle
      <4> QED BY <3>1, <4>1, Moves
    <3>4. requests[r].overtaken \/ account.secret \in history.proved
      BY <1>2 DEF Enable, FactorInv
    <3>5. EnabledWasProved'
      BY <3>2, <3>3, <3>4 DEF EnabledWasProved
    <3>6. \A x \in Requests : At(x, "enable")' =>
             x # r /\ At(x, "enable") /\ (requests[x].overtaken => requests'[x].overtaken)
      BY <3>3 DEF OthersSame, At
    <3> QED BY <3>2, <3>3, <3>5, <3>6, OthersDone DEF FactorInv, At
  <2>2. CASE ~MayEnable(account)
    <3>1. Answer(r, "already_enabled") /\ UNCHANGED <<account, history>>
      BY <1>2, <2>2 DEF Enable
    <3>2. OthersSame(r) /\ FactorSame(r)
      <4>1. requests[r].pc = "enable"
        BY <1>2 DEF Enable, At
      <4> QED BY <3>1, <4>1, Answering DEF FactorSame
    <3> QED BY <3>2, FactorKept
  <2> QED BY <2>1, <2>2
<1>3. CASE Enroll(r) \/ Clear(r)
  <2>1. ~ account'.mfaEnabled
    BY <1>3 DEF Enroll, Enrolled, Clear, TypeInv, Account
  <2>2. /\ OthersSame(r) /\ requests'[r].pc = "done" /\ requests'[r].reply = "ok"
        /\ \A x \in Requests \ {r} : At(x, "enable") => requests'[x].overtaken
    BY <1>3, Overtaking DEF Enroll, Clear
  <2>3. \A x \in Requests : At(x, "enable")' => x # r /\ At(x, "enable")
    BY <2>2 DEF OthersSame, At
  <2> QED BY <2>1, <2>2, <2>3, OthersDone DEF FactorInv, EnabledWasProved
<1>4. CASE StartDisable(r)
  <2>1. UNCHANGED <<account, history>>
    BY <1>4 DEF StartDisable, NoWrite
  <2>2. /\ OthersSame(r) /\ At(r, "idle")
        /\ requests'[r].pc # "enable" /\ requests'[r].reply # "enabled"
    BY <1>4, AnsweringAtOnce, Beginning DEF StartDisable
  <2>3. FactorSame(r)
    BY <2>1, <2>2 DEF FactorSame, At
  <2> QED BY <2>2, <2>3, FactorKept
<1>5. CASE AllSame(r)
  BY <1>5, FactorKept DEF AllSame
<1>6. CASE CountFailure(r) \/ Lock(r) \/ Reset(r) \/ GenerateLink(r)
  BY <1>6, CountersSame, FactorKept
<1>7. CASE Consume(r) \/ SpendCode(r)
  BY <1>7, ConsumeSame, FactorKept
<1>8. CASE Enter(r)
  BY <1>8, EnterSteps, FactorKept
<1> QED BY <1>1, <1>2, <1>3, <1>4, <1>5, <1>6, <1>7, <1>8, QuietSteps DEF Step

-----------------------------------------------------------------------------
SafetyInv == TypeInv /\ LockInv /\ EnterInv /\ BackupInv /\ FactorInv

LEMMA SafetyInit == Init => LockInv /\ EnterInv /\ BackupInv /\ FactorInv
<1> SUFFICES ASSUME Init PROVE LockInv /\ EnterInv /\ BackupInv /\ FactorInv
  OBVIOUS
<1>1. PICK s \in InitialStates :
         /\ account = s.account /\ challenges = s.challenges
         /\ history = [wrong |-> s.account.failed,
                       entered |-> [h \in Challenges |-> 0],
                       spent |-> [c \in Codes |-> 0],
                       proved |-> IF s.account.mfaEnabled THEN {s.account.secret} ELSE {},
                       issued |-> ({s.account.secret} \ {None}) \cup
                                  {set \in CodeSets : set \cap s.account.codes # {}}]
  BY DEF Init
<1>2. \A r \in Requests : requests[r].pc = "idle" /\ requests[r].reply = "none"
  BY DEF Init, Idle
<1>3. TypeInv
  BY TypeInit
<1>4. LockInv
  <2>1. history.wrong = account.failed /\ account.failed \in Nat
    BY <1>1, <1>3 DEF TypeInv, Account
  <2> QED BY <1>1, <2>1, InitialStatesAssumption DEF LockInv
<1>5. EnterInv
  BY <1>1, <1>2, <1>3 DEF EnterInv, Passed, TypeInv, RequestOK, Request
<1>6. BackupInv
  <2>1. \A c \in Codes : history.spent[c] = 0
    BY <1>1
  <2>2. ASSUME NEW c \in Codes, c \in account.codes
        PROVE  \E set \in CodeSets \cap history.issued : c \in set
    <3>1. PICK set \in CodeSets : c \in set
      BY DEF Codes
    <3>2. set \in history.issued
      BY <1>1, <2>2, <3>1
    <3> QED BY <3>1, <3>2
  <2> QED BY <1>2, <2>1, <2>2 DEF BackupInv, Spends, At
<1>7. FactorInv
  BY <1>1, <1>2 DEF FactorInv, EnabledWasProved, At
<1> QED BY <1>4, <1>5, <1>6, <1>7

LEMMA SafetyStep == SafetyInv /\ [Next]_vars => SafetyInv'
<1> SUFFICES ASSUME SafetyInv, [Next]_vars PROVE SafetyInv'
  OBVIOUS
<1>0. TypeInv'
  BY TypeStep DEF SafetyInv
<1>1. ASSUME NEW r \in Requests, Step(r) PROVE SafetyInv'
  BY <1>0, <1>1, LockStep, EnterStep, BackupStep, FactorStep DEF SafetyInv
<1>2. CASE Suspend \/ Tick \/ UNCHANGED vars
  <2>1. UNCHANGED <<challenges, requests, history>>
    BY <1>2 DEF Suspend, Tick, vars
  <2>2. /\ account'.failed = account.failed /\ account'.lockedUntil = account.lockedUntil
        /\ account'.codes = account.codes /\ account'.mfaEnabled = account.mfaEnabled
        /\ account'.secret = account.secret
    BY <1>2 DEF Suspend, Tick, vars, SafetyInv, TypeInv, Account
  <2>3. LockInv'
    BY <2>1, <2>2 DEF SafetyInv, LockInv, At
  <2>4. EnterInv'
    BY <2>1 DEF SafetyInv, EnterInv
  <2>5. BackupInv'
    BY <2>1, <2>2 DEF SafetyInv, BackupInv, Spends, At
  <2>6. FactorInv'
    BY <2>1, <2>2 DEF SafetyInv, FactorInv, EnabledWasProved, At
  <2> QED BY <1>0, <2>3, <2>4, <2>5, <2>6 DEF SafetyInv
<1> QED BY <1>1, <1>2 DEF Next

LEMMA SafetyInductive == Spec => []SafetyInv
<1>1. Init => SafetyInv
  BY TypeInit, SafetyInit DEF SafetyInv
<1> QED BY <1>1, SafetyStep, PTL DEF Spec

(* However many wrong passwords arrive at once, each is counted, and when  *)
(* there were enough of them since the last success the account is locked  *)
(* or a request is about to lock it.                                       *)
THEOREM WrongPasswordsLock == Spec => []FailuresLock
<1>1. SafetyInv => FailuresLock
  BY SignInAssumption DEF SafetyInv, LockInv, FailuresLock, TypeInv, Account, History
<1> QED BY <1>1, SafetyInductive, PTL

(* A challenge lets somebody in once at most, whoever answers it at the    *)
(* same time: the request that consumes it is the only one that enters.    *)
THEOREM OneEntersByAChallenge == Spec => []ChallengeOnce
<1>1. SafetyInv => ChallengeOnce
  BY DEF SafetyInv, EnterInv, ChallengeOnce
<1> QED BY <1>1, SafetyInductive, PTL

(* A backup code lets somebody in once at most, although the codes are     *)
(* read, compared and written back in separate calls, and by requests with *)
(* challenges of their own.                                                *)
THEOREM ABackupCodeIsGoodOnce == Spec => []BackupOnce
<1>1. SafetyInv => BackupOnce
  BY DEF SafetyInv, BackupInv, BackupOnce
<1> QED BY <1>1, SafetyInductive, PTL

(* A second factor is on only if a right code for its secret was shown,    *)
(* unless it was enrolled again or disabled while the code was checked.    *)
THEOREM AFactorThatIsOnWasProved == Spec => []EnabledWasProved
<1>1. SafetyInv => EnabledWasProved
  BY DEF SafetyInv, FactorInv
<1> QED BY <1>1, SafetyInductive, PTL

-----------------------------------------------------------------------------
(* What a step may never do. *)

LEMMA CounterStep ==
  ASSUME TypeInv, [Next]_vars, account.passkey # None, account'.passkey # None,
         account'.passkey.id = account.passkey.id
  PROVE  account'.passkey.counter >= account.passkey.counter
<1>0. account.passkey \in Passkey
  BY DEF TypeInv, Account
<1>1. CASE account'.passkey = account.passkey
  BY <1>0, <1>1 DEF Passkey
<1>2. ASSUME NEW r \in Requests, VerifyAssertion(r), account' # account
      PROVE  account'.passkey.counter >= account.passkey.counter
  <2> DEFINE n == requests[r].proof.counter
  <2>1. /\ requests[r].seen.passkey = account.passkey
        /\ account' = [account EXCEPT !.passkey = [account.passkey EXCEPT !.counter = n]]
        /\ CounterGrows(n, account.passkey.counter)
    BY <1>2 DEF VerifyAssertion, MayStoreCounter, NoWrite
  <2>2. n \in Nat
    BY <1>2, SignInAssumption DEF VerifyAssertion, At, TypeInv, RequestOK, Counters
  <2>3. account'.passkey.counter = n
    BY <1>0, <2>1 DEF TypeInv, Account, Passkey
  <2> QED BY <1>0, <2>1, <2>2, <2>3 DEF CounterGrows, Passkey
<1>3. ASSUME NEW r \in Requests, RegisterPasskey(r) PROVE FALSE
  BY <1>3 DEF RegisterPasskey, TypeInv, Account
<1>4. ASSUME NEW r \in Requests, Step(r), ~ VerifyAssertion(r), ~ RegisterPasskey(r)
      PROVE  account'.passkey = account.passkey
  <2>1. \/ account' = account
        \/ account' = ResetCounters(account)
        \/ \E x : \/ account' = [account EXCEPT !.failed = x]
                  \/ account' = [account EXCEPT !.lockedUntil = x]
                  \/ account' = [account EXCEPT !.codes = x]
                  \/ account' = [account EXCEPT !.mfaEnabled = TRUE, !.codes = x]
                  \/ account' = [account EXCEPT !.secret = x, !.mfaEnabled = FALSE, !.codes = {}]
                  \/ account' = [account EXCEPT !.mfaEnabled = FALSE, !.secret = x, !.codes = {}]
    BY <1>4 DEF Step, StartLogin, CheckPassword, CountFailure, Lock, LoadRow, CreateChallenge,
                Reset, StartCallback, StartPasskey, GenerateLink, VerifyOtp, StartSecond, UseUp,
                ReadAccount, Bump, Close, Consume, SpendCode, Enter, Enroll, Enrolled,
                StartVerify, Enable, StartDisable, Clear, NoWrite, WriteReset
  <2> QED BY <2>1 DEF ResetCounters, TypeInv, Account
<1>5. ASSUME Suspend \/ Tick \/ UNCHANGED vars PROVE account'.passkey = account.passkey
  BY <1>5 DEF Suspend, Tick, vars, TypeInv, Account
<1> QED BY <1>1, <1>2, <1>3, <1>4, <1>5 DEF Next

(* While the factor is on, the codes in the row are spent, never replaced. *)
LEMMA CodesStep ==
  ASSUME TypeInv, FactorInv, [Next]_vars, account.mfaEnabled, account'.mfaEnabled
  PROVE  account'.codes \subseteq account.codes
<1>1. ASSUME NEW r \in Requests, Step(r) PROVE account'.codes \subseteq account.codes
  <2>1. CASE AllSame(r)
    BY <2>1 DEF AllSame, CodesSame
  <2>2. CASE CountFailure(r) \/ Lock(r) \/ Reset(r) \/ GenerateLink(r)
    BY <2>2, CountersSame DEF CodesSame
  <2>3. CASE Consume(r) \/ StartVerify(r) \/ StartDisable(r)
    BY <2>3 DEF Consume, StartVerify, StartDisable, NoWrite
  <2>4. CASE SpendCode(r)
    BY <2>4 DEF SpendCode, MaySpend, TypeInv, Account
  <2>5. CASE Enter(r)
    BY <2>5 DEF Enter, ResetCounters, TypeInv, Account
  <2>6. CASE Enable(r)
    BY <2>6 DEF Enable, MayEnable
  <2>7. CASE Enroll(r) \/ Clear(r)
    BY <2>7 DEF Enroll, Enrolled, Clear, TypeInv, Account
  <2> QED BY <1>1, <2>1, <2>2, <2>3, <2>4, <2>5, <2>6, <2>7, QuietSteps DEF Step
<1>2. ASSUME Suspend \/ Tick \/ UNCHANGED vars PROVE account'.codes = account.codes
  BY <1>2 DEF Suspend, Tick, vars, TypeInv, Account
<1> QED BY <1>1, <1>2 DEF Next

(* The counter of a passkey never goes back: of two sign-ins that overlap, *)
(* only the one whose credential is still as it was read stores a counter. *)
THEOREM PasskeyCounterGrows == Spec => CounterNeverBack
<1>1. TypeInv /\ [Next]_vars =>
        [account.passkey # None /\ account'.passkey # None
           /\ account'.passkey.id = account.passkey.id
              => account'.passkey.counter >= account.passkey.counter]_vars
  BY CounterStep
<1> QED BY <1>1, TypeInit, TypeStep, PTL DEF Spec, CounterNeverBack

(* The backup codes a user was shown stay the ones of the row: a second    *)
(* verify that overlaps does not replace them.                             *)
THEOREM CodesShownAreKept == Spec => ShownCodesAreKept
<1>1. SafetyInv /\ [Next]_vars =>
        [\A r \in Requests :
            requests[r].reply = "enabled" /\ account.codes \subseteq requests[r].proof.codes
               /\ account.mfaEnabled /\ account.mfaEnabled'
               => account.codes' \subseteq requests[r].proof.codes]_vars
  BY CodesStep DEF SafetyInv
<1> QED BY <1>1, SafetyInductive, PTL DEF Spec, ShownCodesAreKept
=============================================================================
