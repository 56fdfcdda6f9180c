---------------------------- MODULE Registration ----------------------------
(***************************************************************************)
(* What users do about accounts of their own: register, confirm, be linked *)
(* to a login user, sign in as far as it changes the row, deactivate.      *)
(***************************************************************************)
EXTENDS Accounts

Nothing == UNCHANGED <<accounts, users, trusted, lost, failed>>

-----------------------------------------------------------------------------
(* POST /api/auth/register *)

(* An address or a student id that is known goes no further. *)
StartRegister(r) ==
    /\ requests[r].pc = "idle"
    /\ \E e \in Emails :
          /\ RowsWithEmail(accounts, e) = {}
          /\ Begin(r, "register", [Idle EXCEPT !.pc = "sign_up",
                                               !.change = [NoChange EXCEPT !.email = e]])
    /\ Nothing

(* When addresses have to be confirmed, signUp of one that is taken is no  *)
(* error: it answers with the user who has it as long as he is unconfirmed,*)
(* and otherwise with an id that is nobody's, as that of a deleted user.   *)
AnswersWith(u, e) ==
    \/ /\ Live(u) /\ users[u].email = e /\ ~users[u].confirmed
       /\ users' = [users EXCEPT ![u].reused = TRUE]
    \/ /\ \E v \in Uids : Live(v) /\ users[v].email = e /\ users[v].confirmed
       /\ users[u].state = "unused"
       /\ users' = [users EXCEPT ![u] = [Unused EXCEPT !.state = "deleted", !.reused = TRUE]]

(* The service creates a user, refuses, or only seems to have created one. *)
SignUp(r) ==
    /\ requests[r].pc = "sign_up"
    /\ LET e == requests[r].change.email
       IN  \/ IsUserEmail(e) /\ Answer(r, "created") /\ UNCHANGED users
           \/ \E u \in Uids :
                 /\ IF IsUserEmail(e) THEN AnswersWith(u, e) ELSE CreateUser(u, e, FALSE)
                 /\ requests' = [requests EXCEPT ![r].pc = "register_row", ![r].uid = u]
    /\ UNCHANGED <<accounts, trusted, lost, failed>>

(* The row of the user; the address, the user and the student id, which    *)
(* are unique, may be taken by now.                                        *)
RegisterRow(r) ==
    /\ requests[r].pc = "register_row"
    /\ LET e == requests[r].change.email
       IN  \/ /\ TakeBack(requests[r].uid)
              /\ Answer(r, "error")
              /\ UNCHANGED <<accounts, trusted>>
           \/ /\ RowsWithEmail(accounts, e) = {} /\ RowsWithUid(requests[r].uid) = {}
              /\ \E i \in Ids :
                    /\ accounts[i] = None
                    /\ Commit(r, [accounts EXCEPT ![i] =
                            [email |-> e, role |-> "OTHER", status |-> "PENDING_VERIFICATION",
                             isDeactivated |-> FALSE, emailVerified |-> FALSE,
                             uid |-> requests[r].uid]], Over(r, "created"))
              /\ UNCHANGED <<users, lost>>
    /\ UNCHANGED failed

-----------------------------------------------------------------------------
(* POST /api/auth/magic-link and /api/auth/forgot-password: a row without  *)
(* a login user gets one before the mail is sent.                          *)

Linkable(row) ==
    /\ row.uid = None
    /\ ~row.isDeactivated
    /\ row.status \in {"ACTIVE", "PENDING_VERIFICATION"}

StartLink(r) ==
    /\ requests[r].pc = "idle"
    /\ \E i \in Ids :
          /\ Exists(i) /\ Linkable(accounts[i])
          /\ Begin(r, "link", [Idle EXCEPT !.pc = "link_user", !.id = i,
                                           !.change = [NoChange EXCEPT !.email = accounts[i].email]])
    /\ Nothing

LinkUser(r) ==
    /\ requests[r].pc = "link_user"
    /\ LET e == requests[r].change.email
       IN  IF IsUserEmail(e)
           THEN Answer(r, "mailed") /\ UNCHANGED users
           ELSE \E u \in Uids :
                   /\ CreateUser(u, e, TRUE)
                   /\ requests' = [requests EXCEPT ![r].pc = "link_row", ![r].uid = u]
    /\ UNCHANGED <<accounts, trusted, lost, failed>>

(* The new user stays behind if the row is gone. *)
LinkRow(r) ==
    /\ requests[r].pc = "link_row"
    /\ LET i == requests[r].id
       IN  IF Exists(i)
           THEN /\ Commit(r, [accounts EXCEPT ![i].uid = requests[r].uid], Over(r, "mailed"))
                /\ lost' = lost \cup LeftBehind(i, requests[r].uid)
           ELSE /\ Answer(r, "mailed")
                /\ lost' = lost \cup {requests[r].uid}
                /\ UNCHANGED <<accounts, trusted>>
    /\ UNCHANGED <<users, failed>>

-----------------------------------------------------------------------------
(* GET /api/auth/callback with a code that is not of a recovery, and POST  *)
(* /api/auth/login with the right password: the account of the login user. *)

MayActivate_EvenSuspended(row, kind, confirmed) ==
    row.status \in {"PENDING_VERIFICATION", "SUSPENDED"} /\ (kind = "callback" \/ confirmed)

MayActivate_Unconfirmed(row, kind, confirmed) == row.status = "PENDING_VERIFICATION"

(* Whether the row, as read, is to be activated.  The callback needs no    *)
(* second proof of the address: its code came by mail.                     *)
MayActivate(row, kind, confirmed) ==
    row.status = "PENDING_VERIFICATION" /\ (kind = "callback" \/ confirmed)

(* A callback comes from a link, which confirms the address; a login does  *)
(* not.                                                                    *)
StartSignIn(r) ==
    /\ requests[r].pc = "idle"
    /\ \E u \in Uids, kind \in {"callback", "login"} :
          /\ Live(u)
          /\ kind = "callback" => users[u].confirmed
          /\ Begin(r, kind, [Idle EXCEPT !.pc = "find_account", !.uid = u])
    /\ Nothing

FindAccount(r) ==
    /\ requests[r].pc = "find_account"
    /\ LET u    == requests[r].uid
           rows == RowsWithUid(u)
       IN  \/ rows = {} /\ Answer(r, "refused")
           \/ \E i \in rows :
                 IF accounts[i].isDeactivated THEN Answer(r, "refused")
                 ELSE IF MayActivate(accounts[i], requests[r].kind, users[u].confirmed)
                 THEN requests' = [requests EXCEPT
                         ![r].pc = "activate", ![r].id = i, ![r].seen = accounts[i],
                         ![r].stale = {}]
                 ELSE Answer(r, accounts[i].status)
    /\ Nothing

(* Nothing of the row is looked at again. *)
Activate(r) ==
    /\ requests[r].pc = "activate"
    /\ LET i == requests[r].id
       IN  IF ~Exists(i) THEN Answer(r, "error") /\ Nothing
           ELSE /\ Commit(r, [accounts EXCEPT ![i] = [@ EXCEPT !.status = "ACTIVE",
                                                               !.emailVerified = TRUE]],
                          Over(r, "activated"))
                /\ UNCHANGED <<users, lost, failed>>

(* POST /api/auth/login with a password the service refuses, for a row     *)
(* whose login user is gone: the row goes too.                             *)
StartReconcile(r) ==
    /\ requests[r].pc = "idle"
    /\ \E i \in Ids :
          /\ Exists(i) /\ accounts[i].uid # None
          /\ Begin(r, "reconcile", [Idle EXCEPT !.pc = "look_up_user", !.id = i,
                                                !.uid = accounts[i].uid])
    /\ Nothing

IsOrphan_OnAnyError(u, answered) == ~answered \/ ~Live(u)

(* getUserById answers (it may fail), and there is no such user. *)
IsOrphan(u, answered) == answered /\ ~Live(u)

LookUpUser(r) ==
    /\ requests[r].pc = "look_up_user"
    /\ \E answered \in BOOLEAN :
          IF IsOrphan(requests[r].uid, answered) THEN requests' = GoTo(r, "clean_up")
                                                 ELSE Answer(r, "refused")
    /\ Nothing

CleanUp(r) ==
    /\ requests[r].pc = "clean_up"
    /\ LET i == requests[r].id
       IN  IF Exists(i)
           THEN /\ Commit(r, Dropped(i), Over(r, "refused"))
                /\ lost' = lost \cup LeftBehind(i, requests[r].uid)
           ELSE Answer(r, "refused") /\ UNCHANGED <<accounts, trusted, lost>>
    /\ UNCHANGED <<users, failed>>

-----------------------------------------------------------------------------
(* POST /api/profile/deactivate, of any active account, an administrator's *)
(* included; the password has been verified.                               *)
StartDeactivate(r) ==
    /\ requests[r].pc = "idle"
    /\ \E i \in Ids :
          /\ Exists(i) /\ accounts[i].status = "ACTIVE" /\ ~accounts[i].isDeactivated
          /\ accounts[i].uid # None /\ Live(accounts[i].uid)
          /\ Begin(r, "deactivate", [Idle EXCEPT !.pc = "deactivate", !.id = i])
    /\ Nothing

(* safeDeactivateAccount *)
Deactivate(r) ==
    /\ requests[r].pc = "deactivate"
    /\ LET i == requests[r].id
       IN  IF ~Exists(i) THEN Answer(r, "error") /\ Nothing
           ELSE /\ Commit(r, [accounts EXCEPT ![i] = [@ EXCEPT !.status = "DEACTIVATED",
                                                               !.isDeactivated = TRUE]],
                          Over(r, "ok"))
                /\ UNCHANGED <<users, lost, failed>>

-----------------------------------------------------------------------------
UserStep(r) ==
    \/ StartRegister(r) \/ SignUp(r) \/ RegisterRow(r)
    \/ StartLink(r) \/ LinkUser(r) \/ LinkRow(r)
    \/ StartSignIn(r) \/ FindAccount(r) \/ Activate(r)
    \/ StartReconcile(r) \/ LookUpUser(r) \/ CleanUp(r)
    \/ StartDeactivate(r) \/ Deactivate(r)
=============================================================================
