---------------------------- MODULE AccountAdmin ----------------------------
(***************************************************************************)
(* What administrators do to accounts: the routes under api/accounts.      *)
(*                                                                         *)
(* Transactions are those of TiDB (REPEATABLE READ): find and count look   *)
(* at the snapshot taken when the transaction began, with the writes of    *)
(* the transaction itself; updateMany and delete take the rows as they are *)
(* now.  One that rolls back has written nothing.                          *)
(***************************************************************************)
EXTENDS Accounts

Change == [role : Roles \cup {None}, status : Statuses \cup {None},
           email : Emails \cup {None}]

(* Edits of one field, or a demotion with a new address.                   *)
RoleChanges == {[NoChange EXCEPT !.role = role] : role \in Roles}

StatusChanges == {[NoChange EXCEPT !.status = s] : s \in Statuses \ {"DEACTIVATED"}}

EmailChanges == {[role |-> role, status |-> None, email |-> e] :
                    e \in Emails, role \in {None, "OTHER"}}

Or(new, old) == IF new = None THEN old ELSE new

Changed(row, change) ==
    [row EXCEPT !.role = Or(change.role, @), !.status = Or(change.status, @),
                !.email = Or(change.email, @)]

(* updateMany: the change, in the rows of a set. *)
Updated(set, change) ==
    [i \in Ids |-> IF i \in set THEN Changed(accounts[i], change) ELSE accounts[i]]

(* What a transaction that has written the rows of a set sees. *)
Seen(snap, set, table) == [i \in Ids |-> IF i \in set THEN table[i] ELSE snap[i]]

LastAdminGone_OneTooMany(table) == Cardinality(ActiveAdmins(table)) < 0

(* remaining < 1, counted in the transaction. *)
LastAdminGone(table) == ActiveAdmins(table) = {}

Untouched == UNCHANGED <<accounts, users, trusted, lost, failed>>

-----------------------------------------------------------------------------
(* PATCH /api/accounts/[id] *)

(* Whether an update takes an admin away is decided on the row as read.    *)
DemotesAdmin(row, change) ==
    /\ row.role = "ADMIN"
    /\ change.role \notin {None, "ADMIN"} \/ change.status \notin {None, "ACTIVE"}

(* An administrator may not change his own role, or leave ACTIVE. *)
OwnAccountSafe(change) ==
    change.role \in {None, "ADMIN"} /\ change.status \in {None, "ACTIVE"}

StartPatch(r) ==
    /\ requests[r].pc = "idle"
    /\ \E actor \in trusted, i \in Ids, change \in RoleChanges \cup StatusChanges \cup EmailChanges :
          /\ Exists(i)
          /\ actor = i => OwnAccountSafe(change)
          /\ Begin(r, "patch", [Idle EXCEPT
                !.pc = IF DemotesAdmin(accounts[i], change) THEN "begin_demotion"
                       ELSE IF change.email \notin {None, accounts[i].email} THEN "check_email"
                       ELSE "update",
                !.id = i, !.seen = accounts[i], !.change = change])
    /\ Untouched

EmailTaken_NotUnique(r) == FALSE

(* findUnique by address, and the unique constraint of the column. *)
EmailTaken(r) ==
    RowsWithEmail(accounts, requests[r].change.email) \ {requests[r].id} # {}

CheckEmail(r) ==
    /\ requests[r].pc = "check_email"
    /\ IF EmailTaken(r) THEN Answer(r, "email_taken") ELSE requests' = GoTo(r, "update")
    /\ Untouched

(* A new address is copied to the login user. *)
AfterUpdate(r, i) ==
    LET email == requests[r].change.email
    IN  IF email \notin {None, requests[r].seen.email} /\ accounts[i].uid # None
        THEN [requests[r] EXCEPT !.pc = "sync_email", !.uid = accounts[i].uid]
        ELSE Over(r, "ok")

(* The update that is not guarded: it fails if the row is gone or the      *)
(* address is taken by now.                                                *)
UpdateAccount(r) ==
    /\ requests[r].pc = "update"
    /\ LET i == requests[r].id
           change == requests[r].change
       IN  IF ~Exists(i) \/ EmailTaken(r)
           THEN Answer(r, "error") /\ Untouched
           ELSE /\ Commit(r, Updated({i}, change), AfterUpdate(r, i))
                /\ UNCHANGED <<users, lost, failed>>

BeginDemotion(r) ==
    /\ requests[r].pc = "begin_demotion"
    /\ IF EmailTaken(r)
       THEN Answer(r, "email_taken")
       ELSE requests' = [requests EXCEPT ![r].pc = "demote", ![r].snap = accounts]
    /\ Untouched

(* Only an account that is an active admin now is demoted, and only if     *)
(* the transaction still sees another one.                                 *)
Demote(r) ==
    /\ requests[r].pc = "demote"
    /\ LET i == requests[r].id
           table == Updated({i}, requests[r].change)
       IN  IF i \notin ActiveAdmins(accounts)
           THEN Answer(r, "already_changed") /\ Untouched
           ELSE IF EmailTaken(r) THEN Answer(r, "error") /\ Untouched
           ELSE IF LastAdminGone(Seen(requests[r].snap, {i}, table))
           THEN Answer(r, "last_admin") /\ Untouched
           ELSE Commit(r, table, AfterUpdate(r, i)) /\ UNCHANGED <<users, lost, failed>>

(* The login user takes the new address, or the call fails and is logged. *)
SyncEmail(r) ==
    /\ requests[r].pc = "sync_email"
    /\ LET u == requests[r].uid
           e == requests[r].change.email
       IN  \/ /\ Live(u) /\ ~IsUserEmail(e)
              /\ users' = [users EXCEPT ![u].email = e]
           \/ UNCHANGED users
    /\ Answer(r, "ok")
    /\ UNCHANGED <<accounts, trusted, lost, failed>>

-----------------------------------------------------------------------------
(* POST /api/accounts/batch *)

BatchChanges ==
    RoleChanges \cup {[NoChange EXCEPT !.status = s] : s \in {"ACTIVE", "SUSPENDED"}}

BatchDemotes(set, change) ==
    /\ change.role = "OTHER" \/ change.status = "SUSPENDED"
    /\ set \cap ActiveAdmins(accounts) # {}

StartBatch(r) ==
    /\ requests[r].pc = "idle"
    /\ \E actor \in trusted, set \in SUBSET Ids \ {{}}, change \in BatchChanges :
          LET found == {i \in set : Exists(i)}
          IN  /\ actor \notin set
              /\ found # {}
              /\ Begin(r, "batch", [Idle EXCEPT
                    !.pc = IF BatchDemotes(found, change) THEN "count_outside" ELSE "begin_batch",
                    !.ids = found, !.change = change,
                    !.demotes = BatchDemotes(found, change)])
    /\ Untouched

CountOutside(r) ==
    /\ requests[r].pc = "count_outside"
    /\ IF ActiveAdmins(accounts) \subseteq requests[r].ids
       THEN Answer(r, "last_admin")
       ELSE requests' = GoTo(r, "begin_batch")
    /\ Untouched

BeginBatch(r) ==
    /\ requests[r].pc = "begin_batch"
    /\ requests' = [requests EXCEPT ![r].pc = "batch", ![r].snap = accounts]
    /\ Untouched

(* All active admins the transaction sees are about to be demoted. *)
NoneOutside(snap, live) == live # {} /\ ActiveAdmins(snap) \subseteq live

(* A batch that demotes admins touches those that were still active ones   *)
(* in the snapshot, and no other target; any other batch all its targets.  *)
WriteBatch(r) ==
    /\ requests[r].pc = "batch"
    /\ LET req   == requests[r]
           live  == req.ids \cap ActiveAdmins(req.snap)
           set   == IF req.demotes /\ live # {} THEN live \cap ActiveAdmins(accounts)
                    ELSE {i \in req.ids : Exists(i)}
           table == Updated(set, req.change)
       IN  IF req.demotes /\ (NoneOutside(req.snap, live) \/ LastAdminGone(Seen(req.snap, set, table)))
           THEN Answer(r, "last_admin") /\ Untouched
           ELSE Commit(r, table, Over(r, "ok")) /\ UNCHANGED <<users, lost, failed>>

-----------------------------------------------------------------------------
(* DELETE /api/accounts/[id]/delete *)

StartDelete(r) ==
    /\ requests[r].pc = "idle"
    /\ \E actor \in trusted, i \in Ids :
          /\ actor # i /\ Exists(i)
          /\ Begin(r, "delete", [Idle EXCEPT
                !.pc = IF accounts[i].role = "ADMIN" THEN "count_admins" ELSE "delete_user",
                !.id = i, !.seen = accounts[i], !.uid = accounts[i].uid])
    /\ Untouched

CountAdmins(r) ==
    /\ requests[r].pc = "count_admins"
    /\ IF Cardinality(ActiveAdmins(accounts)) <= 1
       THEN Answer(r, "last_admin")
       ELSE requests' = GoTo(r, "delete_user")
    /\ Untouched

AtRefusal_UserGone(u) ==
    users' = IF u = None THEN users ELSE [users EXCEPT ![u].state = "deleted"]

(* The events are counted before anything is deleted. *)
AtRefusal(u) == UNCHANGED users

(* The login user goes first; if that is not possible the row goes all the *)
(* same.  The account may own events, and is left alone then.              *)
DeleteUser(r) ==
    /\ requests[r].pc = "delete_user"
    /\ LET u    == requests[r].uid
           next == IF requests[r].seen.role = "ADMIN" THEN "begin_delete" ELSE "delete_row"
       IN  \/ Answer(r, "owns_events") /\ AtRefusal(u)
           \/ /\ requests' = GoTo(r, next)
              /\ u # None /\ users' = [users EXCEPT ![u].state = "deleted"]
           \/ requests' = GoTo(r, next) /\ UNCHANGED users
    /\ UNCHANGED <<accounts, trusted, lost, failed>>

BeginDelete(r) ==
    /\ requests[r].pc = "begin_delete"
    /\ IF Cardinality(ActiveAdmins(accounts)) <= 1
       THEN Answer(r, "last_admin") /\ failed' = failed \cup {requests[r].id}
       ELSE requests' = GoTo(r, "delete_row") /\ UNCHANGED failed
    /\ UNCHANGED <<accounts, users, trusted, lost>>

(* The row goes, unless it is gone or owns an event by now.  A login user  *)
(* that could not be removed is reported in the answer and the audit log.  *)
DeleteRow(r) ==
    /\ requests[r].pc = "delete_row"
    /\ LET i == requests[r].id
           u == requests[r].uid
       IN  \/ /\ Exists(i)
              /\ Commit(r, Dropped(i), Over(r, "ok"))
              /\ lost' = lost \cup LeftBehind(i, u)
                              \cup (IF u # None /\ Live(u) THEN {u} ELSE {})
              /\ UNCHANGED <<users, failed>>
           \/ /\ Answer(r, "error")
              /\ failed' = failed \cup {i}
              /\ UNCHANGED <<accounts, users, trusted, lost>>

-----------------------------------------------------------------------------
(* POST /api/accounts/[id]/restore *)

StartRestore(r) ==
    /\ requests[r].pc = "idle"
    /\ \E i \in Ids :
          /\ trusted # {}
          /\ Exists(i) /\ accounts[i].isDeactivated
          /\ Begin(r, "restore", [Idle EXCEPT !.pc = "restore", !.id = i,
                                              !.seen = accounts[i]])
    /\ Untouched

Restored(row, seen) ==
    [row EXCEPT !.isDeactivated = FALSE,
                !.status = IF seen.emailVerified THEN "ACTIVE" ELSE "PENDING_VERIFICATION"]

(* safeRestoreAccount *)
RestoreAccount(r) ==
    /\ requests[r].pc = "restore"
    /\ LET i == requests[r].id
       IN  IF ~Exists(i) THEN Answer(r, "error") /\ Untouched
           ELSE /\ Commit(r, [accounts EXCEPT ![i] = Restored(@, requests[r].seen)], Over(r, "ok"))
                /\ UNCHANGED <<users, lost, failed>>

-----------------------------------------------------------------------------
(* POST /api/accounts/create *)

(* A row of this address that has no login user is deleted (an error is    *)
(* swallowed); any other is a conflict.                                    *)
StartCreate(r) ==
    /\ requests[r].pc = "idle"
    /\ \E e \in Emails, role \in Roles, status \in {"ACTIVE", "SUSPENDED"} :
          LET rows == RowsWithEmail(accounts, e)
          IN  /\ trusted # {}
              /\ \A i \in rows : accounts[i].uid = None
              /\ Begin(r, "create", [Idle EXCEPT
                    !.pc = IF rows = {} THEN "create_user" ELSE "replace",
                    !.id = IF rows = {} THEN None ELSE CHOOSE i \in rows : TRUE,
                    !.change = [role |-> role, status |-> status, email |-> e]])
    /\ Untouched

ReplaceUnlinked(r) ==
    /\ requests[r].pc = "replace"
    /\ LET i == requests[r].id
       IN  \/ /\ Exists(i)
              /\ Commit(r, Dropped(i), [requests[r] EXCEPT !.pc = "create_user"])
              /\ lost' = lost \cup LeftBehind(i, None)
           \/ requests' = GoTo(r, "create_user") /\ UNCHANGED <<accounts, trusted, lost>>
    /\ UNCHANGED <<users, failed>>

CreateLoginUser(r) ==
    /\ requests[r].pc = "create_user"
    /\ LET e == requests[r].change.email
       IN  IF IsUserEmail(e)
           THEN Answer(r, "email_taken") /\ UNCHANGED users
           ELSE \E u \in Uids :
                   /\ CreateUser(u, e, TRUE)
                   /\ requests' = [requests EXCEPT ![r].pc = "create_row", ![r].uid = u]
    /\ UNCHANGED <<accounts, trusted, lost, failed>>

(* account.create: the address is unique. *)
CreateAccount(r) ==
    /\ requests[r].pc = "create_row"
    /\ LET c == requests[r].change
       IN  IF RowsWithEmail(accounts, c.email) # {}
           THEN /\ TakeBack(requests[r].uid) /\ Answer(r, "error")
                /\ UNCHANGED <<accounts, trusted>>
           ELSE \E i \in Ids :
                   /\ accounts[i] = None
                   /\ Commit(r, [accounts EXCEPT ![i] =
                            [email |-> c.email, role |-> c.role, status |-> c.status,
                             isDeactivated |-> FALSE, emailVerified |-> FALSE,
                             uid |-> requests[r].uid]], Over(r, "ok"))
                   /\ UNCHANGED <<users, lost>>
    /\ UNCHANGED failed

-----------------------------------------------------------------------------
AdminStep(r) ==
    \/ StartPatch(r) \/ CheckEmail(r) \/ UpdateAccount(r)
    \/ BeginDemotion(r) \/ Demote(r) \/ SyncEmail(r)
    \/ StartBatch(r) \/ CountOutside(r) \/ BeginBatch(r) \/ WriteBatch(r)
    \/ StartDelete(r) \/ CountAdmins(r) \/ DeleteUser(r) \/ BeginDelete(r) \/ DeleteRow(r)
    \/ StartRestore(r) \/ RestoreAccount(r)
    \/ StartCreate(r) \/ ReplaceUnlinked(r) \/ CreateLoginUser(r) \/ CreateAccount(r)
=============================================================================
