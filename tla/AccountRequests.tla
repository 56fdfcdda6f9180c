--------------------------- MODULE AccountRequests ---------------------------
(***************************************************************************)
(* All requests that change account rows or login users, and what they     *)
(* keep of the two tables together.                                        *)
(***************************************************************************)
EXTENDS AccountAdmin, Registration

CONSTANT InitialTables      \* tables a system may be in before the requests

(* Addresses and login users are unique among the rows of a table.         *)
Unique(table) ==
    \A i, j \in Ids :
        table[i] \notin {None, Gone} /\ table[j] \notin {None, Gone} /\ i # j =>
            /\ table[i].email # table[j].email
            /\ table[i].uid = table[j].uid => table[i].uid = None

ASSUME AccountRequestsAssumption ==
    \A table \in InitialTables :
        table \in [Ids -> AccountRow \cup {None}] /\ Unique(table)

(* Every linked row has its login user, with the row's address. *)
UserOf(table, u) ==
    LET rows == {i \in Ids : table[i] # None /\ table[i].uid = u}
    IN  IF rows = {} THEN Unused
        ELSE [state |-> "live", email |-> table[CHOOSE i \in rows : TRUE].email,
              confirmed |-> table[CHOOSE i \in rows : TRUE].status # "PENDING_VERIFICATION",
              reused |-> FALSE]

Init ==
    /\ accounts \in InitialTables
    /\ users = [u \in Uids |-> UserOf(accounts, u)]
    /\ trusted = Admitted(accounts)
    /\ requests = [r \in Requests |-> Idle]
    /\ lost = {} /\ failed = {}

Next ==
    \/ \E r \in Requests : AdminStep(r) \/ UserStep(r)
    \/ \E i \in Ids : Forget(i)
    \/ \E u \in Uids : ConfirmEmail(u)

Spec == Init /\ [][Next]_vars

-----------------------------------------------------------------------------
(* Properties. *)

AdminKinds == {"patch", "batch", "delete", "restore", "create"}

Kinds == AdminKinds \cup {"register", "link", "callback", "login", "reconcile", "deactivate"}

Replies ==
    {"ok", "created", "mailed", "activated", "refused", "error", "email_taken",
     "already_changed", "last_admin", "owns_events"} \cup Statuses

Request ==
    [pc : {"idle", "done", "check_email", "update", "begin_demotion", "demote", "sync_email",
           "count_outside", "begin_batch", "batch", "count_admins", "delete_user",
           "begin_delete", "delete_row", "restore", "replace", "create_user", "create_row",
           "sign_up", "register_row", "link_user", "link_row", "find_account", "activate",
           "look_up_user", "clean_up", "deactivate"},
     kind : Kinds \cup {None}, id : Ids \cup {None}, seen : AccountRow \cup {None},
     change : Change, ids : SUBSET Ids, demotes : BOOLEAN,
     snap : [Ids -> AccountRow \cup {None, Gone}] \cup {None}, uid : Uids \cup {None},
     stale : SUBSET Ids, reply : Replies \cup {None}]

(* Every row, user and request is of its type; addresses and login users   *)
(* are unique among the rows, as the schema has it.                        *)
TypeOK ==
    /\ accounts \in [Ids -> AccountRow \cup {None, Gone}]
    /\ users \in [Uids -> User]
    /\ trusted \subseteq Ids
    /\ requests \in [Requests -> Request]
    /\ lost \subseteq Uids /\ failed \subseteq Ids
    /\ Unique(accounts)

(* The request that takes this step: the others' program counters stay.    *)
Moves(r) == requests'[r].pc # requests[r].pc

(* A step that leaves no active admin is of a route that does not guard    *)
(* him, or of a request that another one overtook.                         *)
KeepsAnAdmin ==
    ActiveAdmins(accounts) # {} /\ ActiveAdmins(accounts') = {} =>
        \E r \in Requests :
           /\ Moves(r)
           /\ requests[r].kind \in {"patch", "batch", "delete"} => requests[r].stale # {}

(* The last active admin is never demoted, suspended or deleted, alone or  *)
(* in a batch, on the strength of what was true when the request began:    *)
(* that takes another request's write in between (the residual race the    *)
(* code admits), or the admin's own deactivation, or a row without a login *)
(* user that is replaced or cleaned up.                                    *)
GuardedRoutesKeepAnAdmin == [][KeepsAnAdmin]_vars

(* No login user is left without an account row, whatever requests race or *)
(* die, but for those a request still has in hand and those that a failing *)
(* call or an overtaken deletion is known to leave behind.                 *)
NoUserWithoutRow ==
    \A u \in Uids :
        Live(u) => \/ RowsWithUid(u) # {}
                   \/ u \in lost
                   \/ \E r \in Requests : InFlight(r) /\ requests[r].uid = u

(* No linked row is left without its login user, but for a deletion that   *)
(* is under way or failed after the user was deleted, and for a user that  *)
(* signUp answered with though the request had not made him: another       *)
(* registration of the address removes him, or he never was.               *)
NoRowWithoutUser ==
    \A i \in Ids :
        Exists(i) /\ accounts[i].uid # None /\ ~Live(accounts[i].uid) =>
            \/ users[accounts[i].uid].reused
            \/ i \in failed
            \/ \E r \in Requests : InFlight(r) /\ requests[r].kind = "delete"
                                              /\ requests[r].id = i

(* Whoever makes an account active in this step may do so.                 *)
EarnsActivation ==
    \A i \in Ids :
        Exists(i) /\ Exists(i)' /\ accounts[i].status # "ACTIVE"
                  /\ accounts'[i].status = "ACTIVE" =>
            \E r \in Requests :
               /\ Moves(r)
               /\ \/ requests[r].kind \in AdminKinds
                  \/ /\ users[requests[r].uid].confirmed
                     /\ \/ /\ accounts[i].status = "PENDING_VERIFICATION"
                           /\ accounts[i].uid = requests[r].uid
                        \/ i \in requests[r].stale

(* An account becomes active only by an administrator, or by a sign-in of  *)
(* a login user with a confirmed address, whose account it is and pending  *)
(* until this very step, unless another request wrote the row since the    *)
(* sign-in read it.  (Then the write is blind: an account that was         *)
(* suspended in between comes back.)                                       *)
ActivationIsEarned == [][EarnsActivation]_vars

(* The answer of a demotion that "this account's role or status just       *)
(* changed" is given only when another request changed the row.            *)
ConflictMeansChanged ==
    \A r \in Requests :
        requests[r].reply = "already_changed" => requests[r].id \in requests[r].stale

(* There is always an active administrator. *)
AnAdminRemains == ActiveAdmins(accounts) # {}
=============================================================================
