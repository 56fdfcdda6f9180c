------------------------------ MODULE Accounts ------------------------------
(***************************************************************************)
(* The account rows of the database and the users of the authentication    *)
(* service, which have to agree, and the requests that work on them.  The  *)
(* handlers are in AccountAdmin (what administrators do) and Registration  *)
(* (what a user does about an account of his own); AccountRequests puts    *)
(* them together.                                                          *)
(*                                                                         *)
(* A request is a process; its pc names the call it does next.  What it    *)
(* has read is kept in its record and may be out of date.  Nothing forces  *)
(* a request on: one that stops is an instance that died.                  *)
(***************************************************************************)
EXTENDS Naturals, FiniteSets

CONSTANTS Ids,              \* account ids, of rows there are or may be
          Uids,             \* ids of users of the authentication service
          Emails,
          Requests,
          None,
          Gone              \* a row that was deleted: its id is not used again

ASSUME AccountsAssumption == None \notin Ids \cup Uids \cup Emails

VARIABLES accounts,         \* table Account, by id
          users,            \* the users of the authentication service, by uid
          trusted,          \* who passes for an admin, cached sessions included
          requests,
          lost,             \* history: users left behind by a call that failed
          failed            \* history: rows whose deletion failed half way

vars == <<accounts, users, trusted, requests, lost, failed>>

(* The roles ORGANIZER and USER are one here: the guards know ADMIN only. *)
Roles == {"ADMIN", "OTHER"}

Statuses == {"PENDING_VERIFICATION", "ACTIVE", "SUSPENDED", "DEACTIVATED"}

AccountRow ==
    [email : Emails, role : Roles, status : Statuses, isDeactivated : BOOLEAN,
     emailVerified : BOOLEAN, uid : Uids \cup {None}]

(* A row is told from the marks of one that is not there. *)
ASSUME RowsAssumption == Gone # None /\ AccountRow \cap {None, Gone} = {}

(* A user; reused is history: whether signUp has answered with this id     *)
(* without creating a user.                                                *)
User == [state : {"unused", "live", "deleted"}, email : Emails \cup {None},
         confirmed : BOOLEAN, reused : BOOLEAN]

Unused == [state |-> "unused", email |-> None, confirmed |-> FALSE, reused |-> FALSE]

Exists(i) == accounts[i] \notin {None, Gone}

(* accounts that count({role: "ADMIN", status: "ACTIVE"}) counts in a table *)
ActiveAdmins(table) ==
    {i \in Ids : /\ table[i] \notin {None, Gone}
                 /\ table[i].role = "ADMIN" /\ table[i].status = "ACTIVE"}

(* Who may act as an administrator when the row is read afresh. *)
Admitted(table) == {i \in ActiveAdmins(table) : ~table[i].isDeactivated}

RowsWithEmail(table, e) == {i \in Ids : table[i] \notin {None, Gone} /\ table[i].email = e}

RowsWithUid(u) == {i \in Ids : Exists(i) /\ accounts[i].uid = u}

Live(u) == users[u].state = "live"

IsUserEmail(e) == \E u \in Uids : Live(u) /\ users[u].email = e

-----------------------------------------------------------------------------
(* Requests.  id is the row at work, seen what was read of it; change the  *)
(* update asked for; ids the targets of a batch; snap the snapshot of a    *)
(* transaction; uid the user at work; stale the rows that others wrote     *)
(* since the request began.                                                *)
NoChange == [role |-> None, status |-> None, email |-> None]

Idle == [pc |-> "idle", kind |-> None, id |-> None, seen |-> None, change |-> NoChange,
         ids |-> {}, demotes |-> FALSE, snap |-> None, uid |-> None, stale |-> {},
         reply |-> None]

InFlight(r) == requests[r].pc \notin {"idle", "done"}

Begin(r, kind, fields) ==
    requests' = [requests EXCEPT ![r] = [fields EXCEPT !.kind = kind]]

GoTo(r, pc) == [requests EXCEPT ![r].pc = pc]

(* A request that is over keeps what the properties look at. *)
Over(r, reply) ==
    [Idle EXCEPT !.pc = "done", !.kind = requests[r].kind, !.reply = reply,
                 !.stale = requests[r].stale, !.id = requests[r].id]

Answer(r, reply) == requests' = [requests EXCEPT ![r] = Over(r, reply)]

(* A step of r that writes rows: the other requests in flight do not see   *)
(* it, or only when they read again.                                       *)
Commit(r, table, next) ==
    /\ accounts' = table
    /\ requests' = [q \in Requests |->
          IF q = r THEN next
          ELSE IF InFlight(q)
          THEN [requests[q] EXCEPT !.stale = @ \cup {i \in Ids : table[i] # accounts[i]}]
          ELSE requests[q]]
    /\ trusted' = trusted \cup Admitted(table)

(* A call to the authentication service that creates a user; createUser    *)
(* refuses an address that is taken.                                       *)
CreateUser(u, e, confirmed) ==
    /\ users[u].state = "unused"
    /\ users' = [users EXCEPT ![u] = [Unused EXCEPT !.state = "live", !.email = e,
                                                    !.confirmed = confirmed]]

(* The row could not be written: the user is removed, unless that fails    *)
(* too, whether the request made him or signUp answered with one there was.*)
TakeBack_Forgotten(u) == UNCHANGED <<users, lost>>

TakeBack(u) ==
    \/ users' = [users EXCEPT ![u].state = "deleted"] /\ UNCHANGED lost
    \/ lost' = lost \cup {u} /\ UNCHANGED users

(* A row is deleted.  A user it got since the request read it stays.       *)
Dropped(i) == [accounts EXCEPT ![i] = Gone]

LeftBehind(i, uid) ==
    IF Exists(i) THEN {accounts[i].uid} \ {uid, None} ELSE {}

-----------------------------------------------------------------------------
(* The cached session of an administrator lapses. *)
Forget(i) ==
    /\ i \in trusted \ Admitted(accounts)
    /\ trusted' = trusted \ {i}
    /\ UNCHANGED <<accounts, users, requests, lost, failed>>

(* The user clicks the link of the confirmation mail. *)
ConfirmEmail(u) ==
    /\ Live(u) /\ ~users[u].confirmed
    /\ users' = [users EXCEPT ![u].confirmed = TRUE]
    /\ UNCHANGED <<accounts, trusted, requests, lost, failed>>
=============================================================================
