---------------------------- MODULE AccountsProofs ----------------------------
(***************************************************************************)
(* What the requests of AccountRequests keep of the account rows and the   *)
(* login users together, for any number of requests, rows, users and       *)
(* addresses, and whatever tables they start from.                         *)
(***************************************************************************)
EXTENDS AccountRequests, FiniteSetTheorems, TLAPS

(* The steps of a request by what they are part of. *)
PatchPcs == {"check_email", "update", "begin_demotion", "demote", "sync_email"}

BatchPcs == {"count_outside", "begin_batch", "batch"}

(* A deletion before and after its login user is deleted. *)
Deleting == {"count_admins", "delete_user"}

Deleted == {"begin_delete", "delete_row"}

CreatePcs == {"replace", "create_user", "create_row"}

SignInPcs == {"find_account", "activate"}

(* A request that made a login user and has yet to write the row. *)
Owning == {"create_row", "register_row", "link_row"}

WithRow ==
    PatchPcs \cup Deleting \cup Deleted
    \cup {"restore", "replace", "link_user", "link_row", "activate", "look_up_user", "clean_up",
          "deactivate"}

WithSeen == PatchPcs \cup Deleting \cup Deleted \cup {"restore", "activate"}

WithUser == Owning \cup SignInPcs \cup {"sync_email", "look_up_user", "clean_up"}

WithEmail == Owning \cup {"sync_email", "create_user", "sign_up", "link_user"}

Tables == [Ids -> AccountRow \cup {None, Gone}]

RequestOK(q) ==
    /\ q \in Request
    /\ q.pc \in PatchPcs => q.kind = "patch"
    /\ q.pc \in BatchPcs => q.kind = "batch" /\ q.change \in BatchChanges
    /\ q.pc \in Deleting \cup Deleted => q.kind = "delete"
    /\ q.pc = "restore" => q.kind = "restore"
    /\ q.pc \in CreatePcs => /\ q.kind = "create"
                             /\ q.change.role \in Roles
                             /\ q.change.status \in {"ACTIVE", "SUSPENDED"}
                             /\ q.change.email \in Emails
    /\ q.pc \in {"sign_up", "register_row"} => q.kind = "register"
    /\ q.pc \in {"link_user", "link_row"} => q.kind = "link"
    /\ q.pc \in SignInPcs => q.kind \in {"callback", "login"}
    /\ q.pc \in {"look_up_user", "clean_up"} => q.kind = "reconcile"
    /\ q.pc = "deactivate" => q.kind = "deactivate"
    /\ q.pc \in WithRow => q.id \in Ids
    /\ q.pc \in WithSeen => q.seen \in AccountRow
    /\ q.pc \in WithUser => q.uid \in Uids
    /\ q.pc \in WithEmail => q.change.email \in Emails
    /\ q.pc \in {"demote", "batch"} => q.snap \in Tables

TypeInv ==
    /\ accounts \in Tables
    /\ users \in [Uids -> User]
    /\ trusted \subseteq Ids
    /\ requests \in [Requests -> Request]
    /\ \A r \in Requests : RequestOK(requests[r])
    /\ lost \subseteq Uids /\ failed \subseteq Ids

(* Addresses are unique. *)
EmailInv ==
    \A i, j \in Ids : Exists(i) /\ Exists(j) /\ i # j => accounts[i].email # accounts[j].email

-----------------------------------------------------------------------------
(* Who has which login user.  Rows matter by the user they are linked to   *)
(* only, users by their state.                                             *)

UidOf(i) == IF Exists(i) THEN accounts[i].uid ELSE None

Used(u) == users[u].state # "unused"

(* A user that only the request which made it can have come by: signUp has *)
(* not answered with it to another one.                                    *)
Sole(u) == ~users[u].reused

(* Each user belongs to one row at most, and one that is not shared, if not*)
(* to a row, to the one request that made it.  What administrators and     *)
(* mails make is never shared.                                             *)
OneOwner ==
    /\ \A i, j \in Ids : UidOf(i) = UidOf(j) /\ UidOf(i) # None => i = j
    /\ \A i \in Ids : UidOf(i) # None => Used(UidOf(i))
    /\ \A r \in Requests : InFlight(r) /\ requests[r].uid # None => Used(requests[r].uid)
    /\ \A r \in Requests :
          requests[r].pc \in Owning /\ Sole(requests[r].uid) =>
              /\ Live(requests[r].uid)
              /\ \A i \in Ids : UidOf(i) # requests[r].uid
              /\ \A x \in Requests \ {r} :
                    requests[x].pc \in Owning \cup Deleting => requests[x].uid # requests[r].uid
    /\ \A r \in Requests :
          requests[r].pc \in Deleting /\ requests[r].uid # None /\ Sole(requests[r].uid) =>
              \A i \in Ids : UidOf(i) = requests[r].uid => i = requests[r].id
    /\ \A r \in Requests :
          requests[r].pc = "clean_up" => users[requests[r].uid].state = "deleted"
    /\ \A r \in Requests :
          requests[r].pc \in {"create_row", "link_row"} => Sole(requests[r].uid)

(* No user without a row, a request that made it, or a reason. *)
UsersCovered ==
    \A u \in Uids :
        Live(u) => \/ \E i \in Ids : UidOf(i) = u
                   \/ u \in lost
                   \/ \E r \in Requests : requests[r].pc \in Owning /\ requests[r].uid = u

(* No row linked to a user who is not shared without that user, a deletion *)
(* that took him, or a reason.                                             *)
RowsCovered ==
    \A i \in Ids :
        UidOf(i) # None /\ Sole(UidOf(i)) /\ ~Live(UidOf(i)) =>
            \/ i \in failed
            \/ \E r \in Requests : requests[r].pc \in Deleted /\ requests[r].id = i

UserInv == OneOwner /\ UsersCovered /\ RowsCovered

-----------------------------------------------------------------------------
(* What a request knows as long as nobody else has written. *)

Known(q) ==
    /\ q.pc \in {"check_email", "update"} =>
          accounts[q.id] = q.seen /\ ~DemotesAdmin(q.seen, q.change)
    /\ q.pc \in {"demote", "batch"} => q.snap = accounts
    /\ q.pc \in BatchPcs => q.demotes \/ ~BatchDemotes(q.ids, q.change)
    /\ q.pc \in Deleting \cup Deleted => accounts[q.id] = q.seen
    /\ q.pc = "delete_row" /\ q.seen.role = "ADMIN" => ~(ActiveAdmins(accounts) \subseteq {q.id})

KnownInv == \A r \in Requests : requests[r].stale = {} => Known(requests[r])

(* A callback is of a confirmed address, and so is an activation, of the   *)
(* user's own row, pending unless others wrote it since it was read.  The  *)
(* users that administrators and mails make are confirmed from the start.  *)
Confirmed(q) ==
    /\ q.pc \in SignInPcs /\ q.kind = "callback" => users[q.uid].confirmed
    /\ q.pc = "activate" =>
          /\ users[q.uid].confirmed
          /\ q.id \notin q.stale =>
                accounts[q.id].status = "PENDING_VERIFICATION" /\ accounts[q.id].uid = q.uid
    /\ q.pc \in {"create_row", "link_row"} => users[q.uid].confirmed

ConfirmedInv == \A r \in Requests : Confirmed(requests[r])

Inv == TypeInv /\ EmailInv /\ UserInv /\ KnownInv /\ ConfirmedInv

-----------------------------------------------------------------------------
(* Steps by what they do to the requests.  A request that takes a step may *)
(* become anything; the others keep all but stale, which tells whether the *)
(* rows are still what they were.                                          *)

Keeps(p, q) ==
    /\ q.pc = p.pc /\ q.kind = p.kind /\ q.id = p.id /\ q.seen = p.seen /\ q.change = p.change
    /\ q.ids = p.ids /\ q.demotes = p.demotes /\ q.snap = p.snap /\ q.uid = p.uid
    /\ q.stale = {} /\ p.pc \notin {"idle", "done"} => p.stale = {} /\ accounts' = accounts
    /\ \A i \in Ids : i \notin q.stale /\ p.pc \notin {"idle", "done"} =>
                        i \notin p.stale /\ accounts'[i] = accounts[i]

Others(r) == \A x \in Requests \ {r} : Keeps(requests[x], requests'[x])

(* The others keep stale as well, in a step that writes no row. *)
Alone(r) ==
    /\ requests' = [x \in Requests |-> requests'[x]]
    /\ \A x \in Requests \ {r} : requests'[x] = requests[x]

LEMMA KeepsOK ==
  ASSUME NEW p, NEW q, RequestOK(p), Keeps(p, q), q \in Request
  PROVE  RequestOK(q)
BY DEF RequestOK, Keeps

LEMMA AloneStep ==
  ASSUME TypeInv, NEW r \in Requests, Alone(r), RequestOK(requests'[r]), UNCHANGED accounts
  PROVE  /\ requests' \in [Requests -> Request]
         /\ \A x \in Requests : RequestOK(requests'[x])
         /\ Others(r)
<1>1. \A x \in Requests : requests'[x] \in Request /\ RequestOK(requests'[x])
  BY DEF TypeInv, RequestOK, Alone
<1>2. requests' \in [Requests -> Request]
  BY <1>1 DEF Alone
<1>3. Others(r)
  BY DEF Others, Keeps, Alone
<1> QED BY <1>1, <1>2, <1>3

LEMMA CommitStep ==
  ASSUME TypeInv, NEW r \in Requests, NEW q, RequestOK(q), NEW table \in Tables,
         Commit(r, table, q)
  PROVE  /\ accounts' = table
         /\ trusted' \subseteq Ids
         /\ requests' \in [Requests -> Request]
         /\ \A x \in Requests : RequestOK(requests'[x])
         /\ requests'[r] = q
         /\ Others(r)
<1>1. requests \in [Requests -> Request] /\ q \in Request /\ accounts \in Tables
  BY DEF TypeInv, RequestOK
<1>2. accounts' = table /\ requests'[r] = q /\ trusted' = trusted \cup Admitted(table)
  BY DEF Commit
<1>3. trusted' \subseteq Ids
  BY <1>2 DEF TypeInv, Admitted, ActiveAdmins
<1>4. ASSUME NEW x \in Requests \ {r}
      PROVE  Keeps(requests[x], requests'[x]) /\ requests'[x] \in Request
  <2> DEFINE written == {i \in Ids : table[i] # accounts[i]}
             p == requests[x]
  <2>1. p \in Request
    BY <1>1
  <2>2. CASE InFlight(x)
    <3>1. requests'[x] = [p EXCEPT !.stale = @ \cup written]
      BY <2>2 DEF Commit
    <3>2. requests'[x].stale = p.stale \cup written
      BY <2>1, <3>1 DEF Request
    <3>3. written = {} => table = accounts
      BY <1>1 DEF Tables
    <3>9. \A i \in Ids : i \notin requests'[x].stale => i \notin p.stale /\ table[i] = accounts[i]
      BY <3>2
    <3>4. written \subseteq Ids /\ p.stale \subseteq Ids
      BY <2>1 DEF Request
    <3> HIDE DEF written, p
    <3>5. requests'[x] \in Request
      BY <2>1, <3>1, <3>4 DEF Request
    <3>6. requests'[x].pc = p.pc /\ requests'[x].kind = p.kind /\ requests'[x].id = p.id
          /\ requests'[x].seen = p.seen /\ requests'[x].change = p.change
      BY <2>1, <3>1 DEF Request
    <3>7. requests'[x].ids = p.ids /\ requests'[x].demotes = p.demotes
          /\ requests'[x].snap = p.snap /\ requests'[x].uid = p.uid
      BY <2>1, <3>1 DEF Request
    <3>8. Keeps(p, requests'[x])
      BY <1>2, <3>2, <3>3, <3>6, <3>7, <3>9 DEF Keeps
    <3> QED BY <3>5, <3>8 DEF p
  <2>3. CASE ~InFlight(x)
    <3>1. requests'[x] = p
      BY <2>3 DEF Commit
    <3> QED BY <2>1, <2>3, <3>1 DEF Keeps, InFlight
  <2> QED BY <2>2, <2>3
<1>5. requests' = [x \in Requests |-> requests'[x]]
  BY DEF Commit
<1>6. ASSUME NEW x \in Requests
      PROVE  RequestOK(requests'[x]) /\ requests'[x] \in Request
  <2>1. CASE x = r
    BY <1>1, <1>2, <2>1
  <2>2. CASE x # r
    <3>1. RequestOK(requests[x])
      BY DEF TypeInv
    <3> QED BY <1>4, <2>2, <3>1, KeepsOK
  <2> QED BY <2>1, <2>2
<1>7. requests' \in [Requests -> Request]
  BY <1>5, <1>6
<1> QED BY <1>2, <1>3, <1>4, <1>6, <1>7 DEF Others

LEMMA RequestAt ==
  ASSUME TypeInv, NEW r \in Requests
  PROVE  RequestOK(requests[r]) /\ requests[r] \in Request
BY DEF TypeInv, RequestOK

(* A request that is over. *)
LEMMA OverOK ==
  ASSUME TypeInv, NEW r \in Requests, NEW reply \in Replies
  PROVE  /\ RequestOK(Over(r, reply))
         /\ Over(r, reply).pc = "done" /\ Over(r, reply).uid = None
         /\ Over(r, reply).id = requests[r].id
<1> DEFINE p == requests[r]
           q == Over(r, reply)
<1>1. p \in Request
  BY DEF TypeInv
<1>2. q.pc = "done" /\ q.uid = None /\ q.id = p.id
  BY DEF Over, Idle
<1>3. q \in Request
  BY <1>1 DEF Over, Idle, Request, NoChange, Change
<1> HIDE DEF q
<1>4. RequestOK(q)
  BY <1>2, <1>3
     DEF RequestOK, PatchPcs, BatchPcs, Deleting, Deleted, CreatePcs, SignInPcs, Owning, WithRow,
         WithSeen, WithUser, WithEmail
<1> QED BY <1>2, <1>4 DEF q

-----------------------------------------------------------------------------
(* Rows, users and the requests between them. *)

(* For the others nothing changes in what UserInv says of a request. *)
LEMMA OthersUser ==
  ASSUME NEW r \in Requests, Others(r), NEW x \in Requests, x # r
  PROVE  /\ requests'[x].pc = requests[x].pc
         /\ requests'[x].uid = requests[x].uid
         /\ requests'[x].id = requests[x].id
         /\ InFlight(x)' <=> InFlight(x)
BY DEF Others, Keeps, InFlight

(* A step that links no row and touches no user: the request may not drop  *)
(* a user it made or a row whose user it took without leaving a reason,    *)
(* and the user it comes to work on is known.                              *)
MayBecome(r, q) ==
    /\ q.pc \notin Owning
    /\ q.pc \notin {"idle", "done"} /\ q.uid # None => Used(q.uid)
    /\ q.pc \in Deleting /\ q.uid # None /\ Sole(q.uid) =>
          /\ \A i \in Ids : UidOf(i) = q.uid => i = q.id
          /\ \A x \in Requests \ {r} : requests[x].pc \in Owning => requests[x].uid # q.uid
    /\ q.pc = "clean_up" => users[q.uid].state = "deleted"

SameLinks == \A i \in Ids : UidOf(i)' = UidOf(i)

SameStates ==
    \A u \in Uids : users'[u].state = users[u].state /\ users'[u].reused = users[u].reused

LEMMA QuietUsers ==
  ASSUME TypeInv, TypeInv', UserInv, NEW r \in Requests, Others(r), SameLinks, SameStates,
         lost \subseteq lost', failed \subseteq failed',
         MayBecome(r, requests'[r]),
         requests[r].pc \in Owning => requests[r].uid \in lost',
         requests[r].pc \in Deleted =>
             \/ requests'[r].pc \in Deleted /\ requests'[r].id = requests[r].id
             \/ requests[r].id \in failed'
  PROVE  UserInv'
<1> DEFINE q == requests'[r]
<1>1. \A i \in Ids : UidOf(i)' = UidOf(i) /\ (UidOf(i) # None => UidOf(i) \in Uids)
  BY DEF SameLinks, UidOf, TypeInv, Tables, AccountRow, Exists
<1>2. \A u \in Uids : (Used(u)' <=> Used(u)) /\ (Live(u)' <=> Live(u))
                      /\ (Sole(u)' <=> Sole(u)) /\ users'[u].state = users[u].state
  BY DEF SameStates, Used, Live, Sole
<1>3. \A x \in Requests : requests'[x] \in Request /\ RequestOK(requests'[x])
  BY DEF TypeInv
<1>4. \A x \in Requests : requests'[x].uid # None => requests'[x].uid \in Uids
  BY <1>3 DEF Request
<1>5. OneOwner'
  <2>1. \A i, j \in Ids : UidOf(i)' = UidOf(j)' /\ UidOf(i)' # None => i = j
    BY <1>1 DEF UserInv, OneOwner
  <2>2. \A i \in Ids : UidOf(i)' # None => Used(UidOf(i))'
    BY <1>1, <1>2 DEF UserInv, OneOwner
  <2>3. ASSUME NEW x \in Requests, InFlight(x)', requests'[x].uid # None
        PROVE  Used(requests[x].uid)'
    <3>1. Used(requests'[x].uid)
      <4>1. CASE x = r
        BY <2>3, <4>1 DEF MayBecome, InFlight
      <4>2. CASE x # r
        BY <2>3, <4>2, OthersUser DEF UserInv, OneOwner
      <4> QED BY <4>1, <4>2
    <3> QED BY <1>2, <1>4, <2>3, <3>1
  <2>4. ASSUME NEW x \in Requests, requests'[x].pc \in Owning, Sole(requests[x].uid)'
        PROVE  /\ Live(requests[x].uid)'
               /\ \A i \in Ids : UidOf(i)' # requests'[x].uid
               /\ \A y \in Requests \ {x} :
                     requests'[y].pc \in Owning \cup Deleting => requests'[y].uid # requests'[x].uid
    <3>1. x # r
      BY <2>4 DEF MayBecome
    <3>2. requests[x].pc \in Owning /\ requests'[x].uid = requests[x].uid
      BY <2>4, <3>1, OthersUser
    <3>6. requests'[x].uid \in Uids
      BY <1>3, <2>4 DEF RequestOK, WithUser
    <3>7. Sole(requests'[x].uid)
      BY <1>2, <2>4, <3>6
    <3>3. Live(requests'[x].uid) /\ requests'[x].uid \in Uids
      BY <3>2, <3>6, <3>7 DEF UserInv, OneOwner
    <3>4. \A i \in Ids : UidOf(i)' # requests'[x].uid
      BY <1>1, <3>2, <3>7 DEF UserInv, OneOwner
    <3>5. ASSUME NEW y \in Requests \ {x}, requests'[y].pc \in Owning \cup Deleting
          PROVE  requests'[y].uid # requests'[x].uid
      <4>1. CASE y = r
        <5>1. requests'[y].pc \in Deleting
          BY <3>5, <4>1 DEF MayBecome
        <5>2. requests[x].uid \in Uids /\ requests[x].uid # None
          BY <3>2, <3>3, AccountsAssumption
        <5> QED BY <3>1, <3>2, <3>7, <4>1, <5>1, <5>2 DEF MayBecome
      <4>2. CASE y # r
        BY <3>2, <3>5, <3>7, <4>2, OthersUser DEF UserInv, OneOwner
      <4> QED BY <4>1, <4>2
    <3> QED BY <1>2, <3>3, <3>4, <3>5
  <2>5. ASSUME NEW x \in Requests, requests'[x].pc \in Deleting, requests'[x].uid # None,
               Sole(requests[x].uid)',
               NEW i \in Ids, UidOf(i)' = requests'[x].uid
        PROVE  i = requests'[x].id
    <3>0. Sole(requests'[x].uid)
      BY <1>2, <1>4, <2>5
    <3>1. CASE x = r
      BY <1>1, <2>5, <3>0, <3>1 DEF MayBecome
    <3>2. CASE x # r
      BY <1>1, <2>5, <3>0, <3>2, OthersUser DEF UserInv, OneOwner
    <3> QED BY <3>1, <3>2
  <2>6. ASSUME NEW x \in Requests, requests'[x].pc = "clean_up"
        PROVE  users'[requests'[x].uid].state = "deleted"
    <3>1. requests'[x].uid \in Uids
      BY <1>3, <2>6 DEF RequestOK, WithUser
    <3>2. users[requests'[x].uid].state = "deleted"
      <4>1. CASE x = r
        BY <2>6, <4>1 DEF MayBecome
      <4>2. CASE x # r
        BY <2>6, <4>2, OthersUser DEF UserInv, OneOwner
      <4> QED BY <4>1, <4>2
    <3> QED BY <1>2, <3>1, <3>2
  <2>7. ASSUME NEW x \in Requests, requests'[x].pc \in {"create_row", "link_row"}
        PROVE  Sole(requests[x].uid)'
    <3>1. x # r
      BY <2>7 DEF MayBecome, Owning
    <3>2. Sole(requests'[x].uid) /\ requests'[x].uid \in Uids
      BY <1>3, <2>7, <3>1, OthersUser DEF UserInv, OneOwner, RequestOK, WithUser, Owning
    <3> QED BY <1>2, <3>2
  <2> QED BY <2>1, <2>2, <2>3, <2>4, <2>5, <2>6, <2>7 DEF OneOwner
<1>6. UsersCovered'
  <2> SUFFICES ASSUME NEW u \in Uids, Live(u)'
               PROVE  \/ \E i \in Ids : UidOf(i)' = u
                      \/ u \in lost'
                      \/ \E x \in Requests : requests'[x].pc \in Owning /\ requests'[x].uid = u
    BY DEF UsersCovered
  <2>1. \/ \E i \in Ids : UidOf(i) = u
        \/ u \in lost
        \/ \E x \in Requests : requests[x].pc \in Owning /\ requests[x].uid = u
    BY <1>2 DEF UserInv, UsersCovered
  <2>2. ASSUME NEW x \in Requests, requests[x].pc \in Owning, requests[x].uid = u, u \notin lost'
        PROVE  requests'[x].pc \in Owning /\ requests'[x].uid = u
    <3>1. x # r
      BY <2>2
    <3> QED BY <2>2, <3>1, OthersUser
  <2> QED BY <1>1, <2>1, <2>2
<1>7. RowsCovered'
  <2> SUFFICES ASSUME NEW i \in Ids, UidOf(i)' # None, Sole(UidOf(i))',
                      ~Live(UidOf(i))'
               PROVE  \/ i \in failed'
                      \/ \E x \in Requests : requests'[x].pc \in Deleted /\ requests'[x].id = i
    BY DEF RowsCovered
  <2>1. UidOf(i) # None /\ Sole(UidOf(i)) /\ ~Live(UidOf(i))
    BY <1>1, <1>2
  <2>2. \/ i \in failed
        \/ \E x \in Requests : requests[x].pc \in Deleted /\ requests[x].id = i
    BY <2>1 DEF UserInv, RowsCovered
  <2>3. ASSUME NEW x \in Requests, requests[x].pc \in Deleted, requests[x].id = i, i \notin failed'
        PROVE  requests'[x].pc \in Deleted /\ requests'[x].id = i
    <3>1. CASE x = r
      BY <2>3, <3>1
    <3>2. CASE x # r
      BY <2>3, <3>2, OthersUser
    <3> QED BY <3>1, <3>2
  <2> QED BY <2>2, <2>3
<1> QED BY <1>5, <1>6, <1>7 DEF UserInv

(* A login user is made by a request that will write its row. *)
LEMMA UserMade ==
  ASSUME TypeInv, TypeInv', UserInv, NEW r \in Requests, Others(r), SameLinks,
         NEW u \in Uids, users[u].state = "unused", users'[u].state = "live",
         ~users'[u].reused,
         \A v \in Uids \ {u} : /\ users'[v].state = users[v].state
                               /\ users'[v].reused = users[v].reused,
         UNCHANGED <<lost, failed>>,
         requests[r].pc \notin Owning \cup Deleted,
         requests'[r].pc \in Owning, requests'[r].uid = u
  PROVE  UserInv'
<1>1. \A i \in Ids : UidOf(i)' = UidOf(i) /\ (UidOf(i) # None => UidOf(i) \in Uids \ {u})
  BY DEF SameLinks, UidOf, TypeInv, Tables, AccountRow, Exists, UserInv, OneOwner, Used
<1>2. \A v \in Uids \ {u} : (Used(v)' <=> Used(v)) /\ (Live(v)' <=> Live(v))
                            /\ (Sole(v)' <=> Sole(v)) /\ users'[v].state = users[v].state
  BY DEF Used, Live, Sole
<1>3. Used(u)' /\ Live(u)' /\ Sole(u)' /\ ~Used(u)
  BY DEF Used, Live, Sole
<1>4. \A x \in Requests : /\ requests'[x] \in Request /\ RequestOK(requests'[x])
                          /\ requests[x] \in Request /\ RequestOK(requests[x])
  BY DEF TypeInv
<1>5. \A x \in Requests : requests'[x].uid # None => requests'[x].uid \in Uids
  BY <1>4 DEF Request
<1>6. u # None
  BY AccountsAssumption
<1>7. ASSUME NEW x \in Requests \ {r}, InFlight(x)
      PROVE  requests[x].uid # u
  BY <1>3, <1>6, <1>7 DEF UserInv, OneOwner
<1>8. OneOwner'
  <2>1. \A i, j \in Ids : UidOf(i)' = UidOf(j)' /\ UidOf(i)' # None => i = j
    BY <1>1 DEF UserInv, OneOwner
  <2>2. \A i \in Ids : UidOf(i)' # None => Used(UidOf(i))'
    BY <1>1, <1>2 DEF UserInv, OneOwner
  <2>3. ASSUME NEW x \in Requests, InFlight(x)', requests'[x].uid # None
        PROVE  Used(requests[x].uid)'
    <3>1. CASE x = r
      BY <1>3, <3>1
    <3>2. CASE x # r
      <4>1. Used(requests'[x].uid) /\ requests'[x].uid # u
        BY <1>7, <2>3, <3>2, OthersUser DEF UserInv, OneOwner
      <4> QED BY <1>2, <1>5, <2>3, <4>1
    <3> QED BY <3>1, <3>2
  <2>4. ASSUME NEW x \in Requests, requests'[x].pc \in Owning, Sole(requests[x].uid)'
        PROVE  /\ Live(requests[x].uid)'
               /\ \A i \in Ids : UidOf(i)' # requests'[x].uid
               /\ \A y \in Requests \ {x} :
                     requests'[y].pc \in Owning \cup Deleting => requests'[y].uid # requests'[x].uid
    <3>0. \A p \in Owning \cup Deleting : p \notin {"idle", "done"}
      BY DEF Owning, Deleting
    <3>1. CASE x = r
      <4>1. ASSUME NEW y \in Requests \ {x}, requests'[y].pc \in Owning \cup Deleting
            PROVE  requests'[y].uid # u
        BY <1>7, <3>0, <3>1, <4>1, OthersUser DEF InFlight
      <4> QED BY <1>1, <1>3, <1>6, <3>1, <4>1
    <3>2. CASE x # r
      <4>1. requests[x].pc \in Owning /\ requests'[x].uid = requests[x].uid
        BY <2>4, <3>2, OthersUser
      <4>2. requests'[x].uid # u /\ requests'[x].uid \in Uids
        BY <1>4, <1>7, <2>4, <3>0, <3>2, <4>1 DEF InFlight, RequestOK, WithUser
      <4>5. Sole(requests'[x].uid)
        BY <1>2, <2>4, <4>2
      <4>3. Live(requests[x].uid)' /\ \A i \in Ids : UidOf(i)' # requests'[x].uid
        BY <1>1, <1>2, <4>1, <4>2, <4>5 DEF UserInv, OneOwner
      <4>4. ASSUME NEW y \in Requests \ {x}, requests'[y].pc \in Owning \cup Deleting
            PROVE  requests'[y].uid # requests'[x].uid
        <5>1. CASE y = r
          BY <4>2, <5>1
        <5>2. CASE y # r
          BY <4>1, <4>4, <4>5, <5>2, OthersUser DEF UserInv, OneOwner
        <5> QED BY <5>1, <5>2
      <4> QED BY <4>3, <4>4
    <3> QED BY <3>1, <3>2
  <2>5. ASSUME NEW x \in Requests, requests'[x].pc \in Deleting, requests'[x].uid # None,
               Sole(requests[x].uid)',
               NEW i \in Ids, UidOf(i)' = requests'[x].uid
        PROVE  i = requests'[x].id
    <3>1. x # r
      BY <2>5 DEF Owning, Deleting
    <3>2. requests'[x].uid # u
      BY <1>1, <2>5
    <3>3. Sole(requests'[x].uid)
      BY <1>2, <1>5, <2>5, <3>2
    <3> QED BY <1>1, <2>5, <3>1, <3>3, OthersUser DEF UserInv, OneOwner
  <2>6. ASSUME NEW x \in Requests, requests'[x].pc = "clean_up"
        PROVE  users'[requests'[x].uid].state = "deleted"
    <3>1. x # r /\ requests'[x].uid \in Uids
      BY <1>4, <2>6 DEF Owning, RequestOK, WithUser
    <3>2. users[requests'[x].uid].state = "deleted"
      BY <2>6, <3>1, OthersUser DEF UserInv, OneOwner
    <3> QED BY <1>2, <3>1, <3>2
  <2>7. ASSUME NEW x \in Requests, requests'[x].pc \in {"create_row", "link_row"}
        PROVE  Sole(requests[x].uid)'
    <3>1. CASE x = r
      BY <1>3, <3>1
    <3>2. CASE x # r
      <4>1. Sole(requests'[x].uid)
        BY <2>7, <3>2, OthersUser DEF UserInv, OneOwner
      <4>2. InFlight(x)
        BY <2>7, <3>2, OthersUser DEF InFlight
      <4>3. requests'[x].uid \in Uids \ {u}
        BY <1>4, <1>7, <2>7, <3>2, <4>2, OthersUser DEF RequestOK, WithUser, Owning
      <4> QED BY <1>2, <4>1, <4>3
    <3> QED BY <3>1, <3>2
  <2> QED BY <2>1, <2>2, <2>3, <2>4, <2>5, <2>6, <2>7 DEF OneOwner
<1>9. UsersCovered'
  <2> SUFFICES ASSUME NEW v \in Uids, Live(v)'
               PROVE  \/ \E i \in Ids : UidOf(i)' = v
                      \/ v \in lost'
                      \/ \E x \in Requests : requests'[x].pc \in Owning /\ requests'[x].uid = v
    BY DEF UsersCovered
  <2>1. CASE v = u
    BY <2>1
  <2>2. CASE v # u
    <3>1. \/ \E i \in Ids : UidOf(i) = v
          \/ v \in lost
          \/ \E x \in Requests : requests[x].pc \in Owning /\ requests[x].uid = v
      BY <1>2, <2>2 DEF UserInv, UsersCovered
    <3>2. ASSUME NEW x \in Requests, requests[x].pc \in Owning, requests[x].uid = v
          PROVE  requests'[x].pc \in Owning /\ requests'[x].uid = v
      BY <3>2, OthersUser
    <3> QED BY <1>1, <3>1, <3>2
  <2> QED BY <2>1, <2>2
<1>10. RowsCovered'
  <2> SUFFICES ASSUME NEW i \in Ids, UidOf(i)' # None, Sole(UidOf(i))',
                      ~Live(UidOf(i))'
               PROVE  \/ i \in failed'
                      \/ \E x \in Requests : requests'[x].pc \in Deleted /\ requests'[x].id = i
    BY DEF RowsCovered
  <2>1. UidOf(i) # None /\ Sole(UidOf(i)) /\ ~Live(UidOf(i))
    BY <1>1, <1>2
  <2>2. \/ i \in failed
        \/ \E x \in Requests : requests[x].pc \in Deleted /\ requests[x].id = i
    BY <2>1 DEF UserInv, RowsCovered
  <2>3. ASSUME NEW x \in Requests, requests[x].pc \in Deleted, requests[x].id = i
        PROVE  requests'[x].pc \in Deleted /\ requests'[x].id = i
    BY <2>3, OthersUser
  <2> QED BY <2>2, <2>3
<1> QED BY <1>8, <1>9, <1>10 DEF UserInv

(* A request goes on with a user it did not make, who from now on counts as*)
(* shared.                                                                 *)
LEMMA UserShared ==
  ASSUME TypeInv, TypeInv', UserInv, NEW r \in Requests, Others(r), SameLinks,
         NEW u \in Uids, users'[u].reused, users'[u].state # "unused",
         users'[u].state = "live" <=> users[u].state = "live",
         users[u].state = "deleted" => users'[u].state = "deleted",
         \A v \in Uids \ {u} : /\ users'[v].state = users[v].state
                               /\ users'[v].reused = users[v].reused,
         \A x \in Requests : requests[x].pc \in {"create_row", "link_row"} => requests[x].uid # u,
         UNCHANGED <<lost, failed>>,
         requests[r].pc \notin Owning \cup Deleted,
         requests'[r].pc = "register_row", requests'[r].uid = u
  PROVE  UserInv'
<1>0. "register_row" \notin Deleting \cup {"idle", "done", "clean_up", "create_row", "link_row"}
  BY DEF Deleting
<1>1. \A i \in Ids : UidOf(i)' = UidOf(i) /\ (UidOf(i) # None => UidOf(i) \in Uids)
  BY DEF SameLinks, UidOf, TypeInv, Tables, AccountRow, Exists
<1>2. \A v \in Uids : (Used(v) => Used(v)') /\ (Live(v)' <=> Live(v))
  BY DEF Used, Live
<1>3. \A v \in Uids : Sole(v)' => Sole(v) /\ v # u
  BY DEF Sole
<1>4. \A x \in Requests : /\ requests'[x] \in Request /\ RequestOK(requests'[x])
                          /\ requests[x] \in Request /\ RequestOK(requests[x])
  BY DEF TypeInv
<1>5. \A x \in Requests : requests'[x].uid # None => requests'[x].uid \in Uids
  BY <1>4 DEF Request
<1>6. OneOwner'
  <2>1. \A i, j \in Ids : UidOf(i)' = UidOf(j)' /\ UidOf(i)' # None => i = j
    BY <1>1 DEF UserInv, OneOwner
  <2>2. \A i \in Ids : UidOf(i)' # None => Used(UidOf(i))'
    BY <1>1, <1>2 DEF UserInv, OneOwner
  <2>3. ASSUME NEW x \in Requests, InFlight(x)', requests'[x].uid # None
        PROVE  Used(requests[x].uid)'
    <3>1. CASE x = r
      BY <3>1 DEF Used
    <3>2. CASE x # r
      <4>1. Used(requests'[x].uid)
        BY <2>3, <3>2, OthersUser DEF UserInv, OneOwner
      <4> QED BY <1>2, <1>5, <2>3, <4>1
    <3> QED BY <3>1, <3>2
  <2>4. ASSUME NEW x \in Requests, requests'[x].pc \in Owning, Sole(requests[x].uid)'
        PROVE  /\ Live(requests[x].uid)'
               /\ \A i \in Ids : UidOf(i)' # requests'[x].uid
               /\ \A y \in Requests \ {x} :
                     requests'[y].pc \in Owning \cup Deleting => requests'[y].uid # requests'[x].uid
    <3>1. requests'[x].uid \in Uids
      BY <1>4, <2>4 DEF RequestOK, WithUser
    <3>2. Sole(requests'[x].uid) /\ requests'[x].uid # u /\ x # r
      BY <1>3, <2>4, <3>1
    <3>3. requests[x].pc \in Owning /\ requests'[x].uid = requests[x].uid
      BY <2>4, <3>2, OthersUser
    <3>4. Live(requests[x].uid)' /\ \A i \in Ids : UidOf(i)' # requests'[x].uid
      BY <1>1, <1>2, <3>1, <3>2, <3>3 DEF UserInv, OneOwner
    <3>5. ASSUME NEW y \in Requests \ {x}, requests'[y].pc \in Owning \cup Deleting
          PROVE  requests'[y].uid # requests'[x].uid
      <4>1. CASE y = r
        BY <3>2, <4>1
      <4>2. CASE y # r
        BY <3>2, <3>3, <3>5, <4>2, OthersUser DEF UserInv, OneOwner
      <4> QED BY <4>1, <4>2
    <3> QED BY <3>4, <3>5
  <2>5. ASSUME NEW x \in Requests, requests'[x].pc \in Deleting, requests'[x].uid # None,
               Sole(requests[x].uid)',
               NEW i \in Ids, UidOf(i)' = requests'[x].uid
        PROVE  i = requests'[x].id
    <3>1. x # r
      BY <1>0, <2>5
    <3>2. Sole(requests'[x].uid)
      BY <1>3, <1>5, <2>5
    <3> QED BY <1>1, <2>5, <3>1, <3>2, OthersUser DEF UserInv, OneOwner
  <2>6. ASSUME NEW x \in Requests, requests'[x].pc = "clean_up"
        PROVE  users'[requests'[x].uid].state = "deleted"
    <3>1. x # r /\ requests'[x].uid \in Uids
      BY <1>0, <1>4, <2>6 DEF RequestOK, WithUser
    <3>2. users[requests'[x].uid].state = "deleted"
      BY <2>6, <3>1, OthersUser DEF UserInv, OneOwner
    <3> QED BY <3>1, <3>2
  <2>7. ASSUME NEW x \in Requests, requests'[x].pc \in {"create_row", "link_row"}
        PROVE  Sole(requests[x].uid)'
    <3>1. x # r
      BY <1>0, <2>7
    <3>2. Sole(requests'[x].uid) /\ requests'[x].uid # u /\ requests'[x].uid \in Uids
      BY <1>4, <2>7, <3>1, OthersUser DEF UserInv, OneOwner, RequestOK, WithUser, Owning
    <3> QED BY <3>2 DEF Sole
  <2> QED BY <2>1, <2>2, <2>3, <2>4, <2>5, <2>6, <2>7 DEF OneOwner
<1>7. UsersCovered'
  <2> SUFFICES ASSUME NEW v \in Uids, Live(v)'
               PROVE  \/ \E i \in Ids : UidOf(i)' = v
                      \/ v \in lost'
                      \/ \E x \in Requests : requests'[x].pc \in Owning /\ requests'[x].uid = v
    BY DEF UsersCovered
  <2>1. \/ \E i \in Ids : UidOf(i) = v
        \/ v \in lost
        \/ \E x \in Requests : requests[x].pc \in Owning /\ requests[x].uid = v
    BY <1>2 DEF UserInv, UsersCovered
  <2>2. ASSUME NEW x \in Requests, requests[x].pc \in Owning, requests[x].uid = v
        PROVE  requests'[x].pc \in Owning /\ requests'[x].uid = v
    BY <2>2, OthersUser
  <2> QED BY <1>1, <2>1, <2>2
<1>8. RowsCovered'
  <2> SUFFICES ASSUME NEW i \in Ids, UidOf(i)' # None, Sole(UidOf(i))', ~Live(UidOf(i))'
               PROVE  \/ i \in failed'
                      \/ \E x \in Requests : requests'[x].pc \in Deleted /\ requests'[x].id = i
    BY DEF RowsCovered
  <2>1. UidOf(i) # None /\ Sole(UidOf(i)) /\ ~Live(UidOf(i))
    BY <1>1, <1>2, <1>3
  <2>2. \/ i \in failed
        \/ \E x \in Requests : requests[x].pc \in Deleted /\ requests[x].id = i
    BY <2>1 DEF UserInv, RowsCovered
  <2>3. ASSUME NEW x \in Requests, requests[x].pc \in Deleted, requests[x].id = i
        PROVE  requests'[x].pc \in Deleted /\ requests'[x].id = i
    BY <2>3, OthersUser
  <2> QED BY <2>2, <2>3
<1> QED BY <1>6, <1>7, <1>8 DEF UserInv

(* A login user is deleted: by a deletion that goes on to its row, or by   *)
(* the request that came by it and could not write the row.                *)
LEMMA UserTaken ==
  ASSUME TypeInv, TypeInv', UserInv, NEW r \in Requests, Others(r), SameLinks,
         NEW u \in Uids, requests[r].uid = u, users'[u].state = "deleted",
         \A v \in Uids \ {u} : users'[v].state = users[v].state,
         \A v \in Uids : users'[v].reused = users[v].reused,
         UNCHANGED <<lost, failed>>,
         \/ /\ requests[r].pc \in Deleting
            /\ requests'[r].pc \in Deleted /\ requests'[r].id = requests[r].id
            /\ requests'[r].uid = u
         \/ requests[r].pc \in Owning /\ requests'[r].pc = "done"
  PROVE  UserInv'
<1>0. /\ Owning \cap (Deleting \cup Deleted \cup {"idle", "done", "clean_up"}) = {}
      /\ Deleting \cap (Deleted \cup {"idle", "done", "clean_up"}) = {}
      /\ Deleted \cap {"idle", "done", "clean_up"} = {}
  BY DEF Owning, Deleting, Deleted
<1>1. \A i \in Ids : UidOf(i)' = UidOf(i) /\ (UidOf(i) # None => UidOf(i) \in Uids)
  BY DEF SameLinks, UidOf, TypeInv, Tables, AccountRow, Exists
<1>2. \A v \in Uids \ {u} : (Used(v)' <=> Used(v)) /\ (Live(v)' <=> Live(v))
                            /\ users'[v].state = users[v].state
  BY DEF Used, Live
<1>12. \A v \in Uids : Sole(v)' <=> Sole(v)
  BY DEF Sole
<1>3. Used(u)' /\ ~Live(u)' /\ u # None
  BY AccountsAssumption DEF Used, Live
<1>4. \A x \in Requests : /\ requests'[x] \in Request /\ RequestOK(requests'[x])
                          /\ requests[x] \in Request /\ RequestOK(requests[x])
  BY DEF TypeInv
<1>5. \A x \in Requests : requests'[x].uid # None => requests'[x].uid \in Uids
  BY <1>4 DEF Request
<1>6. requests'[r].pc \notin Owning \cup Deleting \cup {"clean_up"}
  BY <1>0
<1>7. \A i \in Ids : UidOf(i) = u /\ Sole(u) => i = requests[r].id /\ requests'[r].pc \in Deleted
                                     /\ requests'[r].id = requests[r].id
  BY <1>3 DEF UserInv, OneOwner
<1>8. ASSUME NEW x \in Requests \ {r}, requests[x].pc \in Owning, Sole(requests[x].uid)
      PROVE  requests[x].uid # u
  BY <1>8 DEF UserInv, OneOwner
<1>9. OneOwner'
  <2>1. \A i, j \in Ids : UidOf(i)' = UidOf(j)' /\ UidOf(i)' # None => i = j
    BY <1>1 DEF UserInv, OneOwner
  <2>2. \A i \in Ids : UidOf(i)' # None => Used(UidOf(i))'
    BY <1>1, <1>2, <1>3 DEF UserInv, OneOwner
  <2>3. ASSUME NEW x \in Requests, InFlight(x)', requests'[x].uid # None
        PROVE  Used(requests[x].uid)'
    <3>1. CASE requests'[x].uid = u
      BY <1>3, <3>1
    <3>2. CASE requests'[x].uid # u
      <4>1. x # r
        BY <2>3, <3>2 DEF InFlight
      <4>2. Used(requests'[x].uid)
        BY <2>3, <4>1, OthersUser DEF UserInv, OneOwner
      <4> QED BY <1>2, <1>5, <2>3, <3>2, <4>2
    <3> QED BY <3>1, <3>2
  <2>4. ASSUME NEW x \in Requests, requests'[x].pc \in Owning, Sole(requests[x].uid)'
        PROVE  /\ Live(requests[x].uid)'
               /\ \A i \in Ids : UidOf(i)' # requests'[x].uid
               /\ \A y \in Requests \ {x} :
                     requests'[y].pc \in Owning \cup Deleting => requests'[y].uid # requests'[x].uid
    <3>1. x # r
      BY <1>6, <2>4
    <3>2. requests[x].pc \in Owning /\ requests'[x].uid = requests[x].uid
      BY <2>4, <3>1, OthersUser
    <3>6. requests'[x].uid \in Uids
      BY <1>4, <2>4 DEF RequestOK, WithUser
    <3>7. Sole(requests'[x].uid)
      BY <1>12, <2>4, <3>6
    <3>3. requests'[x].uid # u
      BY <1>8, <3>1, <3>2, <3>7
    <3>4. Live(requests[x].uid)' /\ \A i \in Ids : UidOf(i)' # requests'[x].uid
      BY <1>1, <1>2, <3>2, <3>3, <3>6, <3>7 DEF UserInv, OneOwner
    <3>5. ASSUME NEW y \in Requests \ {x}, requests'[y].pc \in Owning \cup Deleting
          PROVE  requests'[y].uid # requests'[x].uid
      <4>1. y # r
        BY <1>6, <3>5
      <4> QED BY <3>2, <3>5, <3>7, <4>1, OthersUser DEF UserInv, OneOwner
    <3> QED BY <3>4, <3>5
  <2>5. ASSUME NEW x \in Requests, requests'[x].pc \in Deleting, requests'[x].uid # None,
               Sole(requests[x].uid)',
               NEW i \in Ids, UidOf(i)' = requests'[x].uid
        PROVE  i = requests'[x].id
    <3>1. x # r
      BY <1>6, <2>5
    <3>2. Sole(requests'[x].uid)
      BY <1>5, <1>12, <2>5
    <3> QED BY <1>1, <2>5, <3>1, <3>2, OthersUser DEF UserInv, OneOwner
  <2>6. ASSUME NEW x \in Requests, requests'[x].pc = "clean_up"
        PROVE  users'[requests'[x].uid].state = "deleted"
    <3>1. x # r /\ requests'[x].uid \in Uids
      BY <1>4, <1>6, <2>6 DEF RequestOK, WithUser
    <3>2. users[requests'[x].uid].state = "deleted"
      BY <2>6, <3>1, OthersUser DEF UserInv, OneOwner
    <3> QED BY <1>2, <3>1, <3>2
  <2>7. ASSUME NEW x \in Requests, requests'[x].pc \in {"create_row", "link_row"}
        PROVE  Sole(requests[x].uid)'
    <3>1. x # r
      BY <1>6, <2>7 DEF Owning
    <3>2. Sole(requests'[x].uid) /\ requests'[x].uid \in Uids
      BY <1>4, <2>7, <3>1, OthersUser DEF UserInv, OneOwner, RequestOK, WithUser, Owning
    <3> QED BY <1>12, <3>2
  <2> QED BY <2>1, <2>2, <2>3, <2>4, <2>5, <2>6, <2>7 DEF OneOwner
<1>10. UsersCovered'
  <2> SUFFICES ASSUME NEW v \in Uids, Live(v)'
               PROVE  \/ \E i \in Ids : UidOf(i)' = v
                      \/ v \in lost'
                      \/ \E x \in Requests : requests'[x].pc \in Owning /\ requests'[x].uid = v
    BY DEF UsersCovered
  <2>1. v # u
    BY <1>3
  <2>2. \/ \E i \in Ids : UidOf(i) = v
        \/ v \in lost
        \/ \E x \in Requests : requests[x].pc \in Owning /\ requests[x].uid = v
    BY <1>2, <2>1 DEF UserInv, UsersCovered
  <2>3. ASSUME NEW x \in Requests, requests[x].pc \in Owning, requests[x].uid = v
        PROVE  requests'[x].pc \in Owning /\ requests'[x].uid = v
    BY <2>1, <2>3, OthersUser
  <2> QED BY <1>1, <2>2, <2>3
<1>11. RowsCovered'
  <2> SUFFICES ASSUME NEW i \in Ids, UidOf(i)' # None, Sole(UidOf(i))',
                      ~Live(UidOf(i))'
               PROVE  \/ i \in failed'
                      \/ \E x \in Requests : requests'[x].pc \in Deleted /\ requests'[x].id = i
    BY DEF RowsCovered
  <2>0. Sole(UidOf(i))
    BY <1>1, <1>12
  <2>1. CASE UidOf(i) = u
    BY <1>7, <2>0, <2>1
  <2>2. CASE UidOf(i) # u
    <3>1. UidOf(i) # None /\ Sole(UidOf(i)) /\ ~Live(UidOf(i))
      BY <1>1, <1>2, <2>0, <2>2
    <3>2. \/ i \in failed
          \/ \E x \in Requests : requests[x].pc \in Deleted /\ requests[x].id = i
      BY <3>1 DEF UserInv, RowsCovered
    <3>3. ASSUME NEW x \in Requests, requests[x].pc \in Deleted, requests[x].id = i
          PROVE  requests'[x].pc \in Deleted /\ requests'[x].id = i
      BY <1>0, <3>3, OthersUser
    <3> QED BY <3>2, <3>3
  <2> QED BY <2>1, <2>2
<1> QED BY <1>9, <1>10, <1>11 DEF UserInv

(* A row goes, with a reason why its user stays if it does. *)
LEMMA RowDropped ==
  ASSUME TypeInv, TypeInv', UserInv, NEW r \in Requests, Others(r), SameStates,
         NEW i \in Ids, UidOf(i)' = None, \A j \in Ids \ {i} : UidOf(j)' = UidOf(j),
         UidOf(i) # None /\ Live(UidOf(i)) => UidOf(i) \in lost',
         lost \subseteq lost', UNCHANGED failed,
         requests[r].pc \notin Owning, requests[r].pc \in Deleted => requests[r].id = i,
         requests'[r].pc \notin Owning \cup Deleting \cup {"clean_up"},
         InFlight(r)' /\ requests'[r].uid # None => Used(requests'[r].uid)
  PROVE  UserInv'
<1>1. \A j \in Ids : /\ UidOf(j)' # None => UidOf(j)' = UidOf(j) /\ j # i
                     /\ UidOf(j) # None => UidOf(j) \in Uids
  BY DEF UidOf, TypeInv, Tables, AccountRow, Exists
<1>2. \A u \in Uids : (Used(u)' <=> Used(u)) /\ (Live(u)' <=> Live(u))
                      /\ (Sole(u)' <=> Sole(u)) /\ users'[u].state = users[u].state
  BY DEF SameStates, Used, Live, Sole
<1>3. \A x \in Requests : requests'[x] \in Request /\ RequestOK(requests'[x])
  BY DEF TypeInv
<1>4. \A x \in Requests : requests'[x].uid # None => requests'[x].uid \in Uids
  BY <1>3 DEF Request
<1>5. OneOwner'
  <2>1. \A j, k \in Ids : UidOf(j)' = UidOf(k)' /\ UidOf(j)' # None => j = k
    BY <1>1 DEF UserInv, OneOwner
  <2>2. \A j \in Ids : UidOf(j)' # None => Used(UidOf(j))'
    BY <1>1, <1>2 DEF UserInv, OneOwner
  <2>3. ASSUME NEW x \in Requests, InFlight(x)', requests'[x].uid # None
        PROVE  Used(requests[x].uid)'
    <3>1. Used(requests'[x].uid)
      BY <2>3, OthersUser DEF UserInv, OneOwner
    <3> QED BY <1>2, <1>4, <2>3, <3>1
  <2>4. ASSUME NEW x \in Requests, requests'[x].pc \in Owning, Sole(requests[x].uid)'
        PROVE  /\ Live(requests[x].uid)'
               /\ \A j \in Ids : UidOf(j)' # requests'[x].uid
               /\ \A y \in Requests \ {x} :
                     requests'[y].pc \in Owning \cup Deleting => requests'[y].uid # requests'[x].uid
    <3>1. x # r
      BY <2>4
    <3>2. requests[x].pc \in Owning /\ requests'[x].uid = requests[x].uid
      BY <2>4, <3>1, OthersUser
    <3>3. requests'[x].uid \in Uids /\ requests'[x].uid # None
      BY <1>3, <2>4, AccountsAssumption DEF RequestOK, WithUser
    <3>6. Sole(requests'[x].uid)
      BY <1>2, <2>4, <3>3
    <3>4. Live(requests[x].uid)' /\ \A j \in Ids : UidOf(j)' # requests'[x].uid
      BY <1>1, <1>2, <3>2, <3>3, <3>6 DEF UserInv, OneOwner
    <3>5. ASSUME NEW y \in Requests \ {x}, requests'[y].pc \in Owning \cup Deleting
          PROVE  requests'[y].uid # requests'[x].uid
      <4>1. y # r
        BY <3>5
      <4> QED BY <3>2, <3>5, <3>6, <4>1, OthersUser DEF UserInv, OneOwner
    <3> QED BY <3>4, <3>5
  <2>5. ASSUME NEW x \in Requests, requests'[x].pc \in Deleting, requests'[x].uid # None,
               Sole(requests[x].uid)',
               NEW j \in Ids, UidOf(j)' = requests'[x].uid
        PROVE  j = requests'[x].id
    <3>1. x # r
      BY <2>5
    <3>2. Sole(requests'[x].uid)
      BY <1>2, <1>4, <2>5
    <3> QED BY <1>1, <2>5, <3>1, <3>2, OthersUser DEF UserInv, OneOwner
  <2>6. ASSUME NEW x \in Requests, requests'[x].pc = "clean_up"
        PROVE  users'[requests'[x].uid].state = "deleted"
    <3>1. x # r /\ requests'[x].uid \in Uids
      BY <1>3, <2>6 DEF RequestOK, WithUser
    <3>2. users[requests'[x].uid].state = "deleted"
      BY <2>6, <3>1, OthersUser DEF UserInv, OneOwner
    <3> QED BY <1>2, <3>1, <3>2
  <2>7. ASSUME NEW x \in Requests, requests'[x].pc \in {"create_row", "link_row"}
        PROVE  Sole(requests[x].uid)'
    <3>1. x # r
      BY <2>7 DEF Owning
    <3>2. Sole(requests'[x].uid) /\ requests'[x].uid \in Uids
      BY <1>3, <2>7, <3>1, OthersUser DEF UserInv, OneOwner, RequestOK, WithUser, Owning
    <3> QED BY <1>2, <3>2
  <2> QED BY <2>1, <2>2, <2>3, <2>4, <2>5, <2>6, <2>7 DEF OneOwner
<1>6. UsersCovered'
  <2> SUFFICES ASSUME NEW u \in Uids, Live(u)'
               PROVE  \/ \E j \in Ids : UidOf(j)' = u
                      \/ u \in lost'
                      \/ \E x \in Requests : requests'[x].pc \in Owning /\ requests'[x].uid = u
    BY DEF UsersCovered
  <2>1. \/ \E j \in Ids : UidOf(j) = u
        \/ u \in lost
        \/ \E x \in Requests : requests[x].pc \in Owning /\ requests[x].uid = u
    BY <1>2 DEF UserInv, UsersCovered
  <2>2. ASSUME NEW x \in Requests, requests[x].pc \in Owning, requests[x].uid = u
        PROVE  requests'[x].pc \in Owning /\ requests'[x].uid = u
    BY <2>2, OthersUser
  <2>3. ASSUME NEW j \in Ids, UidOf(j) = u
        PROVE  UidOf(j)' = u \/ u \in lost'
    <3>1. u # None /\ Live(u)
      BY <1>2, AccountsAssumption
    <3> QED BY <2>3, <3>1
  <2> QED BY <2>1, <2>2, <2>3
<1>7. RowsCovered'
  <2> SUFFICES ASSUME NEW j \in Ids, UidOf(j)' # None, Sole(UidOf(j))',
                      ~Live(UidOf(j))'
               PROVE  \/ j \in failed'
                      \/ \E x \in Requests : requests'[x].pc \in Deleted /\ requests'[x].id = j
    BY DEF RowsCovered
  <2>1. UidOf(j) # None /\ Sole(UidOf(j)) /\ ~Live(UidOf(j)) /\ j # i
    BY <1>1, <1>2
  <2>2. \/ j \in failed
        \/ \E x \in Requests : requests[x].pc \in Deleted /\ requests[x].id = j
    BY <2>1 DEF UserInv, RowsCovered
  <2>3. ASSUME NEW x \in Requests, requests[x].pc \in Deleted, requests[x].id = j
        PROVE  requests'[x].pc \in Deleted /\ requests'[x].id = j
    BY <2>1, <2>3, OthersUser
  <2> QED BY <2>2, <2>3
<1> QED BY <1>5, <1>6, <1>7 DEF UserInv

(* The request that came by a user links a row to it, as no row is yet. *)
LEMMA RowLinked ==
  ASSUME TypeInv, TypeInv', UserInv, NEW r \in Requests, Others(r), SameStates,
         requests[r].pc \in Owning, \A j \in Ids : UidOf(j) # requests[r].uid,
         NEW i \in Ids, UidOf(i)' = requests[r].uid, \A j \in Ids \ {i} : UidOf(j)' = UidOf(j),
         UidOf(i) # None /\ Live(UidOf(i)) => UidOf(i) \in lost',
         lost \subseteq lost', UNCHANGED failed,
         requests'[r].pc = "done"
  PROVE  UserInv'
<1> DEFINE u == requests[r].uid
<1>0. "done" \notin Owning \cup Deleting \cup Deleted
  BY DEF Owning, Deleting, Deleted
<1>1. \A j \in Ids : UidOf(j) # u /\ (UidOf(j) # None => UidOf(j) \in Uids)
  BY DEF UidOf, TypeInv, Tables, AccountRow, Exists
<1>2. \A v \in Uids : (Used(v)' <=> Used(v)) /\ (Live(v)' <=> Live(v))
                      /\ (Sole(v)' <=> Sole(v)) /\ users'[v].state = users[v].state
  BY DEF SameStates, Used, Live, Sole
<1>3. \A x \in Requests : /\ requests'[x] \in Request /\ RequestOK(requests'[x])
                          /\ requests[x] \in Request /\ RequestOK(requests[x])
  BY DEF TypeInv
<1>4. \A x \in Requests : requests'[x].uid # None => requests'[x].uid \in Uids
  BY <1>3 DEF Request
<1>5. u \in Uids /\ u # None /\ (Sole(u) => Live(u)) /\ Used(u)
  <2>1. u \in Uids /\ u # None
    BY <1>3, AccountsAssumption DEF RequestOK, WithUser
  <2>2. InFlight(r)
    BY DEF Owning, InFlight
  <2> QED BY <2>1, <2>2 DEF UserInv, OneOwner
<1>6. ASSUME NEW x \in Requests \ {r}, requests[x].pc \in Owning \cup Deleting, Sole(u)
      PROVE  requests[x].uid # u
  BY <1>6 DEF UserInv, OneOwner
<1>7. ASSUME NEW x \in Requests, requests'[x].pc # "done"
      PROVE  x # r
  BY <1>7
<1> HIDE DEF u
<1>8. OneOwner'
  <2>1. ASSUME NEW j \in Ids, NEW k \in Ids, UidOf(j)' = UidOf(k)', UidOf(j)' # None
        PROVE  j = k
    <3>1. \A l \in Ids \ {i} : UidOf(l)' # u
      BY <1>1
    <3>2. UidOf(i)' = u
      BY DEF u
    <3> QED BY <2>1, <3>1, <3>2 DEF UserInv, OneOwner
  <2>2. ASSUME NEW j \in Ids, UidOf(j)' # None
        PROVE  Used(UidOf(j))'
    <3>1. CASE j = i
      BY <1>2, <1>5, <3>1 DEF u
    <3>2. CASE j # i
      BY <1>1, <1>2, <2>2, <3>2 DEF UserInv, OneOwner
    <3> QED BY <3>1, <3>2
  <2>3. ASSUME NEW x \in Requests, InFlight(x)', requests'[x].uid # None
        PROVE  Used(requests[x].uid)'
    <3>1. x # r
      BY <2>3 DEF InFlight
    <3>2. Used(requests'[x].uid)
      BY <2>3, <3>1, OthersUser DEF UserInv, OneOwner
    <3> QED BY <1>2, <1>4, <2>3, <3>2
  <2>4. ASSUME NEW x \in Requests, requests'[x].pc \in Owning, Sole(requests[x].uid)'
        PROVE  /\ Live(requests[x].uid)'
               /\ \A j \in Ids : UidOf(j)' # requests'[x].uid
               /\ \A y \in Requests \ {x} :
                     requests'[y].pc \in Owning \cup Deleting => requests'[y].uid # requests'[x].uid
    <3>1. x # r
      BY <1>0, <2>4
    <3>2. requests[x].pc \in Owning /\ requests'[x].uid = requests[x].uid
      BY <2>4, <3>1, OthersUser
    <3>7. requests'[x].uid \in Uids
      BY <1>3, <2>4 DEF RequestOK, WithUser
    <3>8. Sole(requests'[x].uid)
      BY <1>2, <2>4, <3>7
    <3>3. requests'[x].uid # u
      BY <1>6, <3>1, <3>2, <3>8
    <3>4. Live(requests[x].uid)'
      BY <1>2, <3>2, <3>7, <3>8 DEF UserInv, OneOwner
    <3>5. ASSUME NEW j \in Ids
          PROVE  UidOf(j)' # requests'[x].uid
      <4>1. CASE j = i
        BY <3>3, <4>1 DEF u
      <4>2. CASE j # i
        BY <3>2, <3>8, <4>2 DEF UserInv, OneOwner
      <4> QED BY <4>1, <4>2
    <3>6. ASSUME NEW y \in Requests \ {x}, requests'[y].pc \in Owning \cup Deleting
          PROVE  requests'[y].uid # requests'[x].uid
      <4>1. y # r
        BY <1>0, <3>6
      <4> QED BY <3>2, <3>6, <3>8, <4>1, OthersUser DEF UserInv, OneOwner
    <3> QED BY <3>4, <3>5, <3>6
  <2>5. ASSUME NEW x \in Requests, requests'[x].pc \in Deleting, requests'[x].uid # None,
               Sole(requests[x].uid)',
               NEW j \in Ids, UidOf(j)' = requests'[x].uid
        PROVE  j = requests'[x].id
    <3>1. x # r
      BY <1>0, <2>5
    <3>4. Sole(requests'[x].uid)
      BY <1>2, <1>4, <2>5
    <3>2. requests'[x].uid # u
      BY <1>6, <2>5, <3>1, <3>4, OthersUser
    <3>3. j # i
      BY <2>5, <3>2 DEF u
    <3> QED BY <2>5, <3>1, <3>3, <3>4, OthersUser DEF UserInv, OneOwner
  <2>6. ASSUME NEW x \in Requests, requests'[x].pc = "clean_up"
        PROVE  users'[requests'[x].uid].state = "deleted"
    <3>1. x # r /\ requests'[x].uid \in Uids
      BY <1>3, <2>6 DEF RequestOK, WithUser
    <3>2. users[requests'[x].uid].state = "deleted"
      BY <2>6, <3>1, OthersUser DEF UserInv, OneOwner
    <3> QED BY <1>2, <3>1, <3>2
  <2>7. ASSUME NEW x \in Requests, requests'[x].pc \in {"create_row", "link_row"}
        PROVE  Sole(requests[x].uid)'
    <3>1. x # r
      BY <1>0, <2>7 DEF Owning
    <3>2. Sole(requests'[x].uid) /\ requests'[x].uid \in Uids
      BY <1>3, <2>7, <3>1, OthersUser DEF UserInv, OneOwner, RequestOK, WithUser, Owning
    <3> QED BY <1>2, <3>2
  <2> QED BY <2>1, <2>2, <2>3, <2>4, <2>5, <2>6, <2>7 DEF OneOwner
<1>9. UsersCovered'
  <2> SUFFICES ASSUME NEW v \in Uids, Live(v)'
               PROVE  \/ \E j \in Ids : UidOf(j)' = v
                      \/ v \in lost'
                      \/ \E x \in Requests : requests'[x].pc \in Owning /\ requests'[x].uid = v
    BY DEF UsersCovered
  <2>1. CASE v = u
    BY <2>1 DEF u
  <2>2. CASE v # u
    <3>1. \/ \E j \in Ids : UidOf(j) = v
          \/ v \in lost
          \/ \E x \in Requests : requests[x].pc \in Owning /\ requests[x].uid = v
      BY <1>2 DEF UserInv, UsersCovered
    <3>2. ASSUME NEW x \in Requests, requests[x].pc \in Owning, requests[x].uid = v
          PROVE  requests'[x].pc \in Owning /\ requests'[x].uid = v
      BY <2>2, <3>2, OthersUser DEF u
    <3>3. ASSUME NEW j \in Ids, UidOf(j) = v
          PROVE  UidOf(j)' = v \/ v \in lost'
      <4>1. v # None /\ Live(v)
        BY <1>2, AccountsAssumption
      <4> QED BY <3>3, <4>1
    <3> QED BY <3>1, <3>2, <3>3
  <2> QED BY <2>1, <2>2
<1>10. RowsCovered'
  <2> SUFFICES ASSUME NEW j \in Ids, UidOf(j)' # None, Sole(UidOf(j))',
                      ~Live(UidOf(j))'
               PROVE  \/ j \in failed'
                      \/ \E x \in Requests : requests'[x].pc \in Deleted /\ requests'[x].id = j
    BY DEF RowsCovered
  <2>1. j # i
    BY <1>2, <1>5 DEF u
  <2>2. UidOf(j) # None /\ Sole(UidOf(j)) /\ ~Live(UidOf(j))
    BY <1>1, <1>2, <2>1
  <2>3. \/ j \in failed
        \/ \E x \in Requests : requests[x].pc \in Deleted /\ requests[x].id = j
    BY <2>2 DEF UserInv, RowsCovered
  <2>4. ASSUME NEW x \in Requests, requests[x].pc \in Deleted, requests[x].id = j
        PROVE  requests'[x].pc \in Deleted /\ requests'[x].id = j
    <3>1. x # r
      BY <2>4 DEF Owning, Deleted
    <3> QED BY <2>4, <3>1, OthersUser
  <2> QED BY <2>3, <2>4
<1> QED BY <1>8, <1>9, <1>10 DEF UserInv

-----------------------------------------------------------------------------
(* Steps by what they mean for the whole invariant. *)

SameEmails == \A i \in Ids : Exists(i)' => Exists(i) /\ accounts'[i].email = accounts[i].email

LEMMA EmailsKept ==
  ASSUME EmailInv, SameEmails
  PROVE  EmailInv'
BY DEF EmailInv, SameEmails

(* One row takes an address, which no other row has. *)
LEMMA EmailTakenOnce ==
  ASSUME EmailInv, NEW i \in Ids, \A j \in Ids \ {i} : accounts'[j] = accounts[j],
         \A j \in Ids \ {i} : Exists(j) => accounts[j].email # accounts'[i].email
  PROVE  EmailInv'
BY DEF EmailInv, Exists

StaysConfirmed == \A u \in Uids : Used(u) /\ users[u].confirmed => users'[u].confirmed

(* What holds of a request holds of the others after its step. *)
LEMMA Assembled ==
  ASSUME Inv, TypeInv', EmailInv', UserInv', NEW r \in Requests, Others(r), StaysConfirmed,
         requests'[r].stale = {} => Known(requests[r])',
         Confirmed(requests[r])'
  PROVE  Inv'
<1>1. ASSUME NEW x \in Requests, x # r, requests'[x].stale = {}
      PROVE  Known(requests[x])'
  <2>0. Keeps(requests[x], requests'[x])
    BY <1>1 DEF Others
  <2>1. CASE requests[x].pc \in {"idle", "done"}
    BY <2>0, <2>1 DEF Known, Keeps, PatchPcs, BatchPcs, Deleting, Deleted
  <2>2. CASE requests[x].pc \notin {"idle", "done"}
    <3>1. requests[x].stale = {} /\ accounts' = accounts
      BY <1>1, <2>0, <2>2 DEF Keeps
    <3>2. Known(requests[x])
      BY <3>1 DEF Inv, KnownInv
    <3> QED BY <2>0, <3>1, <3>2 DEF Keeps, Known, BatchDemotes
  <2> QED BY <2>1, <2>2
<1>2. ASSUME NEW x \in Requests, x # r
      PROVE  Confirmed(requests[x])'
  <2>1. /\ requests'[x].pc = requests[x].pc /\ requests'[x].uid = requests[x].uid
        /\ requests'[x].kind = requests[x].kind /\ requests'[x].id = requests[x].id
    BY <1>2 DEF Others, Keeps
  <2>2. requests[x].pc \in SignInPcs \cup {"create_row", "link_row"} =>
           requests[x].uid \in Uids /\ Used(requests[x].uid)
    <3>1. RequestOK(requests[x])
      BY DEF Inv, TypeInv
    <3>2. requests[x].pc \in SignInPcs \cup {"create_row", "link_row"} =>
             requests[x].uid \in Uids /\ InFlight(x)
      BY <3>1 DEF RequestOK, WithUser, Owning, SignInPcs, InFlight
    <3> QED BY <3>2, AccountsAssumption DEF Inv, UserInv, OneOwner
  <2>3. Confirmed(requests[x])
    BY DEF Inv, ConfirmedInv
  <2>4. ASSUME requests[x].pc = "activate", requests'[x].id \notin requests'[x].stale
        PROVE  /\ requests[x].id \notin requests[x].stale
               /\ accounts'[requests[x].id] = accounts[requests[x].id]
    <3>1. requests[x].id \in Ids
      BY <2>4 DEF Inv, TypeInv, RequestOK, WithRow
    <3> QED BY <1>2, <2>1, <2>4, <3>1 DEF Others, Keeps
  <2> QED BY <2>1, <2>2, <2>3, <2>4 DEF Confirmed, StaysConfirmed, SignInPcs
<1>3. KnownInv'
  BY <1>1 DEF KnownInv
<1>4. ConfirmedInv'
  BY <1>2 DEF ConfirmedInv
<1> QED BY <1>3, <1>4 DEF Inv

(* A request goes on, and that is all. *)
LEMMA Moved ==
  ASSUME Inv, NEW r \in Requests, Alone(r), RequestOK(requests'[r]), Untouched,
         MayBecome(r, requests'[r]), requests[r].pc \notin Owning,
         requests[r].pc \in Deleted =>
             requests'[r].pc \in Deleted /\ requests'[r].id = requests[r].id,
         requests'[r].stale = {} => Known(requests'[r]),
         Confirmed(requests'[r])
  PROVE  Inv'
<1>1. /\ accounts' = accounts /\ users' = users /\ trusted' = trusted
      /\ lost' = lost /\ failed' = failed
  BY DEF Untouched
<1>2. TypeInv' /\ Others(r)
  BY <1>1, AloneStep DEF Inv, TypeInv
<1>3. SameLinks /\ SameStates /\ SameEmails /\ StaysConfirmed
  BY <1>1 DEF SameLinks, SameStates, SameEmails, StaysConfirmed, UidOf, Exists
<1>4. UserInv'
  <2>1. TypeInv /\ UserInv
    BY DEF Inv
  <2>2. lost \subseteq lost' /\ failed \subseteq failed'
    BY <1>1
  <2> QED BY <1>2, <1>3, <2>1, <2>2, QuietUsers
<1>5. EmailInv'
  BY <1>3, EmailsKept DEF Inv
<1>6. requests'[r].stale = {} => Known(requests[r])'
  BY <1>1 DEF Known, BatchDemotes
<1>7. Confirmed(requests[r])'
  BY <1>1 DEF Confirmed
<1> QED BY <1>2, <1>3, <1>4, <1>5, <1>6, <1>7, Assembled

(* A request is over: nothing is known of it, or has to be. *)
LEMMA AnsweredStep ==
  ASSUME TypeInv, NEW r \in Requests, NEW reply \in Replies, Answer(r, reply)
  PROVE  /\ Alone(r) /\ RequestOK(requests'[r])
         /\ requests'[r].pc = "done" /\ requests'[r].uid = None
         /\ requests'[r].id = requests[r].id
<1>1. requests' = [requests EXCEPT ![r] = Over(r, reply)]
  BY DEF Answer
<1>2. requests \in [Requests -> Request]
  BY DEF TypeInv
<1>3. requests'[r] = Over(r, reply) /\ Alone(r)
  BY <1>1, <1>2 DEF Alone
<1> QED BY <1>3, OverOK

LEMMA DoneKnows ==
  ASSUME NEW q, q.pc \notin PatchPcs \cup BatchPcs \cup Deleting \cup Deleted
  PROVE  Known(q) /\ Known(q)'
BY DEF Known, PatchPcs, BatchPcs, Deleting, Deleted

LEMMA DoneConfirms ==
  ASSUME NEW q, q.pc \notin SignInPcs \cup {"create_row", "link_row"}
  PROVE  Confirmed(q) /\ Confirmed(q)'
BY DEF Confirmed, SignInPcs

(* A request is over, the tables are as they were. *)
LEMMA Answered ==
  ASSUME Inv, NEW r \in Requests, NEW reply \in Replies, Answer(r, reply),
         UNCHANGED <<accounts, trusted>>, users' \in [Uids -> User], SameStates, StaysConfirmed,
         lost \subseteq lost', lost' \subseteq Uids, failed \subseteq failed', failed' \subseteq Ids,
         requests[r].pc \in Owning => requests[r].uid \in lost',
         requests[r].pc \in Deleted => requests[r].id \in failed'
  PROVE  Inv'
<1>1. /\ Alone(r) /\ RequestOK(requests'[r])
      /\ requests'[r].pc = "done" /\ requests'[r].uid = None
  BY AnsweredStep DEF Inv
<1>2. TypeInv' /\ Others(r)
  BY <1>1, AloneStep DEF Inv, TypeInv
<1>3. SameLinks /\ SameEmails
  BY DEF SameLinks, SameEmails, UidOf, Exists
<1>4. MayBecome(r, requests'[r])
  BY <1>1 DEF MayBecome, Owning, Deleting
<1>5. UserInv'
  BY <1>2, <1>3, <1>4, QuietUsers DEF Inv
<1>6. EmailInv'
  BY <1>3, EmailsKept DEF Inv
<1>7. Known(requests[r])' /\ Confirmed(requests[r])'
  BY <1>1 DEF Known, Confirmed, PatchPcs, BatchPcs, Deleting, Deleted, SignInPcs
<1> QED BY <1>2, <1>5, <1>6, <1>7, Assembled

(* ... or nothing at all has changed but the request. *)
LEMMA AnsweredOnly ==
  ASSUME Inv, NEW r \in Requests, NEW reply \in Replies, Answer(r, reply), Untouched,
         requests[r].pc \notin Owning \cup Deleted
  PROVE  Inv'
<1>1. SameStates /\ StaysConfirmed
  BY DEF SameStates, StaysConfirmed, Untouched
<1>2. TypeInv
  BY DEF Inv
<1> QED BY <1>1, <1>2, Answered DEF Untouched, TypeInv

(* Rows are written that keep their users, by a request that goes on to    *)
(* what needs no row.                                                      *)
LEMMA Written ==
  ASSUME Inv, NEW r \in Requests, NEW table \in Tables, NEW q, RequestOK(q),
         Commit(r, table, q), UNCHANGED <<users, lost, failed>>,
         \A i \in Ids : UidOf(i)' = UidOf(i), EmailInv',
         requests[r].pc \notin Owning \cup Deleted,
         q.pc \in {"done", "sync_email"}, q.uid # None => Used(q.uid)
  PROVE  Inv'
<1>1. TypeInv' /\ Others(r) /\ requests'[r] = q
  BY CommitStep DEF Inv, TypeInv
<1>2. SameLinks /\ SameStates /\ StaysConfirmed
  BY DEF SameLinks, SameStates, StaysConfirmed
<1>3. MayBecome(r, requests'[r])
  BY <1>1 DEF MayBecome, Owning, Deleting
<1>4. UserInv'
  BY <1>1, <1>2, <1>3, QuietUsers DEF Inv
<1>5. Confirmed(requests[r])'
  BY <1>1 DEF Confirmed, SignInPcs
<1>6. requests'[r].stale = {} => Known(requests[r])'
  <2>1. CASE q.pc = "done"
    BY <1>1, <2>1 DEF Known, PatchPcs, BatchPcs, Deleting, Deleted
  <2>2. CASE q.pc = "sync_email"
    BY <1>1, <2>2 DEF Known, PatchPcs, BatchPcs, Deleting, Deleted
  <2> QED BY <2>1, <2>2
<1> QED BY <1>1, <1>2, <1>4, <1>5, <1>6, Assembled

-----------------------------------------------------------------------------
(* The ways a request goes on. *)

LEMMA GoesTo ==
  ASSUME TypeInv, NEW r \in Requests,
         NEW pc \in {"update", "begin_batch", "delete_user", "begin_delete", "delete_row",
                     "create_user", "clean_up"},
         requests' = GoTo(r, pc)
  PROVE  /\ Alone(r) /\ requests'[r] \in Request /\ requests'[r].pc = pc
         /\ requests'[r].kind = requests[r].kind /\ requests'[r].id = requests[r].id
         /\ requests'[r].seen = requests[r].seen /\ requests'[r].change = requests[r].change
         /\ requests'[r].ids = requests[r].ids /\ requests'[r].demotes = requests[r].demotes
         /\ requests'[r].uid = requests[r].uid /\ requests'[r].stale = requests[r].stale
<1> DEFINE p == requests[r]
           q == requests'[r]
<1>1. requests \in [Requests -> Request] /\ p \in Request
  BY DEF TypeInv
<1>2. q = [p EXCEPT !.pc = pc] /\ Alone(r)
  BY <1>1 DEF GoTo, Alone
<1> HIDE DEF p, q
<1>3. q \in Request /\ q.pc = pc
  BY <1>1, <1>2 DEF Request
<1>4. q.kind = p.kind /\ q.id = p.id /\ q.seen = p.seen /\ q.change = p.change
  BY <1>1, <1>2 DEF Request
<1>5. q.ids = p.ids /\ q.demotes = p.demotes /\ q.uid = p.uid /\ q.stale = p.stale
  BY <1>1, <1>2 DEF Request
<1> QED BY <1>2, <1>3, <1>4, <1>5 DEF p, q

(* It begins a transaction. *)
LEMMA Snaps ==
  ASSUME TypeInv, NEW r \in Requests, NEW pc \in {"demote", "batch"},
         requests' = [requests EXCEPT ![r].pc = pc, ![r].snap = accounts]
  PROVE  /\ Alone(r) /\ requests'[r] \in Request /\ requests'[r].pc = pc
         /\ requests'[r].kind = requests[r].kind /\ requests'[r].id = requests[r].id
         /\ requests'[r].seen = requests[r].seen /\ requests'[r].change = requests[r].change
         /\ requests'[r].ids = requests[r].ids /\ requests'[r].demotes = requests[r].demotes
         /\ requests'[r].uid = requests[r].uid /\ requests'[r].stale = requests[r].stale
         /\ requests'[r].snap = accounts
<1> DEFINE p == requests[r]
           q == requests'[r]
<1>1. requests \in [Requests -> Request] /\ p \in Request /\ accounts \in Tables
  BY DEF TypeInv
<1>2. q = [p EXCEPT !.pc = pc, !.snap = accounts] /\ Alone(r)
  BY <1>1 DEF Alone
<1> HIDE DEF p, q
<1>3. q \in Request /\ q.pc = pc /\ q.snap = accounts
  BY <1>1, <1>2 DEF Request, Tables
<1>4. q.kind = p.kind /\ q.id = p.id /\ q.seen = p.seen /\ q.change = p.change
  BY <1>1, <1>2 DEF Request
<1>5. q.ids = p.ids /\ q.demotes = p.demotes /\ q.uid = p.uid /\ q.stale = p.stale
  BY <1>1, <1>2 DEF Request
<1> QED BY <1>2, <1>3, <1>4, <1>5 DEF p, q

(* It has made a login user. *)
LEMMA Makes ==
  ASSUME TypeInv, NEW r \in Requests, NEW pc \in Owning, NEW u \in Uids,
         requests' = [requests EXCEPT ![r].pc = pc, ![r].uid = u]
  PROVE  /\ Alone(r) /\ requests'[r] \in Request /\ requests'[r].pc = pc
         /\ requests'[r].kind = requests[r].kind /\ requests'[r].id = requests[r].id
         /\ requests'[r].change = requests[r].change
         /\ requests'[r].uid = u
<1> DEFINE p == requests[r]
           q == requests'[r]
<1>1. requests \in [Requests -> Request] /\ p \in Request
  BY DEF TypeInv
<1>2. q = [p EXCEPT !.pc = pc, !.uid = u] /\ Alone(r)
  BY <1>1 DEF Alone
<1> HIDE DEF p, q
<1>3. q \in Request /\ q.pc = pc /\ q.uid = u
  BY <1>1, <1>2 DEF Request, Owning
<1>4. q.kind = p.kind /\ q.id = p.id /\ q.change = p.change
  BY <1>1, <1>2 DEF Request
<1> QED BY <1>2, <1>3, <1>4 DEF p, q

(* It begins. *)
LEMMA Begins ==
  ASSUME TypeInv, NEW r \in Requests, NEW kind, NEW fields, Begin(r, kind, fields)
  PROVE  Alone(r) /\ requests'[r] = [fields EXCEPT !.kind = kind]
BY DEF TypeInv, Begin, Alone

(* What a request may work on when it begins: it has made no user yet. *)
LEMMA IdleOwnsNothing ==
  ASSUME NEW r \in Requests, requests[r].pc = "idle"
  PROVE  requests[r].pc \notin Owning \cup Deleting \cup Deleted
BY DEF Owning, Deleting, Deleted

-----------------------------------------------------------------------------
(* The requests of administrators: no step of them breaks the invariant. *)

LEMMA ChangesOK ==
  RoleChanges \cup StatusChanges \cup EmailChanges \cup BatchChanges \subseteq Change
<1>1. NoChange \in Change
  BY DEF NoChange, Change
<1>2. RoleChanges \subseteq Change
  BY <1>1 DEF RoleChanges, Change, Roles
<1>3. StatusChanges \subseteq Change
  BY <1>1 DEF StatusChanges, Change, Statuses
<1>4. EmailChanges \subseteq Change
  BY DEF EmailChanges, Change, Roles
<1>5. BatchChanges \subseteq Change
  BY <1>1, <1>2 DEF BatchChanges, Change, Statuses
<1> QED BY <1>2, <1>3, <1>4, <1>5

LEMMA StartPatchInv ==
  ASSUME Inv, NEW r \in Requests, StartPatch(r)
  PROVE  Inv'
<1> DEFINE q == requests'[r]
<1>0. TypeInv
  BY DEF Inv
<1>1. PICK i \in Ids, change \in RoleChanges \cup StatusChanges \cup EmailChanges :
         /\ Exists(i)
         /\ Begin(r, "patch", [Idle EXCEPT
                !.pc = IF DemotesAdmin(accounts[i], change) THEN "begin_demotion"
                       ELSE IF change.email \notin {None, accounts[i].email} THEN "check_email"
                       ELSE "update",
                !.id = i, !.seen = accounts[i], !.change = change])
  BY DEF StartPatch
<1>2. change \in Change
  BY ChangesOK
<1>3. accounts[i] \in AccountRow
  BY <1>0, <1>1 DEF TypeInv, Tables, Exists
<1> DEFINE pc == IF DemotesAdmin(accounts[i], change) THEN "begin_demotion"
                 ELSE IF change.email \notin {None, accounts[i].email} THEN "check_email"
                 ELSE "update"
<1>4. Alone(r)
      /\ q = [[Idle EXCEPT !.pc = pc, !.id = i, !.seen = accounts[i], !.change = change]
                 EXCEPT !.kind = "patch"]
  BY <1>0, <1>1, Begins
<1>5. pc \in {"begin_demotion", "check_email", "update"}
      /\ (pc \in {"check_email", "update"} => ~DemotesAdmin(accounts[i], change))
  OBVIOUS
<1> HIDE DEF pc, q
<1>6. q.pc = pc /\ q.kind = "patch" /\ q.id = i /\ q.seen = accounts[i] /\ q.uid = None
      /\ q.change = change
  BY <1>4 DEF Idle
<1>7. q \in Request
  BY <1>2, <1>3, <1>4, <1>5 DEF Idle, Request, Kinds, AdminKinds
<1>8. RequestOK(q)
  BY <1>3, <1>5, <1>6, <1>7
     DEF RequestOK, PatchPcs, BatchPcs, Deleting, Deleted, CreatePcs, SignInPcs, Owning, WithRow,
         WithSeen, WithUser, WithEmail
<1>9. MayBecome(r, q) /\ Known(q) /\ Confirmed(q)
  BY <1>5, <1>6
     DEF MayBecome, Owning, Deleting, Deleted, Known, BatchPcs, Confirmed, SignInPcs
<1>10. requests[r].pc \notin Owning \cup Deleting \cup Deleted /\ Untouched
  BY IdleOwnsNothing DEF StartPatch
<1> QED BY <1>4, <1>8, <1>9, <1>10, Moved DEF q

LEMMA CheckEmailInv ==
  ASSUME Inv, NEW r \in Requests, CheckEmail(r)
  PROVE  Inv'
<1>0. TypeInv /\ RequestOK(requests[r]) /\ requests[r].pc = "check_email" /\ Untouched
  BY DEF Inv, TypeInv, CheckEmail
<1>00. requests[r].pc \notin Owning \cup Deleted
  BY <1>0 DEF Owning, Deleted
<1>1. CASE Answer(r, "email_taken")
  BY <1>0, <1>00, <1>1, AnsweredOnly DEF Replies
<1>2. CASE requests' = GoTo(r, "update")
  <2> DEFINE q == requests'[r]
  <2>1. /\ Alone(r) /\ q \in Request /\ q.pc = "update"
        /\ q.kind = requests[r].kind /\ q.id = requests[r].id
        /\ q.seen = requests[r].seen /\ q.change = requests[r].change
        /\ q.uid = requests[r].uid /\ q.stale = requests[r].stale
    BY <1>0, <1>2, GoesTo
  <2>2. RequestOK(q)
    BY <1>0, <2>1
       DEF RequestOK, PatchPcs, BatchPcs, Deleting, Deleted, CreatePcs, SignInPcs, Owning, WithRow,
           WithSeen, WithUser, WithEmail
  <2>3. q.uid # None => Used(q.uid)
    BY <1>0, <2>1 DEF Inv, UserInv, OneOwner, InFlight
  <2>4. q.stale = {} => Known(q)
    <3>1. requests[r].stale = {} => Known(requests[r])
      BY DEF Inv, KnownInv
    <3> QED BY <1>0, <2>1, <3>1 DEF Known, BatchPcs, Deleting, Deleted
  <2>5. MayBecome(r, q) /\ Confirmed(q)
    BY <2>1, <2>3 DEF MayBecome, Owning, Deleting, Confirmed, SignInPcs
  <2>6. requests[r].pc \notin Owning \cup Deleted
    BY <1>0 DEF Owning, Deleted
  <2> QED BY <1>0, <2>1, <2>2, <2>4, <2>5, <2>6, Moved
<1> QED BY <1>1, <1>2 DEF CheckEmail

(* What updateMany writes. *)
LEMMA UpdatedOK ==
  ASSUME TypeInv, NEW set \in SUBSET Ids, \A i \in set : Exists(i), NEW change \in Change
  PROVE  /\ Updated(set, change) \in Tables
         /\ \A i \in Ids \ set : Updated(set, change)[i] = accounts[i]
         /\ \A i \in set :
               /\ Updated(set, change)[i] \in AccountRow
               /\ Updated(set, change)[i].uid = accounts[i].uid
               /\ Updated(set, change)[i].email = Or(change.email, accounts[i].email)
               /\ Updated(set, change)[i].role = Or(change.role, accounts[i].role)
               /\ Updated(set, change)[i].status = Or(change.status, accounts[i].status)
<1>1. ASSUME NEW row \in AccountRow
      PROVE  /\ Changed(row, change) \in AccountRow
             /\ Changed(row, change).uid = row.uid
             /\ Changed(row, change).email = Or(change.email, row.email)
             /\ Changed(row, change).role = Or(change.role, row.role)
             /\ Changed(row, change).status = Or(change.status, row.status)
  <2>1. /\ Or(change.role, row.role) \in Roles
        /\ Or(change.status, row.status) \in Statuses
        /\ Or(change.email, row.email) \in Emails
    BY DEF Or, Change, AccountRow
  <2>2. Changed(row, change) \in AccountRow
    BY <2>1 DEF Changed, AccountRow
  <2>3. /\ Changed(row, change).uid = row.uid
        /\ Changed(row, change).email = Or(change.email, row.email)
    BY DEF Changed, AccountRow
  <2>4. /\ Changed(row, change).role = Or(change.role, row.role)
        /\ Changed(row, change).status = Or(change.status, row.status)
    BY DEF Changed, AccountRow
  <2> QED BY <2>2, <2>3, <2>4
<1>2. \A i \in set : i \in Ids /\ accounts[i] \in AccountRow
  BY DEF TypeInv, Tables, Exists
<1>3. \A i \in Ids : Updated(set, change)[i]
                     = IF i \in set THEN Changed(accounts[i], change) ELSE accounts[i]
  BY DEF Updated
<1>4. \A i \in Ids : Updated(set, change)[i] \in AccountRow \cup {None, Gone}
  BY <1>1, <1>2, <1>3 DEF TypeInv, Tables
<1>5. Updated(set, change) \in Tables
  BY <1>4 DEF Updated, Tables
<1> QED BY <1>1, <1>2, <1>3, <1>5

(* A row is a row, and not a mark. *)
LEMMA RowExists ==
  ASSUME NEW i \in Ids, accounts[i] \in AccountRow
  PROVE  Exists(i)
BY RowsAssumption DEF Exists

LEMMA RowExistsNow ==
  ASSUME NEW i \in Ids, accounts'[i] \in AccountRow
  PROVE  Exists(i)'
BY RowsAssumption DEF Exists

LEMMA AfterUpdateOK ==
  ASSUME Inv, NEW r \in Requests, requests[r].pc \in {"update", "demote"},
         Exists(requests[r].id)
  PROVE  LET q == AfterUpdate(r, requests[r].id)
         IN  RequestOK(q) /\ q.pc \in {"done", "sync_email"} /\ (q.uid # None => Used(q.uid))
<1> DEFINE p == requests[r]
           i == p.id
           q == AfterUpdate(r, i)
<1>0. TypeInv /\ RequestOK(p) /\ p \in Request
  BY RequestAt DEF Inv
<1>1. i \in Ids /\ p.kind = "patch" /\ p.seen \in AccountRow
  BY <1>0 DEF RequestOK, PatchPcs, WithRow, WithSeen
<1>2. CASE p.change.email \notin {None, p.seen.email} /\ accounts[i].uid # None
  <2>1. q = [p EXCEPT !.pc = "sync_email", !.uid = accounts[i].uid]
    BY <1>2 DEF AfterUpdate
  <2>2. accounts[i].uid \in Uids
    BY <1>0, <1>1, <1>2 DEF TypeInv, Tables, Exists, AccountRow
  <2>3. p.change.email \in Emails
    BY <1>0, <1>2 DEF Request, Change
  <2> HIDE DEF q, p
  <2>4. q \in Request
    BY <1>0, <2>1, <2>2 DEF Request
  <2>5. q.pc = "sync_email" /\ q.uid = accounts[i].uid /\ q.id = p.id /\ q.kind = p.kind
    BY <1>0, <2>1 DEF Request
  <2>6. q.seen = p.seen /\ q.change = p.change
    BY <1>0, <2>1 DEF Request
  <2>7. RequestOK(q)
    BY <1>1, <2>2, <2>3, <2>4, <2>5, <2>6
       DEF RequestOK, PatchPcs, BatchPcs, Deleting, Deleted, CreatePcs, SignInPcs, Owning, WithRow,
           WithSeen, WithUser, WithEmail
  <2>8. Used(q.uid)
    BY <1>1, <1>2, <2>5 DEF Inv, UserInv, OneOwner, UidOf, p
  <2> QED BY <2>5, <2>7, <2>8 DEF q, p
<1>3. CASE ~(p.change.email \notin {None, p.seen.email} /\ accounts[i].uid # None)
  <2>1. q = Over(r, "ok")
    BY <1>3 DEF AfterUpdate
  <2>2. "ok" \in Replies
    BY DEF Replies
  <2> QED BY <1>0, <2>1, <2>2, OverOK
<1> QED BY <1>2, <1>3

(* An update or a demotion that is written. *)
LEMMA PatchWritten ==
  ASSUME Inv, NEW r \in Requests, requests[r].pc \in {"update", "demote"},
         NEW i, i = requests[r].id, NEW change, change = requests[r].change,
         Exists(i), ~EmailTaken(r),
         Commit(r, Updated({i}, change), AfterUpdate(r, i)),
         UNCHANGED <<users, lost, failed>>
  PROVE  Inv'
<1> DEFINE table == Updated({i}, change)
           q == AfterUpdate(r, i)
<1>0. TypeInv /\ RequestOK(requests[r]) /\ requests[r] \in Request
  BY RequestAt DEF Inv
<1>1. i \in Ids /\ change \in Change
  BY <1>0 DEF RequestOK, PatchPcs, WithRow, Request
<1>2. /\ table \in Tables
      /\ \A j \in Ids \ {i} : table[j] = accounts[j]
      /\ table[i] \in AccountRow
      /\ table[i].uid = accounts[i].uid
      /\ table[i].email = Or(change.email, accounts[i].email)
  <2>1. {i} \in SUBSET Ids /\ \A j \in {i} : Exists(j)
    BY <1>1
  <2> QED BY <1>0, <1>1, <2>1, UpdatedOK
<1>3. accounts' = table
  BY DEF Commit
<1>4. RequestOK(q) /\ q.pc \in {"done", "sync_email"} /\ (q.uid # None => Used(q.uid))
  BY AfterUpdateOK
<1> HIDE DEF table, q
<1>5. \A j \in Ids : UidOf(j)' = UidOf(j)
  <2>1. Exists(i)'
    BY <1>1, <1>2, <1>3, RowExistsNow
  <2>2. UidOf(i)' = UidOf(i)
    BY <1>2, <1>3, <2>1 DEF UidOf
  <2> QED BY <1>2, <1>3, <2>2 DEF UidOf, Exists
<1>6. EmailInv'
  <2>1. ASSUME NEW j \in Ids \ {i}, Exists(j)
        PROVE  accounts[j].email # accounts'[i].email
    <3>1. CASE change.email = None
      BY <1>1, <1>2, <1>3, <2>1, <3>1 DEF Or, Inv, EmailInv
    <3>2. CASE change.email # None
      BY <1>1, <1>2, <1>3, <2>1, <3>2 DEF Or, EmailTaken, RowsWithEmail, Exists
    <3> QED BY <3>1, <3>2
  <2>2. EmailInv
    BY DEF Inv
  <2> QED BY <1>1, <1>2, <1>3, <2>1, <2>2, EmailTakenOnce
<1>7. requests[r].pc \notin Owning \cup Deleted
  BY DEF Owning, Deleted
<1> QED BY <1>2, <1>4, <1>5, <1>6, <1>7, Written DEF table, q

LEMMA UpdateAccountInv ==
  ASSUME Inv, NEW r \in Requests, UpdateAccount(r)
  PROVE  Inv'
<1>0. requests[r].pc = "update"
  BY DEF UpdateAccount
<1>1. CASE Answer(r, "error") /\ Untouched
  <2>1. requests[r].pc \notin Owning \cup Deleted
    BY <1>0 DEF Owning, Deleted
  <2> QED BY <1>1, <2>1, AnsweredOnly DEF Replies
<1>2. CASE ~(~Exists(requests[r].id) \/ EmailTaken(r))
  BY <1>0, <1>2, PatchWritten DEF UpdateAccount
<1> QED BY <1>1, <1>2 DEF UpdateAccount

LEMMA BeginDemotionInv ==
  ASSUME Inv, NEW r \in Requests, BeginDemotion(r)
  PROVE  Inv'
<1>0. TypeInv /\ RequestOK(requests[r]) /\ requests[r].pc = "begin_demotion" /\ Untouched
  BY DEF Inv, TypeInv, BeginDemotion
<1>00. requests[r].pc \notin Owning \cup Deleted
  BY <1>0 DEF Owning, Deleted
<1>1. CASE Answer(r, "email_taken")
  BY <1>0, <1>00, <1>1, AnsweredOnly DEF Replies
<1>2. CASE requests' = [requests EXCEPT ![r].pc = "demote", ![r].snap = accounts]
  <2> DEFINE q == requests'[r]
  <2>1. /\ Alone(r) /\ q \in Request /\ q.pc = "demote" /\ q.snap = accounts
        /\ q.kind = requests[r].kind /\ q.id = requests[r].id
        /\ q.seen = requests[r].seen /\ q.change = requests[r].change
        /\ q.uid = requests[r].uid /\ q.stale = requests[r].stale
    BY <1>0, <1>2, Snaps
  <2>2. RequestOK(q)
    BY <1>0, <2>1
       DEF TypeInv, RequestOK, PatchPcs, BatchPcs, Deleting, Deleted, CreatePcs, SignInPcs, Owning,
           WithRow, WithSeen, WithUser, WithEmail
  <2>3. q.uid # None => Used(q.uid)
    BY <1>0, <2>1 DEF Inv, UserInv, OneOwner, InFlight
  <2>4. Known(q)
    BY <2>1 DEF Known, BatchPcs, Deleting, Deleted
  <2>5. MayBecome(r, q) /\ Confirmed(q)
    BY <2>1, <2>3 DEF MayBecome, Owning, Deleting, Confirmed, SignInPcs
  <2>6. requests[r].pc \notin Owning \cup Deleted
    BY <1>0 DEF Owning, Deleted
  <2> QED BY <1>0, <2>1, <2>2, <2>4, <2>5, <2>6, Moved
<1> QED BY <1>1, <1>2 DEF BeginDemotion

LEMMA DemoteInv ==
  ASSUME Inv, NEW r \in Requests, Demote(r)
  PROVE  Inv'
<1>0. requests[r].pc = "demote"
  BY DEF Demote
<1>1. ASSUME NEW reply \in {"already_changed", "error", "last_admin"},
             Answer(r, reply), Untouched
      PROVE  Inv'
  <2>1. requests[r].pc \notin Owning \cup Deleted
    BY <1>0 DEF Owning, Deleted
  <2> QED BY <1>1, <2>1, AnsweredOnly DEF Replies
<1>2. CASE /\ requests[r].id \in ActiveAdmins(accounts)
           /\ ~EmailTaken(r)
           /\ Commit(r, Updated({requests[r].id}, requests[r].change),
                     AfterUpdate(r, requests[r].id))
           /\ UNCHANGED <<users, lost, failed>>
  <2>1. Exists(requests[r].id)
    BY <1>2 DEF ActiveAdmins, Exists
  <2> QED BY <1>0, <1>2, <2>1, PatchWritten
<1> QED BY <1>1, <1>2 DEF Demote

LEMMA SyncEmailInv ==
  ASSUME Inv, NEW r \in Requests, SyncEmail(r)
  PROVE  Inv'
<1>0. TypeInv /\ RequestOK(requests[r]) /\ requests[r].pc = "sync_email"
  BY DEF Inv, TypeInv, SyncEmail
<1>1. requests[r].uid \in Uids /\ requests[r].change.email \in Emails
  BY <1>0 DEF RequestOK, WithUser, WithEmail
<1>2. users' \in [Uids -> User] /\ SameStates /\ StaysConfirmed
  <2>1. CASE users' = users
    BY <1>0, <2>1 DEF SameStates, StaysConfirmed, TypeInv
  <2>2. CASE users' = [users EXCEPT ![requests[r].uid].email = requests[r].change.email]
    BY <1>0, <1>1, <2>2 DEF SameStates, StaysConfirmed, TypeInv, User
  <2> QED BY <2>1, <2>2 DEF SyncEmail
<1>3. Answer(r, "ok") /\ UNCHANGED <<accounts, trusted, lost, failed>>
  BY DEF SyncEmail
<1>4. lost' \subseteq Uids /\ failed' \subseteq Ids
  BY <1>0, <1>3 DEF TypeInv
<1>5. requests[r].pc \notin Owning \cup Deleted
  BY <1>0 DEF Owning, Deleted
<1> QED BY <1>0, <1>2, <1>3, <1>4, <1>5, Answered DEF Replies

LEMMA StartBatchInv ==
  ASSUME Inv, NEW r \in Requests, StartBatch(r)
  PROVE  Inv'
<1> DEFINE q == requests'[r]
<1>0. TypeInv
  BY DEF Inv
<1>1. PICK set \in SUBSET Ids, change \in BatchChanges :
         LET found == {i \in set : Exists(i)}
         IN  Begin(r, "batch", [Idle EXCEPT
                    !.pc = IF BatchDemotes(found, change) THEN "count_outside" ELSE "begin_batch",
                    !.ids = found, !.change = change,
                    !.demotes = BatchDemotes(found, change)])
  BY DEF StartBatch
<1> DEFINE found == {i \in set : Exists(i)}
           demotes == BatchDemotes(found, change)
           pc == IF demotes THEN "count_outside" ELSE "begin_batch"
<1>2. demotes \in BOOLEAN /\ found \subseteq Ids /\ pc \in {"count_outside", "begin_batch"}
  BY DEF BatchDemotes
<1>3. change \in Change
  BY ChangesOK
<1>4. Alone(r)
      /\ q = [[Idle EXCEPT !.pc = pc, !.ids = found, !.change = change, !.demotes = demotes]
                 EXCEPT !.kind = "batch"]
  BY <1>0, <1>1, Begins
<1> HIDE DEF found, demotes, pc, q
<1>5. q.pc = pc /\ q.kind = "batch" /\ q.uid = None /\ q.change = change
      /\ q.ids = found /\ q.demotes = demotes
  BY <1>4 DEF Idle
<1>6. q \in Request
  BY <1>2, <1>3, <1>4 DEF Idle, Request, Kinds, AdminKinds
<1>7. RequestOK(q)
  BY <1>2, <1>5, <1>6
     DEF RequestOK, PatchPcs, BatchPcs, Deleting, Deleted, CreatePcs, SignInPcs, Owning, WithRow,
         WithSeen, WithUser, WithEmail
<1>8. q.demotes \/ ~BatchDemotes(q.ids, q.change)
  BY <1>5 DEF demotes
<1>9. MayBecome(r, q) /\ Known(q) /\ Confirmed(q)
  BY <1>2, <1>5, <1>8
     DEF MayBecome, Owning, Deleting, Deleted, Known, Confirmed, SignInPcs
<1>10. requests[r].pc \notin Owning \cup Deleting \cup Deleted /\ Untouched
  BY IdleOwnsNothing DEF StartBatch
<1> QED BY <1>4, <1>7, <1>9, <1>10, Moved DEF q

LEMMA CountOutsideInv ==
  ASSUME Inv, NEW r \in Requests, CountOutside(r)
  PROVE  Inv'
<1>0. TypeInv /\ RequestOK(requests[r]) /\ requests[r].pc = "count_outside" /\ Untouched
  BY DEF Inv, TypeInv, CountOutside
<1>1. requests[r].pc \notin Owning \cup Deleted
  BY <1>0 DEF Owning, Deleted
<1>2. CASE Answer(r, "last_admin")
  BY <1>0, <1>1, <1>2, AnsweredOnly DEF Replies
<1>3. CASE requests' = GoTo(r, "begin_batch")
  <2> DEFINE q == requests'[r]
  <2>1. /\ Alone(r) /\ q \in Request /\ q.pc = "begin_batch"
        /\ q.kind = requests[r].kind /\ q.change = requests[r].change
        /\ q.ids = requests[r].ids /\ q.demotes = requests[r].demotes
        /\ q.uid = requests[r].uid /\ q.stale = requests[r].stale
    BY <1>0, <1>3, GoesTo
  <2>2. RequestOK(q)
    BY <1>0, <2>1
       DEF RequestOK, PatchPcs, BatchPcs, Deleting, Deleted, CreatePcs, SignInPcs, Owning, WithRow,
           WithSeen, WithUser, WithEmail
  <2>3. q.uid # None => Used(q.uid)
    BY <1>0, <2>1 DEF Inv, UserInv, OneOwner, InFlight
  <2>4. q.stale = {} => Known(q)
    <3>1. requests[r].stale = {} => Known(requests[r])
      BY DEF Inv, KnownInv
    <3> QED BY <1>0, <2>1, <3>1 DEF Known, BatchPcs, Deleting, Deleted
  <2>5. MayBecome(r, q) /\ Confirmed(q)
    BY <2>1, <2>3 DEF MayBecome, Owning, Deleting, Confirmed, SignInPcs
  <2> QED BY <1>0, <1>1, <2>1, <2>2, <2>4, <2>5, Moved DEF Deleting
<1> QED BY <1>2, <1>3 DEF CountOutside

LEMMA BeginBatchInv ==
  ASSUME Inv, NEW r \in Requests, BeginBatch(r)
  PROVE  Inv'
<1> DEFINE q == requests'[r]
<1>0. /\ TypeInv /\ RequestOK(requests[r]) /\ requests[r].pc = "begin_batch" /\ Untouched
      /\ requests' = [requests EXCEPT ![r].pc = "batch", ![r].snap = accounts]
  BY DEF Inv, TypeInv, BeginBatch
<1>1. /\ Alone(r) /\ q \in Request /\ q.pc = "batch" /\ q.snap = accounts
      /\ q.kind = requests[r].kind /\ q.change = requests[r].change
      /\ q.ids = requests[r].ids /\ q.demotes = requests[r].demotes
      /\ q.uid = requests[r].uid /\ q.stale = requests[r].stale
  BY <1>0, Snaps
<1>2. RequestOK(q)
  BY <1>0, <1>1
     DEF TypeInv, RequestOK, PatchPcs, BatchPcs, Deleting, Deleted, CreatePcs, SignInPcs, Owning,
         WithRow, WithSeen, WithUser, WithEmail
<1>3. q.uid # None => Used(q.uid)
  BY <1>0, <1>1 DEF Inv, UserInv, OneOwner, InFlight
<1>4. q.stale = {} => Known(q)
  <2>1. requests[r].stale = {} => Known(requests[r])
    BY DEF Inv, KnownInv
  <2> QED BY <1>0, <1>1, <2>1 DEF Known, BatchPcs, Deleting, Deleted
<1>5. MayBecome(r, q) /\ Confirmed(q)
  BY <1>1, <1>3 DEF MayBecome, Owning, Deleting, Confirmed, SignInPcs
<1>6. requests[r].pc \notin Owning \cup Deleting \cup Deleted
  BY <1>0 DEF Owning, Deleting, Deleted
<1> QED BY <1>0, <1>1, <1>2, <1>4, <1>5, <1>6, Moved

LEMMA WriteBatchInv ==
  ASSUME Inv, NEW r \in Requests, WriteBatch(r)
  PROVE  Inv'
<1>0. TypeInv /\ RequestOK(requests[r]) /\ requests[r].pc = "batch"
  BY DEF Inv, TypeInv, WriteBatch
<1>1. requests[r].pc \notin Owning \cup Deleted
  BY <1>0 DEF Owning, Deleted
<1>2. CASE Answer(r, "last_admin") /\ Untouched
  BY <1>1, <1>2, AnsweredOnly DEF Replies
<1>3. ASSUME NEW set \in SUBSET Ids, \A i \in set : Exists(i),
             NEW change, change = requests[r].change,
             Commit(r, Updated(set, change), Over(r, "ok")),
             UNCHANGED <<users, lost, failed>>
      PROVE  Inv'
  <2> DEFINE table == Updated(set, change)
  <2>1. change \in BatchChanges /\ change \in Change
    BY <1>0, <1>3, ChangesOK DEF RequestOK, BatchPcs
  <2>2. change.email = None
    BY <2>1 DEF BatchChanges, RoleChanges, NoChange
  <2>3. /\ table \in Tables
        /\ \A i \in Ids \ set : table[i] = accounts[i]
        /\ \A i \in set : /\ table[i] \in AccountRow /\ table[i].uid = accounts[i].uid
                          /\ table[i].email = Or(change.email, accounts[i].email)
    BY <1>0, <1>3, <2>1, UpdatedOK
  <2>4. accounts' = table
    BY <1>3 DEF Commit
  <2> HIDE DEF table
  <2>5. ASSUME NEW i \in Ids
        PROVE  UidOf(i)' = UidOf(i)
               /\ (Exists(i)' => Exists(i) /\ accounts'[i].email = accounts[i].email)
    <3>1. CASE i \in set
      <4>1. Exists(i)' /\ Exists(i)
        BY <1>3, <2>3, <2>4, <3>1, RowExistsNow
      <4> QED BY <2>2, <2>3, <2>4, <3>1, <4>1 DEF UidOf, Or
    <3>2. CASE i \notin set
      BY <2>3, <2>4, <3>2 DEF UidOf, Exists
    <3> QED BY <3>1, <3>2
  <2>6. EmailInv'
    BY <2>5, EmailsKept DEF SameEmails, Inv
  <2>7. RequestOK(Over(r, "ok")) /\ Over(r, "ok").pc = "done" /\ Over(r, "ok").uid = None
    BY <1>0, OverOK DEF Replies
  <2> QED BY <1>1, <1>3, <2>3, <2>5, <2>6, <2>7, Written DEF table
<1>4. CASE ~(Answer(r, "last_admin") /\ Untouched)
  <2> DEFINE req == requests[r]
             live == req.ids \cap ActiveAdmins(req.snap)
             set == IF req.demotes /\ live # {} THEN live \cap ActiveAdmins(accounts)
                    ELSE {i \in req.ids : Exists(i)}
  <2>1. Commit(r, Updated(set, req.change), Over(r, "ok")) /\ UNCHANGED <<users, lost, failed>>
    BY <1>4 DEF WriteBatch
  <2>2. req.ids \subseteq Ids
    BY <1>0 DEF RequestOK, Request
  <2>3. set \in SUBSET Ids /\ \A i \in set : Exists(i)
    BY <2>2 DEF ActiveAdmins, Exists
  <2> HIDE DEF set
  <2> QED BY <1>3, <2>1, <2>3
<1> QED BY <1>2, <1>4

-----------------------------------------------------------------------------
(* Deletion. *)

LEMMA AtMostOne ==
  ASSUME NEW S, NEW i, S \subseteq {i}
  PROVE  Cardinality(S) <= 1
<1>1. S = {} \/ S = {i}
  OBVIOUS
<1>2. CASE S = {}
  BY <1>2, FS_EmptySet
<1>3. CASE S = {i}
  <2>1. Cardinality({i}) = 1
    BY FS_Singleton
  <2> QED BY <1>3, <2>1
<1> QED BY <1>1, <1>2, <1>3

LEMMA StartDeleteInv ==
  ASSUME Inv, NEW r \in Requests, StartDelete(r)
  PROVE  Inv'
<1> DEFINE q == requests'[r]
<1>0. TypeInv
  BY DEF Inv
<1>1. PICK i \in Ids :
         /\ Exists(i)
         /\ Begin(r, "delete", [Idle EXCEPT
                !.pc = IF accounts[i].role = "ADMIN" THEN "count_admins" ELSE "delete_user",
                !.id = i, !.seen = accounts[i], !.uid = accounts[i].uid])
  BY DEF StartDelete
<1> DEFINE pc == IF accounts[i].role = "ADMIN" THEN "count_admins" ELSE "delete_user"
<1>2. accounts[i] \in AccountRow /\ accounts[i].uid \in Uids \cup {None}
  BY <1>0, <1>1 DEF TypeInv, Tables, Exists, AccountRow
<1>3. Alone(r)
      /\ q = [[Idle EXCEPT !.pc = pc, !.id = i, !.seen = accounts[i], !.uid = accounts[i].uid]
                 EXCEPT !.kind = "delete"]
  BY <1>0, <1>1, Begins
<1>4. pc \in Deleting
  BY DEF Deleting
<1> HIDE DEF pc, q
<1>5. q.pc = pc /\ q.kind = "delete" /\ q.id = i /\ q.seen = accounts[i]
      /\ q.uid = accounts[i].uid
  BY <1>3 DEF Idle
<1>6. q \in Request
  BY <1>2, <1>3, <1>4 DEF Idle, Request, Kinds, AdminKinds, NoChange, Change, Deleting
<1>7. RequestOK(q)
  BY <1>2, <1>4, <1>5, <1>6
     DEF RequestOK, PatchPcs, BatchPcs, Deleting, Deleted, CreatePcs, SignInPcs, Owning, WithRow,
         WithSeen, WithUser, WithEmail
<1>8. MayBecome(r, q)
  <2>1. q.uid = UidOf(i)
    BY <1>1, <1>5 DEF UidOf
  <2>2. q.pc \notin Owning \cup {"idle", "done", "clean_up"}
    BY <1>4, <1>5 DEF Owning, Deleting
  <2> QED BY <1>5, <2>1, <2>2 DEF MayBecome, Inv, UserInv, OneOwner
<1>9. Known(q) /\ Confirmed(q)
  BY <1>4, <1>5 DEF Deleting, Known, PatchPcs, BatchPcs, Confirmed, SignInPcs
<1>10. requests[r].pc \notin Owning \cup Deleting \cup Deleted /\ Untouched
  BY IdleOwnsNothing DEF StartDelete
<1> QED BY <1>3, <1>7, <1>8, <1>9, <1>10, Moved DEF q

LEMMA CountAdminsInv ==
  ASSUME Inv, NEW r \in Requests, CountAdmins(r)
  PROVE  Inv'
<1>0. TypeInv /\ RequestOK(requests[r]) /\ requests[r].pc = "count_admins" /\ Untouched
  BY DEF Inv, TypeInv, CountAdmins
<1>1. requests[r].pc \notin Owning \cup Deleted
  BY <1>0 DEF Owning, Deleted
<1>2. CASE Answer(r, "last_admin")
  BY <1>0, <1>1, <1>2, AnsweredOnly DEF Replies
<1>3. CASE requests' = GoTo(r, "delete_user")
  <2> DEFINE q == requests'[r]
  <2>1. /\ Alone(r) /\ q \in Request /\ q.pc = "delete_user"
        /\ q.kind = requests[r].kind /\ q.id = requests[r].id /\ q.seen = requests[r].seen
        /\ q.uid = requests[r].uid /\ q.stale = requests[r].stale
    BY <1>0, <1>3, GoesTo
  <2>2. RequestOK(q)
    BY <1>0, <2>1
       DEF RequestOK, PatchPcs, BatchPcs, Deleting, Deleted, CreatePcs, SignInPcs, Owning, WithRow,
           WithSeen, WithUser, WithEmail
  <2>3. MayBecome(r, q)
    <3>1. requests[r].pc \in Deleting /\ InFlight(r)
      BY <1>0 DEF Deleting, InFlight
    <3>2. q.pc \notin Owning \cup {"clean_up"}
      BY <2>1 DEF Owning
    <3> QED BY <2>1, <3>1, <3>2 DEF MayBecome, Inv, UserInv, OneOwner
  <2>4. q.stale = {} => Known(q)
    <3>1. requests[r].stale = {} => Known(requests[r])
      BY DEF Inv, KnownInv
    <3> QED BY <1>0, <2>1, <3>1 DEF Known, PatchPcs, BatchPcs, Deleting
  <2>5. Confirmed(q)
    BY <2>1 DEF Confirmed, SignInPcs
  <2> QED BY <1>0, <1>1, <2>1, <2>2, <2>3, <2>4, <2>5, Moved
<1> QED BY <1>2, <1>3 DEF CountAdmins

LEMMA DeleteUserInv ==
  ASSUME Inv, NEW r \in Requests, DeleteUser(r)
  PROVE  Inv'
<1> DEFINE next == IF requests[r].seen.role = "ADMIN" THEN "begin_delete" ELSE "delete_row"
           q == requests'[r]
<1>0. /\ TypeInv /\ RequestOK(requests[r]) /\ requests[r].pc = "delete_user"
      /\ UNCHANGED <<accounts, trusted, lost, failed>>
  BY DEF Inv, TypeInv, DeleteUser
<1>1. requests[r].pc \notin Owning \cup Deleted
  BY <1>0 DEF Owning, Deleted
<1>2. CASE Answer(r, "owns_events") /\ UNCHANGED users
  BY <1>0, <1>1, <1>2, AnsweredOnly DEF Replies, Untouched
<1>3. ASSUME requests' = GoTo(r, next)
      PROVE  /\ Alone(r) /\ RequestOK(q) /\ q.pc \in Deleted
             /\ q.id = requests[r].id /\ q.uid = requests[r].uid
             /\ q.stale = {} => Known(q)
  <2>1. /\ Alone(r) /\ q \in Request /\ q.pc = next
        /\ q.kind = requests[r].kind /\ q.id = requests[r].id /\ q.seen = requests[r].seen
        /\ q.uid = requests[r].uid /\ q.stale = requests[r].stale
    BY <1>0, <1>3, GoesTo
  <2>2. RequestOK(q) /\ q.pc \in Deleted
    BY <1>0, <2>1
       DEF RequestOK, PatchPcs, BatchPcs, Deleting, Deleted, CreatePcs, SignInPcs, Owning, WithRow,
           WithSeen, WithUser, WithEmail
  <2>3. q.stale = {} => Known(q)
    <3>1. requests[r].stale = {} => Known(requests[r])
      BY DEF Inv, KnownInv
    <3> QED BY <1>0, <2>1, <3>1 DEF Known, PatchPcs, BatchPcs, Deleting, Deleted
  <2> QED BY <2>1, <2>2, <2>3
<1>4. CASE requests' = GoTo(r, next) /\ UNCHANGED users
  <2>1. q.pc \in Deleted /\ q.uid = requests[r].uid
    BY <1>3, <1>4
  <2>2. MayBecome(r, q)
    BY <1>0, <2>1 DEF MayBecome, Owning, Deleting, Deleted, Inv, UserInv, OneOwner, InFlight
  <2>3. Confirmed(q)
    BY <2>1 DEF Confirmed, SignInPcs, Deleted
  <2> QED BY <1>0, <1>1, <1>3, <1>4, <2>2, <2>3, Moved DEF Untouched
<1>5. CASE /\ requests' = GoTo(r, next)
           /\ requests[r].uid # None
           /\ users' = [users EXCEPT ![requests[r].uid].state = "deleted"]
  <2>1. PICK u \in Uids : u = requests[r].uid
    BY <1>0, <1>5 DEF RequestOK, Request
  <2>2. /\ users' \in [Uids -> User] /\ users'[u].state = "deleted"
        /\ \A v \in Uids \ {u} : users'[v].state = users[v].state
        /\ \A v \in Uids : users'[v].confirmed = users[v].confirmed
                            /\ users'[v].reused = users[v].reused
    BY <1>0, <1>5, <2>1 DEF TypeInv, User
  <2>3. TypeInv' /\ Others(r)
    BY <1>0, <1>3, <1>5, <2>2, AloneStep DEF TypeInv
  <2>4. SameLinks /\ SameEmails /\ StaysConfirmed
    <3>1. SameLinks /\ SameEmails
      BY <1>0 DEF SameLinks, SameEmails, UidOf, Exists
    <3>2. StaysConfirmed
      BY <2>2, Zenon DEF StaysConfirmed
    <3> QED BY <3>1, <3>2
  <2>5. UserInv'
    <3>1. requests[r].pc \in Deleting
      BY <1>0 DEF Deleting
    <3> QED BY <1>0, <1>3, <1>5, <2>1, <2>2, <2>3, <2>4, <3>1, UserTaken DEF Inv
  <2>6. EmailInv'
    BY <2>4, EmailsKept DEF Inv
  <2>7. requests'[r].stale = {} => Known(requests[r])'
    BY <1>0, <1>3, <1>5 DEF Known, BatchDemotes
  <2>8. Confirmed(requests[r])'
    BY <1>3, <1>5 DEF Confirmed, SignInPcs, Deleted
  <2> QED BY <2>3, <2>4, <2>5, <2>6, <2>7, <2>8, Assembled
<1> QED BY <1>2, <1>4, <1>5 DEF DeleteUser, AtRefusal

LEMMA BeginDeleteInv ==
  ASSUME Inv, NEW r \in Requests, BeginDelete(r)
  PROVE  Inv'
<1>0. /\ TypeInv /\ RequestOK(requests[r]) /\ requests[r].pc = "begin_delete"
      /\ UNCHANGED <<accounts, users, trusted, lost>>
  BY DEF Inv, TypeInv, BeginDelete
<1>1. requests[r].pc \notin Owning /\ requests[r].id \in Ids
  BY <1>0 DEF Owning, Deleted, RequestOK, WithRow
<1>2. CASE Answer(r, "last_admin") /\ failed' = failed \cup {requests[r].id}
  <2>1. SameStates /\ StaysConfirmed
    BY <1>0 DEF SameStates, StaysConfirmed
  <2>2. users' \in [Uids -> User] /\ lost' = lost /\ lost' \subseteq Uids /\ failed' \subseteq Ids
    BY <1>0, <1>1, <1>2 DEF TypeInv
  <2> QED BY <1>0, <1>1, <1>2, <2>1, <2>2, Answered DEF Replies
<1>3. CASE /\ ~(Cardinality(ActiveAdmins(accounts)) <= 1)
           /\ requests' = GoTo(r, "delete_row") /\ UNCHANGED failed
  <2> DEFINE q == requests'[r]
  <2>1. /\ Alone(r) /\ q \in Request /\ q.pc = "delete_row"
        /\ q.kind = requests[r].kind /\ q.id = requests[r].id /\ q.seen = requests[r].seen
        /\ q.uid = requests[r].uid /\ q.stale = requests[r].stale
    BY <1>0, <1>3, GoesTo
  <2>2. RequestOK(q) /\ q.pc \in Deleted
    BY <1>0, <2>1
       DEF RequestOK, PatchPcs, BatchPcs, Deleting, Deleted, CreatePcs, SignInPcs, Owning, WithRow,
           WithSeen, WithUser, WithEmail
  <2>3. ~(ActiveAdmins(accounts) \subseteq {q.id})
    BY <1>3, AtMostOne
  <2>4. q.stale = {} => Known(q)
    <3>1. requests[r].stale = {} => Known(requests[r])
      BY DEF Inv, KnownInv
    <3> QED BY <1>0, <2>1, <2>3, <3>1 DEF Known, PatchPcs, BatchPcs, Deleting, Deleted
  <2>5. MayBecome(r, q) /\ Confirmed(q)
    BY <1>0, <2>1
       DEF MayBecome, Confirmed, SignInPcs, Owning, Deleting, Inv, UserInv, OneOwner, InFlight
  <2>6. Untouched
    BY <1>0, <1>3 DEF Untouched
  <2> QED BY <1>1, <2>1, <2>2, <2>4, <2>5, <2>6, Moved
<1> QED BY <1>2, <1>3 DEF BeginDelete

(* A row is deleted, by a request that has made no user or has no more use *)
(* of one; a user that stays without the row is listed.                    *)
LEMMA DroppedInv ==
  ASSUME Inv, NEW r \in Requests, NEW i \in Ids, NEW q, RequestOK(q),
         Commit(r, Dropped(i), q), UNCHANGED <<users, failed>>,
         Exists(i) /\ accounts[i].uid # None /\ Live(accounts[i].uid) => accounts[i].uid \in lost',
         lost \subseteq lost', lost' \subseteq Uids,
         requests[r].pc \notin Owning, requests[r].pc \in Deleted => requests[r].id = i,
         q.pc \in {"done", "create_user"},
         q.pc = "create_user" /\ q.uid # None => Used(q.uid)
  PROVE  Inv'
<1> DEFINE table == Dropped(i)
<1>0. TypeInv
  BY DEF Inv
<1>1. /\ table \in Tables /\ table[i] = Gone
      /\ \A j \in Ids \ {i} : table[j] = accounts[j]
  BY <1>0 DEF Dropped, TypeInv, Tables
<1>2. accounts' = table
  BY DEF Commit
<1>3. TypeInv' /\ Others(r) /\ requests'[r] = q
  BY <1>0, <1>1, CommitStep DEF TypeInv
<1> HIDE DEF table
<1>4. /\ ~Exists(i)' /\ UidOf(i)' = None
      /\ \A j \in Ids \ {i} : (Exists(j)' <=> Exists(j)) /\ UidOf(j)' = UidOf(j)
  BY <1>1, <1>2 DEF Exists, UidOf
<1>5. SameStates /\ StaysConfirmed /\ SameEmails
  BY <1>1, <1>2, <1>4 DEF SameStates, StaysConfirmed, SameEmails
<1>6. UserInv'
  <2>1. UidOf(i) # None /\ Live(UidOf(i)) => UidOf(i) \in lost'
    BY DEF UidOf
  <2>2. q.pc \notin Owning \cup Deleting \cup {"clean_up"}
    BY DEF Owning, Deleting
  <2>3. InFlight(r)' /\ requests'[r].uid # None => Used(requests'[r].uid)
    BY <1>3 DEF InFlight
  <2>4. UserInv
    BY DEF Inv
  <2> QED BY <1>0, <1>3, <1>4, <1>5, <2>1, <2>2, <2>3, <2>4, RowDropped
<1>7. EmailInv'
  BY <1>5, EmailsKept DEF Inv
<1>8. Known(requests[r])' /\ Confirmed(requests[r])'
  BY <1>3 DEF Known, Confirmed, PatchPcs, BatchPcs, Deleting, Deleted, SignInPcs
<1> QED BY <1>3, <1>5, <1>6, <1>7, <1>8, Assembled

LEMMA DeleteRowInv ==
  ASSUME Inv, NEW r \in Requests, DeleteRow(r)
  PROVE  Inv'
<1>0. TypeInv /\ RequestOK(requests[r]) /\ requests[r].pc = "delete_row"
  BY DEF Inv, TypeInv, DeleteRow
<1>1. PICK i \in Ids : i = requests[r].id
  BY <1>0 DEF RequestOK, WithRow, Deleted
<1>2. requests[r].pc \notin Owning
  BY <1>0 DEF Owning
<1>3. CASE /\ Exists(i)
           /\ Commit(r, Dropped(i), Over(r, "ok"))
           /\ lost' = lost \cup LeftBehind(i, requests[r].uid)
                           \cup (IF requests[r].uid # None /\ Live(requests[r].uid)
                                 THEN {requests[r].uid} ELSE {})
           /\ UNCHANGED <<users, failed>>
  <2>1. RequestOK(Over(r, "ok")) /\ Over(r, "ok").pc = "done"
    BY <1>0, OverOK DEF Replies
  <2>2. accounts[i].uid \in Uids \cup {None} /\ requests[r].uid \in Uids \cup {None}
    BY <1>0, <1>3 DEF TypeInv, Tables, AccountRow, Exists, RequestOK, Request
  <2>3. lost \subseteq lost' /\ lost' \subseteq Uids
    BY <1>0, <1>3, <2>2 DEF LeftBehind, TypeInv
  <2>4. accounts[i].uid # None /\ Live(accounts[i].uid) => accounts[i].uid \in lost'
    BY <1>3 DEF LeftBehind
  <2> QED BY <1>1, <1>2, <1>3, <2>1, <2>3, <2>4, DroppedInv
<1>4. CASE /\ Answer(r, "error")
           /\ failed' = failed \cup {i}
           /\ UNCHANGED <<accounts, users, trusted, lost>>
  <2>1. SameStates /\ StaysConfirmed
    BY <1>4 DEF SameStates, StaysConfirmed
  <2>2. users' \in [Uids -> User] /\ lost' = lost /\ lost' \subseteq Uids /\ failed' \subseteq Ids
    BY <1>0, <1>1, <1>4 DEF TypeInv
  <2> QED BY <1>1, <1>2, <1>4, <2>1, <2>2, Answered DEF Replies
<1> QED BY <1>1, <1>3, <1>4 DEF DeleteRow

-----------------------------------------------------------------------------
(* Restoring and creating. *)

(* One row is written in place: its address and its user stay. *)
LEMMA RewrittenInv ==
  ASSUME Inv, NEW r \in Requests, NEW i \in Ids, Exists(i),
         NEW row \in AccountRow, row.uid = accounts[i].uid, row.email = accounts[i].email,
         NEW reply \in Replies,
         Commit(r, [accounts EXCEPT ![i] = row], Over(r, reply)),
         UNCHANGED <<users, lost, failed>>,
         requests[r].pc \notin Owning \cup Deleted
  PROVE  Inv'
<1> DEFINE table == [accounts EXCEPT ![i] = row]
<1>0. TypeInv
  BY DEF Inv
<1>1. /\ table \in Tables /\ table[i] = row
      /\ \A j \in Ids \ {i} : table[j] = accounts[j]
  BY <1>0 DEF TypeInv, Tables
<1>2. accounts' = table
  BY DEF Commit
<1> HIDE DEF table
<1>3. Exists(i)'
  BY <1>1, <1>2, RowExistsNow
<1>4. \A j \in Ids : UidOf(j)' = UidOf(j)
  BY <1>1, <1>2, <1>3 DEF UidOf, Exists
<1>5. EmailInv'
  <2>1. SameEmails
    BY <1>1, <1>2 DEF SameEmails, Exists
  <2> QED BY <2>1, EmailsKept DEF Inv
<1>6. RequestOK(Over(r, reply)) /\ Over(r, reply).pc = "done" /\ Over(r, reply).uid = None
  BY <1>0, OverOK
<1> QED BY <1>1, <1>4, <1>5, <1>6, Written DEF table

LEMMA StartRestoreInv ==
  ASSUME Inv, NEW r \in Requests, StartRestore(r)
  PROVE  Inv'
<1> DEFINE q == requests'[r]
<1>0. TypeInv
  BY DEF Inv
<1>1. PICK i \in Ids :
         /\ Exists(i)
         /\ Begin(r, "restore", [Idle EXCEPT !.pc = "restore", !.id = i, !.seen = accounts[i]])
  BY DEF StartRestore
<1>2. accounts[i] \in AccountRow
  BY <1>0, <1>1 DEF TypeInv, Tables, Exists
<1>3. Alone(r)
      /\ q = [[Idle EXCEPT !.pc = "restore", !.id = i, !.seen = accounts[i]]
                 EXCEPT !.kind = "restore"]
  BY <1>0, <1>1, Begins
<1> HIDE DEF q
<1>4. q.pc = "restore" /\ q.kind = "restore" /\ q.id = i /\ q.seen = accounts[i] /\ q.uid = None
  BY <1>3 DEF Idle
<1>5. q \in Request
  BY <1>2, <1>3 DEF Idle, Request, Kinds, AdminKinds, NoChange, Change
<1>6. RequestOK(q)
  BY <1>2, <1>4, <1>5
     DEF RequestOK, PatchPcs, BatchPcs, Deleting, Deleted, CreatePcs, SignInPcs, Owning, WithRow,
         WithSeen, WithUser, WithEmail
<1>7. MayBecome(r, q) /\ Known(q) /\ Confirmed(q)
  BY <1>4
     DEF MayBecome, Owning, Deleting, Deleted, Known, PatchPcs, BatchPcs, Confirmed, SignInPcs
<1>8. requests[r].pc \notin Owning \cup Deleting \cup Deleted /\ Untouched
  BY IdleOwnsNothing DEF StartRestore
<1> QED BY <1>3, <1>6, <1>7, <1>8, Moved DEF q

LEMMA RestoreAccountInv ==
  ASSUME Inv, NEW r \in Requests, RestoreAccount(r)
  PROVE  Inv'
<1>0. TypeInv /\ RequestOK(requests[r]) /\ requests[r].pc = "restore"
  BY DEF Inv, TypeInv, RestoreAccount
<1>1. PICK i \in Ids : i = requests[r].id
  BY <1>0 DEF RequestOK, WithRow
<1>2. requests[r].pc \notin Owning \cup Deleted
  BY <1>0 DEF Owning, Deleted
<1>3. CASE Answer(r, "error") /\ Untouched
  BY <1>2, <1>3, AnsweredOnly DEF Replies
<1>4. CASE /\ Exists(i)
           /\ Commit(r, [accounts EXCEPT ![i] = Restored(@, requests[r].seen)], Over(r, "ok"))
           /\ UNCHANGED <<users, lost, failed>>
  <2> DEFINE row == Restored(accounts[i], requests[r].seen)
  <2>1. accounts[i] \in AccountRow
    BY <1>0, <1>4 DEF TypeInv, Tables, Exists
  <2>2. row \in AccountRow
    BY <2>1 DEF Restored, AccountRow, Statuses
  <2>3. row.uid = accounts[i].uid /\ row.email = accounts[i].email
    BY <2>1 DEF Restored, AccountRow
  <2>4. [accounts EXCEPT ![i] = Restored(@, requests[r].seen)] = [accounts EXCEPT ![i] = row]
    OBVIOUS
  <2>5. "ok" \in Replies
    BY DEF Replies
  <2> HIDE DEF row
  <2> QED BY <1>2, <1>4, <2>2, <2>3, <2>4, <2>5, RewrittenInv
<1> QED BY <1>1, <1>3, <1>4 DEF RestoreAccount

LEMMA StartCreateInv ==
  ASSUME Inv, NEW r \in Requests, StartCreate(r)
  PROVE  Inv'
<1> DEFINE q == requests'[r]
<1>0. TypeInv
  BY DEF Inv
<1>1. PICK e \in Emails, role \in Roles, status \in {"ACTIVE", "SUSPENDED"} :
         LET rows == RowsWithEmail(accounts, e)
         IN  Begin(r, "create", [Idle EXCEPT
                    !.pc = IF rows = {} THEN "create_user" ELSE "replace",
                    !.id = IF rows = {} THEN None ELSE CHOOSE i \in rows : TRUE,
                    !.change = [role |-> role, status |-> status, email |-> e]])
  BY DEF StartCreate
<1> DEFINE rows == RowsWithEmail(accounts, e)
           pc == IF rows = {} THEN "create_user" ELSE "replace"
           id == IF rows = {} THEN None ELSE CHOOSE i \in rows : TRUE
           change == [role |-> role, status |-> status, email |-> e]
<1>2. rows \subseteq Ids
  BY DEF RowsWithEmail
<1>3. pc \in {"create_user", "replace"} /\ id \in Ids \cup {None}
      /\ (pc = "replace" => id \in Ids)
  BY <1>2
<1>4. /\ change \in Change
      /\ change.role \in Roles /\ change.status \in {"ACTIVE", "SUSPENDED"}
      /\ change.email \in Emails
  BY DEF Change, Statuses
<1>5. Alone(r)
      /\ q = [[Idle EXCEPT !.pc = pc, !.id = id, !.change = change] EXCEPT !.kind = "create"]
  BY <1>0, <1>1, Begins
<1> HIDE DEF rows, pc, id, change, q
<1>6. q.pc = pc /\ q.kind = "create" /\ q.id = id /\ q.change = change /\ q.uid = None
  BY <1>5 DEF Idle
<1>7. q \in Request
  BY <1>3, <1>4, <1>5 DEF Idle, Request, Kinds, AdminKinds
<1>8. RequestOK(q)
  BY <1>3, <1>4, <1>6, <1>7
     DEF RequestOK, PatchPcs, BatchPcs, Deleting, Deleted, CreatePcs, SignInPcs, Owning, WithRow,
         WithSeen, WithUser, WithEmail
<1>9. MayBecome(r, q) /\ Known(q) /\ Confirmed(q)
  BY <1>3, <1>6
     DEF MayBecome, Owning, Deleting, Deleted, Known, PatchPcs, BatchPcs, Confirmed, SignInPcs
<1>10. requests[r].pc \notin Owning \cup Deleting \cup Deleted /\ Untouched
  BY IdleOwnsNothing DEF StartCreate
<1> QED BY <1>5, <1>8, <1>9, <1>10, Moved DEF q

LEMMA ReplaceUnlinkedInv ==
  ASSUME Inv, NEW r \in Requests, ReplaceUnlinked(r)
  PROVE  Inv'
<1>0. /\ TypeInv /\ RequestOK(requests[r]) /\ requests[r] \in Request
      /\ requests[r].pc = "replace" /\ UNCHANGED <<users, failed>>
  BY RequestAt DEF Inv, ReplaceUnlinked
<1>1. PICK i \in Ids : i = requests[r].id
  BY <1>0 DEF RequestOK, WithRow
<1>2. requests[r].pc \notin Owning \cup Deleting \cup Deleted
  BY <1>0 DEF Owning, Deleting, Deleted
<1>3. requests[r].uid # None => Used(requests[r].uid)
  BY <1>0 DEF Inv, UserInv, OneOwner, InFlight
<1>4. ASSUME NEW q \in Request, q.pc = "create_user",
             q.kind = requests[r].kind, q.change = requests[r].change
      PROVE  RequestOK(q)
  BY <1>0, <1>4
     DEF RequestOK, PatchPcs, BatchPcs, Deleting, Deleted, CreatePcs, SignInPcs, Owning, WithRow,
         WithSeen, WithUser, WithEmail
<1>5. CASE /\ Exists(i)
           /\ Commit(r, Dropped(i), [requests[r] EXCEPT !.pc = "create_user"])
           /\ lost' = lost \cup LeftBehind(i, None)
  <2>1. PICK q : q = [requests[r] EXCEPT !.pc = "create_user"]
    OBVIOUS
  <2>2. /\ q \in Request /\ q.pc = "create_user" /\ q.kind = requests[r].kind
        /\ q.change = requests[r].change /\ q.uid = requests[r].uid
    BY <1>0, <2>1 DEF Request
  <2>3. accounts[i].uid \in Uids \cup {None}
    BY <1>0, <1>5 DEF TypeInv, Tables, AccountRow, Exists
  <2>4. lost \subseteq lost' /\ lost' \subseteq Uids
    BY <1>0, <1>5, <2>3 DEF LeftBehind, TypeInv
  <2>5. accounts[i].uid # None => accounts[i].uid \in lost'
    BY <1>5 DEF LeftBehind
  <2>6. RequestOK(q) /\ Commit(r, Dropped(i), q)
    BY <1>4, <1>5, <2>1, <2>2
  <2> QED BY <1>0, <1>2, <1>3, <2>2, <2>4, <2>5, <2>6, DroppedInv
<1>6. CASE requests' = GoTo(r, "create_user") /\ UNCHANGED <<accounts, trusted, lost>>
  <2> DEFINE q == requests'[r]
  <2>1. /\ Alone(r) /\ q \in Request /\ q.pc = "create_user"
        /\ q.kind = requests[r].kind /\ q.change = requests[r].change /\ q.uid = requests[r].uid
    BY <1>0, <1>6, GoesTo
  <2>2. RequestOK(q)
    BY <1>4, <2>1
  <2>3. MayBecome(r, q) /\ Known(q) /\ Confirmed(q)
    BY <1>3, <2>1
       DEF MayBecome, Owning, Deleting, Deleted, Known, PatchPcs, BatchPcs, Confirmed, SignInPcs
  <2>4. Untouched
    BY <1>0, <1>6 DEF Untouched
  <2> QED BY <1>2, <2>1, <2>2, <2>3, <2>4, Moved
<1> QED BY <1>1, <1>5, <1>6 DEF ReplaceUnlinked

(* A login user is made for the row the request will write. *)
LEMMA MadeInv ==
  ASSUME Inv, NEW r \in Requests, NEW pc \in Owning, NEW u \in Uids, NEW e \in Emails,
         NEW confirmed \in BOOLEAN, CreateUser(u, e, confirmed),
         requests' = [requests EXCEPT ![r].pc = pc, ![r].uid = u],
         UNCHANGED <<accounts, trusted, lost, failed>>,
         requests[r].pc \notin Owning \cup Deleted, pc # "register_row" => users'[u].confirmed,
         RequestOK(requests'[r])
  PROVE  Inv'
<1>0. TypeInv
  BY DEF Inv
<1>1. Alone(r) /\ requests'[r].pc = pc /\ requests'[r].uid = u
  BY <1>0, Makes
<1>2. /\ users[u].state = "unused" /\ users' \in [Uids -> User] /\ users'[u].state = "live"
      /\ ~users'[u].reused
      /\ \A v \in Uids \ {u} : users'[v] = users[v]
  BY <1>0 DEF CreateUser, TypeInv, User, Unused
<1>3. TypeInv' /\ Others(r)
  BY <1>0, <1>1, <1>2, AloneStep DEF TypeInv
<1>4. SameLinks /\ SameEmails
  BY DEF SameLinks, SameEmails, UidOf, Exists
<1>5. StaysConfirmed
  BY <1>2 DEF StaysConfirmed, Used
<1>6. UserInv'
  BY <1>0, <1>1, <1>2, <1>3, <1>4, UserMade DEF Inv
<1>7. EmailInv'
  BY <1>4, EmailsKept DEF Inv
<1>8. Known(requests[r])' /\ Confirmed(requests[r])'
  BY <1>1, <1>2 DEF Known, Confirmed, Owning, PatchPcs, BatchPcs, Deleting, Deleted, SignInPcs
<1> QED BY <1>3, <1>5, <1>6, <1>7, <1>8, Assembled

LEMMA CreateLoginUserInv ==
  ASSUME Inv, NEW r \in Requests, CreateLoginUser(r)
  PROVE  Inv'
<1>0. /\ TypeInv /\ RequestOK(requests[r]) /\ requests[r].pc = "create_user"
      /\ UNCHANGED <<accounts, trusted, lost, failed>>
  BY DEF Inv, TypeInv, CreateLoginUser
<1>1. requests[r].pc \notin Owning \cup Deleted /\ requests[r].change.email \in Emails
  BY <1>0 DEF Owning, Deleted, RequestOK, WithEmail
<1>2. CASE Answer(r, "email_taken") /\ UNCHANGED users
  BY <1>0, <1>1, <1>2, AnsweredOnly DEF Replies, Untouched
<1>3. ASSUME NEW u \in Uids,
             CreateUser(u, requests[r].change.email, TRUE),
             requests' = [requests EXCEPT ![r].pc = "create_row", ![r].uid = u]
      PROVE  Inv'
  <2> DEFINE q == requests'[r]
  <2>1. "create_row" \in Owning
    BY DEF Owning
  <2>2. /\ q \in Request /\ q.pc = "create_row" /\ q.kind = requests[r].kind
        /\ q.change = requests[r].change /\ q.uid = u
    <3>1. TypeInv
      BY <1>0
    <3> QED BY <1>3, <2>1, <3>1, Makes
  <2>3. RequestOK(q)
    BY <1>0, <2>2
       DEF RequestOK, PatchPcs, BatchPcs, Deleting, Deleted, CreatePcs, SignInPcs, Owning, WithRow,
           WithSeen, WithUser, WithEmail
  <2>4. users'[u].confirmed
    BY <1>0, <1>3 DEF CreateUser, TypeInv, Unused
  <2> QED BY <1>0, <1>1, <1>3, <2>1, <2>3, <2>4, MadeInv
<1> QED BY <1>2, <1>3 DEF CreateLoginUser

(* The row could not be written, and the login user is taken back or not. *)
LEMMA TakenBackInv ==
  ASSUME Inv, NEW r \in Requests, requests[r].pc \in {"create_row", "register_row"},
         TakeBack(requests[r].uid), Answer(r, "error"), UNCHANGED <<accounts, trusted, failed>>
  PROVE  Inv'
<1>0. TypeInv /\ RequestOK(requests[r])
  BY DEF Inv, TypeInv
<1>1. PICK u \in Uids : u = requests[r].uid
  BY <1>0 DEF RequestOK, WithUser, Owning
<1>2. requests[r].pc \in Owning /\ requests[r].pc \notin Deleted
  BY DEF Owning, Deleted
<1>3. "error" \in Replies
  BY DEF Replies
<1>4. CASE lost' = lost \cup {u} /\ UNCHANGED users
  <2>1. SameStates /\ StaysConfirmed
    BY <1>4 DEF SameStates, StaysConfirmed
  <2>2. users' \in [Uids -> User] /\ lost' \subseteq Uids /\ lost \subseteq lost' /\ u \in lost'
        /\ failed' = failed /\ failed' \subseteq Ids
    BY <1>0, <1>4 DEF TypeInv
  <2> QED BY <1>1, <1>2, <1>3, <2>1, <2>2, Answered
<1>5. CASE users' = [users EXCEPT ![u].state = "deleted"] /\ UNCHANGED lost
  <2>1. /\ users' \in [Uids -> User] /\ users'[u].state = "deleted"
        /\ \A v \in Uids \ {u} : users'[v].state = users[v].state
        /\ \A v \in Uids : users'[v].confirmed = users[v].confirmed
                            /\ users'[v].reused = users[v].reused
    BY <1>0, <1>5 DEF TypeInv, User
  <2>2. Alone(r) /\ RequestOK(requests'[r]) /\ requests'[r].pc = "done"
    BY <1>0, <1>3, AnsweredStep
  <2>3. TypeInv' /\ Others(r)
    BY <1>0, <1>5, <2>1, <2>2, AloneStep DEF TypeInv
  <2>4. SameLinks /\ SameEmails
    BY DEF SameLinks, SameEmails, UidOf, Exists
  <2>5. StaysConfirmed
    BY <2>1, Zenon DEF StaysConfirmed
  <2>6. UserInv'
    BY <1>0, <1>1, <1>2, <1>5, <2>1, <2>2, <2>3, <2>4, UserTaken DEF Inv
  <2>7. EmailInv'
    BY <2>4, EmailsKept DEF Inv
  <2>8. Known(requests[r])' /\ Confirmed(requests[r])'
    BY <2>2 DEF Known, Confirmed, PatchPcs, BatchPcs, Deleting, Deleted, SignInPcs
  <2> QED BY <2>3, <2>5, <2>6, <2>7, <2>8, Assembled
<1> QED BY <1>1, <1>4, <1>5 DEF TakeBack

(* The row of a request's login user is written: a new one, or one there is. *)
LEMMA LinkedInv ==
  ASSUME Inv, NEW r \in Requests, requests[r].pc \in Owning,
         \A j \in Ids : UidOf(j) # requests[r].uid,
         NEW i \in Ids, NEW row \in AccountRow, row.uid = requests[r].uid,
         \A j \in Ids \ {i} : Exists(j) => accounts[j].email # row.email,
         NEW reply \in Replies,
         Commit(r, [accounts EXCEPT ![i] = row], Over(r, reply)),
         UNCHANGED <<users, failed>>, lost \subseteq lost', lost' \subseteq Uids,
         UidOf(i) # None /\ Live(UidOf(i)) => UidOf(i) \in lost'
  PROVE  Inv'
<1> DEFINE table == [accounts EXCEPT ![i] = row]
<1>0. TypeInv
  BY DEF Inv
<1>1. /\ table \in Tables /\ table[i] = row
      /\ \A j \in Ids \ {i} : table[j] = accounts[j]
  BY <1>0 DEF TypeInv, Tables
<1>2. accounts' = table
  BY DEF Commit
<1>3. RequestOK(Over(r, reply)) /\ Over(r, reply).pc = "done"
  BY <1>0, OverOK
<1>4. TypeInv' /\ Others(r) /\ requests'[r] = Over(r, reply)
  BY <1>0, <1>1, <1>3, CommitStep DEF TypeInv
<1> HIDE DEF table
<1>5. UidOf(i)' = requests[r].uid /\ \A j \in Ids \ {i} : UidOf(j)' = UidOf(j)
  <2>1. Exists(i)'
    BY <1>1, <1>2, RowExistsNow
  <2> QED BY <1>1, <1>2, <2>1 DEF UidOf, Exists
<1>6. SameStates /\ StaysConfirmed
  BY DEF SameStates, StaysConfirmed
<1>7. UserInv'
  BY <1>0, <1>3, <1>4, <1>5, <1>6, RowLinked DEF Inv
<1>8. EmailInv'
  BY <1>1, <1>2, EmailTakenOnce DEF Inv
<1>9. Known(requests[r])' /\ Confirmed(requests[r])'
  BY <1>3, <1>4 DEF Known, Confirmed, PatchPcs, BatchPcs, Deleting, Deleted, SignInPcs
<1> QED BY <1>4, <1>6, <1>7, <1>8, <1>9, Assembled

LEMMA NewRowInv ==
  ASSUME Inv, NEW r \in Requests, requests[r].pc \in Owning,
         \A j \in Ids : UidOf(j) # requests[r].uid,
         NEW i \in Ids, accounts[i] = None, NEW row \in AccountRow, row.uid = requests[r].uid,
         RowsWithEmail(accounts, row.email) = {}, NEW reply \in Replies,
         Commit(r, [accounts EXCEPT ![i] = row], Over(r, reply)),
         UNCHANGED <<users, lost, failed>>
  PROVE  Inv'
<1>1. UidOf(i) = None
  BY DEF UidOf, Exists
<1>2. \A j \in Ids : Exists(j) => accounts[j].email # row.email
  BY DEF RowsWithEmail, Exists
<1>3. lost \subseteq lost' /\ lost' \subseteq Uids
  BY DEF Inv, TypeInv
<1> QED BY <1>1, <1>2, <1>3, LinkedInv

LEMMA CreateAccountInv ==
  ASSUME Inv, NEW r \in Requests, CreateAccount(r)
  PROVE  Inv'
<1>0. TypeInv /\ RequestOK(requests[r]) /\ requests[r].pc = "create_row" /\ UNCHANGED failed
  BY DEF Inv, TypeInv, CreateAccount
<1>1. requests[r].pc \in Owning
  BY <1>0 DEF Owning
<1>4. \A j \in Ids : UidOf(j) # requests[r].uid
  BY <1>0, <1>1 DEF Inv, UserInv, OneOwner
<1>2. CASE /\ TakeBack(requests[r].uid) /\ Answer(r, "error")
           /\ UNCHANGED <<accounts, trusted>>
  BY <1>0, <1>2, TakenBackInv
<1>3. ASSUME RowsWithEmail(accounts, requests[r].change.email) = {}, NEW i \in Ids,
             accounts[i] = None,
             NEW row,
             row = [email |-> requests[r].change.email, role |-> requests[r].change.role,
                    status |-> requests[r].change.status, isDeactivated |-> FALSE,
                    emailVerified |-> FALSE, uid |-> requests[r].uid],
             Commit(r, [accounts EXCEPT ![i] = row], Over(r, "ok")),
             UNCHANGED <<users, lost>>
      PROVE  Inv'
  <2>1. row \in AccountRow
    BY <1>0, <1>3 DEF RequestOK, CreatePcs, WithUser, Owning, AccountRow, Statuses
  <2>2. row.uid = requests[r].uid /\ row.email = requests[r].change.email
    BY <1>3
  <2>3. "ok" \in Replies
    BY DEF Replies
  <2> QED BY <1>0, <1>1, <1>3, <1>4, <2>1, <2>2, <2>3, NewRowInv
<1> QED BY <1>2, <1>3 DEF CreateAccount

-----------------------------------------------------------------------------
(* The requests of users: no step of them breaks the invariant either. *)

LEMMA StartRegisterInv ==
  ASSUME Inv, NEW r \in Requests, StartRegister(r)
  PROVE  Inv'
<1> DEFINE q == requests'[r]
<1>0. TypeInv
  BY DEF Inv
<1>1. PICK e \in Emails :
         Begin(r, "register", [Idle EXCEPT !.pc = "sign_up",
                                           !.change = [NoChange EXCEPT !.email = e]])
  BY DEF StartRegister
<1>2. Alone(r)
      /\ q = [[Idle EXCEPT !.pc = "sign_up", !.change = [NoChange EXCEPT !.email = e]]
                 EXCEPT !.kind = "register"]
  BY <1>0, <1>1, Begins
<1>3. [NoChange EXCEPT !.email = e] \in Change /\ [NoChange EXCEPT !.email = e].email = e
  BY DEF NoChange, Change
<1> HIDE DEF q
<1>4. q.pc = "sign_up" /\ q.kind = "register" /\ q.uid = None /\ q.change.email = e
  BY <1>2, <1>3 DEF Idle
<1>5. q \in Request
  BY <1>2, <1>3 DEF Idle, Request, Kinds, AdminKinds
<1>6. RequestOK(q)
  BY <1>4, <1>5
     DEF RequestOK, PatchPcs, BatchPcs, Deleting, Deleted, CreatePcs, SignInPcs, Owning, WithRow,
         WithSeen, WithUser, WithEmail
<1>7. MayBecome(r, q) /\ Known(q) /\ Confirmed(q)
  BY <1>4
     DEF MayBecome, Owning, Deleting, Deleted, Known, PatchPcs, BatchPcs, Confirmed, SignInPcs
<1>8. requests[r].pc \notin Owning \cup Deleting \cup Deleted /\ Untouched
  BY IdleOwnsNothing DEF StartRegister, Nothing, Untouched
<1> QED BY <1>2, <1>6, <1>7, <1>8, Moved DEF q

LEMMA SignUpInv ==
  ASSUME Inv, NEW r \in Requests, SignUp(r)
  PROVE  Inv'
<1>0. /\ TypeInv /\ RequestOK(requests[r]) /\ requests[r].pc = "sign_up"
      /\ UNCHANGED <<accounts, trusted, lost, failed>>
  BY DEF Inv, TypeInv, SignUp
<1>1. requests[r].pc \notin Owning \cup Deleted /\ requests[r].change.email \in Emails
  BY <1>0 DEF Owning, Deleted, RequestOK, WithEmail
<1>2. CASE Answer(r, "created") /\ UNCHANGED users
  BY <1>0, <1>1, <1>2, AnsweredOnly DEF Replies, Untouched
<1>3. ASSUME NEW u \in Uids,
             CreateUser(u, requests[r].change.email, FALSE),
             requests' = [requests EXCEPT ![r].pc = "register_row", ![r].uid = u]
      PROVE  Inv'
  <2> DEFINE q == requests'[r]
  <2>1. "register_row" \in Owning
    BY DEF Owning
  <2>2. /\ q \in Request /\ q.pc = "register_row" /\ q.kind = requests[r].kind
        /\ q.id = requests[r].id /\ q.change = requests[r].change /\ q.uid = u
    <3>1. TypeInv
      BY <1>0
    <3> QED BY <1>3, <2>1, <3>1, Makes
  <2>3. RequestOK(q)
    BY <1>0, <2>2
       DEF RequestOK, PatchPcs, BatchPcs, Deleting, Deleted, CreatePcs, SignInPcs, Owning, WithRow,
           WithSeen, WithUser, WithEmail
  <2> QED BY <1>0, <1>1, <1>3, <2>1, <2>3, MadeInv
<1>4. ASSUME NEW u \in Uids, AnswersWith(u, requests[r].change.email),
             requests' = [requests EXCEPT ![r].pc = "register_row", ![r].uid = u]
      PROVE  Inv'
  <2> DEFINE q == requests'[r]
  <2>1. "register_row" \in Owning
    BY DEF Owning
  <2>2. /\ Alone(r) /\ q \in Request /\ q.pc = "register_row" /\ q.kind = requests[r].kind
        /\ q.id = requests[r].id /\ q.change = requests[r].change /\ q.uid = u
    <3>1. TypeInv
      BY <1>0
    <3> QED BY <1>4, <2>1, <3>1, Makes
  <2>3. RequestOK(q)
    BY <1>0, <2>2
       DEF RequestOK, PatchPcs, BatchPcs, Deleting, Deleted, CreatePcs, SignInPcs, Owning, WithRow,
           WithSeen, WithUser, WithEmail
  <2>4. /\ users[u].state = "unused" \/ (users[u].state = "live" /\ ~users[u].confirmed)
        /\ users[u].state = "unused" => users'[u].state = "deleted"
        /\ users[u].state = "live" => users'[u].state = "live"
        /\ users'[u].reused /\ users' \in [Uids -> User]
        /\ \A v \in Uids \ {u} : users'[v] = users[v]
    <3>1. users \in [Uids -> User]
      BY <1>0 DEF TypeInv
    <3>2. CASE /\ Live(u) /\ ~users[u].confirmed
               /\ users' = [users EXCEPT ![u].reused = TRUE]
      BY <3>1, <3>2 DEF User, Live
    <3>3. CASE /\ users[u].state = "unused"
               /\ users' = [users EXCEPT ![u] = [Unused EXCEPT !.state = "deleted",
                                                              !.reused = TRUE]]
      <4>1. PICK w : w = [Unused EXCEPT !.state = "deleted", !.reused = TRUE]
        OBVIOUS
      <4>2. w \in User /\ w.state = "deleted" /\ w.reused
        BY <4>1 DEF User, Unused
      <4> QED BY <3>1, <3>3, <4>1, <4>2
    <3> QED BY <1>4, <3>2, <3>3 DEF AnswersWith
  <2>5. TypeInv' /\ Others(r)
    BY <1>0, <2>2, <2>3, <2>4, AloneStep DEF TypeInv
  <2>6. SameLinks /\ SameEmails
    BY <1>0 DEF SameLinks, SameEmails, UidOf, Exists
  <2>7. StaysConfirmed
    BY <2>4 DEF StaysConfirmed, Used
  <2>8. ASSUME NEW x \in Requests, requests[x].pc \in {"create_row", "link_row"}
        PROVE  requests[x].uid # u
    <3>1. users[requests[x].uid].confirmed
      BY <2>8 DEF Inv, ConfirmedInv, Confirmed
    <3>2. InFlight(x) /\ requests[x].uid # None
      BY <1>0, <2>8, AccountsAssumption DEF TypeInv, RequestOK, WithUser, Owning, InFlight
    <3>3. users[requests[x].uid].state # "unused"
      BY <3>2 DEF Inv, UserInv, OneOwner, Used
    <3> QED BY <2>4, <3>1, <3>3
  <2>9. UserInv'
    <3>1. TypeInv /\ UserInv /\ UNCHANGED <<lost, failed>>
      BY <1>0 DEF Inv
    <3> QED BY <1>1, <2>2, <2>4, <2>5, <2>6, <2>8, <3>1, UserShared
  <2>10. EmailInv'
    BY <2>6, EmailsKept DEF Inv
  <2>11. Known(requests[r])' /\ Confirmed(requests[r])'
    BY <2>2 DEF Known, Confirmed, PatchPcs, BatchPcs, Deleting, Deleted, SignInPcs
  <2> QED BY <2>5, <2>7, <2>9, <2>10, <2>11, Assembled
<1> QED BY <1>2, <1>3, <1>4 DEF SignUp

LEMMA RegisterRowInv ==
  ASSUME Inv, NEW r \in Requests, RegisterRow(r)
  PROVE  Inv'
<1>0. TypeInv /\ RequestOK(requests[r]) /\ requests[r].pc = "register_row" /\ UNCHANGED failed
  BY DEF Inv, TypeInv, RegisterRow
<1>1. requests[r].pc \in Owning
  BY <1>0 DEF Owning
<1>2. CASE /\ TakeBack(requests[r].uid) /\ Answer(r, "error")
           /\ UNCHANGED <<accounts, trusted>>
  BY <1>0, <1>2, TakenBackInv
<1>3. ASSUME RowsWithEmail(accounts, requests[r].change.email) = {},
             RowsWithUid(requests[r].uid) = {}, NEW i \in Ids,
             accounts[i] = None,
             NEW row,
             row = [email |-> requests[r].change.email, role |-> "OTHER",
                    status |-> "PENDING_VERIFICATION", isDeactivated |-> FALSE,
                    emailVerified |-> FALSE, uid |-> requests[r].uid],
             Commit(r, [accounts EXCEPT ![i] = row], Over(r, "created")),
             UNCHANGED <<users, lost>>
      PROVE  Inv'
  <2>1. row \in AccountRow
    BY <1>0, <1>3 DEF RequestOK, WithEmail, WithUser, Owning, AccountRow, Statuses, Roles
  <2>2. row.uid = requests[r].uid /\ row.email = requests[r].change.email
    BY <1>3
  <2>3. "created" \in Replies
    BY DEF Replies
  <2>4. ASSUME NEW j \in Ids
        PROVE  UidOf(j) # requests[r].uid
    <3>1. requests[r].uid # None
      BY <1>0, <1>1, AccountsAssumption DEF RequestOK, WithUser
    <3> QED BY <1>3, <3>1 DEF RowsWithUid, UidOf
  <2> QED BY <1>0, <1>1, <1>3, <2>1, <2>2, <2>3, <2>4, NewRowInv
<1> QED BY <1>2, <1>3 DEF RegisterRow

LEMMA StartLinkInv ==
  ASSUME Inv, NEW r \in Requests, StartLink(r)
  PROVE  Inv'
<1> DEFINE q == requests'[r]
<1>0. TypeInv
  BY DEF Inv
<1>1. PICK i \in Ids :
         /\ Exists(i)
         /\ Begin(r, "link", [Idle EXCEPT !.pc = "link_user", !.id = i,
                                !.change = [NoChange EXCEPT !.email = accounts[i].email]])
  BY DEF StartLink
<1>2. PICK e \in Emails : e = accounts[i].email
  BY <1>0, <1>1 DEF TypeInv, Tables, Exists, AccountRow
<1>3. Alone(r)
      /\ q = [[Idle EXCEPT !.pc = "link_user", !.id = i,
                           !.change = [NoChange EXCEPT !.email = e]] EXCEPT !.kind = "link"]
  BY <1>0, <1>1, <1>2, Begins
<1>4. [NoChange EXCEPT !.email = e] \in Change /\ [NoChange EXCEPT !.email = e].email = e
  BY DEF NoChange, Change
<1> HIDE DEF q
<1>5. q.pc = "link_user" /\ q.kind = "link" /\ q.uid = None /\ q.id = i /\ q.change.email = e
  BY <1>3, <1>4 DEF Idle
<1>6. q \in Request
  BY <1>3, <1>4 DEF Idle, Request, Kinds, AdminKinds
<1>7. RequestOK(q)
  BY <1>5, <1>6
     DEF RequestOK, PatchPcs, BatchPcs, Deleting, Deleted, CreatePcs, SignInPcs, Owning, WithRow,
         WithSeen, WithUser, WithEmail
<1>8. MayBecome(r, q) /\ Known(q) /\ Confirmed(q)
  BY <1>5
     DEF MayBecome, Owning, Deleting, Deleted, Known, PatchPcs, BatchPcs, Confirmed, SignInPcs
<1>9. requests[r].pc \notin Owning \cup Deleting \cup Deleted /\ Untouched
  BY IdleOwnsNothing DEF StartLink, Nothing, Untouched
<1> QED BY <1>3, <1>7, <1>8, <1>9, Moved DEF q

LEMMA LinkUserInv ==
  ASSUME Inv, NEW r \in Requests, LinkUser(r)
  PROVE  Inv'
<1>0. /\ TypeInv /\ RequestOK(requests[r]) /\ requests[r].pc = "link_user"
      /\ UNCHANGED <<accounts, trusted, lost, failed>>
  BY DEF Inv, TypeInv, LinkUser
<1>1. requests[r].pc \notin Owning \cup Deleted /\ requests[r].change.email \in Emails
  BY <1>0 DEF Owning, Deleted, RequestOK, WithEmail
<1>2. CASE Answer(r, "mailed") /\ UNCHANGED users
  BY <1>0, <1>1, <1>2, AnsweredOnly DEF Replies, Untouched
<1>3. ASSUME NEW u \in Uids,
             CreateUser(u, requests[r].change.email, TRUE),
             requests' = [requests EXCEPT ![r].pc = "link_row", ![r].uid = u]
      PROVE  Inv'
  <2> DEFINE q == requests'[r]
  <2>1. "link_row" \in Owning
    BY DEF Owning
  <2>2. /\ q \in Request /\ q.pc = "link_row" /\ q.kind = requests[r].kind
        /\ q.id = requests[r].id /\ q.change = requests[r].change /\ q.uid = u
    <3>1. TypeInv
      BY <1>0
    <3> QED BY <1>3, <2>1, <3>1, Makes
  <2>3. RequestOK(q)
    BY <1>0, <2>2
       DEF RequestOK, PatchPcs, BatchPcs, Deleting, Deleted, CreatePcs, SignInPcs, Owning, WithRow,
           WithSeen, WithUser, WithEmail
  <2>4. users'[u].confirmed
    BY <1>0, <1>3 DEF CreateUser, TypeInv, Unused
  <2> QED BY <1>0, <1>1, <1>3, <2>1, <2>3, <2>4, MadeInv
<1> QED BY <1>2, <1>3 DEF LinkUser

LEMMA LinkRowInv ==
  ASSUME Inv, NEW r \in Requests, LinkRow(r)
  PROVE  Inv'
<1>0. /\ TypeInv /\ RequestOK(requests[r]) /\ requests[r].pc = "link_row"
      /\ UNCHANGED <<users, failed>>
  BY DEF Inv, TypeInv, LinkRow
<1>1. PICK i \in Ids, u \in Uids : i = requests[r].id /\ u = requests[r].uid
  BY <1>0 DEF RequestOK, WithRow, WithUser, Owning
<1>2. requests[r].pc \in Owning /\ requests[r].pc \notin Deleted
  BY <1>0 DEF Owning, Deleted
<1>6. \A j \in Ids : UidOf(j) # requests[r].uid
  BY <1>0, <1>2 DEF Inv, UserInv, OneOwner
<1>3. "mailed" \in Replies
  BY DEF Replies
<1>4. CASE /\ Exists(i)
           /\ Commit(r, [accounts EXCEPT ![i].uid = u], Over(r, "mailed"))
           /\ lost' = lost \cup LeftBehind(i, u)
  <2> DEFINE row == [accounts[i] EXCEPT !.uid = u]
  <2>1. accounts[i] \in AccountRow
    BY <1>0, <1>4 DEF TypeInv, Tables, Exists
  <2>2. row \in AccountRow /\ row.uid = u /\ row.email = accounts[i].email
    BY <2>1 DEF AccountRow
  <2>3. [accounts EXCEPT ![i].uid = u] = [accounts EXCEPT ![i] = row]
    OBVIOUS
  <2> HIDE DEF row
  <2>4. \A j \in Ids \ {i} : Exists(j) => accounts[j].email # row.email
    BY <1>4, <2>2 DEF Inv, EmailInv
  <2>5. lost \subseteq lost' /\ lost' \subseteq Uids
    <3>1. accounts[i].uid \in Uids \cup {None}
      BY <2>1 DEF AccountRow
    <3> QED BY <1>0, <1>4, <3>1 DEF LeftBehind, TypeInv
  <2>6. UidOf(i) # None /\ Live(UidOf(i)) => UidOf(i) \in lost'
    <3>1. UidOf(i) # u
      BY <1>1, <1>6
    <3> QED BY <1>4, <3>1 DEF UidOf, LeftBehind
  <2> QED BY <1>0, <1>1, <1>2, <1>3, <1>4, <1>6, <2>2, <2>3, <2>4, <2>5, <2>6, LinkedInv
<1>5. CASE /\ Answer(r, "mailed")
           /\ lost' = lost \cup {u}
           /\ UNCHANGED <<accounts, trusted>>
  <2>1. SameStates /\ StaysConfirmed
    BY <1>0 DEF SameStates, StaysConfirmed
  <2>2. /\ users' \in [Uids -> User] /\ lost' \subseteq Uids /\ lost \subseteq lost' /\ u \in lost'
        /\ failed' = failed /\ failed' \subseteq Ids
    BY <1>0, <1>5 DEF TypeInv
  <2> QED BY <1>1, <1>2, <1>3, <1>5, <2>1, <2>2, Answered
<1> QED BY <1>1, <1>4, <1>5 DEF LinkRow

LEMMA StartSignInInv ==
  ASSUME Inv, NEW r \in Requests, StartSignIn(r)
  PROVE  Inv'
<1> DEFINE q == requests'[r]
<1>0. TypeInv
  BY DEF Inv
<1>1. PICK u \in Uids, kind \in {"callback", "login"} :
         /\ Live(u)
         /\ kind = "callback" => users[u].confirmed
         /\ Begin(r, kind, [Idle EXCEPT !.pc = "find_account", !.uid = u])
  BY DEF StartSignIn
<1>2. Alone(r) /\ q = [[Idle EXCEPT !.pc = "find_account", !.uid = u] EXCEPT !.kind = kind]
  BY <1>0, <1>1, Begins
<1> HIDE DEF q
<1>3. q.pc = "find_account" /\ q.kind = kind /\ q.uid = u
  BY <1>2 DEF Idle
<1>4. q \in Request
  BY <1>2 DEF Idle, Request, Kinds, AdminKinds, NoChange, Change
<1>5. RequestOK(q)
  BY <1>3, <1>4
     DEF RequestOK, PatchPcs, BatchPcs, Deleting, Deleted, CreatePcs, SignInPcs, Owning, WithRow,
         WithSeen, WithUser, WithEmail
<1>6. Used(u)
  BY <1>1 DEF Live, Used
<1>7. MayBecome(r, q) /\ Known(q)
  BY <1>3, <1>6 DEF MayBecome, Owning, Deleting, Deleted, Known, PatchPcs, BatchPcs
<1>8. Confirmed(q)
  BY <1>1, <1>3 DEF Confirmed
<1>9. requests[r].pc \notin Owning \cup Deleting \cup Deleted /\ Untouched
  BY IdleOwnsNothing DEF StartSignIn, Nothing, Untouched
<1> QED BY <1>2, <1>5, <1>7, <1>8, <1>9, Moved DEF q

LEMMA FindAccountInv ==
  ASSUME Inv, NEW r \in Requests, FindAccount(r)
  PROVE  Inv'
<1>0. /\ TypeInv /\ RequestOK(requests[r]) /\ requests[r] \in Request
      /\ requests[r].pc = "find_account" /\ Untouched
  BY RequestAt DEF Inv, FindAccount, Nothing, Untouched
<1>1. requests[r].pc \notin Owning \cup Deleting \cup Deleted
  BY <1>0 DEF Owning, Deleting, Deleted
<1>2. ASSUME NEW reply \in Replies, Answer(r, reply)
      PROVE  Inv'
  BY <1>0, <1>1, <1>2, AnsweredOnly
<1>3. ASSUME NEW i \in RowsWithUid(requests[r].uid),
             MayActivate(accounts[i], requests[r].kind, users[requests[r].uid].confirmed),
             requests' = [requests EXCEPT ![r].pc = "activate", ![r].id = i,
                                          ![r].seen = accounts[i], ![r].stale = {}]
      PROVE  Inv'
  <2> DEFINE p == requests[r]
             q == requests'[r]
  <2>1. i \in Ids /\ accounts[i] \in AccountRow
    BY <1>0, <1>3 DEF RowsWithUid, Exists, TypeInv, Tables
  <2>2. q = [p EXCEPT !.pc = "activate", !.id = i, !.seen = accounts[i], !.stale = {}]
        /\ Alone(r)
    BY <1>0, <1>3 DEF TypeInv, Alone
  <2> HIDE DEF p, q
  <2>3. q \in Request
    BY <1>0, <2>1, <2>2 DEF Request, p
  <2>4. q.pc = "activate" /\ q.id = i /\ q.kind = p.kind /\ q.uid = p.uid /\ q.seen = accounts[i]
    BY <1>0, <2>2 DEF Request, p
  <2>5. RequestOK(q)
    BY <1>0, <2>1, <2>3, <2>4
       DEF p, RequestOK, PatchPcs, BatchPcs, Deleting, Deleted, CreatePcs, SignInPcs, Owning,
           WithRow, WithSeen, WithUser, WithEmail
  <2>6. Used(q.uid)
    <3>1. p.uid \in Uids
      BY <1>0 DEF p, RequestOK, WithUser, SignInPcs
    <3> QED BY <1>0, <2>4, <3>1, AccountsAssumption DEF p, Inv, UserInv, OneOwner, InFlight
  <2>7. MayBecome(r, q) /\ Known(q)
    BY <2>4, <2>6 DEF MayBecome, Owning, Deleting, Deleted, Known, PatchPcs, BatchPcs
  <2>8. Confirmed(q)
    <3>1. p.kind = "callback" => users[p.uid].confirmed
      BY <1>0 DEF p, Inv, ConfirmedInv, Confirmed, SignInPcs
    <3> QED BY <1>3, <2>4, <3>1 DEF p, MayActivate, RowsWithUid, Confirmed
  <2> QED BY <1>0, <1>1, <2>2, <2>5, <2>7, <2>8, Moved DEF q
<1>4. \A i \in RowsWithUid(requests[r].uid) : accounts[i].status \in Replies
  BY <1>0 DEF RowsWithUid, Exists, TypeInv, Tables, AccountRow, Replies
<1>5. "refused" \in Replies
  BY DEF Replies
<1> QED BY <1>2, <1>3, <1>4, <1>5 DEF FindAccount

LEMMA ActivateInv ==
  ASSUME Inv, NEW r \in Requests, Activate(r)
  PROVE  Inv'
<1>0. TypeInv /\ RequestOK(requests[r]) /\ requests[r].pc = "activate"
  BY DEF Inv, TypeInv, Activate
<1>1. PICK i \in Ids : i = requests[r].id
  BY <1>0 DEF RequestOK, WithRow
<1>2. requests[r].pc \notin Owning \cup Deleted
  BY <1>0 DEF Owning, Deleted
<1>3. CASE Answer(r, "error") /\ Nothing
  BY <1>2, <1>3, AnsweredOnly DEF Replies, Nothing, Untouched
<1>4. CASE /\ Exists(i)
           /\ Commit(r, [accounts EXCEPT ![i] = [@ EXCEPT !.status = "ACTIVE",
                                                         !.emailVerified = TRUE]],
                     Over(r, "activated"))
           /\ UNCHANGED <<users, lost, failed>>
  <2> DEFINE row == [accounts[i] EXCEPT !.status = "ACTIVE", !.emailVerified = TRUE]
  <2>1. accounts[i] \in AccountRow
    BY <1>0, <1>4 DEF TypeInv, Tables, Exists
  <2>2. row \in AccountRow /\ row.uid = accounts[i].uid /\ row.email = accounts[i].email
    BY <2>1 DEF AccountRow, Statuses
  <2>3. [accounts EXCEPT ![i] = [@ EXCEPT !.status = "ACTIVE", !.emailVerified = TRUE]]
        = [accounts EXCEPT ![i] = row]
    OBVIOUS
  <2>4. "activated" \in Replies
    BY DEF Replies
  <2> HIDE DEF row
  <2> QED BY <1>2, <1>4, <2>2, <2>3, <2>4, RewrittenInv
<1> QED BY <1>1, <1>3, <1>4 DEF Activate

LEMMA StartReconcileInv ==
  ASSUME Inv, NEW r \in Requests, StartReconcile(r)
  PROVE  Inv'
<1> DEFINE q == requests'[r]
<1>0. TypeInv
  BY DEF Inv
<1>1. PICK i \in Ids :
         /\ Exists(i) /\ accounts[i].uid # None
         /\ Begin(r, "reconcile", [Idle EXCEPT !.pc = "look_up_user", !.id = i,
                                               !.uid = accounts[i].uid])
  BY DEF StartReconcile
<1>2. accounts[i].uid \in Uids
  BY <1>0, <1>1 DEF TypeInv, Tables, Exists, AccountRow
<1>3. Alone(r)
      /\ q = [[Idle EXCEPT !.pc = "look_up_user", !.id = i, !.uid = accounts[i].uid]
                 EXCEPT !.kind = "reconcile"]
  BY <1>0, <1>1, Begins
<1> HIDE DEF q
<1>4. q.pc = "look_up_user" /\ q.kind = "reconcile" /\ q.id = i /\ q.uid = accounts[i].uid
  BY <1>3 DEF Idle
<1>5. q \in Request
  BY <1>2, <1>3 DEF Idle, Request, Kinds, AdminKinds, NoChange, Change
<1>6. RequestOK(q)
  BY <1>2, <1>4, <1>5
     DEF RequestOK, PatchPcs, BatchPcs, Deleting, Deleted, CreatePcs, SignInPcs, Owning, WithRow,
         WithSeen, WithUser, WithEmail
<1>7. Used(q.uid)
  BY <1>1, <1>4 DEF Inv, UserInv, OneOwner, UidOf
<1>8. MayBecome(r, q) /\ Known(q) /\ Confirmed(q)
  BY <1>4, <1>7
     DEF MayBecome, Owning, Deleting, Deleted, Known, PatchPcs, BatchPcs, Confirmed, SignInPcs
<1>9. requests[r].pc \notin Owning \cup Deleting \cup Deleted /\ Untouched
  BY IdleOwnsNothing DEF StartReconcile, Nothing, Untouched
<1> QED BY <1>3, <1>6, <1>8, <1>9, Moved DEF q

LEMMA LookUpUserInv ==
  ASSUME Inv, NEW r \in Requests, LookUpUser(r)
  PROVE  Inv'
<1>0. /\ TypeInv /\ RequestOK(requests[r]) /\ requests[r].pc = "look_up_user" /\ Untouched
  BY DEF Inv, TypeInv, LookUpUser, Nothing, Untouched
<1>1. requests[r].pc \notin Owning \cup Deleting \cup Deleted
  BY <1>0 DEF Owning, Deleting, Deleted
<1>2. CASE Answer(r, "refused")
  BY <1>0, <1>1, <1>2, AnsweredOnly DEF Replies
<1>3. CASE requests' = GoTo(r, "clean_up") /\ ~Live(requests[r].uid)
  <2> DEFINE q == requests'[r]
  <2>1. /\ Alone(r) /\ q \in Request /\ q.pc = "clean_up"
        /\ q.kind = requests[r].kind /\ q.id = requests[r].id /\ q.uid = requests[r].uid
    BY <1>0, <1>3, GoesTo
  <2>2. RequestOK(q)
    BY <1>0, <2>1
       DEF RequestOK, PatchPcs, BatchPcs, Deleting, Deleted, CreatePcs, SignInPcs, Owning, WithRow,
           WithSeen, WithUser, WithEmail
  <2>3. q.uid \in Uids /\ Used(q.uid)
    <3>1. q.uid \in Uids
      BY <2>1, <2>2 DEF RequestOK, WithUser
    <3> QED BY <1>0, <2>1, <3>1, AccountsAssumption DEF Inv, UserInv, OneOwner, InFlight
  <2>4. users[q.uid].state = "deleted"
    <3>1. users[q.uid].state \in {"unused", "live", "deleted"}
      BY <1>0, <2>3 DEF TypeInv, User
    <3> QED BY <1>3, <2>1, <2>3, <3>1 DEF Live, Used
  <2>5. MayBecome(r, q) /\ Known(q) /\ Confirmed(q)
    BY <2>1, <2>3, <2>4
       DEF MayBecome, Owning, Deleting, Deleted, Known, PatchPcs, BatchPcs, Confirmed, SignInPcs
  <2> QED BY <1>0, <1>1, <2>1, <2>2, <2>5, Moved
<1> QED BY <1>2, <1>3 DEF LookUpUser, IsOrphan

LEMMA CleanUpInv ==
  ASSUME Inv, NEW r \in Requests, CleanUp(r)
  PROVE  Inv'
<1>0. /\ TypeInv /\ RequestOK(requests[r]) /\ requests[r].pc = "clean_up"
      /\ UNCHANGED <<users, failed>>
  BY DEF Inv, TypeInv, CleanUp
<1>1. PICK i \in Ids, u \in Uids : i = requests[r].id /\ u = requests[r].uid
  BY <1>0 DEF RequestOK, WithRow, WithUser
<1>2. requests[r].pc \notin Owning \cup Deleted
  BY <1>0 DEF Owning, Deleted
<1>3. CASE Answer(r, "refused") /\ UNCHANGED <<accounts, trusted, lost>>
  BY <1>0, <1>2, <1>3, AnsweredOnly DEF Replies, Untouched
<1>4. CASE /\ Exists(i)
           /\ Commit(r, Dropped(i), Over(r, "refused"))
           /\ lost' = lost \cup LeftBehind(i, u)
  <2>1. RequestOK(Over(r, "refused")) /\ Over(r, "refused").pc = "done"
    BY <1>0, OverOK DEF Replies
  <2>2. accounts[i].uid \in Uids \cup {None}
    BY <1>0, <1>4 DEF TypeInv, Tables, AccountRow, Exists
  <2>3. lost \subseteq lost' /\ lost' \subseteq Uids
    BY <1>0, <1>4, <2>2 DEF LeftBehind, TypeInv
  <2>4. ~Live(u)
    BY <1>0, <1>1 DEF Inv, UserInv, OneOwner, Live
  <2>5. accounts[i].uid # None /\ Live(accounts[i].uid) => accounts[i].uid \in lost'
    BY <1>4, <2>4 DEF LeftBehind
  <2> QED BY <1>0, <1>2, <1>4, <2>1, <2>3, <2>5, DroppedInv
<1> QED BY <1>1, <1>3, <1>4 DEF CleanUp

LEMMA StartDeactivateInv ==
  ASSUME Inv, NEW r \in Requests, StartDeactivate(r)
  PROVE  Inv'
<1> DEFINE q == requests'[r]
<1>0. TypeInv
  BY DEF Inv
<1>1. PICK i \in Ids : Begin(r, "deactivate", [Idle EXCEPT !.pc = "deactivate", !.id = i])
  BY DEF StartDeactivate
<1>2. Alone(r) /\ q = [[Idle EXCEPT !.pc = "deactivate", !.id = i] EXCEPT !.kind = "deactivate"]
  BY <1>0, <1>1, Begins
<1> HIDE DEF q
<1>3. q.pc = "deactivate" /\ q.kind = "deactivate" /\ q.id = i /\ q.uid = None
  BY <1>2 DEF Idle
<1>4. q \in Request
  BY <1>2 DEF Idle, Request, Kinds, AdminKinds, NoChange, Change
<1>5. RequestOK(q)
  BY <1>3, <1>4
     DEF RequestOK, PatchPcs, BatchPcs, Deleting, Deleted, CreatePcs, SignInPcs, Owning, WithRow,
         WithSeen, WithUser, WithEmail
<1>6. MayBecome(r, q) /\ Known(q) /\ Confirmed(q)
  BY <1>3
     DEF MayBecome, Owning, Deleting, Deleted, Known, PatchPcs, BatchPcs, Confirmed, SignInPcs
<1>7. requests[r].pc \notin Owning \cup Deleting \cup Deleted /\ Untouched
  BY IdleOwnsNothing DEF StartDeactivate, Nothing, Untouched
<1> QED BY <1>2, <1>5, <1>6, <1>7, Moved DEF q

LEMMA DeactivateInv ==
  ASSUME Inv, NEW r \in Requests, Deactivate(r)
  PROVE  Inv'
<1>0. TypeInv /\ RequestOK(requests[r]) /\ requests[r].pc = "deactivate"
  BY DEF Inv, TypeInv, Deactivate
<1>1. PICK i \in Ids : i = requests[r].id
  BY <1>0 DEF RequestOK, WithRow
<1>2. requests[r].pc \notin Owning \cup Deleted
  BY <1>0 DEF Owning, Deleted
<1>3. CASE Answer(r, "error") /\ Nothing
  BY <1>2, <1>3, AnsweredOnly DEF Replies, Nothing, Untouched
<1>4. CASE /\ Exists(i)
           /\ Commit(r, [accounts EXCEPT ![i] = [@ EXCEPT !.status = "DEACTIVATED",
                                                         !.isDeactivated = TRUE]],
                     Over(r, "ok"))
           /\ UNCHANGED <<users, lost, failed>>
  <2> DEFINE row == [accounts[i] EXCEPT !.status = "DEACTIVATED", !.isDeactivated = TRUE]
  <2>1. accounts[i] \in AccountRow
    BY <1>0, <1>4 DEF TypeInv, Tables, Exists
  <2>2. row \in AccountRow /\ row.uid = accounts[i].uid /\ row.email = accounts[i].email
    BY <2>1 DEF AccountRow, Statuses
  <2>3. [accounts EXCEPT ![i] = [@ EXCEPT !.status = "DEACTIVATED", !.isDeactivated = TRUE]]
        = [accounts EXCEPT ![i] = row]
    OBVIOUS
  <2>4. "ok" \in Replies
    BY DEF Replies
  <2> HIDE DEF row
  <2> QED BY <1>2, <1>4, <2>2, <2>3, <2>4, RewrittenInv
<1> QED BY <1>1, <1>3, <1>4 DEF Deactivate

-----------------------------------------------------------------------------
(* Steps of no request. *)

LEMMA NobodyMoves ==
  ASSUME Inv, UNCHANGED <<accounts, requests, lost, failed>>,
         trusted' \subseteq Ids, users' \in [Uids -> User], SameStates,
         \A u \in Uids : users[u].confirmed => users'[u].confirmed
  PROVE  Inv'
<1>1. TypeInv' /\ EmailInv'
  BY DEF Inv, TypeInv, EmailInv, Exists
<1>2. KnownInv'
  BY DEF Inv, KnownInv, Known, BatchDemotes
<1>3. /\ \A i \in Ids : UidOf(i)' = UidOf(i) /\ (UidOf(i) # None => UidOf(i) \in Uids)
      /\ \A r \in Requests : InFlight(r)' <=> InFlight(r)
  BY DEF Inv, TypeInv, Tables, AccountRow, UidOf, Exists, InFlight
<1>4. \A u \in Uids : (Used(u)' <=> Used(u)) /\ (Live(u)' <=> Live(u))
                      /\ (Sole(u)' <=> Sole(u)) /\ users'[u].state = users[u].state
  BY DEF SameStates, Used, Live, Sole
<1>5. \A r \in Requests :
         /\ requests[r].uid # None => requests[r].uid \in Uids
         /\ requests[r].pc \in Owning \cup SignInPcs \cup {"clean_up"} => requests[r].uid \in Uids
  <2>1. \A r \in Requests : requests[r] \in Request /\ RequestOK(requests[r])
    BY DEF Inv, TypeInv
  <2> QED BY <2>1 DEF Request, RequestOK, WithUser
<1>6. OneOwner'
  <2>1. OneOwner
    BY DEF Inv, UserInv
  <2>2. /\ \A i, j \in Ids : UidOf(i)' = UidOf(j)' /\ UidOf(i)' # None => i = j
        /\ \A i \in Ids : UidOf(i)' # None => Used(UidOf(i))'
        /\ \A r \in Requests : InFlight(r)' /\ requests'[r].uid # None => Used(requests[r].uid)'
    BY <1>3, <1>4, <1>5, <2>1 DEF OneOwner
  <2>3. \A r \in Requests :
          requests'[r].pc \in Owning /\ Sole(requests[r].uid)' =>
              /\ Live(requests[r].uid)'
              /\ \A i \in Ids : UidOf(i)' # requests'[r].uid
              /\ \A x \in Requests \ {r} :
                    requests'[x].pc \in Owning \cup Deleting => requests'[x].uid # requests'[r].uid
    BY <1>3, <1>4, <1>5, <2>1 DEF OneOwner
  <2>4. ASSUME NEW r \in Requests,
               requests'[r].pc \in Deleting, requests'[r].uid # None, Sole(requests[r].uid)',
               NEW i \in Ids, UidOf(i)' = requests'[r].uid
        PROVE  i = requests'[r].id
    BY <1>3, <1>4, <1>5, <2>1, <2>4 DEF OneOwner
  <2>6. \A r \in Requests :
           requests'[r].pc = "clean_up" => users'[requests'[r].uid].state = "deleted"
    BY <1>3, <1>4, <1>5, <2>1 DEF OneOwner
  <2>5. \A r \in Requests :
           requests'[r].pc \in {"create_row", "link_row"} => Sole(requests[r].uid)'
    BY <1>4, <1>5, <2>1 DEF OneOwner, Owning
  <2> QED BY <2>2, <2>3, <2>4, <2>5, <2>6 DEF OneOwner
<1>7. UsersCovered'
  BY <1>3, <1>4 DEF Inv, UserInv, UsersCovered
<1>8. RowsCovered'
  BY <1>3, <1>4 DEF Inv, UserInv, RowsCovered
<1>9. ConfirmedInv'
  <2>1. ASSUME NEW r \in Requests
        PROVE  Confirmed(requests[r])'
    <3>1. Confirmed(requests[r]) /\ requests'[r] = requests[r]
      BY DEF Inv, ConfirmedInv
    <3> QED BY <1>5, <3>1 DEF Confirmed, SignInPcs, Owning
  <2> QED BY <2>1 DEF ConfirmedInv
<1> QED BY <1>1, <1>2, <1>6, <1>7, <1>8, <1>9 DEF Inv, UserInv

LEMMA ForgetInv ==
  ASSUME Inv, NEW i \in Ids, Forget(i)
  PROVE  Inv'
<1>1. SameStates /\ trusted' \subseteq Ids /\ users' \in [Uids -> User]
  BY DEF Forget, SameStates, Inv, TypeInv
<1> QED BY <1>1, NobodyMoves DEF Forget

LEMMA ConfirmEmailInv ==
  ASSUME Inv, NEW u \in Uids, ConfirmEmail(u)
  PROVE  Inv'
<1>1. users \in [Uids -> User] /\ trusted' \subseteq Ids
  BY DEF Inv, TypeInv, ConfirmEmail
<1>2. users' \in [Uids -> User] /\ SameStates
  BY <1>1 DEF ConfirmEmail, SameStates, User
<1>3. \A v \in Uids : users[v].confirmed => users'[v].confirmed
  BY <1>1 DEF ConfirmEmail, User
<1> QED BY <1>1, <1>2, <1>3, NobodyMoves DEF ConfirmEmail

LEMMA NextInv ==
  ASSUME Inv, [Next]_vars
  PROVE  Inv'
<1>1. ASSUME NEW r \in Requests, AdminStep(r)
      PROVE  Inv'
  BY <1>1, StartPatchInv, CheckEmailInv, UpdateAccountInv, BeginDemotionInv, DemoteInv,
     SyncEmailInv, StartBatchInv, CountOutsideInv, BeginBatchInv, WriteBatchInv, StartDeleteInv,
     CountAdminsInv, DeleteUserInv, BeginDeleteInv, DeleteRowInv, StartRestoreInv,
     RestoreAccountInv, StartCreateInv, ReplaceUnlinkedInv, CreateLoginUserInv, CreateAccountInv
     DEF AdminStep
<1>2. ASSUME NEW r \in Requests, UserStep(r)
      PROVE  Inv'
  BY <1>2, StartRegisterInv, SignUpInv, RegisterRowInv, StartLinkInv, LinkUserInv, LinkRowInv,
     StartSignInInv, FindAccountInv, ActivateInv, StartReconcileInv, LookUpUserInv, CleanUpInv,
     StartDeactivateInv, DeactivateInv
     DEF UserStep
<1>3. CASE UNCHANGED vars
  <2>1. /\ accounts' = accounts /\ requests' = requests /\ lost' = lost /\ failed' = failed
        /\ trusted' = trusted /\ users' = users
    BY <1>3 DEF vars
  <2>2. SameStates /\ trusted' \subseteq Ids /\ users' \in [Uids -> User]
    BY <2>1 DEF SameStates, Inv, TypeInv
  <2> QED BY <2>1, <2>2, NobodyMoves
<1> QED BY <1>1, <1>2, <1>3, ForgetInv, ConfirmEmailInv DEF Next

-----------------------------------------------------------------------------
(* The start. *)

LEMMA UserOfOK ==
  ASSUME NEW table \in [Ids -> AccountRow \cup {None}], NEW u \in Uids
  PROVE  /\ UserOf(table, u) \in User
         /\ UserOf(table, u).state \in {"unused", "live"}
         /\ UserOf(table, u).state = "live" <=> \E i \in Ids : table[i] # None /\ table[i].uid = u
<1> DEFINE rows == {i \in Ids : table[i] # None /\ table[i].uid = u}
<1>1. CASE rows = {}
  <2>1. UserOf(table, u) = Unused
    BY <1>1 DEF UserOf
  <2> QED BY <1>1, <2>1 DEF Unused, User
<1>2. CASE rows # {}
  <2>1. PICK i : i = CHOOSE j \in rows : TRUE
    OBVIOUS
  <2>2. i \in rows /\ table[i] \in AccountRow
    BY <1>2, <2>1
  <2>3. UserOf(table, u) = [state |-> "live", email |-> table[i].email,
                            confirmed |-> table[i].status # "PENDING_VERIFICATION",
                            reused |-> FALSE]
    BY <1>2, <2>1 DEF UserOf
  <2>4. table[i].email \in Emails
    BY <2>2 DEF AccountRow
  <2> QED BY <1>2, <2>2, <2>3, <2>4 DEF User
<1> QED BY <1>1, <1>2

LEMMA InitInv ==
  ASSUME Init
  PROVE  Inv
<1>1. accounts \in [Ids -> AccountRow \cup {None}] /\ Unique(accounts)
  BY AccountRequestsAssumption DEF Init
<1>2. /\ \A r \in Requests : requests[r] = Idle
      /\ \A u \in Uids : users[u] = UserOf(accounts, u)
      /\ lost = {} /\ failed = {}
  BY DEF Init
<1>3. Idle \in Request /\ RequestOK(Idle)
  <2>1. Idle \in Request
    BY DEF Idle, Request, NoChange, Change
  <2> QED BY <2>1
     DEF Idle, RequestOK, PatchPcs, BatchPcs, Deleting, Deleted, CreatePcs, SignInPcs, Owning,
         WithRow, WithSeen, WithUser, WithEmail
<1>4. TypeInv
  <2>1. accounts \in Tables
    BY <1>1 DEF Tables
  <2>2. users \in [Uids -> User]
    BY <1>1, UserOfOK DEF Init
  <2>3. trusted \subseteq Ids
    BY DEF Init, Admitted, ActiveAdmins
  <2>4. requests \in [Requests -> Request]
    BY <1>3 DEF Init
  <2> QED BY <1>2, <1>3, <2>1, <2>2, <2>3, <2>4 DEF TypeInv
<1>5. EmailInv
  BY <1>1 DEF EmailInv, Unique, Exists
<1>6. \A i \in Ids : /\ Exists(i) <=> accounts[i] # None
                     /\ UidOf(i) # None => UidOf(i) \in Uids
  BY <1>1, RowsAssumption DEF Exists, UidOf, AccountRow
<1>7. \A u \in Uids : /\ Used(u) <=> Live(u)
                      /\ Live(u) <=> \E i \in Ids : UidOf(i) = u
  <2>1. ASSUME NEW u \in Uids
        PROVE  /\ Used(u) <=> Live(u)
               /\ Live(u) <=> \E i \in Ids : accounts[i] # None /\ accounts[i].uid = u
    BY <1>1, <1>2, UserOfOK DEF Used, Live
  <2>2. ASSUME NEW u \in Uids, NEW i \in Ids
        PROVE  UidOf(i) = u <=> accounts[i] # None /\ accounts[i].uid = u
    BY <1>6, AccountsAssumption DEF UidOf
  <2> QED BY <2>1, <2>2
<1>8. UserInv
  <2>1. \A i, j \in Ids : UidOf(i) = UidOf(j) /\ UidOf(i) # None => i = j
    BY <1>1 DEF Unique, UidOf, Exists
  <2>2. \A r \in Requests : requests[r].pc = "idle" /\ requests[r].uid = None
    BY <1>2 DEF Idle
  <2>3. OneOwner
    BY <1>6, <1>7, <2>1, <2>2 DEF OneOwner, InFlight, Owning, Deleting
  <2> QED BY <1>6, <1>7, <2>3 DEF UserInv, UsersCovered, RowsCovered
<1>9. KnownInv /\ ConfirmedInv
  BY <1>2
     DEF Idle, KnownInv, Known, ConfirmedInv, Confirmed, PatchPcs, BatchPcs, Deleting, Deleted,
         SignInPcs
<1> QED BY <1>4, <1>5, <1>8, <1>9 DEF Inv

THEOREM Invariance == Spec => []Inv
BY InitInv, NextInv, PTL DEF Spec

-----------------------------------------------------------------------------
(* The theorems. *)

(* Every row, user and request is of its type, and no two rows share an    *)
(* address or a login user: the unchecked writes of the handlers never     *)
(* break the unique columns of the schema.                                 *)
THEOREM TypeCorrect == Spec => []TypeOK
<1>1. Inv => TypeOK
  <2> SUFFICES ASSUME Inv
               PROVE  TypeOK
    OBVIOUS
  <2>1. Unique(accounts)
    <3> SUFFICES ASSUME NEW i \in Ids, NEW j \in Ids, Exists(i), Exists(j), i # j
                 PROVE  /\ accounts[i].email # accounts[j].email
                        /\ accounts[i].uid = accounts[j].uid => accounts[i].uid = None
      BY DEF Unique, Exists
    <3>1. accounts[i].email # accounts[j].email
      BY DEF Inv, EmailInv
    <3>2. accounts[i].uid = accounts[j].uid => accounts[i].uid = None
      BY DEF Inv, UserInv, OneOwner, UidOf
    <3> QED BY <3>1, <3>2
  <2> QED BY <2>1 DEF Inv, TypeInv, Tables, TypeOK
<1> QED BY <1>1, Invariance, PTL

(* No login user is left without an account row, but for one a request     *)
(* still has in hand or one that a failing call or an overtaken deletion   *)
(* is known to leave behind: the handlers that make a user take it back    *)
(* when they cannot write its row, and those that drop a row drop the user *)
(* it had when they looked.                                                *)
THEOREM UsersKeepRows == Spec => []NoUserWithoutRow
<1>1. Inv => NoUserWithoutRow
  <2> SUFFICES ASSUME Inv, NEW u \in Uids, Live(u)
               PROVE  \/ RowsWithUid(u) # {}
                      \/ u \in lost
                      \/ \E r \in Requests : InFlight(r) /\ requests[r].uid = u
    BY DEF NoUserWithoutRow
  <2>1. ASSUME NEW i \in Ids, UidOf(i) = u
        PROVE  RowsWithUid(u) # {}
    BY <2>1, AccountsAssumption DEF UidOf, RowsWithUid
  <2>2. ASSUME NEW r \in Requests, requests[r].pc \in Owning
        PROVE  InFlight(r)
    BY <2>2 DEF Owning, InFlight
  <2> QED BY <2>1, <2>2 DEF Inv, UserInv, UsersCovered
<1> QED BY <1>1, Invariance, PTL

(* No row that is linked to a user is left without him, but for a deletion *)
(* of it that is under way or failed after the user was deleted, unless    *)
(* signUp has answered a registration with that very user though it did    *)
(* not make him: only then may another request take him back.              *)
THEOREM RowsKeepUsers == Spec => []NoRowWithoutUser
<1>1. Inv => NoRowWithoutUser
  <2> SUFFICES ASSUME Inv, NEW i \in Ids, Exists(i), accounts[i].uid # None,
                      ~Live(accounts[i].uid)
               PROVE  \/ users[accounts[i].uid].reused
                      \/ i \in failed
                      \/ \E r \in Requests : InFlight(r) /\ requests[r].kind = "delete"
                                                        /\ requests[r].id = i
    BY DEF NoRowWithoutUser
  <2>1. UidOf(i) # None /\ ~Live(UidOf(i))
    BY DEF UidOf
  <2>2. ASSUME NEW r \in Requests, requests[r].pc \in Deleted
        PROVE  InFlight(r) /\ requests[r].kind = "delete"
    <3>1. RequestOK(requests[r])
      BY DEF Inv, TypeInv
    <3> QED BY <2>2, <3>1 DEF RequestOK, Deleted, InFlight
  <2>3. Sole(UidOf(i)) <=> ~users[accounts[i].uid].reused
    BY DEF Sole, UidOf
  <2> QED BY <2>1, <2>2, <2>3 DEF Inv, UserInv, RowsCovered
<1> QED BY <1>1, Invariance, PTL

-----------------------------------------------------------------------------
(* The steps that write rows. *)

Writes(r) ==
    \/ UpdateAccount(r) \/ Demote(r) \/ WriteBatch(r) \/ DeleteRow(r)
    \/ RestoreAccount(r) \/ ReplaceUnlinked(r) \/ CreateAccount(r)
    \/ RegisterRow(r) \/ LinkRow(r) \/ Activate(r) \/ CleanUp(r) \/ Deactivate(r)

LEMMA OnlyWritersWrite ==
  ASSUME [Next]_vars, accounts' # accounts
  PROVE  \E r \in Requests : Writes(r)
<1>1. ASSUME NEW r \in Requests, AdminStep(r)
      PROVE  Writes(r)
  BY <1>1
     DEF AdminStep, Writes, Untouched, StartPatch, CheckEmail, BeginDemotion, SyncEmail, StartBatch,
         CountOutside, BeginBatch, StartDelete, CountAdmins, DeleteUser, BeginDelete, StartRestore,
         StartCreate, CreateLoginUser
<1>2. ASSUME NEW r \in Requests, UserStep(r)
      PROVE  Writes(r)
  BY <1>2
     DEF UserStep, Writes, Nothing, StartRegister, SignUp, StartLink, LinkUser, StartSignIn,
         FindAccount, StartReconcile, LookUpUser, StartDeactivate
<1>3. /\ ~UNCHANGED vars
      /\ \A i \in Ids : ~Forget(i)
      /\ \A u \in Uids : ~ConfirmEmail(u)
  BY DEF vars, Forget, ConfirmEmail
<1> QED BY <1>1, <1>2, <1>3 DEF Next

LEMMA CommitMoves ==
  ASSUME TypeInv, NEW r \in Requests, NEW table, NEW q, Commit(r, table, q),
         q.pc # requests[r].pc
  PROVE  Moves(r) /\ accounts' = table
BY DEF Commit, Moves

LEMMA WritersMove ==
  ASSUME TypeInv, NEW r \in Requests, Writes(r), accounts' # accounts
  PROVE  Moves(r)
<1>1. \A reply \in Replies : Over(r, reply).pc = "done"
  BY DEF Over, Idle
<1>2. requests[r] \in Request
  BY DEF TypeInv
<1>3. ASSUME NEW i, requests[r].pc \in {"update", "demote"}
      PROVE  AfterUpdate(r, i).pc # requests[r].pc
  BY <1>1, <1>2, <1>3 DEF AfterUpdate, Replies, Request
<1>4. CASE UpdateAccount(r)
  BY <1>3, <1>4, CommitMoves DEF UpdateAccount, Untouched
<1>5. CASE Demote(r)
  BY <1>3, <1>5, CommitMoves DEF Demote, Untouched
<1>6. CASE WriteBatch(r)
  BY <1>1, <1>6, CommitMoves DEF WriteBatch, Untouched, Replies
<1>7. CASE DeleteRow(r)
  BY <1>1, <1>7, CommitMoves DEF DeleteRow, Replies
<1>8. CASE RestoreAccount(r)
  BY <1>1, <1>8, CommitMoves DEF RestoreAccount, Untouched, Replies
<1>9. CASE ReplaceUnlinked(r)
  <2>1. [requests[r] EXCEPT !.pc = "create_user"].pc = "create_user"
    BY <1>2 DEF Request
  <2> QED BY <1>9, <2>1, CommitMoves DEF ReplaceUnlinked
<1>10. CASE CreateAccount(r)
  BY <1>1, <1>10, CommitMoves DEF CreateAccount, Replies
<1>11. CASE RegisterRow(r)
  BY <1>1, <1>11, CommitMoves DEF RegisterRow, Replies
<1>12. CASE LinkRow(r)
  BY <1>1, <1>12, CommitMoves DEF LinkRow, Replies
<1>13. CASE Activate(r)
  BY <1>1, <1>13, CommitMoves DEF Activate, Nothing, Replies
<1>14. CASE CleanUp(r)
  BY <1>1, <1>14, CommitMoves DEF CleanUp, Replies
<1>15. CASE Deactivate(r)
  BY <1>1, <1>15, CommitMoves DEF Deactivate, Nothing, Replies
<1> QED BY <1>4, <1>5, <1>6, <1>7, <1>8, <1>9, <1>10, <1>11, <1>12, <1>13, <1>14, <1>15 DEF Writes

(* What a writer was asked for, by its route. *)
LEMMA WriterKinds ==
  ASSUME TypeInv, NEW r \in Requests, Writes(r)
  PROVE  /\ UpdateAccount(r) \/ Demote(r) => requests[r].kind = "patch"
         /\ WriteBatch(r) => requests[r].kind = "batch"
         /\ DeleteRow(r) => requests[r].kind = "delete"
         /\ RestoreAccount(r) => requests[r].kind = "restore"
         /\ ReplaceUnlinked(r) \/ CreateAccount(r) => requests[r].kind = "create"
         /\ RegisterRow(r) => requests[r].kind = "register"
         /\ LinkRow(r) => requests[r].kind = "link"
         /\ Activate(r) => requests[r].kind \in {"callback", "login"}
         /\ CleanUp(r) => requests[r].kind = "reconcile"
         /\ Deactivate(r) => requests[r].kind = "deactivate"
<1>1. RequestOK(requests[r])
  BY DEF TypeInv
<1> QED BY <1>1
     DEF RequestOK, PatchPcs, BatchPcs, Deleting, Deleted, CreatePcs, SignInPcs, UpdateAccount,
         Demote, WriteBatch, DeleteRow, RestoreAccount, ReplaceUnlinked, CreateAccount,
         RegisterRow, LinkRow, Activate, CleanUp, Deactivate

-----------------------------------------------------------------------------
(* The last admin.  A guarded route that nobody overtook leaves one. *)

LEMMA UpdateKeepsAdmin ==
  ASSUME Inv, NEW r \in Requests, UpdateAccount(r), requests[r].stale = {},
         accounts' # accounts, ActiveAdmins(accounts) # {}
  PROVE  ActiveAdmins(accounts') # {}
<1>0. TypeInv /\ RequestOK(requests[r]) /\ requests[r] \in Request /\ requests[r].pc = "update"
  BY RequestAt DEF Inv, UpdateAccount
<1>1. PICK i \in Ids, change \in Change : i = requests[r].id /\ change = requests[r].change
  BY <1>0 DEF RequestOK, WithRow, PatchPcs, Request
<1>2. Exists(i) /\ accounts' = Updated({i}, change)
  BY <1>1 DEF UpdateAccount, Untouched, Commit
<1>3. accounts[i] = requests[r].seen /\ ~DemotesAdmin(accounts[i], change)
  BY <1>0, <1>1 DEF Inv, KnownInv, Known
<1>4. /\ accounts'[i] \in AccountRow
      /\ accounts'[i].role = Or(change.role, accounts[i].role)
      /\ accounts'[i].status = Or(change.status, accounts[i].status)
      /\ \A j \in Ids \ {i} : accounts'[j] = accounts[j]
  <2>1. {i} \in SUBSET Ids /\ \A j \in {i} : Exists(j)
    BY <1>2
  <2> QED BY <1>0, <1>2, <2>1, UpdatedOK
<1>5. PICK a \in Ids : a \in ActiveAdmins(accounts)
  BY DEF ActiveAdmins
<1>6. CASE a # i
  BY <1>4, <1>5, <1>6 DEF ActiveAdmins
<1>7. CASE a = i
  <2>1. accounts[i].role = "ADMIN" /\ accounts[i].status = "ACTIVE"
    BY <1>5, <1>7 DEF ActiveAdmins
  <2>2. accounts'[i].role = "ADMIN" /\ accounts'[i].status = "ACTIVE"
    BY <1>3, <1>4, <2>1 DEF DemotesAdmin, Or
  <2>3. accounts'[i] \notin {None, Gone}
    BY <1>4, RowsAssumption
  <2> QED BY <2>2, <2>3 DEF ActiveAdmins
<1> QED BY <1>6, <1>7

LEMMA DemoteKeepsAdmin ==
  ASSUME Inv, NEW r \in Requests, Demote(r), requests[r].stale = {}, accounts' # accounts
  PROVE  ActiveAdmins(accounts') # {}
<1> DEFINE i == requests[r].id
           table == Updated({i}, requests[r].change)
<1>1. /\ requests[r].pc = "demote" /\ accounts' = table
      /\ ~LastAdminGone(Seen(requests[r].snap, {i}, table))
  BY DEF Demote, Untouched, Commit
<1>2. requests[r].snap = accounts
  BY <1>1 DEF Inv, KnownInv, Known
<1>3. \A j \in Ids : Seen(accounts, {i}, table)[j] = table[j]
  BY DEF Seen, Updated
<1> HIDE DEF i, table
<1>4. ActiveAdmins(Seen(accounts, {i}, table)) = ActiveAdmins(table)
  BY <1>3 DEF ActiveAdmins
<1> QED BY <1>1, <1>2, <1>4 DEF LastAdminGone

LEMMA BatchKeepsAdmin ==
  ASSUME Inv, NEW r \in Requests, WriteBatch(r), requests[r].stale = {},
         accounts' # accounts, ActiveAdmins(accounts) # {}
  PROVE  ActiveAdmins(accounts') # {}
<1> DEFINE req == requests[r]
           live == req.ids \cap ActiveAdmins(req.snap)
           set == IF req.demotes /\ live # {} THEN live \cap ActiveAdmins(accounts)
                  ELSE {i \in req.ids : Exists(i)}
           table == Updated(set, req.change)
<1>0. TypeInv /\ RequestOK(req) /\ req \in Request /\ req.pc = "batch"
  BY RequestAt DEF Inv, WriteBatch
<1>1. /\ accounts' = table
      /\ req.demotes => ~LastAdminGone(Seen(req.snap, set, table))
  BY DEF WriteBatch, Untouched, Commit
<1>2. req.snap = accounts /\ (req.demotes \/ ~BatchDemotes(req.ids, req.change))
  BY <1>0 DEF Inv, KnownInv, Known, BatchPcs
<1>3. set \in SUBSET Ids /\ (\A i \in set : Exists(i)) /\ set \subseteq req.ids
  BY <1>0 DEF Request, ActiveAdmins, Exists
<1>4. req.change \in BatchChanges /\ req.change \in Change
  BY <1>0 DEF RequestOK, BatchPcs, Request
<1>5. CASE req.demotes
  <2>1. \A j \in Ids : Seen(accounts, set, table)[j] = table[j]
    BY DEF Seen, Updated
  <2> HIDE DEF set, table
  <2>2. ActiveAdmins(Seen(accounts, set, table)) = ActiveAdmins(table)
    BY <2>1 DEF ActiveAdmins
  <2> QED BY <1>1, <1>2, <1>5, <2>2 DEF LastAdminGone
<1>6. CASE ~req.demotes
  <2> HIDE DEF set
  <2>1. /\ \A i \in Ids \ set : table[i] = accounts[i]
        /\ \A i \in set : /\ table[i] \in AccountRow
                          /\ table[i].role = Or(req.change.role, accounts[i].role)
                          /\ table[i].status = Or(req.change.status, accounts[i].status)
    BY <1>0, <1>3, <1>4, UpdatedOK
  <2> HIDE DEF table
  <2>2. PICK a \in Ids : a \in ActiveAdmins(accounts)
    BY DEF ActiveAdmins
  <2>3. CASE a \notin set
    BY <1>1, <2>1, <2>2, <2>3 DEF ActiveAdmins
  <2>4. CASE a \in set
    <3>1. req.change.role # "OTHER" /\ req.change.status # "SUSPENDED"
      BY <1>2, <1>3, <1>6, <2>2, <2>4 DEF BatchDemotes
    <3>2. req.change.role \in {None, "ADMIN"} /\ req.change.status \in {None, "ACTIVE"}
      BY <1>4, <3>1 DEF BatchChanges, RoleChanges, Roles, NoChange
    <3>3. accounts[a].role = "ADMIN" /\ accounts[a].status = "ACTIVE"
      BY <2>2 DEF ActiveAdmins
    <3>4. table[a].role = "ADMIN" /\ table[a].status = "ACTIVE"
      BY <2>1, <2>4, <3>2, <3>3 DEF Or
    <3>5. table[a] \notin {None, Gone}
      BY <2>1, <2>4, RowsAssumption
    <3> QED BY <1>1, <3>4, <3>5 DEF ActiveAdmins
  <2> QED BY <2>3, <2>4
<1> QED BY <1>5, <1>6

LEMMA DeleteKeepsAdmin ==
  ASSUME Inv, NEW r \in Requests, DeleteRow(r), requests[r].stale = {},
         accounts' # accounts, ActiveAdmins(accounts) # {}
  PROVE  ActiveAdmins(accounts') # {}
<1>0. TypeInv /\ RequestOK(requests[r]) /\ requests[r].pc = "delete_row"
  BY DEF Inv, TypeInv, DeleteRow
<1>1. PICK i \in Ids : i = requests[r].id
  BY <1>0 DEF RequestOK, WithRow, Deleted
<1>2. accounts' = Dropped(i)
  BY <1>1 DEF DeleteRow, Commit
<1>3. \A j \in Ids \ {i} : accounts'[j] = accounts[j]
  BY <1>0, <1>2 DEF Dropped, TypeInv, Tables
<1>4. accounts[i] = requests[r].seen
      /\ (accounts[i].role = "ADMIN" => ~(ActiveAdmins(accounts) \subseteq {i}))
  BY <1>0, <1>1 DEF Inv, KnownInv, Known, Deleted
<1>5. PICK a \in Ids \ {i} : a \in ActiveAdmins(accounts)
  BY <1>4 DEF ActiveAdmins
<1> QED BY <1>3, <1>5 DEF ActiveAdmins

(* No route that guards the last active admin takes him away on the        *)
(* strength of what was true when the request began: if a demotion, a      *)
(* batch or a deletion leaves none, another request wrote rows in between. *)
THEOREM LastAdminIsGuarded == Spec => GuardedRoutesKeepAnAdmin
<1>1. Inv /\ [Next]_vars => [KeepsAnAdmin]_vars
  <2> SUFFICES ASSUME Inv, [Next]_vars,
                      ActiveAdmins(accounts) # {}, ActiveAdmins(accounts') = {}
               PROVE  \E r \in Requests :
                         /\ Moves(r)
                         /\ requests[r].kind \in {"patch", "batch", "delete"} =>
                                requests[r].stale # {}
    BY DEF KeepsAnAdmin
  <2>1. accounts' # accounts
    OBVIOUS
  <2>2. PICK r \in Requests : Writes(r)
    BY <2>1, OnlyWritersWrite
  <2>3. TypeInv
    BY DEF Inv
  <2>4. Moves(r)
    BY <2>1, <2>2, <2>3, WritersMove
  <2>5. ASSUME requests[r].kind \in {"patch", "batch", "delete"}, requests[r].stale = {}
        PROVE  FALSE
    <3>1. UpdateAccount(r) \/ Demote(r) \/ WriteBatch(r) \/ DeleteRow(r)
      BY <2>2, <2>3, <2>5, WriterKinds DEF Writes
    <3> QED BY <2>1, <2>5, <3>1, UpdateKeepsAdmin, DemoteKeepsAdmin, BatchKeepsAdmin,
               DeleteKeepsAdmin
  <2> QED BY <2>4, <2>5
<1> QED BY <1>1, Invariance, PTL DEF Spec, GuardedRoutesKeepAnAdmin

(* An account becomes active by an administrator only, or by a sign-in of  *)
(* its own login user, with a confirmed address, while it is pending: if   *)
(* it is not that any more, another request wrote the row since it was     *)
(* read.                                                                   *)
THEOREM ActivationsAreEarned == Spec => ActivationIsEarned
<1>1. Inv /\ [Next]_vars => [EarnsActivation]_vars
  <2> SUFFICES ASSUME Inv, [Next]_vars, NEW i \in Ids, Exists(i), Exists(i)',
                      accounts[i].status # "ACTIVE", accounts'[i].status = "ACTIVE"
               PROVE  \E r \in Requests :
                         /\ Moves(r)
                         /\ \/ requests[r].kind \in AdminKinds
                            \/ /\ users[requests[r].uid].confirmed
                               /\ \/ /\ accounts[i].status = "PENDING_VERIFICATION"
                                     /\ accounts[i].uid = requests[r].uid
                                  \/ i \in requests[r].stale
    BY DEF EarnsActivation
  <2>1. accounts' # accounts /\ TypeInv
    BY DEF Inv
  <2>6. accounts \in Tables /\ accounts[i] \in AccountRow
    BY <2>1 DEF TypeInv, Tables, Exists
  <2>2. PICK r \in Requests : Writes(r)
    BY <2>1, OnlyWritersWrite
  <2>3. Moves(r)
    BY <2>1, <2>2, WritersMove
  <2>4. CASE requests[r].kind \in AdminKinds
    BY <2>3, <2>4
  <2>5. CASE Activate(r)
    <3>1. Confirmed(requests[r]) /\ requests[r].pc = "activate"
      BY <2>5 DEF Inv, ConfirmedInv, Activate
    <3>2. i = requests[r].id
      <4>1. accounts' = [accounts EXCEPT ![requests[r].id] = [@ EXCEPT !.status = "ACTIVE",
                                                                       !.emailVerified = TRUE]]
        BY <2>1, <2>5 DEF Activate, Nothing, Commit
      <4> QED BY <2>6, <4>1 DEF Tables
    <3> QED BY <2>3, <3>1, <3>2 DEF Confirmed
  <2>7. ~RegisterRow(r)
    <3>1. ASSUME NEW j \in Ids, accounts[j] = None, NEW row, accounts' = [accounts EXCEPT ![j] = row]
          PROVE  FALSE
      BY <2>6, <3>1 DEF Exists, Tables
    <3> QED BY <2>1, <3>1 DEF RegisterRow, Commit
  <2>8. ~LinkRow(r)
    <3> SUFFICES ASSUME LinkRow(r)
                 PROVE  FALSE
      OBVIOUS
    <3>1. accounts' = [accounts EXCEPT ![requests[r].id].uid = requests[r].uid]
      BY <2>1 DEF LinkRow, Commit
    <3>2. accounts'[i] = accounts[i] \/ accounts'[i] = [accounts[i] EXCEPT !.uid = requests[r].uid]
      BY <2>6, <3>1 DEF Tables
    <3> QED BY <2>6, <3>2 DEF AccountRow
  <2>9. ~CleanUp(r)
    <3> SUFFICES ASSUME CleanUp(r)
                 PROVE  FALSE
      OBVIOUS
    <3>1. accounts' = [accounts EXCEPT ![requests[r].id] = Gone]
      BY <2>1 DEF CleanUp, Commit, Dropped
    <3>2. accounts'[i] = accounts[i] \/ accounts'[i] = Gone
      BY <2>6, <3>1 DEF Tables
    <3> QED BY <3>2 DEF Exists
  <2>10. ~Deactivate(r)
    <3> SUFFICES ASSUME Deactivate(r)
                 PROVE  FALSE
      OBVIOUS
    <3>1. accounts' = [accounts EXCEPT ![requests[r].id] = [@ EXCEPT !.status = "DEACTIVATED",
                                                                     !.isDeactivated = TRUE]]
      BY <2>1 DEF Deactivate, Nothing, Commit
    <3>2. \/ accounts'[i] = accounts[i]
          \/ accounts'[i] = [accounts[i] EXCEPT !.status = "DEACTIVATED", !.isDeactivated = TRUE]
      BY <2>6, <3>1 DEF Tables
    <3> QED BY <2>6, <3>2 DEF AccountRow
  <2>11. requests[r].kind \in AdminKinds \/ Activate(r)
    BY <2>1, <2>2, <2>7, <2>8, <2>9, <2>10, WriterKinds DEF Writes, AdminKinds
  <2> QED BY <2>4, <2>5, <2>11
<1> QED BY <1>1, Invariance, PTL DEF Spec, ActivationIsEarned
=============================================================================
