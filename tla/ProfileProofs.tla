---------------------------- MODULE ProfileProofs ----------------------------
(***************************************************************************)
(* What users keep in order for themselves, under /api/profile: their      *)
(* device keys (the cap, and what a phone may believe of its own key), the *)
(* profile (course, class and cooldown) and the password (the cooldown),   *)
(* for any number of phones, keys and overlapping requests.                *)
(***************************************************************************)
EXTENDS DeviceKeys, Profile, PasswordChange, FiniteSetTheorems, TLAPS

Records == [key : Keys, registered : BOOLEAN]

(* A call of a phone, by how far it has come: from "send" on it holds a    *)
(* record, and before it has sent anything the server has no request of    *)
(* it.                                                                     *)
Holding == {"send", "wait", "mark", "put"}

Calls ==
    {Idle} \cup [pc : {"generate", "done"} \cup Holding, phone : Phones,
                 record : Records \cup {Nothing}]

Served ==
    [pc : {"count", "find", "create", "recount", "revoke", "done"},
     key : Keys, created : BOOLEAN, ok : BOOLEAN]

TypeInv ==
    /\ TypeOK
    /\ tasks \in [Tasks -> Calls]
    /\ \A t \in Tasks :
          /\ tasks[t].pc \in Holding => tasks[t].record \in Records
          /\ tasks[t].pc \in {"idle", "generate", "send"} => requests[t] = Idle

LEMMA NotIdle ==
  ASSUME TypeOK, NEW t \in Tasks
  PROVE  /\ requests[t].pc # "idle" => requests[t] # Idle
         /\ requests[t] # Idle => requests[t] \in Served
  BY DEF TypeOK, Served, Idle

LEMMA TypeInit == Init => TypeInv
  BY DeviceKeysAssumption DEF Init, TypeInv, TypeOK, Idle, Calls, Holding

LEMMA TypeStep == TypeInv /\ [Next]_vars => TypeInv'
<1> SUFFICES ASSUME TypeInv, [Next]_vars PROVE TypeInv'
  OBVIOUS
<1> USE DEF TypeInv, TypeOK, Calls, Holding, Records, Idle, Served
<1>1. ASSUME NEW t \in Tasks, NEW p \in Phones, Begin(t, p) PROVE TypeInv'
  <2>1. tasks'[t].pc = "send" => tasks'[t].record \in Records
    BY <1>1 DEF Begin, Become
  <2> QED BY <1>1, <2>1 DEF Begin, Become
<1>2. ASSUME NEW t \in Tasks, Generate(t) PROVE TypeInv'
  BY <1>2 DEF Generate, Become, Record
<1>3. ASSUME NEW t \in Tasks, Send(t) PROVE TypeInv'
  <2>1. tasks[t].record.key \in Keys
    BY <1>3 DEF Send
  <2> QED BY <1>3, <2>1 DEF Send, GoTo
<1>4. ASSUME NEW t \in Tasks, Receive(t) PROVE TypeInv'
  BY <1>4 DEF Receive, GoTo
<1>5. ASSUME NEW t \in Tasks, ReadRecord(t) PROVE TypeInv'
  BY <1>5 DEF ReadRecord, GoTo, Become
<1>6. ASSUME NEW t \in Tasks, PutRecord(t) PROVE TypeInv'
  BY <1>6 DEF PutRecord, GoTo, Record
<1>7. ASSUME NEW t \in Tasks, ServerStep(t) PROVE TypeInv'
  <2>0. requests[t].pc \in {"count", "find", "create", "recount", "revoke"}
    BY <1>7 DEF ServerStep, Count, Find, Create, Recount, RevokeExcess
  <2>1. tasks[t].pc \notin {"idle", "generate", "send"}
    BY <2>0
  <2>2. CASE Count(t)
    BY <1>7, <2>1, <2>2 DEF ServerStep, Count, Step, Answer
  <2>3. CASE Find(t)
    BY <1>7, <2>1, <2>3 DEF ServerStep, Find, Step
  <2>4. CASE Create(t)
    BY <1>7, <2>1, <2>4 DEF ServerStep, Create, Step
  <2>5. CASE Recount(t)
    BY <1>7, <2>1, <2>5 DEF ServerStep, Recount, Step, Answer
  <2>6. CASE RevokeExcess(t)
    <3>1. requests[t].key \in Keys
      BY <2>0
    <3>2. active' \subseteq Keys /\ revoked' \subseteq Keys
      BY <2>6, <3>1 DEF RevokeExcess, Withdraw
    <3>3. requests' = [requests EXCEPT ![t].pc = "done", ![t].ok = FALSE]
      BY <2>6 DEF RevokeExcess, Answer
    <3>0. requests[t] \in Served
      BY <2>0
    <3>4. requests' \in [Tasks -> {Idle} \cup Served]
      BY <3>0, <3>3
    <3> QED BY <1>7, <2>1, <3>2, <3>3, <3>4 DEF ServerStep
  <2> QED BY <1>7, <2>2, <2>3, <2>4, <2>5, <2>6 DEF ServerStep
<1>8. ASSUME NEW key \in Keys, Revoke(key) PROVE TypeInv'
  BY <1>8 DEF Revoke, Withdraw
<1>9. ASSUME NEW p \in Phones, ClearData(p) PROVE TypeInv'
  BY <1>9 DEF ClearData
<1>10. CASE UNCHANGED vars
  BY <1>10 DEF vars
<1> QED
  BY <1>1, <1>2, <1>3, <1>4, <1>5, <1>6, <1>7, <1>8, <1>9, <1>10 DEF Next, PhoneStep

(* The table, the phones' records and every request keep their types.      *)
THEOREM TypeCorrect == Spec => []TypeOK
<1>1. TypeInv => TypeOK
  BY DEF TypeInv
<1> QED BY <1>1, TypeInit, TypeStep, PTL DEF Spec

-----------------------------------------------------------------------------
(* The cap. *)

(* A key is created by one registration only: once created it is in the    *)
(* table for good.                                                         *)
Creators == {t \in Tasks : requests[t] # Idle /\ requests[t].created}

OneCreator ==
    /\ \A t \in Tasks : requests[t] # Idle =>
          /\ requests[t].created => requests[t].key \in Registered
          /\ requests[t].pc \in {"count", "find", "create"} => ~ requests[t].created
          /\ requests[t].pc # "done" => ~ requests[t].ok
    /\ \A t, u \in Creators : requests[t].key = requests[u].key => t = u

CapInv == TypeInv /\ OneCreator /\ CapHolds

LEMMA PendingFinite == IsFiniteSet(Pending) /\ Cardinality(Pending) \in Nat
  BY DeviceKeysAssumption, FS_Subset, FS_CardinalityType DEF Pending

LEMMA ActiveFinite ==
  ASSUME TypeOK
  PROVE  IsFiniteSet(active) /\ Cardinality(active) \in Nat
  BY DeviceKeysAssumption, FS_Subset, FS_CardinalityType DEF TypeOK

LEMMA CapInit == Init => OneCreator /\ CapHolds
<1> SUFFICES ASSUME Init PROVE OneCreator /\ CapHolds
  OBVIOUS
<1>1. OneCreator
  <2>1. \A t \in Tasks : requests[t] = Idle
    BY DEF Init
  <2> QED BY <2>1 DEF OneCreator, Creators
<1>2. CapHolds
  <2>1. Cardinality(active) \in Nat /\ Cardinality(active) <= MaxDevices
    BY DeviceKeysAssumption, FS_Subset, FS_CardinalityType DEF Init
  <2> QED BY <2>1, PendingFinite, DeviceKeysAssumption DEF CapHolds
<1> QED BY <1>1, <1>2

(* What a step keeps: the bound holds if the pending registrations are     *)
(* still pending and no key was added.                                     *)
LEMMA CapKept ==
  ASSUME CapInv, TypeInv', active' \subseteq active, Pending \subseteq Pending'
  PROVE  CapHolds'
<1>1. Cardinality(active') \in Nat /\ Cardinality(active') <= Cardinality(active)
  BY ActiveFinite, FS_Subset, FS_CardinalityType DEF CapInv, TypeInv
<1>2. IsFiniteSet(Pending') /\ Cardinality(Pending') \in Nat
  BY DeviceKeysAssumption, FS_Subset, FS_CardinalityType DEF Pending
<1>3. Cardinality(Pending) <= Cardinality(Pending')
  BY <1>2, FS_Subset
<1> QED
  BY <1>1, <1>2, <1>3, ActiveFinite, PendingFinite, DeviceKeysAssumption
  DEF CapInv, CapHolds, TypeInv

(* Taking back a key removes no more than its own pending registration.    *)
LEMMA CapWithdrawn ==
  ASSUME CapInv, NEW key \in active, active' = active \ {key},
         NEW P, P \subseteq Tasks, \A t \in Pending : requests[t].key # key => t \in P
  PROVE  Cardinality(active') <= MaxDevices + Cardinality(P)
<1>1. /\ IsFiniteSet(active) /\ Cardinality(active) \in Nat
      /\ IsFiniteSet(Pending) /\ Cardinality(Pending) \in Nat
      /\ Cardinality(active) <= MaxDevices + Cardinality(Pending)
  BY ActiveFinite, PendingFinite DEF CapInv, CapHolds, TypeInv
<1>2. Cardinality(active') = Cardinality(active) - 1
  BY <1>1, FS_RemoveElement
<1>3. IsFiniteSet(P) /\ Cardinality(P) \in Nat
  BY DeviceKeysAssumption, FS_Subset, FS_CardinalityType
<1>4. CASE \E u \in Pending : requests[u].key = key
  <2> PICK u \in Pending : requests[u].key = key
    BY <1>4
  <2>1. Pending \ {u} \subseteq P
    BY DEF CapInv, OneCreator, Creators, Pending
  <2>2. Cardinality(Pending \ {u}) = Cardinality(Pending) - 1
    BY <1>1, FS_RemoveElement
  <2>3. Cardinality(Pending \ {u}) <= Cardinality(P)
    BY <1>3, <2>1, FS_Subset
  <2> QED BY <1>1, <1>2, <1>3, <2>2, <2>3, DeviceKeysAssumption
<1>5. CASE ~ \E u \in Pending : requests[u].key = key
  <2>1. Pending \subseteq P
    BY <1>5
  <2>2. Cardinality(Pending) <= Cardinality(P)
    BY <1>3, <2>1, FS_Subset
  <2> QED BY <1>1, <1>2, <1>3, <2>2, DeviceKeysAssumption
<1> QED BY <1>4, <1>5

LEMMA CapStep == CapInv /\ [Next]_vars => OneCreator' /\ CapHolds'
<1> SUFFICES ASSUME CapInv, [Next]_vars PROVE OneCreator' /\ CapHolds'
  OBVIOUS
<1>0. TypeInv /\ TypeInv'
  BY TypeStep DEF CapInv
<1> USE DEF TypeInv, TypeOK, OneCreator, Creators, Registered, Idle
<1>1. CASE UNCHANGED <<active, revoked, requests>>
  <2>1. Pending' = Pending
    BY <1>1 DEF Pending
  <2>2. OneCreator'
    BY <1>1 DEF CapInv
  <2> QED BY <1>0, <1>1, <2>1, <2>2, CapKept
<1>2. ASSUME NEW t \in Tasks, Send(t) PROVE OneCreator' /\ CapHolds'
  <2>1. requests[t] = Idle
    BY <1>0, <1>2 DEF Send
  <2>2. Pending \subseteq Pending'
    BY <1>0, <1>2, <2>1 DEF Send, Pending
  <2>3. OneCreator'
    BY <1>0, <1>2, <2>1 DEF Send, CapInv
  <2> QED BY <1>0, <1>2, <2>2, <2>3, CapKept DEF Send
<1>3. ASSUME NEW t \in Tasks, Count(t) \/ Find(t), UNCHANGED <<active, revoked>>
      PROVE  OneCreator' /\ CapHolds'
  <2>0. requests[t].pc \in {"count", "find"}
    BY <1>3 DEF Count, Find
  <2>1. requests[t] # Idle /\ ~ requests[t].created /\ ~ requests[t].ok
    BY <1>0, <2>0, NotIdle DEF CapInv
  <2>2. \E pc \in {"done", "find", "create", "recount"} :
           requests' = [requests EXCEPT ![t].pc = pc, ![t].ok = FALSE]
    BY <1>0, <1>3, <2>1 DEF Count, Find, Step, Answer
  <2>3. OneCreator'
    BY <1>0, <1>3, <2>1, <2>2 DEF CapInv
  <2>4. Pending \subseteq Pending'
    BY <1>0, <1>3, <2>1, <2>2 DEF Pending
  <2> QED BY <1>0, <1>3, <2>3, <2>4, CapKept
<1>4. ASSUME NEW t \in Tasks, Create(t) PROVE OneCreator' /\ CapHolds'
  <2>1. /\ requests[t] # Idle /\ ~ requests[t].created /\ ~ requests[t].ok
        /\ requests[t] \in Served
    BY <1>0, <1>4 DEF Create, CapInv, Served
  <2>2. CASE requests[t].key \in Registered
    <3>1. requests' = [requests EXCEPT ![t].pc = "recount"]
      BY <1>4, <2>2 DEF Create, Step
    <3>2. OneCreator'
      BY <1>0, <1>4, <2>1, <2>2, <3>1 DEF Create, CapInv
    <3>3. Pending \subseteq Pending'
      BY <1>0, <1>4, <2>1, <2>2, <3>1 DEF Create, Pending
    <3> QED BY <1>0, <1>4, <2>2, <3>2, <3>3, CapKept DEF Create
  <2>3. CASE requests[t].key \notin Registered
    <3>1. /\ active' = active \cup {requests[t].key} /\ revoked' = revoked
          /\ requests' = [requests EXCEPT ![t].pc = "recount", ![t].created = TRUE]
          /\ requests[t].key \notin active
      BY <1>4, <2>3 DEF Create
    <3>2. OneCreator'
      BY <1>0, <2>1, <2>3, <3>1 DEF CapInv
    <3>3. t \notin Pending /\ Pending \cup {t} \subseteq Pending'
      BY <1>0, <2>1, <3>1 DEF Pending
    <3>4. Cardinality(active') = Cardinality(active) + 1
      BY <1>0, <3>1, ActiveFinite, FS_AddElement
    <3>5. Cardinality(Pending \cup {t}) = Cardinality(Pending) + 1
      BY <3>3, PendingFinite, FS_AddElement
    <3>6. IsFiniteSet(Pending') /\ Cardinality(Pending') \in Nat
      BY DeviceKeysAssumption, FS_Subset, FS_CardinalityType DEF Pending
    <3>7. Cardinality(Pending \cup {t}) <= Cardinality(Pending')
      BY <3>3, <3>6, FS_Subset
    <3>8. CapHolds'
      BY <1>0, <3>4, <3>5, <3>6, <3>7, ActiveFinite, PendingFinite, DeviceKeysAssumption
      DEF CapInv, CapHolds
    <3> QED BY <3>2, <3>8
  <2> QED BY <2>2, <2>3
<1>5. ASSUME NEW t \in Tasks, Recount(t) PROVE OneCreator' /\ CapHolds'
  <2>1. requests[t] # Idle /\ ~ requests[t].ok /\ requests[t] \in Served
    BY <1>0, <1>5 DEF Recount, CapInv, Served
  <2>2. CASE TooMany(t)
    <3>1. requests' = [requests EXCEPT ![t].pc = "revoke"]
      BY <1>5, <2>2 DEF Recount, Step
    <3>2. OneCreator'
      BY <1>0, <1>5, <2>1, <3>1 DEF Recount, CapInv
    <3>3. Pending \subseteq Pending'
      BY <1>0, <1>5, <2>1, <3>1 DEF Recount, Pending
    <3> QED BY <1>0, <1>5, <3>2, <3>3, CapKept DEF Recount
  <2>3. CASE ~ TooMany(t)
    <3>1. requests' = [requests EXCEPT ![t].pc = "done", ![t].ok = TRUE]
      BY <1>5, <2>3 DEF Recount, Answer
    <3>2. OneCreator'
      BY <1>0, <1>5, <2>1, <3>1 DEF Recount, CapInv
    <3>3. Cardinality(active') <= MaxDevices
      BY <1>0, <1>5, <2>3, ActiveFinite, DeviceKeysAssumption DEF Recount, TooMany
    <3>4. Cardinality(Pending') \in Nat
      BY DeviceKeysAssumption, FS_Subset, FS_CardinalityType DEF Pending
    <3>5. CapHolds'
      BY <1>0, <3>3, <3>4, ActiveFinite, DeviceKeysAssumption, <1>5 DEF CapHolds, Recount
    <3> QED BY <3>2, <3>5
  <2> QED BY <2>2, <2>3
<1>6. ASSUME NEW key \in Keys, Withdraw(key),
             \/ UNCHANGED requests
             \/ \E t \in Tasks : /\ requests[t] \in Served
                                 /\ requests' = [requests EXCEPT ![t].pc = "done", ![t].ok = FALSE]
      PROVE  OneCreator' /\ CapHolds'
  <2> DEFINE SameRequests ==
        \A t \in Tasks :
           /\ requests'[t] # Idle <=> requests[t] # Idle
           /\ requests[t] # Idle =>
                 /\ requests'[t].key = requests[t].key
                 /\ requests'[t].created = requests[t].created
                 /\ requests'[t].pc \in {requests[t].pc, "done"}
                 /\ requests'[t].ok \in {requests[t].ok, FALSE}
                 /\ requests[t].ok \in BOOLEAN /\ requests[t].created \in BOOLEAN
  <2>0. SameRequests
    <3>1. CASE UNCHANGED requests
      BY <1>0, <3>1, NotIdle DEF Served
    <3>2. ASSUME NEW t \in Tasks, requests[t] \in Served,
                 requests' = [requests EXCEPT ![t].pc = "done", ![t].ok = FALSE]
          PROVE  SameRequests
      <4>2. \A u \in Tasks : u # t => requests'[u] = requests[u]
        BY <1>0, <3>2
      <4>3. /\ requests'[t].key = requests[t].key
            /\ requests'[t].created = requests[t].created
            /\ requests'[t].pc = "done" /\ requests'[t].ok = FALSE
        BY <1>0, <3>2 DEF Served
      <4>1. requests'[t] # Idle /\ requests[t] # Idle
        <5>1. \A x : x = Idle => x.pc = "idle"
          OBVIOUS
        <5>2. requests[t].pc # "idle"
          BY <3>2 DEF Served
        <5> HIDE DEF Idle
        <5> QED BY <4>3, <5>1, <5>2
      <4> QED BY <1>0, <3>2, <4>1, <4>2, <4>3, NotIdle DEF Served
    <3> QED BY <1>6, <3>1, <3>2
  <2>1. OneCreator'
    <3>1. /\ active' \cup revoked' = active \cup revoked \cup {key}
          /\ Creators' = Creators
      BY <1>6, <2>0 DEF Withdraw
    <3>2. ASSUME NEW t \in Tasks, requests'[t] # Idle
          PROVE  /\ requests'[t].created => requests'[t].key \in active' \cup revoked'
                 /\ requests'[t].pc \in {"count", "find", "create"} => ~ requests'[t].created
                 /\ requests'[t].pc # "done" => ~ requests'[t].ok
      BY <2>0, <3>1, <3>2 DEF CapInv
    <3>3. ASSUME NEW t \in Creators, NEW u \in Creators, requests'[t].key = requests'[u].key
          PROVE  t = u
      BY <2>0, <3>3 DEF CapInv
    <3> QED BY <3>1, <3>2, <3>3
  <2>2. \A t \in Pending : requests[t].key # key => t \in Pending'
    BY <1>6, <2>0 DEF Withdraw, Pending
  <2>3. CASE key \in active
    <3>1. Pending' \subseteq Tasks
      BY DEF Pending
    <3> QED BY <1>6, <2>1, <2>2, <2>3, <3>1, CapWithdrawn DEF CapHolds, Withdraw
  <2>4. CASE key \notin active
    <3>1. Pending \subseteq Pending'
      BY <2>2, <2>4 DEF Pending
    <3> QED BY <1>0, <1>6, <2>1, <2>4, <3>1, CapKept DEF Withdraw
  <2> QED BY <2>3, <2>4
<1>7. ASSUME NEW t \in Tasks, RevokeExcess(t) PROVE OneCreator' /\ CapHolds'
  <2>1. requests[t] # Idle /\ requests[t] \in Served /\ requests[t].key \in Keys
    BY <1>0, <1>7 DEF RevokeExcess, Served
  <2>2. requests' = [requests EXCEPT ![t].pc = "done", ![t].ok = FALSE]
    BY <1>7 DEF RevokeExcess, Answer
  <2>3. CASE Withdraw(requests[t].key)
    BY <1>6, <2>1, <2>2, <2>3
  <2>4. CASE UNCHANGED <<active, revoked>>
    <3>1. OneCreator'
      BY <1>0, <2>1, <2>2, <2>4 DEF CapInv
    <3>2. ASSUME NEW u \in Pending PROVE u \in Pending'
      <4>1. CASE u = t
        BY <1>0, <2>1, <2>2, <2>4, <4>1 DEF Pending, Served
      <4>2. CASE u # t
        BY <1>0, <2>2, <2>4, <4>2 DEF Pending
      <4> QED BY <4>1, <4>2
    <3> QED BY <1>0, <2>4, <3>1, <3>2, CapKept
  <2> QED BY <1>7, <2>3, <2>4 DEF RevokeExcess
<1>8. ASSUME NEW key \in Keys, Revoke(key) PROVE OneCreator' /\ CapHolds'
  BY <1>6, <1>8 DEF Revoke
<1>9. ASSUME NEW t \in Tasks, PhoneStep(t), ~ Send(t) PROVE OneCreator' /\ CapHolds'
  BY <1>1, <1>9 DEF PhoneStep, Begin, Generate, Receive, ReadRecord, PutRecord
<1>10. ASSUME NEW t \in Tasks, ServerStep(t) PROVE OneCreator' /\ CapHolds'
  BY <1>3, <1>4, <1>5, <1>7, <1>10 DEF ServerStep, Count, Find
<1> QED
  BY <1>1, <1>2, <1>8, <1>9, <1>10 DEF Next, ClearData, vars

(* However many registrations overlap or die half-way, the account has no  *)
(* more active keys than the cap and one for each registration that has    *)
(* created a key and not been answered with success.                       *)
THEOREM CapIsKept == Spec => []CapHolds
<1>1. Init => CapInv
  BY TypeInit, CapInit DEF CapInv
<1>2. CapInv /\ [Next]_vars => CapInv'
  BY TypeStep, CapStep DEF CapInv
<1>3. CapInv => CapHolds
  BY DEF CapInv
<1> QED BY <1>1, <1>2, <1>3, PTL DEF Spec
-----------------------------------------------------------------------------
(* What a phone believes. *)

(* A request that has passed the registration has its key in the table.    *)
ServedKnown ==
    \A t \in Tasks :
        /\ requests[t] # Idle
        /\ requests[t].pc \in {"recount", "revoke"} \/ requests[t].ok
        => requests[t].key \in Registered

(* As long as the phone's record is the one its calls hold, they all hold  *)
(* the same key, and from the answer on it is in the table.                *)
Agrees(t) ==
    /\ tasks[t].pc \in Holding /\ tasks[t].phone \notin replaced =>
          /\ stored[tasks[t].phone] # Nothing
          /\ stored[tasks[t].phone].key = tasks[t].record.key
    /\ tasks[t].pc = "wait" => requests[t].key = tasks[t].record.key
    /\ tasks[t].pc = "mark" => tasks[t].record.key \in Registered
    /\ tasks[t].pc = "put" /\ tasks[t].phone \notin replaced =>
          tasks[t].record.key \in Registered

CallsAgree == \A t \in Tasks : Agrees(t)

KnownInv == TypeInv /\ ServedKnown /\ CallsAgree /\ RegisteredIsKnown

LEMMA NoneWaits ==
  ASSUME TypeInv, NEW t \in Tasks
  PROVE  /\ tasks[t].pc \in Holding => tasks[t].phone \in Phones /\ tasks[t].record \in Records
         /\ tasks[t].pc = "generate" => tasks[t].phone \in Phones
  BY DEF TypeInv, Calls, Holding, Idle

LEMMA RecordIs ==
  ASSUME NEW key \in Keys, NEW flag \in BOOLEAN
  PROVE  /\ Record(key, flag) # Nothing /\ Record(key, flag) \in Records
         /\ Record(key, flag).key = key
         /\ Record(key, flag).registered <=> flag
<1>1. Record(key, flag) \in Records
  BY DEF Record, Records
<1>2. Record(key, flag) # Nothing
  BY <1>1, DeviceKeysAssumption DEF Records
<1>3. Record(key, flag).key = key
  BY DEF Record
<1>4. Record(key, flag).registered <=> flag
  BY DEF Record
<1> QED BY <1>1, <1>2, <1>3, <1>4

(* The server, and the user's own revocations, only ever add keys to the   *)
(* table.                                                                  *)
LEMMA KnownServer ==
  ASSUME KnownInv, TypeInv', UNCHANGED <<stored, tasks, replaced>>,
         Registered \subseteq Registered',
         \A t \in Tasks : requests'[t].key = requests[t].key,
         ServedKnown'
  PROVE  KnownInv'
  BY DEF KnownInv, CallsAgree, Agrees, RegisteredIsKnown, Holding

LEMMA ServedStep ==
  ASSUME KnownInv, TypeInv', NEW t \in Tasks, ServerStep(t)
  PROVE  /\ Registered \subseteq Registered'
         /\ \A u \in Tasks : requests'[u].key = requests[u].key
         /\ ServedKnown'
<1>0. TypeOK /\ requests[t].pc \in {"count", "find", "create", "recount", "revoke"}
  BY DEF KnownInv, TypeInv, ServerStep, Count, Find, Create, Recount, RevokeExcess
<1>1. requests[t] # Idle /\ requests[t] \in Served
  BY <1>0, NotIdle
<1>2. \A u \in Tasks : u # t => requests'[u] = requests[u]
  BY <1>0 DEF ServerStep, Count, Find, Create, Recount, RevokeExcess, Step, Answer, TypeOK
<1>3. requests'[t].key = requests[t].key
  BY <1>0, <1>1 DEF ServerStep, Count, Find, Create, Recount, RevokeExcess, Step, Answer, TypeOK, Served
<1>4. Registered \subseteq Registered'
  BY DEF ServerStep, Count, Find, Create, Recount, RevokeExcess, Withdraw, Registered
<1>5. requests'[t].pc \in {"recount", "revoke"} \/ requests'[t].ok => requests[t].key \in Registered'
  <2> USE <1>0, <1>1, <1>4 DEF KnownInv, ServedKnown, TypeOK, Served
  <2>1. CASE Count(t)
    BY <2>1 DEF Count, Step, Answer
  <2>2. CASE Find(t)
    BY <2>2 DEF Find, Step
  <2>3. CASE Create(t)
    BY <2>3 DEF Create, Step, Registered
  <2>4. CASE Recount(t)
    BY <2>4 DEF Recount, Step, Answer
  <2>5. CASE RevokeExcess(t)
    BY <2>5 DEF RevokeExcess, Answer
  <2> QED BY <2>1, <2>2, <2>3, <2>4, <2>5 DEF ServerStep
<1>6. ServedKnown'
  BY <1>1, <1>2, <1>3, <1>4, <1>5 DEF ServedKnown, KnownInv
<1> QED BY <1>2, <1>3, <1>4, <1>6

LEMMA KnownStep == KnownInv /\ [Next]_vars => KnownInv'
<1> SUFFICES ASSUME KnownInv, [Next]_vars PROVE KnownInv'
  OBVIOUS
<1>0. TypeInv /\ TypeInv'
  BY TypeStep DEF KnownInv
<1> USE DEF CallsAgree, Agrees, RegisteredIsKnown, Registered, Holding
<1>1. ASSUME NEW t \in Tasks, NEW p \in Phones, Begin(t, p) PROVE KnownInv'
  <2>1. /\ tasks' = [tasks EXCEPT ![t] =
              [pc |-> IF stored[p] = Nothing THEN "generate"
                      ELSE IF stored[p].registered THEN "done" ELSE "send",
               phone |-> p, record |-> stored[p]]]
        /\ UNCHANGED <<active, revoked, stored, requests, replaced>>
    BY <1>1 DEF Begin, Become
  <2>2. ServedKnown'
    BY <2>1 DEF KnownInv, ServedKnown
  <2>3. CallsAgree'
    <3>1. ASSUME NEW u \in Tasks, u # t PROVE Agrees(u)'
      BY <1>0, <2>1, <3>1, NoneWaits DEF KnownInv, TypeInv, TypeOK
    <3>2. Agrees(t)'
      BY <1>0, <2>1, NoneWaits DEF KnownInv, TypeInv, TypeOK
    <3> QED BY <3>1, <3>2
  <2>4. RegisteredIsKnown'
    BY <2>1 DEF KnownInv
  <2> QED BY <1>0, <2>2, <2>3, <2>4 DEF KnownInv
<1>2. ASSUME NEW t \in Tasks, Generate(t) PROVE KnownInv'
  <2> DEFINE p == tasks[t].phone
  <2>0. p \in Phones /\ tasks[t].pc = "generate"
    BY <1>0, <1>2, NoneWaits DEF Generate
  <2>1. PICK key \in Keys :
           /\ stored' = [stored EXCEPT ![p] = Record(key, FALSE)]
           /\ tasks' = [tasks EXCEPT ![t] = [pc |-> "send", phone |-> p,
                                             record |-> Record(key, FALSE)]]
    BY <1>2 DEF Generate, Become
  <2>2. UNCHANGED <<active, revoked, requests>>
    BY <1>2 DEF Generate
  <2>3. replaced' = IF stored[p] = Nothing THEN replaced ELSE replaced \cup {p}
    BY <1>2 DEF Generate
  <2>4. /\ Record(key, FALSE) # Nothing /\ Record(key, FALSE).key = key
        /\ ~ Record(key, FALSE).registered
    BY <2>1, RecordIs
  <2>5. ServedKnown'
    BY <2>2 DEF KnownInv, ServedKnown
  <2>6. CallsAgree'
    <3>1. ASSUME NEW u \in Tasks, u # t PROVE Agrees(u)'
      BY <1>0, <2>0, <2>1, <2>2, <2>3, <2>4, <3>1, NoneWaits DEF KnownInv, TypeInv, TypeOK
    <3>2. Agrees(t)'
      BY <1>0, <2>0, <2>1, <2>2, <2>3, <2>4, NoneWaits DEF KnownInv, TypeInv, TypeOK
    <3> QED BY <3>1, <3>2
  <2>7. RegisteredIsKnown'
    BY <1>0, <2>0, <2>1, <2>2, <2>3, <2>4 DEF KnownInv, TypeInv, TypeOK
  <2> QED BY <1>0, <2>5, <2>6, <2>7 DEF KnownInv
<1>3. ASSUME NEW t \in Tasks, Send(t) PROVE KnownInv'
  <2>1. /\ tasks' = [tasks EXCEPT ![t].pc = "wait"]
        /\ requests' = [requests EXCEPT ![t] =
              [pc |-> "count", key |-> tasks[t].record.key, created |-> FALSE, ok |-> FALSE]]
        /\ UNCHANGED <<active, revoked, stored, replaced>> /\ tasks[t].pc = "send"
    BY <1>3 DEF Send, GoTo
  <2>2. ServedKnown'
    BY <1>0, <2>1 DEF KnownInv, ServedKnown, TypeInv, TypeOK
  <2>3. CallsAgree'
    <3>1. ASSUME NEW u \in Tasks, u # t PROVE Agrees(u)'
      BY <1>0, <2>1, <3>1, NoneWaits DEF KnownInv, TypeInv, TypeOK
    <3>2. Agrees(t)'
      BY <1>0, <2>1, NoneWaits DEF KnownInv, TypeInv, TypeOK
    <3> QED BY <3>1, <3>2
  <2> QED BY <1>0, <2>1, <2>2, <2>3 DEF KnownInv
<1>4. ASSUME NEW t \in Tasks, Receive(t) PROVE KnownInv'
  <2>1. /\ \/ /\ requests[t].pc = "done" /\ requests[t].ok
              /\ tasks' = [tasks EXCEPT ![t].pc = "mark"]
           \/ tasks' = [tasks EXCEPT ![t].pc = "done"]
        /\ UNCHANGED <<active, revoked, stored, requests, replaced>>
        /\ tasks[t].pc = "wait"
    BY <1>4 DEF Receive, IsOk, GoTo
  <2>2. requests[t].pc = "done" /\ requests[t].ok => requests[t].key \in Registered
    BY <1>0, NotIdle DEF KnownInv, ServedKnown, TypeInv
  <2>3. CallsAgree'
    <3>1. ASSUME NEW u \in Tasks, u # t PROVE Agrees(u)'
      BY <1>0, <2>1, <2>2, <3>1, NoneWaits DEF KnownInv, TypeInv, TypeOK
    <3>2. Agrees(t)'
      <4>1. /\ tasks[t] \in Calls /\ tasks[t] # Idle
            /\ requests[t].key = tasks[t].record.key
            /\ tasks[t].phone \notin replaced =>
                  /\ stored[tasks[t].phone] # Nothing
                  /\ stored[tasks[t].phone].key = tasks[t].record.key
        BY <1>0, <2>1 DEF KnownInv, TypeInv, Idle
      <4>2. /\ tasks'[t].phone = tasks[t].phone /\ tasks'[t].record = tasks[t].record
            /\ \/ tasks'[t].pc = "done"
               \/ tasks'[t].pc = "mark" /\ requests[t].pc = "done" /\ requests[t].ok
        BY <1>0, <2>1, <4>1 DEF KnownInv, TypeInv, Calls
      <4> QED BY <2>1, <2>2, <4>1, <4>2
    <3> QED BY <3>1, <3>2
  <2> QED BY <1>0, <2>1, <2>3 DEF KnownInv, ServedKnown
<1>5. ASSUME NEW t \in Tasks, ReadRecord(t) PROVE KnownInv'
  <2> DEFINE p == tasks[t].phone
  <2>1. /\ \/ tasks' = [tasks EXCEPT ![t].pc = "done"]
           \/ /\ stored[p] # Nothing
              /\ tasks' = [tasks EXCEPT ![t] = [pc |-> "put", phone |-> p, record |-> stored[p]]]
        /\ UNCHANGED <<active, revoked, stored, requests, replaced>>
        /\ tasks[t].pc = "mark"
    BY <1>5 DEF ReadRecord, GoTo, Become
  <2>2. CallsAgree'
    <3>1. ASSUME NEW u \in Tasks, u # t PROVE Agrees(u)'
      BY <1>0, <2>1, <3>1, NoneWaits DEF KnownInv, TypeInv, TypeOK
    <3>2. Agrees(t)'
      <4>1. /\ tasks[t].record.key \in Registered
            /\ p \notin replaced => stored[p].key = tasks[t].record.key
        BY <1>0, <2>1 DEF KnownInv
      <4>2. CASE tasks' = [tasks EXCEPT ![t].pc = "done"]
        BY <1>0, <2>1, <4>2 DEF TypeInv, Calls
      <4>3. CASE /\ stored[p] # Nothing
                 /\ tasks' = [tasks EXCEPT ![t] =
                                  [pc |-> "put", phone |-> p, record |-> stored[p]]]
        <5>1. tasks'[t].pc = "put" /\ tasks'[t].phone = p /\ tasks'[t].record = stored[p]
          BY <1>0, <4>3 DEF TypeInv
        <5> QED BY <2>1, <4>1, <4>3, <5>1
      <4> QED BY <2>1, <4>2, <4>3
    <3> QED BY <3>1, <3>2
  <2> QED BY <1>0, <2>1, <2>2 DEF KnownInv, ServedKnown
<1>6. ASSUME NEW t \in Tasks, PutRecord(t) PROVE KnownInv'
  <2> DEFINE p == tasks[t].phone  key == tasks[t].record.key
  <2>0. p \in Phones /\ key \in Keys /\ tasks[t].pc = "put"
    BY <1>0, <1>6, NoneWaits DEF PutRecord, Records
  <2>1. /\ stored' = [stored EXCEPT ![p] = Record(key, TRUE)]
        /\ tasks' = [tasks EXCEPT ![t].pc = "done"]
        /\ UNCHANGED <<active, revoked, requests, replaced>>
    BY <1>6 DEF PutRecord, GoTo
  <2>2. Record(key, TRUE) # Nothing /\ Record(key, TRUE).key = key
    BY <2>0, RecordIs
  <2>3. CallsAgree'
    <3>1. ASSUME NEW u \in Tasks, u # t PROVE Agrees(u)'
      <4>1. /\ tasks'[u] = tasks[u] /\ Agrees(u)
            /\ UNCHANGED <<requests, active, revoked, replaced>>
        BY <1>0, <2>1, <3>1 DEF KnownInv, TypeInv
      <4>2. CASE tasks[u].pc \in Holding /\ tasks[u].phone = p /\ p \notin replaced
        <5>1. tasks[u].record.key = key
          BY <2>0, <4>1, <4>2 DEF KnownInv
        <5>2. stored'[p] # Nothing /\ stored'[p].key = key
          BY <1>0, <2>0, <2>1, <2>2 DEF TypeInv, TypeOK
        <5> QED BY <4>1, <4>2, <5>1, <5>2
      <4>3. CASE tasks[u].phone # p
        <5>1. stored'[tasks[u].phone] = stored[tasks[u].phone]
              \/ tasks[u].pc \notin Holding
          BY <1>0, <2>0, <2>1, <4>3, NoneWaits DEF TypeInv, TypeOK
        <5> QED BY <4>1, <4>3, <5>1
      <4>4. CASE tasks[u].pc \notin Holding
        BY <4>1, <4>4
      <4>5. CASE tasks[u].phone \in replaced
        BY <4>1, <4>5
      <4> QED BY <4>2, <4>3, <4>4, <4>5
    <3>2. Agrees(t)'
      BY <1>0, <2>0, <2>1, <2>2, NoneWaits DEF KnownInv, TypeInv, TypeOK
    <3> QED BY <3>1, <3>2
  <2>4. RegisteredIsKnown'
    <3>1. p \notin replaced => key \in Registered
      BY <2>0 DEF KnownInv
    <3>2. stored'[p].key = key
      BY <1>0, <2>0, <2>1, <2>2 DEF TypeInv, TypeOK
    <3>3. \A o \in Phones : o # p => stored'[o] = stored[o]
      BY <1>0, <2>1 DEF TypeInv, TypeOK
    <3> QED BY <2>1, <3>1, <3>2, <3>3 DEF KnownInv
  <2> QED BY <1>0, <2>1, <2>3, <2>4 DEF KnownInv, ServedKnown
<1>7. ASSUME NEW t \in Tasks, ServerStep(t) PROVE KnownInv'
  <2>1. UNCHANGED <<stored, tasks, replaced>>
    BY <1>7 DEF ServerStep
  <2> QED BY <1>0, <1>7, <2>1, ServedStep, KnownServer
<1>8. ASSUME NEW key \in Keys, Revoke(key) PROVE KnownInv'
  <2>1. UNCHANGED <<stored, tasks, requests, replaced>> /\ Registered \subseteq Registered'
    BY <1>8 DEF Revoke, Withdraw
  <2>2. ServedKnown'
    BY <2>1 DEF KnownInv, ServedKnown
  <2> QED BY <1>0, <2>1, <2>2, KnownServer
<1>9. ASSUME NEW p \in Phones, ClearData(p) PROVE KnownInv'
  <2>1. /\ stored' = [stored EXCEPT ![p] = Nothing]
        /\ UNCHANGED <<active, revoked, tasks, requests>>
        /\ replaced \subseteq replaced'
        /\ \A t \in Tasks : tasks[t].pc \in Holding /\ tasks[t].phone = p => p \in replaced'
    BY <1>9 DEF ClearData, Holds
  <2>2. CallsAgree'
    BY <1>0, <2>1, NoneWaits DEF KnownInv, TypeInv, TypeOK
  <2>3. RegisteredIsKnown'
    BY <1>0, <2>1 DEF KnownInv, TypeInv, TypeOK
  <2> QED BY <1>0, <2>1, <2>2, <2>3 DEF KnownInv, ServedKnown
<1>10. CASE UNCHANGED vars
  BY <1>0, <1>10 DEF vars, KnownInv, ServedKnown
<1> QED
  BY <1>1, <1>2, <1>3, <1>4, <1>5, <1>6, <1>7, <1>8, <1>9, <1>10 DEF Next, PhoneStep

LEMMA KnownInit == Init => KnownInv
<1> SUFFICES ASSUME Init PROVE KnownInv
  OBVIOUS
<1>1. \A t \in Tasks : requests[t] = Idle /\ tasks[t].pc = "idle"
  BY DEF Init, Idle
<1> QED
  BY <1>1, TypeInit DEF Init, KnownInv, ServedKnown, CallsAgree, Agrees, RegisteredIsKnown, Holding

(* A phone whose record nobody replaced during a call believes only of a   *)
(* key that the server has that it is registered.                          *)
THEOREM BelievedIsKnown == Spec => []RegisteredIsKnown
<1>1. KnownInv => RegisteredIsKnown
  BY DEF KnownInv
<1> QED BY <1>1, KnownInit, KnownStep, PTL DEF Spec

-----------------------------------------------------------------------------
(* The profile. *)

(* A request runs for MaxDuration at most, and what it writes was checked  *)
(* while it ran.                                                           *)
Timely ==
    \A r \in Patches : patches[r] # NoPatch =>
        /\ patches[r].began <= clock /\ clock <= patches[r].began + MaxDuration
        /\ patches[r].pc = "write" =>
              patches[r].began <= patches[r].at /\ patches[r].at <= clock

(* The stamp is hardly older than the write. *)
WriteStamped ==
    LET last == profile.lastProfileUpdateAt
    IN  writtenAt # Never => last # Never /\ writtenAt <= last + MaxDuration

CourseSet == courseSets # 0 => courseSets = 1 /\ profile.courseModified

(* Another request wrote since this one read, or may have: the stamp is    *)
(* too new to let this one write as well.                                  *)
TooLate(r) ==
    LET last == profile.lastProfileUpdateAt
    IN  last # Never /\ last >= patches[r].began - MaxDuration

(* Otherwise what it read, or is about to write, is still right. *)
ReadStill(r) ==
    LET q == patches[r]
    IN  /\ q.seen.courseModified = profile.courseModified
        /\ \/ q.overtaken
           \/ q.seen.year = profile.year /\ q.seen.section = profile.section

WritesStill(r) ==
    LET q == patches[r]
    IN  /\ q.update.program # Omitted => ~profile.courseModified
        /\ q.role = "ORGANIZER" => q.update.year = Omitted /\ q.update.section = Omitted
        /\ q.role = "USER" /\ ~q.overtaken =>
              Consistent(Effective(q.update.year, profile.year),
                         Effective(q.update.section, profile.section))

UpToDate(r) ==
    /\ patches[r].pc = "read" => TooLate(r) \/ ReadStill(r)
    /\ patches[r].pc = "write" => TooLate(r) \/ WritesStill(r)

ProfileInv ==
    /\ ProfileTypeOK
    /\ Timely
    /\ WriteStamped
    /\ CourseSet
    /\ \A r \in Patches : UpToDate(r)
    /\ PlaceConsistent

LEMMA ProfileStart == ProfileInit => ProfileInv
<1> SUFFICES ASSUME ProfileInit PROVE ProfileInv
  OBVIOUS
<1>1. \A r \in Patches : patches[r] = NoPatch /\ patches[r].pc = "idle"
  BY DEF ProfileInit, NoPatch
<1>2. profile \in Row /\ Consistent(profile.year, profile.section)
  BY ProfileAssumption DEF ProfileInit
<1>3. ProfileTypeOK
  <2>1. patches \in [Patches -> {NoPatch} \cup ReadPatch \cup WritePatch]
    BY DEF ProfileInit
  <2>2. edits \in 0 .. MaxEdits
    BY ProfileAssumption DEF ProfileInit
  <2> QED
    BY <1>2, <2>1, <2>2 DEF ProfileInit, ProfileTypeOK, Dates
<1>4. Timely /\ \A r \in Patches : UpToDate(r)
  BY <1>1 DEF Timely, UpToDate
<1> QED
  BY <1>2, <1>3, <1>4 DEF ProfileInit, ProfileInv, WriteStamped, CourseSet, PlaceConsistent

(* The types of what a request holds, by its pc. *)
LEMMA PatchIs ==
  ASSUME ProfileTypeOK, NEW r \in Patches
  PROVE  /\ patches[r] # NoPatch <=> patches[r].pc \in {"read", "write"}
         /\ patches[r].pc = "read" => patches[r] \in ReadPatch
         /\ patches[r].pc = "write" => patches[r] \in WritePatch
  BY DEF ProfileTypeOK, NoPatch, ReadPatch, WritePatch

(* The conditional update keeps out whoever comes too late. *)
LEMMA LateIsRefused ==
  ASSUME ProfileTypeOK, Timely, NEW r \in Patches, patches[r].pc = "write", TooLate(r)
  PROVE  ~Granted(patches[r])
<1> DEFINE last == profile.lastProfileUpdateAt
           q == patches[r]
<1>1. q \in WritePatch /\ q # NoPatch
  BY PatchIs
<1>2. last \in Nat /\ last >= q.began - MaxDuration
  BY DEF TooLate, ProfileTypeOK, Row, Dates
<1>3. q.at \in Nat /\ q.began \in Nat /\ q.at <= q.began + MaxDuration
  <2>1. q.at \in Nat /\ q.began \in Nat /\ clock \in Nat
    BY <1>1 DEF WritePatch, ProfileTypeOK
  <2>2. clock <= q.began + MaxDuration /\ q.at <= clock
    BY <1>1 DEF Timely
  <2> QED
    BY <2>1, <2>2, CooldownAssumption
<1>4. ~ (last < q.at - COOLDOWN_MS)
  BY <1>2, <1>3, CooldownAssumption
<1> QED
  BY <1>2, <1>4, CooldownAssumption DEF Granted, MayStamp, CooldownCutoff

(* What a body that is admitted makes of the profile that was read. *)
LEMMA Admitted ==
  ASSUME NEW seen \in Row, NEW b \in Body, NEW role \in {"USER", "ORGANIZER"},
         Admits(role, b, seen)
  PROVE  LET u == UpdateData(role, b, seen)
         IN  /\ u \in [name : Names, program : Programs \cup {Omitted},
                       year : Years \cup {Omitted}, section : Sections \cup {Omitted}]
             /\ u.program # Omitted => ~seen.courseModified
             /\ role = "ORGANIZER" => u.year = Omitted /\ u.section = Omitted
             /\ role = "USER" => Consistent(Effective(u.year, seen.year),
                                            Effective(u.section, seen.section))
<1>1. CASE role = "USER"
  <2>1. UpdateData(role, b, seen).year = b.year
        /\ UpdateData(role, b, seen).section = b.section
    BY <1>1 DEF UpdateData, Body
  <2>2. UpdateData(role, b, seen).program \in Programs \cup {Omitted}
    BY <1>1, ProfileAssumption DEF UpdateData, Body, Row, ChangesProgram, EffectiveProgram, Effective
  <2> QED
    BY <1>1, <2>1, <2>2 DEF UpdateData, Body, Admits, ConsistentWith, MayChangeCourse
<1>2. CASE role = "ORGANIZER"
  BY <1>2 DEF UpdateData, Body
<1> QED
  BY <1>1, <1>2

(* Steps that leave the profile alone leave the other requests alone too.  *)
LEMMA OthersKept ==
  ASSUME ProfileInv, NEW r \in Patches, NEW q,
         patches' = [patches EXCEPT ![r] = q], UNCHANGED <<clock, profile>>
  PROVE  \A s \in Patches \ {r} : /\ patches'[s] = patches[s]
                                  /\ UpToDate(s)'
<1> SUFFICES ASSUME NEW s \in Patches \ {r}
             PROVE  patches'[s] = patches[s] /\ UpToDate(s)'
  OBVIOUS
<1>1. patches'[s] = patches[s]
  BY DEF ProfileInv, ProfileTypeOK
<1>2. UpToDate(s)
  BY DEF ProfileInv
<1>3. (TooLate(s) <=> TooLate(s)') /\ (ReadStill(s) <=> ReadStill(s)')
      /\ (WritesStill(s) <=> WritesStill(s)')
  BY <1>1 DEF TooLate, ReadStill, WritesStill
<1> QED
  BY <1>1, <1>2, <1>3 DEF UpToDate

LEMMA ReadKeeps ==
  ASSUME ProfileInv, NEW r \in Patches, NEW role \in {"USER", "ORGANIZER"}, Read(r, role)
  PROVE  ProfileInv'
<1> USE DEF ProfileInv
<1> DEFINE q == [pc |-> "read", role |-> role, began |-> clock, overtaken |-> FALSE,
                 seen |-> profile]
<1>1. patches' = [patches EXCEPT ![r] = q]
      /\ UNCHANGED <<clock, profile, edits, edited, courseSets, writtenAt>>
  BY DEF Read
<1>2. q \in ReadPatch /\ clock \in Nat
  BY DEF ReadPatch, ProfileTypeOK
<1>3. patches'[r] = q
  BY <1>1 DEF ProfileTypeOK
<1>4. ProfileTypeOK'
  BY <1>1, <1>2 DEF ProfileTypeOK
<1>5. Timely'
  BY <1>1, <1>2, <1>3, OthersKept, CooldownAssumption DEF Timely
<1>6. UpToDate(r)'
  BY <1>1, <1>3 DEF UpToDate, ReadStill
<1>7. WriteStamped' /\ CourseSet' /\ PlaceConsistent'
  BY <1>1 DEF WriteStamped, CourseSet, PlaceConsistent
<1> QED
  BY <1>1, <1>4, <1>5, <1>6, <1>7, OthersKept

LEMMA LeaveKeeps ==
  ASSUME ProfileInv, NEW r \in Patches, patches' = [patches EXCEPT ![r] = NoPatch],
         UNCHANGED <<clock, profile, edits, edited, courseSets, writtenAt>>
  PROVE  ProfileInv'
<1> USE DEF ProfileInv
<1>1. patches'[r] = NoPatch
  BY DEF ProfileTypeOK
<1>2. ProfileTypeOK'
  BY DEF ProfileTypeOK
<1>3. Timely'
  BY <1>1, OthersKept DEF Timely
<1>4. UpToDate(r)'
  BY <1>1 DEF UpToDate, NoPatch
<1>5. WriteStamped' /\ CourseSet' /\ PlaceConsistent'
  BY DEF WriteStamped, CourseSet, PlaceConsistent
<1> QED
  BY <1>2, <1>3, <1>4, <1>5, OthersKept

LEMMA CheckKeeps ==
  ASSUME ProfileInv, NEW r \in Patches, NEW b \in Bodies, Check(r, b)
  PROVE  ProfileInv'
<1> USE DEF ProfileInv
<1> DEFINE p == patches[r]
           u == UpdateData(p.role, b, p.seen)
           q == [pc |-> "write", role |-> p.role, began |-> p.began,
                 overtaken |-> p.overtaken, at |-> clock, update |-> u]
<1>0. /\ p.pc = "read" /\ p \in ReadPatch /\ b \in Body
      /\ UNCHANGED <<clock, profile, edits, edited, courseSets, writtenAt>>
  BY PatchIs, ProfileAssumption DEF Check
<1>1. CASE ~Admits(p.role, b, p.seen)
  BY <1>0, <1>1, LeaveKeeps DEF Check
<1>2. CASE Admits(p.role, b, p.seen)
  <2>1. patches' = [patches EXCEPT ![r] = q]
    BY <1>2 DEF Check
  <2>2. patches'[r] = q
    BY <2>1 DEF ProfileTypeOK
  <2>3. p.seen \in Row /\ p.role \in {"USER", "ORGANIZER"} /\ clock \in Nat
    BY <1>0 DEF ReadPatch, ProfileTypeOK
  <2>4. /\ u \in [name : Names, program : Programs \cup {Omitted},
                  year : Years \cup {Omitted}, section : Sections \cup {Omitted}]
        /\ u.program # Omitted => ~p.seen.courseModified
        /\ p.role = "ORGANIZER" => u.year = Omitted /\ u.section = Omitted
        /\ p.role = "USER" => Consistent(Effective(u.year, p.seen.year),
                                         Effective(u.section, p.seen.section))
    BY <1>0, <1>2, <2>3, Admitted
  <2>5. q \in WritePatch
    BY <1>0, <2>3, <2>4 DEF ReadPatch, WritePatch
  <2>6. ProfileTypeOK'
    BY <1>0, <2>1, <2>5 DEF ProfileTypeOK
  <2>7. p # NoPatch /\ p.began <= clock /\ clock <= p.began + MaxDuration
    BY <1>0, PatchIs DEF Timely
  <2>8. Timely'
    BY <1>0, <2>1, <2>2, <2>3, <2>7, OthersKept DEF Timely
  <2>9. UpToDate(r)'
    <3>1. TooLate(r) \/ ReadStill(r)
      BY <1>0 DEF UpToDate
    <3>2. CASE TooLate(r)
      <4>1. TooLate(r)'
        BY <1>0, <2>2, <3>2 DEF TooLate
      <4> QED BY <2>2, <4>1 DEF UpToDate
    <3>3. CASE ReadStill(r)
      <4>1. WritesStill(r)'
        BY <1>0, <2>2, <2>4, <3>3 DEF ReadStill, WritesStill
      <4> QED BY <2>2, <4>1 DEF UpToDate
    <3> QED BY <3>1, <3>2, <3>3
  <2>10. WriteStamped' /\ CourseSet' /\ PlaceConsistent'
    BY <1>0 DEF WriteStamped, CourseSet, PlaceConsistent
  <2> QED
    BY <1>0, <2>1, <2>6, <2>8, <2>9, <2>10, OthersKept
<1> QED
  BY <1>1, <1>2

(* What the update does when it is granted. *)
LEMMA GrantedWrite ==
  ASSUME ProfileInv, NEW r \in Patches, Write(r), Granted(patches[r])
  PROVE  LET q == patches[r]
             setsCourse == q.update.program # Omitted
         IN  /\ q \in WritePatch /\ q # NoPatch /\ ~TooLate(r) /\ WritesStill(r)
             /\ profile' \in Row
             /\ profile'.year = Effective(q.update.year, profile.year)
             /\ profile'.section = Effective(q.update.section, profile.section)
             /\ profile'.lastProfileUpdateAt = q.at
             /\ profile'.courseModified = (profile.courseModified \/ setsCourse)
             /\ courseSets' = IF setsCourse THEN courseSets + 1 ELSE courseSets
             /\ edited' = IF q.role = "USER" THEN q.overtaken ELSE edited
             /\ writtenAt' = clock
             /\ UNCHANGED <<clock, edits>>
<1> USE DEF ProfileInv
<1> DEFINE q == patches[r]
           u == q.update
<1>1. q.pc = "write"
  BY DEF Write
<1>2. q \in WritePatch /\ q # NoPatch /\ ~TooLate(r)
  BY <1>1, PatchIs, LateIsRefused
<1>3. WritesStill(r)
  BY <1>1, <1>2 DEF UpToDate
<1>4. u \in [name : Names, program : Programs \cup {Omitted}, year : Years \cup {Omitted},
             section : Sections \cup {Omitted}] /\ q.at \in Nat
  BY <1>2 DEF WritePatch
<1>5. /\ Effective(u.name, profile.name) \in Names
      /\ Effective(u.program, profile.program) \in Programs \cup {Null, Blank}
      /\ Effective(u.year, profile.year) \in Years \cup {Null}
      /\ Effective(u.section, profile.section) \in Sections \cup {Null}
  BY <1>4 DEF Effective, ProfileTypeOK, Row
<1> DEFINE row == With(profile, u)
<1>6. row = [profile EXCEPT !.name = Effective(u.name, profile.name),
                            !.program = Effective(u.program, profile.program),
                            !.year = Effective(u.year, profile.year),
                            !.section = Effective(u.section, profile.section)]
  BY DEF With
<1> HIDE DEF row
<1>7. profile \in Row
  BY DEF ProfileTypeOK
<1>8. /\ row \in Row /\ row.year = Effective(u.year, profile.year)
      /\ row.section = Effective(u.section, profile.section)
      /\ row.courseModified = profile.courseModified
  BY <1>5, <1>6, <1>7 DEF Row
<1>9. profile' = [row EXCEPT !.lastProfileUpdateAt = q.at,
                             !.courseModified = @ \/ u.program # Omitted]
  BY DEF Write, row
<1>10. profile'.courseModified = (profile.courseModified \/ u.program # Omitted)
  BY <1>8, <1>9, Zenon DEF Row
<1>11. /\ profile' \in Row /\ profile'.lastProfileUpdateAt = q.at
       /\ profile'.year = row.year /\ profile'.section = row.section
  BY <1>4, <1>8, <1>9, <1>10 DEF Row, Dates
<1>12. /\ courseSets' = IF u.program # Omitted THEN courseSets + 1 ELSE courseSets
       /\ edited' = IF q.role = "USER" THEN q.overtaken ELSE edited
       /\ writtenAt' = clock /\ UNCHANGED <<clock, edits>>
  BY DEF Write
<1> QED
  BY <1>2, <1>3, <1>8, <1>10, <1>11, <1>12

LEMMA WriteKeeps ==
  ASSUME ProfileInv, NEW r \in Patches, Write(r)
  PROVE  ProfileInv'
<1> USE DEF ProfileInv
<1> DEFINE q == patches[r]
<1>0. patches' = [patches EXCEPT ![r] = NoPatch]
  BY DEF Write
<1>1. CASE ~Granted(q)
  BY <1>0, <1>1, LeaveKeeps DEF Write
<1>2. CASE Granted(q)
  <2> DEFINE setsCourse == q.update.program # Omitted
  <2>1. /\ q \in WritePatch /\ q # NoPatch /\ ~TooLate(r) /\ WritesStill(r)
        /\ profile' \in Row
        /\ profile'.year = Effective(q.update.year, profile.year)
        /\ profile'.section = Effective(q.update.section, profile.section)
        /\ profile'.lastProfileUpdateAt = q.at
        /\ profile'.courseModified = (profile.courseModified \/ setsCourse)
        /\ courseSets' = IF setsCourse THEN courseSets + 1 ELSE courseSets
        /\ edited' = IF q.role = "USER" THEN q.overtaken ELSE edited
        /\ writtenAt' = clock
        /\ UNCHANGED <<clock, edits>>
    BY <1>2, GrantedWrite
  <2> HIDE DEF setsCourse
  <2>2. patches'[r] = NoPatch /\ patches'[r].pc = "idle"
        /\ \A s \in Patches \ {r} : patches'[s] = patches[s]
    BY <1>0 DEF ProfileTypeOK, NoPatch
  <2>3. q.role \in {"USER", "ORGANIZER"} /\ q.overtaken \in BOOLEAN /\ q.at \in Nat
        /\ q.began \in Nat /\ clock \in Nat /\ setsCourse \in BOOLEAN
    BY <2>1 DEF WritePatch, ProfileTypeOK, setsCourse
  <2>4. q.began <= q.at /\ q.at <= clock /\ clock <= q.began + MaxDuration
    BY <2>1 DEF Timely, WritePatch
  <2>5. ProfileTypeOK'
    <3>1. patches' \in [Patches -> {NoPatch} \cup ReadPatch \cup WritePatch]
      BY <1>0 DEF ProfileTypeOK
    <3>2. courseSets' \in Nat /\ edited' \in BOOLEAN /\ writtenAt' \in Dates
      BY <2>1, <2>3 DEF ProfileTypeOK, Dates
    <3> QED
      BY <2>1, <3>1, <3>2 DEF ProfileTypeOK
  <2>6. Timely'
    BY <2>1, <2>2 DEF Timely
  <2>7. WriteStamped'
    BY <2>1, <2>3, <2>4, CooldownAssumption DEF WriteStamped
  <2>8. CourseSet'
    <3>1. CASE setsCourse
      <4>1. ~profile.courseModified
        BY <2>1, <3>1 DEF WritesStill, setsCourse
      <4>2. courseSets = 0
        BY <4>1 DEF CourseSet
      <4>3. courseSets' = 1
        BY <2>1, <3>1, <4>2
      <4>4. profile'.courseModified
        BY <2>1, <3>1, Zenon
      <4> QED BY <4>3, <4>4 DEF CourseSet
    <3>2. CASE ~setsCourse
      BY <2>1, <3>2 DEF CourseSet
    <3> QED BY <3>1, <3>2
  <2>9. \A s \in Patches : UpToDate(s)'
    <3> SUFFICES ASSUME NEW s \in Patches PROVE UpToDate(s)'
      OBVIOUS
    <3>1. CASE s = r
      BY <2>2, <3>1 DEF UpToDate
    <3>2. CASE s # r /\ patches[s] # NoPatch
      <4>1. patches[s].began <= clock /\ patches[s].began \in Nat
        BY <3>2, PatchIs DEF Timely, ReadPatch, WritePatch
      <4>2. q.at >= patches[s].began - MaxDuration
        BY <2>3, <2>4, <4>1, CooldownAssumption
      <4>3. TooLate(s)'
        BY <2>1, <2>2, <2>3, <3>2, <4>2, CooldownAssumption DEF TooLate
      <4> QED
        BY <4>3 DEF UpToDate
    <3>3. CASE s # r /\ patches[s] = NoPatch
      BY <2>2, <3>3 DEF UpToDate, NoPatch
    <3> QED BY <3>1, <3>2, <3>3
  <2>10. PlaceConsistent'
    <3>1. CASE q.role = "USER"
      BY <2>1, <3>1 DEF WritesStill, PlaceConsistent
    <3>2. CASE q.role = "ORGANIZER"
      <4>1. q.update.year = Omitted /\ q.update.section = Omitted
        BY <2>1, <3>2 DEF WritesStill
      <4> QED BY <2>1, <3>2, <4>1 DEF PlaceConsistent, Effective
    <3> QED BY <2>3, <3>1, <3>2
  <2> QED
    BY <2>5, <2>6, <2>7, <2>8, <2>9, <2>10
<1> QED
  BY <1>1, <1>2

LEMMA EditKeeps ==
  ASSUME ProfileInv, NEW b \in AdminBodies, Edit(b)
  PROVE  ProfileInv'
<1> USE DEF ProfileInv
<1> DEFINE moves == b.year # Omitted \/ b.section # Omitted
           After(r) == IF patches[r] # NoPatch /\ moves
                       THEN [patches[r] EXCEPT !.overtaken = TRUE] ELSE patches[r]
<1>1. /\ b \in AdminBody /\ edits' = edits + 1 /\ edits < MaxEdits
      /\ profile' = With(profile, b) /\ edited' = (edited \/ moves)
      /\ patches' = [r \in Patches |-> After(r)]
      /\ UNCHANGED <<clock, courseSets, writtenAt>>
  BY ProfileAssumption DEF Edit
<1>2. profile \in Row
  BY DEF ProfileTypeOK
<1>3. /\ Effective(b.name, profile.name) \in Names
      /\ Effective(b.program, profile.program) \in Programs \cup {Null, Blank}
      /\ Effective(b.year, profile.year) \in Years \cup {Null}
      /\ Effective(b.section, profile.section) \in Sections \cup {Null}
  BY <1>1, <1>2 DEF Effective, Row, AdminBody
<1>4. profile' = [profile EXCEPT !.name = Effective(b.name, profile.name),
                                 !.program = Effective(b.program, profile.program),
                                 !.year = Effective(b.year, profile.year),
                                 !.section = Effective(b.section, profile.section)]
  BY <1>1 DEF With
<1>5. /\ profile' \in Row
      /\ profile'.year = Effective(b.year, profile.year)
      /\ profile'.section = Effective(b.section, profile.section)
      /\ profile'.courseModified = profile.courseModified
      /\ profile'.lastProfileUpdateAt = profile.lastProfileUpdateAt
  BY <1>2, <1>3, <1>4 DEF Row
<1>6. ~moves => profile'.year = profile.year /\ profile'.section = profile.section
  BY <1>5 DEF Effective
<1> HIDE DEF moves
<1>7. ASSUME NEW r \in Patches
      PROVE  /\ patches'[r] \in {NoPatch} \cup ReadPatch \cup WritePatch
             /\ patches'[r] = NoPatch <=> patches[r] = NoPatch
             /\ patches[r] # NoPatch =>
                   /\ patches'[r].pc = patches[r].pc
                   /\ patches'[r].began = patches[r].began
                   /\ patches'[r].role = patches[r].role
                   /\ patches'[r].overtaken = (patches[r].overtaken \/ moves)
                   /\ patches[r].pc = "read" => patches'[r].seen = patches[r].seen
                   /\ patches[r].pc = "write" =>
                         /\ patches'[r].update = patches[r].update
                         /\ patches'[r].at = patches[r].at
  <2>1. patches'[r] = After(r)
    BY <1>1
  <2>2. CASE patches[r] = NoPatch \/ ~moves
    <3>1. patches'[r] = patches[r]
      BY <2>1, <2>2
    <3>2. patches[r] # NoPatch => patches[r].overtaken \in BOOLEAN
      BY PatchIs DEF ReadPatch, WritePatch
    <3> QED BY <2>2, <3>1, <3>2 DEF ProfileTypeOK
  <2>3. CASE patches[r] # NoPatch /\ moves
    <3>1. patches'[r] = [patches[r] EXCEPT !.overtaken = TRUE]
      BY <2>1, <2>3
    <3>2. CASE patches[r] \in ReadPatch
      <4>1. patches'[r] \in ReadPatch
        BY <3>1, <3>2 DEF ReadPatch
      <4> QED BY <2>3, <3>1, <3>2, <4>1 DEF ReadPatch, NoPatch
    <3>3. CASE patches[r] \in WritePatch
      <4>1. patches'[r] \in WritePatch
        BY <3>1, <3>3 DEF WritePatch
      <4> QED BY <2>3, <3>1, <3>3, <4>1 DEF WritePatch, NoPatch
    <3> QED BY <2>3, <3>2, <3>3, PatchIs
  <2> QED BY <2>2, <2>3
<1>8. ProfileTypeOK'
  <2>1. patches' \in [Patches -> {NoPatch} \cup ReadPatch \cup WritePatch]
    <3>1. \A r \in Patches : patches'[r] \in {NoPatch} \cup ReadPatch \cup WritePatch
      BY <1>7
    <3> HIDE DEF After
    <3> QED BY <1>1, <3>1
  <2>2. edited' \in BOOLEAN /\ edits' \in 0 .. MaxEdits
    BY <1>1, ProfileAssumption DEF ProfileTypeOK
  <2> QED BY <1>1, <1>5, <2>1, <2>2 DEF ProfileTypeOK
<1>9. Timely'
  <2> SUFFICES ASSUME NEW r \in Patches, patches'[r] # NoPatch
               PROVE  /\ patches'[r].began <= clock' /\ clock' <= patches'[r].began + MaxDuration
                      /\ patches'[r].pc = "write" =>
                            patches'[r].began <= patches'[r].at /\ patches'[r].at <= clock'
    BY DEF Timely
  <2> QED BY <1>1, <1>7 DEF Timely
<1>10. WriteStamped' /\ CourseSet'
  BY <1>1, <1>5 DEF WriteStamped, CourseSet
<1>11. \A r \in Patches : UpToDate(r)'
  <2> SUFFICES ASSUME NEW r \in Patches PROVE UpToDate(r)'
    OBVIOUS
  <2>1. CASE patches[r] = NoPatch
    BY <1>7, <2>1 DEF UpToDate, NoPatch
  <2>2. CASE patches[r] # NoPatch /\ TooLate(r)
    <3>1. TooLate(r)'
      BY <1>5, <1>7, <2>2 DEF TooLate
    <3> QED BY <3>1 DEF UpToDate
  <2>3. CASE patches[r] # NoPatch /\ ~TooLate(r) /\ patches[r].pc = "read"
    <3>1. ReadStill(r)
      BY <2>3 DEF UpToDate
    <3>2. ReadStill(r)'
      BY <1>5, <1>6, <1>7, <2>3, <3>1 DEF ReadStill
    <3> QED BY <1>7, <2>3, <3>2 DEF UpToDate
  <2>4. CASE patches[r] # NoPatch /\ ~TooLate(r) /\ patches[r].pc = "write"
    <3>1. WritesStill(r)
      BY <2>4 DEF UpToDate
    <3>2. WritesStill(r)'
      BY <1>5, <1>6, <1>7, <2>4, <3>1 DEF WritesStill
    <3> QED BY <1>7, <2>4, <3>2 DEF UpToDate
  <2> QED BY <2>1, <2>2, <2>3, <2>4, PatchIs
<1>12. PlaceConsistent'
  BY <1>1, <1>6 DEF PlaceConsistent
<1> QED
  BY <1>8, <1>9, <1>10, <1>11, <1>12

LEMMA ProfileTickKeeps ==
  ASSUME ProfileInv, ProfileTick
  PROVE  ProfileInv'
<1> USE DEF ProfileInv
<1>1. /\ clock' = clock + 1 /\ clock \in Nat
      /\ UNCHANGED <<profile, patches, edits, edited, courseSets, writtenAt>>
  BY DEF ProfileTick, Pass, ProfileTypeOK
<1>2. \A r \in Patches : patches[r] # NoPatch => clock < patches[r].began + MaxDuration
  BY DEF ProfileTick, Pass
<1>3. ProfileTypeOK'
  BY <1>1 DEF ProfileTypeOK
<1>4. Timely'
  <2> SUFFICES ASSUME NEW r \in Patches, patches[r] # NoPatch
               PROVE  /\ patches[r].began <= clock' /\ clock' <= patches[r].began + MaxDuration
                      /\ patches[r].pc = "write" =>
                            patches[r].began <= patches[r].at /\ patches[r].at <= clock'
    BY <1>1 DEF Timely
  <2>1. patches[r].began \in Nat /\ (patches[r].pc = "write" => patches[r].at \in Nat)
    BY PatchIs DEF ReadPatch, WritePatch
  <2> QED BY <1>1, <1>2, <2>1, CooldownAssumption DEF Timely
<1>5. \A r \in Patches : UpToDate(r)'
  <2> SUFFICES ASSUME NEW r \in Patches PROVE UpToDate(r)'
    OBVIOUS
  <2>1. UpToDate(r)
    OBVIOUS
  <2> QED BY <1>1, <2>1 DEF UpToDate, TooLate, ReadStill, WritesStill
<1>6. WriteStamped' /\ CourseSet' /\ PlaceConsistent'
  BY <1>1 DEF WriteStamped, CourseSet, PlaceConsistent
<1> QED
  BY <1>3, <1>4, <1>5, <1>6

LEMMA ProfileStep == ProfileInv /\ [ProfileNext]_profileVars => ProfileInv'
<1> SUFFICES ASSUME ProfileInv, [ProfileNext]_profileVars PROVE ProfileInv'
  OBVIOUS
<1>1. ASSUME NEW r \in Patches, OwnerStep(r) PROVE ProfileInv'
  <2>1. CASE \E role \in {"USER", "ORGANIZER"} : Read(r, role)
    BY <2>1, ReadKeeps
  <2>2. CASE \E b \in Bodies : Check(r, b)
    BY <2>2, CheckKeeps
  <2>3. CASE Write(r)
    BY <2>3, WriteKeeps
  <2>4. CASE Die(r)
    BY <2>4, LeaveKeeps DEF Die
  <2> QED BY <1>1, <2>1, <2>2, <2>3, <2>4 DEF OwnerStep
<1>2. CASE \E b \in AdminBodies : Edit(b)
  BY <1>2, EditKeeps
<1>3. CASE ProfileTick
  BY <1>3, ProfileTickKeeps
<1>4. CASE UNCHANGED profileVars
  BY <1>4 DEF profileVars, ProfileInv, ProfileTypeOK, Timely, WriteStamped, CourseSet,
      UpToDate, TooLate, ReadStill, WritesStill, PlaceConsistent
<1> QED
  BY <1>1, <1>2, <1>3, <1>4 DEF ProfileNext

LEMMA ProfileInvariant == ProfileSpec => []ProfileInv
  BY ProfileStart, ProfileStep, PTL DEF ProfileSpec

(* Type correctness of the profile and the requests on it. *)
THEOREM ProfileTypeCorrect == ProfileSpec => []ProfileTypeOK
  BY ProfileInvariant, PTL DEF ProfileInv

(* The owner sets the course once, however the requests overlap: one that  *)
(* read the row before another wrote it is kept out by the cooldown, which *)
(* is long enough for that (src/app/api/profile/route.ts).                 *)
THEOREM CourseSetOnce == ProfileSpec => []CourseOnce
<1>1. ProfileInv => CourseOnce
  BY DEF ProfileInv, CourseSet, CourseOnce, ProfileTypeOK
<1> QED
  BY <1>1, ProfileInvariant, PTL

(* Year and section agree as long as only the owner's requests set them,   *)
(* although the update does not look at them again.                        *)
THEOREM PlaceStaysConsistent == ProfileSpec => []PlaceConsistent
  BY ProfileInvariant, PTL DEF ProfileInv

(* The cooldown lies between two updates of the owner, but for the time    *)
(* between a stamp and its write.                                          *)
THEOREM UpdatesAreSpaced == ProfileSpec => UpdatesSpaced
<1> DEFINE Spaced == \A r \in Patches : Write(r) /\ Updates(r) /\ writtenAt # Never =>
                        clock > writtenAt + COOLDOWN_MS - MaxDuration
<1>1. ProfileInv /\ [ProfileNext]_profileVars => [Spaced]_profileVars
  <2> SUFFICES ASSUME ProfileInv, NEW r \in Patches, Write(r), Updates(r), writtenAt # Never
               PROVE  clock > writtenAt + COOLDOWN_MS - MaxDuration
    OBVIOUS
  <2> USE DEF ProfileInv
  <2> DEFINE last == profile.lastProfileUpdateAt
             at == patches[r].at
  <2>1. patches[r] \in WritePatch /\ patches[r] # NoPatch
    BY PatchIs DEF Write
  <2>2. at \in Nat /\ at <= clock /\ clock \in Nat
    BY <2>1 DEF Timely, WritePatch, ProfileTypeOK
  <2>3. last # Never /\ writtenAt <= last + MaxDuration
    BY DEF WriteStamped
  <2>4. last \in Nat /\ writtenAt \in Nat
    BY <2>3 DEF ProfileTypeOK, Row, Dates
  <2>5. last < at - COOLDOWN_MS
    BY <2>3 DEF Updates, Granted, MayStamp, CooldownCutoff
  <2> QED
    BY <2>2, <2>3, <2>4, <2>5, CooldownAssumption
<1> QED
  BY <1>1, ProfileInvariant, PTL DEF ProfileSpec, UpdatesSpaced

-----------------------------------------------------------------------------
(* The password. *)

PostsTimely ==
    \A r \in Posts : posts[r] # NoPost =>
        /\ posts[r].began <= posts[r].at /\ posts[r].at <= clock
        /\ clock <= posts[r].began + MaxDuration

(* From the check on, the date that was read is old enough, and once the   *)
(* password is set it is older than that.                                  *)
SeenIsOld ==
    \A r \in Posts :
        LET q == posts[r]
        IN  /\ q.pc \in {"verify", "update"} =>
                  q.seen = Never \/ q.at >= q.seen + COOLDOWN_MS
            /\ q.pc = "stamp" =>
                  /\ q.seen = Never \/ q.at > q.seen + COOLDOWN_MS
                  /\ q.at \in changes

(* The date a request read is replaced by one of a request it overlaps     *)
(* with only.                                                              *)
SeenIsLast ==
    \A r \in Posts : posts[r] # NoPost =>
        \/ lastPasswordChangeAt = posts[r].seen
        \/ /\ lastPasswordChangeAt # Never
           /\ lastPasswordChangeAt >= posts[r].began - MaxDuration

Accounts(date, u) == date # Never /\ date >= u - 2 * MaxDuration

(* A change is accounted for by the date, or its request is about to.      *)
Accounted ==
    \A u \in changes \ unstamped :
        \/ Accounts(lastPasswordChangeAt, u)
        \/ \E r \in Posts : posts[r].pc = "stamp" /\ posts[r].at = u

(* A request that has not changed the password yet overlapped with those   *)
(* that had, or has read a date that accounts for them.                    *)
KnowsChanges ==
    \A r \in Posts, u \in changes \ unstamped :
        posts[r].pc \in {"check", "verify", "update"} =>
            posts[r].began <= u + MaxDuration \/ Accounts(posts[r].seen, u)

PasswordInv ==
    /\ PasswordTypeOK
    /\ PostsTimely
    /\ SeenIsOld
    /\ SeenIsLast
    /\ \A u \in changes : u <= clock
    /\ Accounted
    /\ KnowsChanges
    /\ ChangesInBursts

LEMMA PostIs ==
  ASSUME PasswordTypeOK, NEW r \in Posts
  PROVE  /\ posts[r] # NoPost <=> posts[r].pc \in {"check", "verify", "update", "stamp"}
         /\ posts[r] # NoPost => posts[r] \in Post
  BY DEF PasswordTypeOK, NoPost, Post

LEMMA PasswordStart == PasswordInit => PasswordInv
<1> SUFFICES ASSUME PasswordInit PROVE PasswordInv
  OBVIOUS
<1>1. \A r \in Posts : posts[r] = NoPost /\ posts[r].pc = "idle"
  BY DEF PasswordInit, NoPost
<1>2. PasswordTypeOK
  BY DEF PasswordInit, PasswordTypeOK, Dates
<1>3. PostsTimely /\ SeenIsOld /\ SeenIsLast
  BY <1>1 DEF PostsTimely, SeenIsOld, SeenIsLast
<1> QED
  BY <1>2, <1>3 DEF PasswordInit, PasswordInv, Accounted, KnowsChanges, ChangesInBursts

(* A request goes on by itself, and has not set the password before or     *)
(* after: nothing changes for the others.                                  *)
LEMMA AloneKeeps ==
  ASSUME PasswordInv, NEW r \in Posts, NEW q, Becomes(r, q),
         posts[r].pc # "stamp", q.pc # "stamp",
         UNCHANGED <<clock, authProvider, lastPasswordChangeAt, changes, unstamped>>,
         password' \in Passwords,
         \/ q = NoPost
         \/ /\ q \in Post
            /\ q.began <= q.at /\ q.at <= clock /\ clock <= q.began + MaxDuration
            /\ q.pc \in {"verify", "update"} =>
                  q.seen = Never \/ q.at >= q.seen + COOLDOWN_MS
            /\ \/ lastPasswordChangeAt = q.seen
               \/ /\ lastPasswordChangeAt # Never
                  /\ lastPasswordChangeAt >= q.began - MaxDuration
            /\ \A u \in changes \ unstamped :
                  q.began <= u + MaxDuration \/ Accounts(q.seen, u)
  PROVE  PasswordInv'
<1> USE DEF PasswordInv
<1>1. /\ posts' = [posts EXCEPT ![r] = q]
      /\ posts'[r] = q /\ \A s \in Posts \ {r} : posts'[s] = posts[s]
  BY DEF Becomes, PasswordTypeOK
<1>2. PasswordTypeOK'
  BY <1>1 DEF PasswordTypeOK
<1>3. PostsTimely'
  BY <1>1 DEF PostsTimely
<1>4. SeenIsOld'
  BY <1>1 DEF SeenIsOld, NoPost
<1>5. SeenIsLast'
  BY <1>1 DEF SeenIsLast
<1>6. Accounted'
  <2>1. \A s \in Posts : posts[s].pc = "stamp" => posts'[s] = posts[s]
    BY <1>1
  <2> QED BY <2>1 DEF Accounted
<1>7. KnowsChanges'
  BY <1>1 DEF KnowsChanges, NoPost
<1>8. ChangesInBursts' /\ \A u \in changes' : u <= clock'
  BY DEF ChangesInBursts
<1> QED
  BY <1>2, <1>3, <1>4, <1>5, <1>6, <1>7, <1>8

LEMMA ReadAccountKeeps ==
  ASSUME PasswordInv, NEW r \in Posts, NEW current \in Passwords, NEW new \in Passwords,
         ReadAccount(r, current, new)
  PROVE  PasswordInv'
<1> DEFINE q == [pc |-> "check", began |-> clock, current |-> current, new |-> new,
                 seen |-> lastPasswordChangeAt, at |-> clock]
<1> USE DEF PasswordInv
<1>1. /\ posts[r].pc # "stamp" /\ Becomes(r, q)
      /\ UNCHANGED <<clock, password, authProvider, lastPasswordChangeAt, changes, unstamped>>
  BY DEF ReadAccount, NoPost
<1>2. q \in Post /\ clock \in Nat
  BY DEF Post, PasswordTypeOK
<1>3. ASSUME NEW u \in changes \ unstamped
      PROVE  clock <= u + MaxDuration \/ Accounts(lastPasswordChangeAt, u)
  <2>1. CASE \E s \in Posts : posts[s].pc = "stamp" /\ posts[s].at = u
    <3>1. PICK s \in Posts : posts[s].pc = "stamp" /\ posts[s].at = u
      BY <2>1
    <3>2. posts[s] # NoPost /\ posts[s] \in Post
      BY <3>1, PostIs
    <3>3. posts[s].began <= u /\ clock <= posts[s].began + MaxDuration
      BY <3>1, <3>2 DEF PostsTimely
    <3> QED BY <1>2, <3>1, <3>2, <3>3, CooldownAssumption DEF Post
  <2> QED BY <2>1 DEF Accounted
<1>4. q.pc = "check" /\ q.began = clock /\ q.at = clock /\ q.seen = lastPasswordChangeAt
  OBVIOUS
<1>5. password' \in Passwords /\ clock <= clock + MaxDuration
  BY <1>1, <1>2, CooldownAssumption DEF PasswordTypeOK
<1> HIDE DEF q
<1> QED
  BY <1>1, <1>2, <1>3, <1>4, <1>5, AloneKeeps

(* What holds of a request that goes on. *)
LEMMA PostHas ==
  ASSUME PasswordInv, NEW r \in Posts, posts[r].pc \in {"check", "verify", "update"}
  PROVE  /\ posts[r] \in Post /\ posts[r] # NoPost /\ clock \in Nat
         /\ posts[r].began <= posts[r].at /\ posts[r].at <= clock
         /\ clock <= posts[r].began + MaxDuration
         /\ \/ lastPasswordChangeAt = posts[r].seen
            \/ /\ lastPasswordChangeAt # Never
               /\ lastPasswordChangeAt >= posts[r].began - MaxDuration
         /\ \A u \in changes \ unstamped :
               posts[r].began <= u + MaxDuration \/ Accounts(posts[r].seen, u)
<1> USE DEF PasswordInv
<1>1. posts[r] \in Post /\ posts[r] # NoPost /\ clock \in Nat
  BY PostIs DEF PasswordTypeOK
<1> QED
  BY <1>1 DEF PostsTimely, SeenIsLast, KnowsChanges

LEMMA LeavesKeeps ==
  ASSUME PasswordInv, NEW r \in Posts, posts[r].pc # "stamp", Leaves(r),
         UNCHANGED <<clock, password, authProvider, lastPasswordChangeAt, changes, unstamped>>
  PROVE  PasswordInv'
<1>1. Becomes(r, NoPost) /\ NoPost.pc # "stamp"
  BY DEF Leaves, NoPost
<1>2. password' \in Passwords
  BY DEF PasswordInv, PasswordTypeOK
<1> QED
  BY <1>1, <1>2, AloneKeeps

LEMMA CheckCooldownKeeps ==
  ASSUME PasswordInv, NEW r \in Posts, CheckCooldown(r)
  PROVE  PasswordInv'
<1> DEFINE p == posts[r]
           pc == IF authProvider THEN "update" ELSE "verify"
           q == [p EXCEPT !.pc = pc, !.at = clock]
<1> USE DEF PasswordInv
<1>0. /\ p.pc = "check"
      /\ UNCHANGED <<clock, password, authProvider, lastPasswordChangeAt, changes, unstamped>>
  BY DEF CheckCooldown
<1>1. CASE ~MayChange(p.seen)
  BY <1>0, <1>1, LeavesKeeps DEF CheckCooldown
<1>2. CASE MayChange(p.seen)
  <2>1. Becomes(r, q)
    BY <1>2 DEF CheckCooldown
  <2>2. p \in Post /\ clock \in Nat
    BY <1>0, PostHas
  <2>3. /\ q \in Post /\ q.pc \in {"verify", "update"} /\ q.at = clock
        /\ q.began = p.began /\ q.seen = p.seen
    BY <2>2 DEF Post
  <2>4. q.seen = Never \/ q.at >= q.seen + COOLDOWN_MS
    BY <1>2, <2>2, <2>3, CooldownAssumption DEF MayChange, IsCooldownExpired, Post, Dates
  <2>5. q.began <= clock
    BY <1>0, <2>2, <2>3, PostHas DEF Post
  <2>6. password' \in Passwords
    BY <1>0 DEF PasswordTypeOK
  <2> HIDE DEF q
  <2> QED
    BY <1>0, <2>1, <2>2, <2>3, <2>4, <2>5, <2>6, PostHas, AloneKeeps
<1> QED
  BY <1>1, <1>2

LEMMA VerifyKeeps ==
  ASSUME PasswordInv, NEW r \in Posts, Verify(r)
  PROVE  PasswordInv'
<1> DEFINE p == posts[r]
           q == [p EXCEPT !.pc = "update"]
<1> USE DEF PasswordInv
<1>0. /\ p.pc = "verify"
      /\ UNCHANGED <<clock, password, authProvider, lastPasswordChangeAt, changes, unstamped>>
  BY DEF Verify
<1>1. CASE Leaves(r)
  BY <1>0, <1>1, LeavesKeeps
<1>2. CASE GoesOn(r, "update")
  <2>1. Becomes(r, q)
    BY <1>2 DEF GoesOn
  <2>2. p \in Post
    BY <1>0, PostHas
  <2>3. q \in Post /\ q.pc = "update" /\ q.at = p.at /\ q.began = p.began /\ q.seen = p.seen
    BY <2>2 DEF Post
  <2>4. q.seen = Never \/ q.at >= q.seen + COOLDOWN_MS
    BY <1>0, <2>3 DEF SeenIsOld
  <2>5. password' \in Passwords
    BY <1>0 DEF PasswordTypeOK
  <2> HIDE DEF q
  <2> QED
    BY <1>0, <2>1, <2>3, <2>4, <2>5, PostHas, AloneKeeps
<1> QED
  BY <1>1, <1>2 DEF Verify

LEMMA UpdateUserKeeps ==
  ASSUME PasswordInv, NEW r \in Posts, UpdateUser(r)
  PROVE  PasswordInv'
<1> DEFINE p == posts[r]
           q == [p EXCEPT !.pc = "stamp", !.at = clock]
<1> USE DEF PasswordInv
<1>0. p.pc = "update" /\ UNCHANGED <<clock, authProvider, lastPasswordChangeAt, unstamped>>
  BY DEF UpdateUser
<1>1. CASE Leaves(r) /\ UNCHANGED <<password, changes>>
  BY <1>0, <1>1, LeavesKeeps
<1>2. CASE Becomes(r, q) /\ clock > p.at /\ password' = p.new
           /\ changes' = changes \cup {clock}
  <2>1. /\ p \in Post /\ p # NoPost /\ clock \in Nat
        /\ p.began <= p.at /\ p.at <= clock /\ clock <= p.began + MaxDuration
        /\ \/ lastPasswordChangeAt = p.seen
           \/ /\ lastPasswordChangeAt # Never
              /\ lastPasswordChangeAt >= p.began - MaxDuration
        /\ \A u \in changes \ unstamped :
              p.began <= u + MaxDuration \/ Accounts(p.seen, u)
    BY <1>0, PostHas
  <2>2. p.seen = Never \/ p.at >= p.seen + COOLDOWN_MS
    BY <1>0 DEF SeenIsOld
  <2>3. /\ q \in Post /\ q.pc = "stamp" /\ q.at = clock /\ q.began = p.began /\ q.seen = p.seen
        /\ p.new \in Passwords /\ p.began \in Nat /\ p.at \in Nat /\ p.seen \in Dates
    BY <2>1 DEF Post
  <2> HIDE DEF q
  <2>4. /\ posts' = [posts EXCEPT ![r] = q]
        /\ posts'[r] = q /\ \A s \in Posts \ {r} : posts'[s] = posts[s]
    BY <1>2 DEF Becomes, PasswordTypeOK
  <2>5. PasswordTypeOK'
    BY <1>0, <1>2, <2>1, <2>3, <2>4 DEF PasswordTypeOK
  <2>6. PostsTimely'
    <3>1. q.began <= clock
      BY <2>1, <2>3
    <3> QED BY <1>0, <2>1, <2>3, <2>4, <3>1 DEF PostsTimely
  <2>7. SeenIsOld'
    <3>1. q.seen = Never \/ q.at > q.seen + COOLDOWN_MS
      BY <1>2, <2>1, <2>2, <2>3, CooldownAssumption DEF Dates
    <3> QED BY <1>2, <2>3, <2>4, <3>1 DEF SeenIsOld
  <2>8. SeenIsLast'
    BY <1>0, <2>1, <2>3, <2>4 DEF SeenIsLast
  <2>9. Accounted'
    <3>1. posts'[r].pc = "stamp" /\ posts'[r].at = clock
      BY <2>3, <2>4
    <3>2. \A s \in Posts : posts[s].pc = "stamp" => posts'[s] = posts[s]
      BY <1>0, <2>4
    <3> QED BY <1>0, <1>2, <3>1, <3>2 DEF Accounted
  <2>10. KnowsChanges'
    <3> SUFFICES ASSUME NEW s \in Posts, NEW u \in changes' \ unstamped',
                        posts'[s].pc \in {"check", "verify", "update"}
                 PROVE  posts'[s].began <= u + MaxDuration \/ Accounts(posts'[s].seen, u)
      BY DEF KnowsChanges
    <3>1. s # r /\ posts'[s] = posts[s]
      BY <2>3, <2>4
    <3>2. CASE u \in changes
      BY <1>0, <3>1, <3>2 DEF KnowsChanges
    <3>3. CASE u = clock
      <4>1. posts[s].began <= clock /\ posts[s].began \in Nat
        BY <3>1, PostHas DEF Post
      <4> QED BY <2>1, <3>1, <3>3, <4>1, CooldownAssumption
    <3> QED BY <1>2, <3>2, <3>3
  <2>11. \A u \in changes' : u <= clock'
    BY <1>0, <1>2, <2>1
  <2>12. ChangesInBursts'
    <3> SUFFICES ASSUME NEW u \in changes' \ unstamped', NEW v \in changes', u < v
                 PROVE  v <= u + 2 * MaxDuration \/ v >= u + COOLDOWN_MS - 2 * MaxDuration
      BY DEF ChangesInBursts
    <3>1. changes \subseteq Nat /\ \A w \in changes : w <= clock
      BY DEF PasswordTypeOK
    <3>2. u \in changes /\ u \in Nat
      <4>1. u \in Nat /\ v \in Nat
        BY <1>2, <2>1, <3>1
      <4>2. v <= clock
        BY <1>2, <2>1, <3>1
      <4> QED BY <1>2, <2>1, <4>1, <4>2
    <3>3. CASE v \in changes
      BY <1>0, <3>2, <3>3 DEF ChangesInBursts
    <3>4. CASE v = clock /\ p.began <= u + MaxDuration
      BY <2>1, <2>3, <3>2, <3>4, CooldownAssumption
    <3>5. CASE v = clock /\ Accounts(p.seen, u)
      <4>1. p.seen \in Nat /\ p.seen >= u - 2 * MaxDuration /\ p.at >= p.seen + COOLDOWN_MS
        BY <2>2, <2>3, <3>5 DEF Accounts, Dates
      <4> QED BY <2>1, <2>3, <3>2, <3>5, <4>1, CooldownAssumption
    <3> QED BY <1>0, <1>2, <2>1, <3>2, <3>3, <3>4, <3>5
  <2> QED
    BY <2>5, <2>6, <2>7, <2>8, <2>9, <2>10, <2>11, <2>12
<1> QED
  BY <1>1, <1>2 DEF UpdateUser

(* What has been stamped accounts for the change: the stamp itself, or the *)
(* one of a request that overlapped and came first.                        *)
LEMMA StampAccounts ==
  ASSUME PasswordInv, NEW r \in Posts, NEW now \in 0 .. MaxClock, Stamp(r, now)
  PROVE  /\ posts[r] \in Post /\ posts[r] # NoPost /\ posts[r].pc = "stamp"
         /\ now \in Nat /\ posts[r].at <= now /\ now <= clock /\ clock \in Nat
         /\ clock <= posts[r].began + MaxDuration
         /\ lastPasswordChangeAt' \in Nat
         /\ Accounts(lastPasswordChangeAt', posts[r].at)
         /\ \/ lastPasswordChangeAt' = lastPasswordChangeAt
            \/ /\ lastPasswordChangeAt' = now
               /\ lastPasswordChangeAt = Never \/ lastPasswordChangeAt < now
<1> DEFINE q == posts[r]
           last == lastPasswordChangeAt
<1> USE DEF PasswordInv
<1>1. q.pc = "stamp" /\ q # NoPost /\ q \in Post /\ clock \in Nat /\ last \in Dates
  BY PostIs DEF Stamp, PasswordTypeOK
<1>2. /\ q.began \in Nat /\ q.at \in Nat /\ q.seen \in Dates
      /\ q.began <= q.at /\ q.at <= clock /\ clock <= q.began + MaxDuration
  BY <1>1 DEF Post, PostsTimely
<1>3. now \in Nat /\ q.at <= now /\ now <= clock
  BY <1>1, <1>2, CooldownAssumption DEF Stamp
<1>4. last' = Stamped(last, now)
  BY DEF Stamp
<1>5. CASE MayStamp(last, CooldownCutoff(now))
  <2>1. last' = now
    BY <1>4, <1>5 DEF Stamped
  <2>2. last = Never \/ last < now
    BY <1>1, <1>3, <1>5, CooldownAssumption DEF MayStamp, CooldownCutoff, Dates
  <2>3. Accounts(now, q.at)
    BY <1>2, <1>3, CooldownAssumption DEF Accounts
  <2> QED BY <1>1, <1>2, <1>3, <2>1, <2>2, <2>3
<1>6. CASE ~MayStamp(last, CooldownCutoff(now))
  <2>1. last' = last /\ last \in Nat /\ last >= now - COOLDOWN_MS
    BY <1>1, <1>3, <1>4, <1>6, CooldownAssumption DEF Stamped, MayStamp, CooldownCutoff, Dates
  <2>2. q.seen # last
    <3>1. q.seen = Never \/ q.at > q.seen + COOLDOWN_MS
      BY <1>1 DEF SeenIsOld
    <3> QED BY <1>2, <1>3, <2>1, <3>1, CooldownAssumption DEF Dates
  <2>3. last >= q.began - MaxDuration
    BY <1>1, <2>2 DEF SeenIsLast
  <2>4. Accounts(last, q.at)
    BY <1>1, <1>2, <2>1, <2>3, CooldownAssumption DEF Accounts
  <2> QED BY <1>1, <1>2, <1>3, <2>1, <2>4
<1> QED
  BY <1>5, <1>6

LEMMA StampKeeps ==
  ASSUME PasswordInv, NEW r \in Posts, NEW now \in 0 .. MaxClock, Stamp(r, now)
  PROVE  PasswordInv'
<1> DEFINE p == posts[r]
           last == lastPasswordChangeAt
<1> USE DEF PasswordInv
<1>1. /\ p \in Post /\ p # NoPost /\ p.pc = "stamp"
      /\ now \in Nat /\ p.at <= now /\ now <= clock /\ clock \in Nat
      /\ clock <= p.began + MaxDuration
      /\ last' \in Nat /\ Accounts(last', p.at)
      /\ \/ last' = last
         \/ last' = now /\ (last = Never \/ last < now)
  BY StampAccounts
<1>2. /\ posts' = [posts EXCEPT ![r] = NoPost]
      /\ posts'[r] = NoPost /\ \A s \in Posts \ {r} : posts'[s] = posts[s]
      /\ UNCHANGED <<clock, password, authProvider, changes, unstamped>>
  BY DEF Stamp, Leaves, Becomes, PasswordTypeOK
<1>3. PasswordTypeOK'
  BY <1>1, <1>2 DEF PasswordTypeOK, Dates
<1>4. PostsTimely'
  BY <1>2 DEF PostsTimely
<1>5. SeenIsOld'
  BY <1>2 DEF SeenIsOld, NoPost
<1>6. SeenIsLast'
  <2> SUFFICES ASSUME NEW s \in Posts, posts'[s] # NoPost
               PROVE  \/ last' = posts'[s].seen
                      \/ last' # Never /\ last' >= posts'[s].began - MaxDuration
    BY DEF SeenIsLast
  <2>1. s # r /\ posts'[s] = posts[s] /\ posts[s] \in Post
    BY <1>2, PostIs
  <2>2. CASE last' = last
    BY <2>1, <2>2 DEF SeenIsLast
  <2>3. CASE last' = now
    <3>1. posts[s].began <= clock /\ posts[s].began \in Nat /\ posts[s].at \in Nat
      BY <2>1, <1>1 DEF PostsTimely, Post
    <3>2. p.began <= p.at /\ p.began \in Nat /\ p.at \in Nat
      BY <1>1 DEF PostsTimely, Post
    <3> QED BY <1>1, <2>1, <2>3, <3>1, <3>2, CooldownAssumption
  <2> QED BY <1>1, <2>2, <2>3
<1>7. Accounted'
  <2> SUFFICES ASSUME NEW u \in changes \ unstamped
               PROVE  \/ Accounts(last', u)
                      \/ \E s \in Posts : posts'[s].pc = "stamp" /\ posts'[s].at = u
    BY <1>2 DEF Accounted
  <2>1. u \in Nat
    BY DEF PasswordTypeOK
  <2>2. CASE Accounts(last, u)
    <3>1. last \in Nat
      BY <2>2 DEF Accounts, PasswordTypeOK, Dates
    <3>2. last' # Never
      BY <1>1, CooldownAssumption
    <3> QED BY <1>1, <2>1, <2>2, <3>1, <3>2, CooldownAssumption DEF Accounts
  <2>3. CASE \E s \in Posts : posts[s].pc = "stamp" /\ posts[s].at = u
    BY <1>1, <1>2, <2>3
  <2> QED BY <2>2, <2>3 DEF Accounted
<1>8. KnowsChanges'
  BY <1>2 DEF KnowsChanges, NoPost
<1>9. ChangesInBursts' /\ \A u \in changes' : u <= clock'
  BY <1>2 DEF ChangesInBursts
<1> QED
  BY <1>3, <1>4, <1>5, <1>6, <1>7, <1>8, <1>9

LEMMA DieAtKeeps ==
  ASSUME PasswordInv, NEW r \in Posts, DieAt(r)
  PROVE  PasswordInv'
<1> USE DEF PasswordInv
<1>1. CASE posts[r].pc # "stamp"
  BY <1>1, LeavesKeeps DEF DieAt
<1>2. CASE posts[r].pc = "stamp"
  <2>1. /\ posts' = [posts EXCEPT ![r] = NoPost]
        /\ posts'[r] = NoPost /\ \A s \in Posts \ {r} : posts'[s] = posts[s]
        /\ unstamped' = unstamped \cup {posts[r].at} /\ posts[r].at \in changes
        /\ UNCHANGED <<clock, password, authProvider, lastPasswordChangeAt, changes>>
    BY <1>2 DEF DieAt, Leaves, Becomes, PasswordTypeOK, SeenIsOld
  <2>2. PasswordTypeOK'
    BY <2>1 DEF PasswordTypeOK
  <2>3. PostsTimely'
    BY <2>1 DEF PostsTimely
  <2>4. SeenIsOld' /\ KnowsChanges'
    BY <2>1 DEF SeenIsOld, KnowsChanges, NoPost
  <2>5. SeenIsLast'
    BY <2>1 DEF SeenIsLast
  <2>6. Accounted'
    <3> SUFFICES ASSUME NEW u \in changes \ unstamped', ~Accounts(lastPasswordChangeAt, u)
                 PROVE  \E s \in Posts : posts'[s].pc = "stamp" /\ posts'[s].at = u
      BY <2>1 DEF Accounted
    <3>1. PICK s \in Posts : posts[s].pc = "stamp" /\ posts[s].at = u
      BY <2>1 DEF Accounted
    <3> QED BY <2>1, <3>1
  <2>7. ChangesInBursts' /\ \A u \in changes' : u <= clock'
    BY <2>1 DEF ChangesInBursts
  <2> QED BY <2>2, <2>3, <2>4, <2>5, <2>6, <2>7
<1> QED
  BY <1>1, <1>2

LEMMA PasswordTickKeeps ==
  ASSUME PasswordInv, PasswordTick
  PROVE  PasswordInv'
<1> USE DEF PasswordInv
<1>1. /\ clock' = clock + 1 /\ clock \in Nat
      /\ UNCHANGED <<password, authProvider, lastPasswordChangeAt, posts, changes, unstamped>>
  BY DEF PasswordTick, Pass, PasswordTypeOK
<1>2. \A r \in Posts : posts[r] # NoPost => clock < posts[r].began + MaxDuration
  BY DEF PasswordTick, Pass
<1>3. PasswordTypeOK'
  BY <1>1 DEF PasswordTypeOK
<1>4. PostsTimely'
  <2> SUFFICES ASSUME NEW r \in Posts, posts[r] # NoPost
               PROVE  /\ posts[r].began <= posts[r].at /\ posts[r].at <= clock'
                      /\ clock' <= posts[r].began + MaxDuration
    BY <1>1 DEF PostsTimely
  <2>1. posts[r].began \in Nat /\ posts[r].at \in Nat
    BY PostIs DEF Post
  <2> QED BY <1>1, <1>2, <2>1, CooldownAssumption DEF PostsTimely
<1>5. \A u \in changes' : u <= clock'
  BY <1>1 DEF PasswordTypeOK
<1>6. SeenIsOld' /\ SeenIsLast' /\ Accounted' /\ KnowsChanges' /\ ChangesInBursts'
  BY <1>1 DEF SeenIsOld, SeenIsLast, Accounted, KnowsChanges, ChangesInBursts
<1> QED
  BY <1>3, <1>4, <1>5, <1>6

LEMMA PasswordStep == PasswordInv /\ [PasswordNext]_passwordVars => PasswordInv'
<1> SUFFICES ASSUME PasswordInv, [PasswordNext]_passwordVars PROVE PasswordInv'
  OBVIOUS
<1>1. ASSUME NEW r \in Posts, PostStep(r) PROVE PasswordInv'
  <2>1. CASE \E current, new \in Passwords : ReadAccount(r, current, new)
    BY <2>1, ReadAccountKeeps
  <2>2. CASE CheckCooldown(r)
    BY <2>2, CheckCooldownKeeps
  <2>3. CASE Verify(r)
    BY <2>3, VerifyKeeps
  <2>4. CASE UpdateUser(r)
    BY <2>4, UpdateUserKeeps
  <2>5. CASE \E now \in 0 .. MaxClock : Stamp(r, now)
    BY <2>5, StampKeeps
  <2>6. CASE DieAt(r)
    BY <2>6, DieAtKeeps
  <2> QED BY <1>1, <2>1, <2>2, <2>3, <2>4, <2>5, <2>6 DEF PostStep
<1> DEFINE others == <<clock, authProvider, lastPasswordChangeAt, posts, changes, unstamped>>
<1>2. ASSUME UNCHANGED others, password' \in Passwords PROVE PasswordInv'
  BY <1>2 DEF PasswordInv, PasswordTypeOK, PostsTimely, SeenIsOld, SeenIsLast, Accounted,
      KnowsChanges, ChangesInBursts
<1>3. CASE \E new \in Passwords : ResetPassword(new)
  BY <1>2, <1>3 DEF ResetPassword
<1>4. CASE PasswordTick
  BY <1>4, PasswordTickKeeps
<1>5. CASE UNCHANGED passwordVars
  BY <1>2, <1>5 DEF passwordVars, PasswordInv, PasswordTypeOK
<1> QED
  BY <1>1, <1>3, <1>4, <1>5 DEF PasswordNext

LEMMA PasswordInvariant == PasswordSpec => []PasswordInv
  BY PasswordStart, PasswordStep, PTL DEF PasswordSpec

(* Type correctness of the password, its date and the requests. *)
THEOREM PasswordTypeCorrect == PasswordSpec => []PasswordTypeOK
  BY PasswordInvariant, PTL DEF PasswordInv

(* What the cooldown of the password is good for, the condition of the     *)
(* stamp being tested when the password is changed already: changes come   *)
(* in bursts of requests that overlap, and the cooldown lies between the   *)
(* bursts (src/app/api/profile/password/route.ts).                         *)
THEOREM ChangesComeInBursts == PasswordSpec => []ChangesInBursts
  BY PasswordInvariant, PTL DEF PasswordInv
=============================================================================
