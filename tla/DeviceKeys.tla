----------------------------- MODULE DeviceKeys ------------------------------
(***************************************************************************)
(* The device keys of one account.  A phone keeps a key pair in IndexedDB  *)
(* and registers its public key (src/lib/device-key-client.ts); the server *)
(* (POST /api/profile/device-key, src/lib/device-key-server.ts) counts the *)
(* active keys, registers, counts again and takes back what is too much.   *)
(* Registrations of several phones overlap, and so do two of one phone,    *)
(* from the page's start and from a submission.  A request that does not   *)
(* go on is one whose instance died.                                       *)
(***************************************************************************)
EXTENDS Integers, FiniteSets

CONSTANTS Phones, Keys,     \* keys stand for their fingerprints
          Tasks,            \* calls of registerDeviceKeyWithServer there may be
          MaxDevices,       \* MAX_DEVICES_PER_ACCOUNT: 5
          InitialKeys,      \* keys of other devices, registered before
          Nothing

ASSUME DeviceKeysAssumption ==
    /\ MaxDevices \in Nat
    /\ InitialKeys \subseteq Keys /\ IsFiniteSet(Keys) /\ IsFiniteSet(Tasks)
    /\ Cardinality(InitialKeys) <= MaxDevices
    /\ Nothing \notin [key : Keys, registered : BOOLEAN]

VARIABLES active, revoked,  \* the table, by revokedAt
          stored,           \* IndexedDB: a key and its registered flag
          generated,        \* the keys made so far
          tasks,            \* the phones' calls
          requests,         \* the server's side of each
          replaced          \* history: phones whose record was replaced
                            \* while a call held an older one

vars == <<active, revoked, stored, generated, tasks, requests, replaced>>

Idle == [pc |-> "idle"]

Registered == active \cup revoked

Record(key, registered) == [key |-> key, registered |-> registered]

Init ==
    /\ active = InitialKeys /\ revoked = {}
    /\ stored = [p \in Phones |-> Nothing]
    /\ generated = InitialKeys
    /\ tasks = [t \in Tasks |-> Idle]
    /\ requests = [t \in Tasks |-> Idle]
    /\ replaced = {}

-----------------------------------------------------------------------------
(* The phone. *)

Become(t, pc, p, record) ==
    tasks' = [tasks EXCEPT ![t] = [pc |-> pc, phone |-> p, record |-> record]]

GoTo(t, pc) == tasks' = [tasks EXCEPT ![t].pc = pc]

(* registerDeviceKeyWithServer, getOrCreateDeviceKeyPair: what the phone   *)
(* has stored.                                                             *)
Begin(t, p) ==
    /\ tasks[t] = Idle
    /\ Become(t, IF stored[p] = Nothing THEN "generate"
                 ELSE IF stored[p].registered THEN "done" ELSE "send",
              p, stored[p])
    /\ UNCHANGED <<active, revoked, stored, generated, requests, replaced>>

Holds(t, p) == tasks[t].pc \notin {"idle", "done"} /\ tasks[t].phone = p

(* generateDeviceKeyPair: the record is overwritten, whatever it is now.   *)
Generate(t) ==
    /\ tasks[t].pc = "generate"
    /\ \E key \in Keys \ generated :
          /\ stored' = [stored EXCEPT ![tasks[t].phone] = Record(key, FALSE)]
          /\ generated' = generated \cup {key}
          /\ Become(t, "send", tasks[t].phone, Record(key, FALSE))
    /\ replaced' = IF stored[tasks[t].phone] = Nothing THEN replaced
                   ELSE replaced \cup {tasks[t].phone}
    /\ UNCHANGED <<active, revoked, requests>>

Send(t) ==
    /\ tasks[t].pc = "send"
    /\ GoTo(t, "wait")
    /\ requests' = [requests EXCEPT ![t] =
                       [pc |-> "count", key |-> tasks[t].record.key,
                        created |-> FALSE, ok |-> FALSE]]
    /\ UNCHANGED <<active, revoked, stored, generated, replaced>>

IsOk_AnyAnswer(q) == q.pc = "done"

IsOk(q) == q.pc = "done" /\ q.ok

(* The answer, or none: then the call is over, and may be made again.      *)
Receive(t) ==
    /\ tasks[t].pc = "wait"
    /\ \/ IsOk(requests[t]) /\ GoTo(t, "mark")
       \/ GoTo(t, "done")
    /\ UNCHANGED <<active, revoked, stored, generated, requests, replaced>>

(* markDeviceKeyRegistered: reads the record, whichever it is, and writes  *)
(* it back with the flag.                                                  *)
ReadRecord(t) ==
    /\ tasks[t].pc = "mark"
    /\ IF stored[tasks[t].phone] = Nothing
       THEN GoTo(t, "done")
       ELSE Become(t, "put", tasks[t].phone, stored[tasks[t].phone])
    /\ UNCHANGED <<active, revoked, stored, generated, requests, replaced>>

PutRecord(t) ==
    /\ tasks[t].pc = "put"
    /\ stored' = [stored EXCEPT ![tasks[t].phone] = Record(tasks[t].record.key, TRUE)]
    /\ GoTo(t, "done")
    /\ UNCHANGED <<active, revoked, generated, requests, replaced>>

(* The user clears the site's data. *)
ClearData(p) ==
    /\ stored[p] # Nothing
    /\ stored' = [stored EXCEPT ![p] = Nothing]
    /\ replaced' = IF \E t \in Tasks : Holds(t, p) THEN replaced \cup {p} ELSE replaced
    /\ UNCHANGED <<active, revoked, generated, tasks, requests>>

-----------------------------------------------------------------------------
(* The server. *)

Step(t, pc) == requests' = [requests EXCEPT ![t].pc = pc]

Answer(t, ok) == requests' = [requests EXCEPT ![t].pc = "done", ![t].ok = ok]

(* The check that only turns away early. *)
Count(t) ==
    /\ requests[t].pc = "count"
    /\ IF Cardinality(active) >= MaxDevices THEN Answer(t, FALSE) ELSE Step(t, "find")
    /\ UNCHANGED <<active, revoked>>

(* registerDeviceKey: a known key, revoked or not, only gets a label. *)
Find(t) ==
    /\ requests[t].pc = "find"
    /\ Step(t, IF requests[t].key \in Registered THEN "recount" ELSE "create")
    /\ UNCHANGED <<active, revoked>>

(* The fingerprint is unique: whoever loses finds the winner's row. *)
Create(t) ==
    /\ requests[t].pc = "create"
    /\ IF requests[t].key \in Registered
       THEN Step(t, "recount") /\ UNCHANGED active
       ELSE /\ active' = active \cup {requests[t].key}
            /\ requests' = [requests EXCEPT ![t].pc = "recount", ![t].created = TRUE]
    /\ UNCHANGED revoked

TooMany_AsCreated(t) == Cardinality(active \ {requests[t].key}) > MaxDevices

TooMany(t) == Cardinality(active) > MaxDevices

Recount(t) ==
    /\ requests[t].pc = "recount"
    /\ IF TooMany(t) THEN Step(t, "revoke") ELSE Answer(t, TRUE)
    /\ UNCHANGED <<active, revoked>>

Withdraw(key) == active' = active \ {key} /\ revoked' = revoked \cup {key}

(* The key of the request, new or not, is taken back; an error of that is  *)
(* swallowed.                                                              *)
RevokeExcess(t) ==
    /\ requests[t].pc = "revoke"
    /\ Withdraw(requests[t].key) \/ UNCHANGED <<active, revoked>>
    /\ Answer(t, FALSE)

(* DELETE: the user revokes a device. *)
Revoke(key) ==
    /\ key \in Registered
    /\ Withdraw(key)
    /\ UNCHANGED <<stored, generated, tasks, requests, replaced>>

ServerStep(t) ==
    /\ Count(t) \/ Find(t) \/ Create(t) \/ Recount(t) \/ RevokeExcess(t)
    /\ UNCHANGED <<stored, generated, tasks, replaced>>

PhoneStep(t) ==
    \/ \E p \in Phones : Begin(t, p)
    \/ Generate(t) \/ Send(t) \/ Receive(t) \/ ReadRecord(t) \/ PutRecord(t)

Next ==
    \/ \E t \in Tasks : PhoneStep(t) \/ ServerStep(t)
    \/ \E key \in Keys : Revoke(key)
    \/ \E p \in Phones : ClearData(p)

Spec == Init /\ [][Next]_vars

-----------------------------------------------------------------------------
(* Properties. *)

TypeOK ==
    /\ active \subseteq Keys /\ revoked \subseteq Keys /\ generated \subseteq Keys
    /\ stored \in [Phones -> [key : Keys, registered : BOOLEAN] \cup {Nothing}]
    /\ replaced \subseteq Phones
    /\ requests \in [Tasks -> {Idle} \cup
          [pc : {"count", "find", "create", "recount", "revoke", "done"},
           key : Keys, created : BOOLEAN, ok : BOOLEAN]]

(* Registrations that have created a key, still active, and have not been  *)
(* answered with success.                                                  *)
Pending ==
    {t \in Tasks : /\ requests[t] # Idle /\ requests[t].created /\ ~ requests[t].ok
                   /\ requests[t].key \in active}

(* However many registrations overlap, the account has no more active keys *)
(* than the cap and one for each registration that has created its key and *)
(* not yet counted again, died before it could, or failed to take the key  *)
(* back.                                                                   *)
CapHolds == Cardinality(active) <= MaxDevices + Cardinality(Pending)

(* What a phone believes to be registered, the server has, for good or     *)
(* revoked, unless the phone's record was replaced or cleared during a     *)
(* call: then the flag may be put on another key than the one registered.  *)
RegisteredIsKnown ==
    \A p \in Phones \ replaced :
        stored[p] # Nothing /\ stored[p].registered => stored[p].key \in Registered
=============================================================================
