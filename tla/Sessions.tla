------------------------------ MODULE Sessions -------------------------------
(***************************************************************************)
(* Whether a request gets past requireAuth: the account of its session,    *)
(* which every instance caches in memory and all of them in Redis, and the *)
(* maintenance switch, which every instance caches.  Writers invalidate    *)
(* what they can reach.                                                    *)
(*                                                                         *)
(* A request takes a step per call it awaits, and a step at most Latency.  *)
(* Redis may be passed over at any time, as when its breaker is open (see  *)
(* RateLimit), and may time out whether it did the work or not.  There are *)
(* fewer accounts than MEM_MAX.                                            *)
(***************************************************************************)
EXTENDS Naturals, FiniteSets

CONSTANTS Instances,
          Requests,
          None,
          MemTtl,           \* MEM_TTL_MS, and the 30_000 of its caller
          RedisTtl,         \* REDIS_TTL_S
          GateTtl,          \* lifetime of a cached maintenance switch
          Latency,          \* the longest a call takes
          MaxTime,          \* bounds of the model: the clock,
          MaxWrites         \* changes of the account and of the switch

ASSUME SessionsAssumption ==
    /\ MemTtl \in Nat \ {0} /\ RedisTtl \in Nat \ {0} /\ GateTtl \in Nat \ {0}
    /\ Latency \in Nat \ {0} /\ MaxTime \in Nat /\ MaxWrites \in Nat
    /\ None \notin BOOLEAN \cup Nat \cup Instances

VARIABLES now,
          row,              \* whether the account is active, in the database
          setting,          \* the maintenance switch, in the database
          mem,              \* memCache, by instance
          redis,            \* the account's entry in Redis
          gate,             \* maintenanceCache, by instance
          query,            \* maintenanceInFlight, by instance
          requests,
          was               \* history: when the last values were replaced

vars == <<now, row, setting, mem, redis, gate, query, requests, was>>

Entry == [value : BOOLEAN, expires : Nat]

Entries == Entry \cup {None}

Fresh(entry) == entry # None /\ now < entry.expires

Cached(value, ttl) == [value |-> value, expires |-> now + ttl]

(* at is the instant of the request's last step; value what it will answer *)
(* or write, of the account or of the switch.                              *)
Idle == [pc |-> "idle", at |-> 0, instance |-> None, value |-> None]

NoQuery == [pc |-> "none", at |-> 0, value |-> None]

Init ==
    /\ now = 0
    /\ row = TRUE /\ setting = FALSE
    /\ mem = [i \in Instances |-> None] /\ gate = [i \in Instances |-> None]
    /\ redis = None
    /\ query = [i \in Instances |-> NoQuery]
    /\ requests = [r \in Requests |-> Idle]
    /\ was = [row |-> 0, setting |-> 0, writes |-> 0]

-----------------------------------------------------------------------------
At(r, pc) == requests[r].pc = pc

On(r) == requests[r].instance

Go(r, pc, i, value) ==
    requests' = [requests EXCEPT ![r] =
                    [pc |-> pc, at |-> now, instance |-> i, value |-> value]]

GoTo(r, pc) == Go(r, pc, On(r), requests[r].value)

Finish(r) == requests' = [requests EXCEPT ![r] = Idle]

(* What requireAuth does with the account it found. *)
Known(r, i, account) ==
    Go(r, IF account THEN "ask_gate" ELSE "refused", i, account)

Elsewhere == UNCHANGED <<now, row, setting, was>>

-----------------------------------------------------------------------------
(* getCurrentAccountSupabase *)

Hit_Renewed(i) == [mem EXCEPT ![i].expires = now + MemTtl]

(* Reading an entry does not prolong it. *)
Hit(i) == mem

Start(r) ==
    /\ At(r, "idle")
    /\ \E i \in Instances :
          IF Fresh(mem[i]) THEN Known(r, i, mem[i].value) /\ mem' = Hit(i)
          ELSE /\ \E pc \in {"redis_get", "db_read"} : Go(r, pc, i, None)
               /\ UNCHANGED mem
    /\ UNCHANGED <<redis, gate, query>> /\ Elsewhere

(* A hit, or a miss, an error or a time-out. *)
RedisGet(r) ==
    /\ At(r, "redis_get")
    /\ \/ Fresh(redis) /\ Go(r, "keep", On(r), redis.value)
       \/ GoTo(r, "db_read")
    /\ UNCHANGED <<mem, redis, gate, query>> /\ Elsewhere

(* What Redis had gets a full life in memory. *)
Keep(r) ==
    /\ At(r, "keep")
    /\ LET i == On(r)
           v == requests[r].value
       IN  mem' = [mem EXCEPT ![i] = Cached(v, MemTtl)] /\ Known(r, i, v)
    /\ UNCHANGED <<redis, gate, query>> /\ Elsewhere

(* resolveAccountFromDb *)
DbRead(r) ==
    /\ At(r, "db_read")
    /\ Go(r, "fill", On(r), row)
    /\ UNCHANGED <<mem, redis, gate, query>> /\ Elsewhere

(* setAccountCache, whatever was invalidated meanwhile. *)
Fill(r) ==
    /\ At(r, "fill")
    /\ LET i == On(r)
           v == requests[r].value
       IN  /\ mem' = [mem EXCEPT ![i] = Cached(v, MemTtl)]
           /\ Go(r, "redis_set", i, v) \/ Known(r, i, v)
    /\ UNCHANGED <<redis, gate, query>> /\ Elsewhere

RedisSet(r) ==
    /\ At(r, "redis_set")
    /\ redis' \in {redis, Cached(requests[r].value, RedisTtl)}
    /\ Known(r, On(r), requests[r].value)
    /\ UNCHANGED <<mem, gate, query>> /\ Elsewhere

Refuse(r) ==
    /\ At(r, "refused")
    /\ Finish(r)
    /\ UNCHANGED <<mem, redis, gate, query>> /\ Elsewhere

-----------------------------------------------------------------------------
(* isMaintenanceMode, for an account that is not an administrator's.       *)
AskGate(r) ==
    /\ At(r, "ask_gate")
    /\ LET i == On(r)
       IN  IF Fresh(gate[i])
           THEN Go(r, "passed", i, gate[i].value) /\ UNCHANGED query
           ELSE /\ GoTo(r, "wait")
                /\ query' = IF query[i].pc # "none" THEN query
                            ELSE [query EXCEPT ![i] = [NoQuery EXCEPT !.pc = "asked", !.at = now]]
    /\ UNCHANGED <<mem, redis, gate>> /\ Elsewhere

(* The setting is read; a database that fails counts as maintenance.       *)
ReadSetting(i) ==
    /\ query[i].pc = "asked"
    /\ \/ query' = [query EXCEPT ![i] = [pc |-> "read", at |-> now, value |-> setting]]
       \/ query' = [query EXCEPT ![i] = [pc |-> "failed", at |-> now, value |-> TRUE]]
    /\ UNCHANGED <<mem, redis, gate, requests>> /\ Elsewhere

IsCacheable_Always(q) == q.pc # "none"

IsCacheable(q) == q.pc = "read"

(* The answer is cached, and goes to all requests of the instance that     *)
(* wait for it.                                                            *)
StoreSetting(i) ==
    /\ query[i].pc \in {"read", "failed"}
    /\ gate' = IF IsCacheable(query[i])
               THEN [gate EXCEPT ![i] = Cached(query[i].value, GateTtl)] ELSE gate
    /\ requests' = [r \in Requests |->
           IF At(r, "wait") /\ On(r) = i
           THEN [pc |-> IF query[i].pc = "read" THEN "passed" ELSE "closed",
                 at |-> now, instance |-> i, value |-> query[i].value]
           ELSE requests[r]]
    /\ query' = [query EXCEPT ![i] = NoQuery]
    /\ UNCHANGED <<mem, redis>> /\ Elsewhere

(* The request is answered: 503 in maintenance, otherwise by its handler.  *)
Serve(r) ==
    /\ requests[r].pc \in {"passed", "closed"}
    /\ Finish(r)
    /\ UNCHANGED <<mem, redis, gate, query>> /\ Elsewhere

-----------------------------------------------------------------------------
(* A handler that suspends, restores or changes the account ...            *)
WriteRow(r) ==
    /\ At(r, "idle") /\ was.writes < MaxWrites
    /\ row' = ~row
    /\ was' = [was EXCEPT !.row = now, !.writes = @ + 1]
    /\ \E i \in Instances : Go(r, "forget", i, row')
    /\ UNCHANGED <<now, setting, mem, redis, gate, query>>

(* ... calls invalidateAccountCache, which empties the memory of its own   *)
(* instance ...                                                            *)
Forget(r) ==
    /\ At(r, "forget")
    /\ mem' = [mem EXCEPT ![On(r)] = None]
    /\ GoTo(r, "redis_del")
    /\ UNCHANGED <<redis, gate, query>> /\ Elsewhere

(* ... and the entry in Redis, if Redis answers. *)
RedisDel(r) ==
    /\ At(r, "redis_del")
    /\ redis' \in {redis, None}
    /\ Finish(r)
    /\ UNCHANGED <<mem, gate, query>> /\ Elsewhere

(* POST /api/admin/maintenance, by an administrator.                       *)
Toggle(r) ==
    /\ At(r, "idle") /\ was.writes < MaxWrites
    /\ setting' = ~setting
    /\ was' = [was EXCEPT !.setting = now, !.writes = @ + 1]
    /\ \E i \in Instances : Go(r, "invalidate", i, setting')
    /\ UNCHANGED <<now, row, mem, redis, gate, query>>

(* invalidateMaintenanceCache *)
Invalidate(r) ==
    /\ At(r, "invalidate")
    /\ gate' = [gate EXCEPT ![On(r)] = None]
    /\ Finish(r)
    /\ UNCHANGED <<mem, redis, query>> /\ Elsewhere

-----------------------------------------------------------------------------
(* Time passes, but no call takes longer than Latency.  Entries that are   *)
(* past are as good as none.                                               *)
Expired(entry) == IF entry # None /\ entry.expires <= now' THEN None ELSE entry

Tick ==
    /\ now < MaxTime
    /\ \A r \in Requests : ~At(r, "idle") /\ ~At(r, "wait") => now < requests[r].at + Latency
    /\ \A i \in Instances : query[i].pc # "none" => now < query[i].at + Latency
    /\ now' = now + 1
    /\ mem' = [i \in Instances |-> Expired(mem[i])]
    /\ gate' = [i \in Instances |-> Expired(gate[i])]
    /\ redis' = Expired(redis)
    /\ UNCHANGED <<row, setting, query, requests, was>>

Next ==
    \/ \E r \in Requests :
          \/ Start(r) \/ RedisGet(r) \/ Keep(r) \/ DbRead(r) \/ Fill(r) \/ RedisSet(r)
          \/ Refuse(r) \/ AskGate(r) \/ Serve(r)
          \/ WriteRow(r) \/ Forget(r) \/ RedisDel(r) \/ Toggle(r) \/ Invalidate(r)
    \/ \E i \in Instances : ReadSetting(i) \/ StoreSetting(i)
    \/ Tick

Spec == Init /\ [][Next]_vars

-----------------------------------------------------------------------------
(* Properties. *)

(* Everything is of its type, and the row of a request that found no       *)
(* active account goes no further than its refusal.                        *)
TypeOK ==
    /\ now \in 0 .. MaxTime /\ row \in BOOLEAN /\ setting \in BOOLEAN
    /\ mem \in [Instances -> Entries] /\ gate \in [Instances -> Entries]
    /\ redis \in Entries
    /\ \A i \in Instances : query[i].pc \in {"none", "asked", "read", "failed"}
    /\ \A r \in Requests :
          requests[r].pc \in {"idle", "redis_get", "keep", "db_read", "fill", "redis_set",
                              "refused", "ask_gate", "wait", "passed", "closed",
                              "forget", "redis_del", "invalidate"}

(* A value was the true one less than lag ago. *)
WasTrue(value, true, when, lag) == value = true \/ now <= when + lag

(* What a request takes for its account was true no longer ago than one    *)
(* life in Redis, one in memory and the calls that carried it there:       *)
(* a suspended account is out after that time on every instance, whatever  *)
(* invalidation was lost or overtaken.  (An entry is gone at the instant   *)
(* it expires, so each life is one instant less.)                          *)
AccountsAreRecent ==
    \A r \in Requests :
        requests[r].pc \in {"ask_gate", "refused"} /\ requests[r].at = now =>
            WasTrue(requests[r].value, row, was.row, MemTtl + RedisTtl + 3 * Latency - 2)

(* The maintenance switch a request obeys was set that way no longer ago   *)
(* than one life in the cache and the query that carried it there.         *)
SwitchIsRecent ==
    \A r \in Requests :
        At(r, "passed") /\ requests[r].at = now =>
            WasTrue(requests[r].value, setting, was.setting, GateTtl + Latency - 1)

(* An account's status is cached for one life of an entry only, apart from *)
(* the time the calls take ("cached 30s").                                 *)
CachedOnce ==
    \A r \in Requests :
        requests[r].pc \in {"ask_gate", "refused"} /\ requests[r].at = now =>
            WasTrue(requests[r].value, row, was.row, MemTtl + 2 * Latency)
=============================================================================
