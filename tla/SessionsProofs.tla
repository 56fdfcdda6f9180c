---------------------------- MODULE SessionsProofs ----------------------------
(***************************************************************************)
(* How stale the account and the maintenance switch may be by which a      *)
(* request goes: for any number of instances and requests, any lifetimes   *)
(* and any latency.                                                        *)
(*                                                                         *)
(* A value is followed from the database to the request.  Wherever it is   *)
(* kept there is an instant, the one of the step that put it there or the  *)
(* one it expires at, and a lag by which the value may be older.  The lag  *)
(* grows by Latency with each call and by a lifetime with each cache.      *)
(***************************************************************************)
EXTENDS Sessions, TLAPS

Pcs ==
    {"idle", "redis_get", "keep", "db_read", "fill", "redis_set", "refused", "ask_gate", "wait",
     "passed", "closed", "forget", "redis_del", "invalidate"}

Request == [pc : Pcs, at : Nat, instance : Instances \cup {None}, value : BOOLEAN \cup {None}]

Query == [pc : {"none", "asked", "read", "failed"}, at : Nat, value : BOOLEAN \cup {None}]

(* Where a request has a value to answer or to write. *)
Carrying == {"keep", "fill", "redis_set", "refused", "ask_gate", "passed"}

(* The value was the true one at an instant no more than lag before t. *)
RowAt(value, t, lag) == value = row \/ t <= was.row + lag

SettingAt(value, t, lag) == value = setting \/ t <= was.setting + lag

RedisLag == RedisTtl + 2 * Latency

MemLag == MemTtl + RedisTtl + 3 * Latency - 1

GateLag == GateTtl + Latency

(* How much older than its last step what a request has in hand may be. *)
RowLag(pc) ==
    CASE pc = "fill" -> 0
      [] pc = "redis_set" -> Latency
      [] pc = "keep" -> RedisLag - 1
      [] OTHER -> MemLag - 1

(* No step lies ahead, and no call has taken longer than it may. *)
Timely(at) == at <= now /\ now <= at + Latency

RequestOK(q) ==
    /\ q \in Request
    /\ q.pc # "idle" => q.instance \in Instances
    /\ q.pc \in Carrying => q.value \in BOOLEAN
    /\ q.pc \notin {"idle", "wait"} => Timely(q.at)
    /\ q.pc \in Carrying \ {"passed"} => RowAt(q.value, q.at, RowLag(q.pc))
    /\ q.pc = "passed" => SettingAt(q.value, q.at, GateLag - 1)

QueryOK(q) ==
    /\ q \in Query
    /\ q.pc # "none" => Timely(q.at)
    /\ q.pc \in {"read", "failed"} => q.value \in BOOLEAN
    /\ q.pc = "read" => SettingAt(q.value, q.at, 0)

(* An entry expires within its lifetime, and then its value is older by    *)
(* the lag.                                                                *)
EntryOK(entry, ttl) == entry \in Entry /\ entry.expires <= now + ttl

MemOK(entry) ==
    entry # None => /\ EntryOK(entry, MemTtl)
                    /\ RowAt(entry.value, entry.expires, MemLag)

RedisOK(entry) ==
    entry # None => /\ EntryOK(entry, RedisTtl)
                    /\ RowAt(entry.value, entry.expires, RedisLag)

GateOK(entry) ==
    entry # None => /\ EntryOK(entry, GateTtl)
                    /\ SettingAt(entry.value, entry.expires, GateLag)

BaseOK ==
    /\ now \in 0 .. MaxTime /\ row \in BOOLEAN /\ setting \in BOOLEAN
    /\ was \in [row : Nat, setting : Nat, writes : Nat]

MemPart == mem = [i \in Instances |-> mem[i]] /\ \A i \in Instances : MemOK(mem[i])

GatePart == gate = [i \in Instances |-> gate[i]] /\ \A i \in Instances : GateOK(gate[i])

QueryPart == query = [i \in Instances |-> query[i]] /\ \A i \in Instances : QueryOK(query[i])

RequestsPart ==
    /\ requests = [r \in Requests |-> requests[r]]
    /\ \A r \in Requests : RequestOK(requests[r])

Inv == BaseOK /\ MemPart /\ GatePart /\ RedisOK(redis) /\ QueryPart /\ RequestsPart

-----------------------------------------------------------------------------
(* What the invariant says holds at first. *)
LEMMA InvInit == Init => Inv
<1> SUFFICES ASSUME Init PROVE Inv
  OBVIOUS
<1>1. BaseOK /\ RedisOK(redis)
  <2>1. was \in [row : Nat, setting : Nat, writes : Nat]
    BY DEF Init
  <2>2. now \in 0 .. MaxTime
    BY SessionsAssumption DEF Init
  <2>3. row \in BOOLEAN /\ setting \in BOOLEAN
    BY DEF Init
  <2> QED BY <2>1, <2>2, <2>3 DEF Init, BaseOK, RedisOK
<1>2. MemPart /\ GatePart
  BY DEF Init, MemPart, MemOK, GatePart, GateOK
<1>3. QueryPart
  BY DEF Init, QueryPart, QueryOK, NoQuery, Query
<1>4. RequestOK(Idle)
  BY DEF RequestOK, Idle, Request, Pcs, Carrying
<1>5. RequestsPart
  BY <1>4 DEF Init, RequestsPart
<1> QED BY <1>1, <1>2, <1>3, <1>5 DEF Inv

-----------------------------------------------------------------------------
(* Steps that take no time and write nothing to the database. *)

LEMMA Same ==
  ASSUME Inv, Elsewhere
  PROVE  /\ BaseOK'
         /\ mem' = mem => MemPart'
         /\ gate' = gate => GatePart'
         /\ redis' = redis => RedisOK(redis)'
         /\ query' = query => QueryPart'
         /\ requests' = requests => RequestsPart'
<1>1. BaseOK'
  BY DEF Inv, BaseOK, Elsewhere
<1>2. mem' = mem => MemPart'
  BY DEF Inv, MemPart, MemOK, EntryOK, RowAt, Elsewhere
<1>3. gate' = gate => GatePart'
  BY DEF Inv, GatePart, GateOK, EntryOK, SettingAt, Elsewhere
<1>4. redis' = redis => RedisOK(redis)'
  BY DEF Inv, RedisOK, EntryOK, RowAt, Elsewhere
<1>5. query' = query => QueryPart'
  BY DEF Inv, QueryPart, QueryOK, Timely, SettingAt, Elsewhere
<1>6. requests' = requests => RequestsPart'
  BY DEF Inv, RequestsPart, RequestOK, Timely, RowAt, SettingAt, Elsewhere
<1> QED BY <1>1, <1>2, <1>3, <1>4, <1>5, <1>6

LEMMA RequestMoves ==
  ASSUME Inv, Elsewhere, NEW r \in Requests, NEW q, RequestOK(q),
         requests' = [requests EXCEPT ![r] = q]
  PROVE  RequestsPart'
<1>1. requests' = [x \in Requests |-> requests'[x]]
  BY DEF Inv, RequestsPart
<1>2. ASSUME NEW x \in Requests
      PROVE  RequestOK(requests[x])'
  <2>1. requests'[x] = q \/ requests'[x] = requests[x]
    BY DEF Inv, RequestsPart
  <2>2. RequestOK(requests'[x])
    BY <2>1 DEF Inv, RequestsPart
  <2> QED BY <2>2 DEF RequestOK, Timely, RowAt, SettingAt, Elsewhere
<1> QED BY <1>1, <1>2 DEF RequestsPart

LEMMA MemPut ==
  ASSUME Inv, Elsewhere, NEW i \in Instances, NEW entry, MemOK(entry),
         mem' = [mem EXCEPT ![i] = entry]
  PROVE  MemPart'
<1>1. mem' = [x \in Instances |-> mem'[x]]
  BY DEF Inv, MemPart
<1>2. ASSUME NEW x \in Instances
      PROVE  MemOK(mem[x])'
  <2>1. MemOK(mem'[x])
    BY DEF Inv, MemPart
  <2> QED BY <2>1 DEF MemOK, EntryOK, RowAt, Elsewhere
<1> QED BY <1>1, <1>2 DEF MemPart

LEMMA GatePut ==
  ASSUME Inv, Elsewhere, NEW i \in Instances, NEW entry, GateOK(entry),
         gate' = [gate EXCEPT ![i] = entry]
  PROVE  GatePart'
<1>1. gate' = [x \in Instances |-> gate'[x]]
  BY DEF Inv, GatePart
<1>2. ASSUME NEW x \in Instances
      PROVE  GateOK(gate[x])'
  <2>1. GateOK(gate'[x])
    BY DEF Inv, GatePart
  <2> QED BY <2>1 DEF GateOK, EntryOK, SettingAt, Elsewhere
<1> QED BY <1>1, <1>2 DEF GatePart

LEMMA QueryMoves ==
  ASSUME Inv, Elsewhere, NEW i \in Instances, NEW q, QueryOK(q),
         query' = [query EXCEPT ![i] = q]
  PROVE  QueryPart'
<1>1. query' = [x \in Instances |-> query'[x]]
  BY DEF Inv, QueryPart
<1>2. ASSUME NEW x \in Instances
      PROVE  QueryOK(query[x])'
  <2>1. QueryOK(query'[x])
    BY DEF Inv, QueryPart
  <2> QED BY <2>1 DEF QueryOK, Timely, SettingAt, Elsewhere
<1> QED BY <1>1, <1>2 DEF QueryPart

(* What the invariant says of one request, and of the clock. *)
LEMMA RequestAt ==
  ASSUME Inv, NEW r \in Requests
  PROVE  /\ RequestOK(requests[r])
         /\ now \in Nat /\ row \in BOOLEAN /\ setting \in BOOLEAN
         /\ was.row \in Nat /\ was.setting \in Nat
BY SessionsAssumption DEF Inv, RequestsPart, BaseOK

(* An account that was found is answered with, however it was come by.     *)
LEMMA KnownOK ==
  ASSUME Inv, NEW r \in Requests, NEW i \in Instances, NEW v \in BOOLEAN,
         RowAt(v, now, MemLag - 1), Known(r, i, v), Elsewhere
  PROVE  RequestsPart'
<1> DEFINE q == [pc |-> IF v THEN "ask_gate" ELSE "refused", at |-> now, instance |-> i, value |-> v]
<1>1. RequestOK(q)
  BY RequestAt, SessionsAssumption DEF RequestOK, Request, Pcs, Carrying, RowLag, Timely
<1>2. requests' = [requests EXCEPT ![r] = q]
  BY DEF Known, Go
<1> HIDE DEF q
<1> QED BY <1>1, <1>2, RequestMoves

(* A step to a place where the request carries nothing. *)
LEMMA EmptyHanded ==
  ASSUME Inv, NEW r \in Requests, NEW i \in Instances, NEW v \in BOOLEAN \cup {None},
         NEW pc \in Pcs \ Carrying, Go(r, pc, i, v), Elsewhere
  PROVE  RequestsPart'
<1> DEFINE q == [pc |-> pc, at |-> now, instance |-> i, value |-> v]
<1>1. RequestOK(q)
  BY RequestAt, SessionsAssumption DEF RequestOK, Request, Pcs, Carrying, Timely
<1>2. requests' = [requests EXCEPT ![r] = q]
  BY DEF Go
<1> HIDE DEF q
<1> QED BY <1>1, <1>2, RequestMoves

LEMMA FinishOK ==
  ASSUME Inv, NEW r \in Requests, Finish(r), Elsewhere
  PROVE  RequestsPart'
<1>1. RequestOK(Idle)
  BY DEF RequestOK, Idle, Request, Pcs, Carrying
<1> QED BY <1>1, RequestMoves DEF Finish

(* An entry put into a cache that holds a fresh value. *)
LEMMA FreshMem ==
  ASSUME Inv, NEW v \in BOOLEAN, NEW lag \in Nat, RowAt(v, now, lag), lag + MemTtl <= MemLag
  PROVE  MemOK(Cached(v, MemTtl))
BY SessionsAssumption DEF Inv, BaseOK, MemOK, EntryOK, Entry, Cached, RowAt, MemLag

LEMMA FreshRedis ==
  ASSUME Inv, NEW v \in BOOLEAN, RowAt(v, now, 2 * Latency)
  PROVE  RedisOK(Cached(v, RedisTtl))
BY SessionsAssumption DEF Inv, BaseOK, RedisOK, EntryOK, Entry, Cached, RowAt, RedisLag

-----------------------------------------------------------------------------
(* The account of a request. *)

LEMMA StartInv == ASSUME Inv, NEW r \in Requests, Start(r) PROVE Inv'
<1>1. Elsewhere /\ UNCHANGED <<redis, gate, query>>
  BY DEF Start
<1>2. PICK i \in Instances :
         IF Fresh(mem[i]) THEN Known(r, i, mem[i].value) /\ mem' = Hit(i)
         ELSE /\ \E pc \in {"redis_get", "db_read"} : Go(r, pc, i, None)
              /\ UNCHANGED mem
  BY DEF Start
<1>3. mem' = mem
  BY <1>2 DEF Hit
<1>4. CASE Fresh(mem[i])
  <2>1. mem[i] # None /\ now < mem[i].expires
    BY <1>4 DEF Fresh
  <2>2. MemOK(mem[i])
    BY DEF Inv, MemPart
  <2>3. mem[i].value \in BOOLEAN /\ RowAt(mem[i].value, now, MemLag - 1)
    BY <2>1, <2>2, RequestAt, SessionsAssumption DEF MemOK, EntryOK, Entry, RowAt, MemLag
  <2>4. RequestsPart'
    BY <1>1, <1>2, <1>4, <2>3, KnownOK
  <2> QED BY <1>1, <1>3, <2>4, Same DEF Inv
<1>5. CASE ~Fresh(mem[i])
  <2>1. RequestsPart'
    BY <1>1, <1>2, <1>5, EmptyHanded DEF Pcs, Carrying
  <2> QED BY <1>1, <1>3, <2>1, Same DEF Inv
<1> QED BY <1>4, <1>5

LEMMA RedisGetInv == ASSUME Inv, NEW r \in Requests, RedisGet(r) PROVE Inv'
<1>1. Elsewhere /\ UNCHANGED <<mem, redis, gate, query>>
  BY DEF RedisGet
<1>2. RequestOK(requests[r]) /\ requests[r].pc = "redis_get"
  BY RequestAt DEF RedisGet, At
<1>3. CASE Fresh(redis) /\ Go(r, "keep", On(r), redis.value)
  <2> DEFINE q == [pc |-> "keep", at |-> now, instance |-> On(r), value |-> redis.value]
  <2>1. redis # None /\ now < redis.expires /\ RedisOK(redis)
    BY <1>3 DEF Fresh, Inv
  <2>2. redis.value \in BOOLEAN /\ RowAt(redis.value, now, RedisLag - 1)
    BY <2>1, RequestAt, SessionsAssumption DEF RedisOK, EntryOK, Entry, RowAt, RedisLag
  <2>3. RequestOK(q)
    BY <1>2, <2>2, RequestAt, SessionsAssumption
       DEF RequestOK, Request, Pcs, Carrying, RowLag, Timely, On
  <2>4. requests' = [requests EXCEPT ![r] = q]
    BY <1>3 DEF Go
  <2> HIDE DEF q
  <2> QED BY <1>1, <2>3, <2>4, RequestMoves, Same DEF Inv
<1>4. CASE GoTo(r, "db_read")
  <2>1. RequestsPart'
    BY <1>1, <1>2, <1>4, EmptyHanded DEF GoTo, On, RequestOK, Request, Pcs, Carrying
  <2> QED BY <1>1, <2>1, Same DEF Inv
<1> QED BY <1>3, <1>4 DEF RedisGet

LEMMA KeepInv == ASSUME Inv, NEW r \in Requests, Keep(r) PROVE Inv'
<1> DEFINE v == requests[r].value
<1>1. Elsewhere /\ UNCHANGED <<redis, gate, query>>
  BY DEF Keep
<1>2. RequestOK(requests[r]) /\ requests[r].pc = "keep"
  BY RequestAt DEF Keep, At
<1>3. v \in BOOLEAN /\ On(r) \in Instances
  BY <1>2 DEF RequestOK, Carrying, On
<1>4. RowAt(v, now, RedisLag - 1 + Latency)
  BY <1>2, RequestAt, SessionsAssumption
     DEF RequestOK, Request, Carrying, RowLag, RowAt, RedisLag, Timely
<1>5. RedisLag - 1 + Latency \in Nat /\ RedisLag - 1 + Latency + MemTtl <= MemLag
  BY SessionsAssumption DEF RedisLag, MemLag
<1>6. MemOK(Cached(v, MemTtl))
  BY <1>3, <1>4, <1>5, FreshMem
<1>7. RowAt(v, now, MemLag - 1)
  BY <1>4, RequestAt, SessionsAssumption DEF RowAt, RedisLag, MemLag
<1>8. mem' = [mem EXCEPT ![On(r)] = Cached(v, MemTtl)] /\ Known(r, On(r), v)
  BY DEF Keep
<1> HIDE DEF v
<1> QED BY <1>1, <1>3, <1>6, <1>7, <1>8, MemPut, KnownOK, Same DEF Inv

LEMMA DbReadInv == ASSUME Inv, NEW r \in Requests, DbRead(r) PROVE Inv'
<1> DEFINE q == [pc |-> "fill", at |-> now, instance |-> On(r), value |-> row]
<1>1. Elsewhere /\ UNCHANGED <<mem, redis, gate, query>> /\ requests' = [requests EXCEPT ![r] = q]
  BY DEF DbRead, Go
<1>2. RequestOK(requests[r]) /\ requests[r].pc = "db_read"
  BY RequestAt DEF DbRead, At
<1>3. RequestOK(q)
  BY <1>2, RequestAt, SessionsAssumption
     DEF RequestOK, Request, Pcs, Carrying, RowAt, Timely, On
<1> HIDE DEF q
<1> QED BY <1>1, <1>3, RequestMoves, Same DEF Inv

LEMMA FillInv == ASSUME Inv, NEW r \in Requests, Fill(r) PROVE Inv'
<1> DEFINE v == requests[r].value
           q == [pc |-> "redis_set", at |-> now, instance |-> On(r), value |-> v]
<1>1. Elsewhere /\ UNCHANGED <<redis, gate, query>>
  BY DEF Fill
<1>2. RequestOK(requests[r]) /\ requests[r].pc = "fill"
  BY RequestAt DEF Fill, At
<1>3. v \in BOOLEAN /\ On(r) \in Instances
  BY <1>2 DEF RequestOK, Carrying, On
<1>4. RowAt(v, now, Latency)
  BY <1>2, RequestAt, SessionsAssumption DEF RequestOK, Request, Carrying, RowLag, RowAt, Timely
<1>5. Latency \in Nat /\ Latency + MemTtl <= MemLag
  BY SessionsAssumption DEF MemLag
<1>6. MemOK(Cached(v, MemTtl))
  BY <1>3, <1>4, <1>5, FreshMem
<1>7. mem' = [mem EXCEPT ![On(r)] = Cached(v, MemTtl)]
  BY DEF Fill
<1>8. MemPart'
  BY <1>1, <1>3, <1>6, <1>7, MemPut
<1>9. RequestsPart'
  <2>1. CASE Go(r, "redis_set", On(r), v)
    <3>1. RequestOK(q)
      BY <1>3, <1>4, RequestAt, SessionsAssumption
         DEF RequestOK, Request, Pcs, Carrying, RowLag, Timely
    <3>2. requests' = [requests EXCEPT ![r] = q]
      BY <2>1 DEF Go
    <3> HIDE DEF q
    <3> QED BY <1>1, <3>1, <3>2, RequestMoves
  <2>2. CASE Known(r, On(r), v)
    <3>1. RowAt(v, now, MemLag - 1)
      BY <1>4, RequestAt, SessionsAssumption DEF RowAt, MemLag
    <3> QED BY <1>1, <1>3, <2>2, <3>1, KnownOK
  <2> QED BY <2>1, <2>2 DEF Fill
<1> QED BY <1>1, <1>8, <1>9, Same DEF Inv

LEMMA RedisSetInv == ASSUME Inv, NEW r \in Requests, RedisSet(r) PROVE Inv'
<1> DEFINE v == requests[r].value
<1>1. Elsewhere /\ UNCHANGED <<mem, gate, query>>
  BY DEF RedisSet
<1>2. RequestOK(requests[r]) /\ requests[r].pc = "redis_set"
  BY RequestAt DEF RedisSet, At
<1>3. v \in BOOLEAN /\ On(r) \in Instances
  BY <1>2 DEF RequestOK, Carrying, On
<1>4. RowAt(v, now, 2 * Latency)
  BY <1>2, RequestAt, SessionsAssumption DEF RequestOK, Request, Carrying, RowLag, RowAt, Timely
<1>5. RedisOK(redis)'
  <2>1. RedisOK(Cached(v, RedisTtl))
    BY <1>3, <1>4, FreshRedis
  <2>2. RedisOK(redis')
    BY <2>1 DEF RedisSet, Inv
  <2> QED BY <1>1, <2>2 DEF RedisOK, EntryOK, RowAt, Elsewhere
<1>6. RowAt(v, now, MemLag - 1)
  BY <1>4, RequestAt, SessionsAssumption DEF RowAt, MemLag
<1>7. Known(r, On(r), v)
  BY DEF RedisSet
<1> HIDE DEF v
<1>8. RequestsPart'
  BY <1>1, <1>3, <1>6, <1>7, KnownOK
<1> QED BY <1>1, <1>5, <1>8, Same DEF Inv

LEMMA RefuseInv == ASSUME Inv, NEW r \in Requests, Refuse(r) PROVE Inv'
BY FinishOK, Same DEF Refuse, Inv

-----------------------------------------------------------------------------
(* The maintenance switch. *)

LEMMA AskGateInv == ASSUME Inv, NEW r \in Requests, AskGate(r) PROVE Inv'
<1> DEFINE i == On(r)
           q == [pc |-> "passed", at |-> now, instance |-> i, value |-> gate[i].value]
           asked == [NoQuery EXCEPT !.pc = "asked", !.at = now]
<1>1. Elsewhere /\ UNCHANGED <<mem, redis, gate>>
  BY DEF AskGate
<1>2. RequestOK(requests[r]) /\ requests[r].pc = "ask_gate"
  BY RequestAt DEF AskGate, At
<1>3. i \in Instances /\ requests[r].value \in BOOLEAN
  BY <1>2 DEF RequestOK, Carrying, On
<1>4. CASE Fresh(gate[i])
  <2>1. gate[i] # None /\ now < gate[i].expires /\ GateOK(gate[i])
    BY <1>3, <1>4 DEF Fresh, Inv, GatePart
  <2>2. gate[i].value \in BOOLEAN /\ SettingAt(gate[i].value, now, GateLag - 1)
    BY <2>1, RequestAt, SessionsAssumption DEF GateOK, EntryOK, Entry, SettingAt, GateLag
  <2>3. RequestOK(q)
    BY <1>3, <2>2, RequestAt, SessionsAssumption DEF RequestOK, Request, Pcs, Carrying, Timely
  <2>4. requests' = [requests EXCEPT ![r] = q] /\ query' = query
    BY <1>4 DEF AskGate, Go
  <2> HIDE DEF q
  <2>5. RequestsPart'
    BY <1>1, <2>3, <2>4, RequestMoves
  <2> QED BY <1>1, <2>4, <2>5, Same DEF Inv
<1>5. CASE ~Fresh(gate[i])
  <2>1. RequestsPart'
    <3>1. Go(r, "wait", i, requests[r].value)
      BY <1>5 DEF AskGate, GoTo
    <3> HIDE DEF i
    <3> QED BY <1>1, <1>3, <3>1, EmptyHanded DEF Pcs, Carrying
  <2>2. QueryPart'
    <3>1. query' = query \/ query' = [query EXCEPT ![i] = asked]
      BY <1>5 DEF AskGate
    <3>2. QueryOK(asked)
      <4>1. asked.pc = "asked" /\ asked.at = now /\ asked \in Query
        BY RequestAt, SessionsAssumption DEF NoQuery, Query
      <4> HIDE DEF asked
      <4> QED BY <4>1, RequestAt, SessionsAssumption DEF QueryOK, Query, Timely
    <3> HIDE DEF asked, i
    <3> QED BY <1>1, <1>3, <3>1, <3>2, QueryMoves, Same
  <2> QED BY <1>1, <2>1, <2>2, Same DEF Inv
<1> QED BY <1>4, <1>5

LEMMA ReadSettingInv == ASSUME Inv, NEW i \in Instances, ReadSetting(i) PROVE Inv'
<1> DEFINE good == [pc |-> "read", at |-> now, value |-> setting]
           bad  == [pc |-> "failed", at |-> now, value |-> TRUE]
<1>1. Elsewhere /\ UNCHANGED <<mem, redis, gate, requests>>
  BY DEF ReadSetting
<1>2. now \in Nat /\ setting \in BOOLEAN /\ was.setting \in Nat
  BY SessionsAssumption DEF Inv, BaseOK
<1>3. QueryOK(good) /\ QueryOK(bad)
  BY <1>2, SessionsAssumption DEF QueryOK, Query, Timely, SettingAt
<1>4. query' = [query EXCEPT ![i] = good] \/ query' = [query EXCEPT ![i] = bad]
  BY DEF ReadSetting
<1> HIDE DEF good, bad
<1>5. QueryPart'
  BY <1>1, <1>3, <1>4, QueryMoves
<1> QED BY <1>1, <1>5, Same DEF Inv

LEMMA StoreSettingInv == ASSUME Inv, NEW i \in Instances, StoreSetting(i) PROVE Inv'
<1> DEFINE v == query[i].value
<1>1. Elsewhere /\ UNCHANGED <<mem, redis>>
  BY DEF StoreSetting
<1>2. QueryOK(query[i]) /\ query[i].pc \in {"read", "failed"}
  BY DEF StoreSetting, Inv, QueryPart
<1>3. v \in BOOLEAN /\ Timely(query[i].at) /\ query[i].at \in Nat
  BY <1>2 DEF QueryOK, Query
<1>4. now \in Nat /\ was.setting \in Nat
  BY SessionsAssumption DEF Inv, BaseOK
<1>5. query[i].pc = "read" => SettingAt(v, now, Latency)
  BY <1>2, <1>3, <1>4, SessionsAssumption DEF QueryOK, SettingAt, Timely
<1>6. GatePart'
  <2>1. CASE IsCacheable(query[i])
    <3>1. GateOK(Cached(v, GateTtl))
      BY <1>3, <1>4, <1>5, <2>1, SessionsAssumption
         DEF IsCacheable, GateOK, EntryOK, Entry, Cached, SettingAt, GateLag
    <3>2. gate' = [gate EXCEPT ![i] = Cached(v, GateTtl)]
      BY <2>1 DEF StoreSetting
    <3> HIDE DEF v
    <3> QED BY <1>1, <3>1, <3>2, GatePut
  <2>2. CASE ~IsCacheable(query[i])
    BY <1>1, <2>2, Same DEF StoreSetting
  <2> QED BY <2>1, <2>2
<1>7. QueryPart'
  <2>1. QueryOK(NoQuery)
    BY DEF QueryOK, NoQuery, Query
  <2> QED BY <1>1, <2>1, QueryMoves DEF StoreSetting
<1>8. RequestsPart'
  <2>1. requests' = [x \in Requests |-> requests'[x]]
    BY DEF StoreSetting
  <2>2. ASSUME NEW x \in Requests
        PROVE  RequestOK(requests[x])'
    <3>1. RequestOK(requests'[x])
      <4>1. CASE At(x, "wait") /\ On(x) = i
        <5>1. requests'[x] = [pc |-> IF query[i].pc = "read" THEN "passed" ELSE "closed",
                              at |-> now, instance |-> i, value |-> v]
          BY <4>1 DEF StoreSetting
        <5>2. query[i].pc = "read" => SettingAt(v, now, GateLag - 1)
          BY <1>4, <1>5, SessionsAssumption DEF SettingAt, GateLag
        <5> HIDE DEF v
        <5> QED BY <1>2, <1>3, <1>4, <5>1, <5>2, SessionsAssumption
                DEF RequestOK, Request, Pcs, Carrying, Timely
      <4>2. CASE ~(At(x, "wait") /\ On(x) = i)
        <5>1. requests'[x] = requests[x]
          BY <4>2 DEF StoreSetting
        <5> QED BY <5>1 DEF Inv, RequestsPart
      <4> QED BY <4>1, <4>2
    <3> QED BY <1>1, <3>1 DEF RequestOK, Timely, RowAt, SettingAt, Elsewhere
  <2> QED BY <2>1, <2>2 DEF RequestsPart
<1> QED BY <1>1, <1>6, <1>7, <1>8, Same DEF Inv

LEMMA ServeInv == ASSUME Inv, NEW r \in Requests, Serve(r) PROVE Inv'
BY FinishOK, Same DEF Serve, Inv

-----------------------------------------------------------------------------
(* Writers.  What any place keeps was put there, or expires, no later than *)
(* now and its lag: by a write that replaces it now it is as old as that   *)
(* at most.                                                                *)

LEMMA WriteRowInv == ASSUME Inv, NEW r \in Requests, WriteRow(r) PROVE Inv'
<1>1. UNCHANGED <<now, setting, mem, redis, gate, query>> /\ row' \in BOOLEAN
  BY DEF WriteRow, Inv, BaseOK
<1>2. was' = [was EXCEPT !.row = now, !.writes = @ + 1]
  BY DEF WriteRow
<1>3. BaseOK /\ now \in Nat /\ Latency \in Nat \ {0} /\ RedisTtl \in Nat \ {0} /\ MemTtl \in Nat \ {0}
  BY SessionsAssumption DEF Inv, BaseOK
<1>4. was'.row = now /\ was'.setting = was.setting /\ was' \in [row : Nat, setting : Nat, writes : Nat]
  <2>1. was \in [row : Nat, setting : Nat, writes : Nat]
    BY <1>3 DEF BaseOK
  <2>2. was'.row = now
    BY <1>2, <2>1
  <2>3. was'.setting = was.setting
    BY <1>2, <2>1
  <2>4. was' \in [row : Nat, setting : Nat, writes : Nat]
    <3>1. now \in Nat /\ was.writes + 1 \in Nat
      BY <1>3, <2>1
    <3> QED BY <1>2, <2>1, <3>1
  <2> QED BY <2>2, <2>3, <2>4
<1>5. BaseOK'
  BY <1>1, <1>3, <1>4 DEF BaseOK
<1>6. MemPart'
  <2>1. ASSUME NEW i \in Instances
        PROVE  MemOK(mem[i])'
    <3>1. MemOK(mem[i])
      BY DEF Inv, MemPart
    <3> QED BY <1>1, <1>3, <1>4, <3>1 DEF MemOK, EntryOK, Entry, RowAt, MemLag
  <2> QED BY <1>1, <2>1 DEF Inv, MemPart
<1>7. RedisOK(redis)'
  BY <1>1, <1>3, <1>4 DEF Inv, RedisOK, EntryOK, Entry, RowAt, RedisLag
<1>8. GatePart' /\ QueryPart'
  BY <1>1, <1>4 DEF Inv, GatePart, GateOK, EntryOK, SettingAt, QueryPart, QueryOK, Timely
<1>9. RequestsPart'
  <2>1. PICK i \in Instances : Go(r, "forget", i, row')
    BY DEF WriteRow
  <2>2. requests' = [x \in Requests |-> requests'[x]]
    BY <2>1 DEF Go, Inv, RequestsPart
  <2>3. ASSUME NEW x \in Requests
        PROVE  RequestOK(requests[x])'
    <3>1. CASE x = r
      <4>1. requests'[x] = [pc |-> "forget", at |-> now, instance |-> i, value |-> row']
        BY <2>1, <3>1 DEF Go, Inv, RequestsPart
      <4> QED BY <1>1, <1>3, <4>1 DEF RequestOK, Request, Pcs, Carrying, Timely
    <3>2. CASE x # r
      <4>1. requests'[x] = requests[x] /\ RequestOK(requests[x])
        BY <2>1, <3>2 DEF Go, Inv, RequestsPart
      <4>2. requests[x].pc \in Carrying \ {"passed"} =>
              requests[x].at <= now + RowLag(requests[x].pc)
        BY <1>3, <4>1 DEF RequestOK, Request, Timely, Carrying, RowLag, MemLag, RedisLag
      <4> QED BY <1>1, <1>4, <4>1, <4>2 DEF RequestOK, Timely, RowAt, SettingAt
    <3> QED BY <3>1, <3>2
  <2> QED BY <2>2, <2>3 DEF RequestsPart
<1> QED BY <1>1, <1>5, <1>6, <1>7, <1>8, <1>9 DEF Inv

LEMMA ToggleInv == ASSUME Inv, NEW r \in Requests, Toggle(r) PROVE Inv'
<1>1. UNCHANGED <<now, row, mem, redis, gate, query>> /\ setting' \in BOOLEAN
  BY DEF Toggle, Inv, BaseOK
<1>2. was' = [was EXCEPT !.setting = now, !.writes = @ + 1]
  BY DEF Toggle
<1>3. BaseOK /\ now \in Nat /\ Latency \in Nat \ {0} /\ GateTtl \in Nat \ {0}
  BY SessionsAssumption DEF Inv, BaseOK
<1>4. was'.setting = now /\ was'.row = was.row /\ was' \in [row : Nat, setting : Nat, writes : Nat]
  <2>1. was \in [row : Nat, setting : Nat, writes : Nat]
    BY <1>3 DEF BaseOK
  <2>2. was'.setting = now
    BY <1>2, <2>1
  <2>3. was'.row = was.row
    BY <1>2, <2>1
  <2>4. was' \in [row : Nat, setting : Nat, writes : Nat]
    <3>1. now \in Nat /\ was.writes + 1 \in Nat
      BY <1>3, <2>1
    <3> QED BY <1>2, <2>1, <3>1
  <2> QED BY <2>2, <2>3, <2>4
<1>5. BaseOK'
  BY <1>1, <1>3, <1>4 DEF BaseOK
<1>6. MemPart' /\ RedisOK(redis)'
  BY <1>1, <1>4 DEF Inv, MemPart, MemOK, RedisOK, EntryOK, RowAt
<1>7. GatePart'
  <2>1. ASSUME NEW i \in Instances
        PROVE  GateOK(gate[i])'
    <3>1. GateOK(gate[i])
      BY DEF Inv, GatePart
    <3> QED BY <1>1, <1>3, <1>4, <3>1 DEF GateOK, EntryOK, Entry, SettingAt, GateLag
  <2> QED BY <1>1, <2>1 DEF Inv, GatePart
<1>8. QueryPart'
  <2>1. ASSUME NEW i \in Instances
        PROVE  QueryOK(query[i])'
    <3>1. QueryOK(query[i])
      BY DEF Inv, QueryPart
    <3> QED BY <1>1, <1>3, <1>4, <3>1 DEF QueryOK, Query, SettingAt, Timely
  <2> QED BY <1>1, <2>1 DEF Inv, QueryPart
<1>9. RequestsPart'
  <2>1. PICK i \in Instances : Go(r, "invalidate", i, setting')
    BY DEF Toggle
  <2>2. requests' = [x \in Requests |-> requests'[x]]
    BY <2>1 DEF Go, Inv, RequestsPart
  <2>3. ASSUME NEW x \in Requests
        PROVE  RequestOK(requests[x])'
    <3>1. CASE x = r
      <4>1. requests'[x] = [pc |-> "invalidate", at |-> now, instance |-> i, value |-> setting']
        BY <2>1, <3>1 DEF Go, Inv, RequestsPart
      <4> QED BY <1>1, <1>3, <4>1 DEF RequestOK, Request, Pcs, Carrying, Timely
    <3>2. CASE x # r
      <4>1. requests'[x] = requests[x] /\ RequestOK(requests[x])
        BY <2>1, <3>2 DEF Go, Inv, RequestsPart
      <4>2. requests[x].pc = "passed" => requests[x].at <= now + (GateLag - 1)
        BY <1>3, <4>1 DEF RequestOK, Request, Timely, GateLag
      <4> QED BY <1>1, <1>4, <4>1, <4>2 DEF RequestOK, Timely, RowAt, SettingAt
    <3> QED BY <3>1, <3>2
  <2> QED BY <2>2, <2>3 DEF RequestsPart
<1> QED BY <1>1, <1>5, <1>6, <1>7, <1>8, <1>9 DEF Inv

LEMMA ForgetInv == ASSUME Inv, NEW r \in Requests, Forget(r) PROVE Inv'
<1>1. Elsewhere /\ UNCHANGED <<redis, gate, query>>
  BY DEF Forget
<1>2. RequestOK(requests[r]) /\ requests[r].pc = "forget"
  BY RequestAt DEF Forget, At
<1>3. On(r) \in Instances
  BY <1>2 DEF RequestOK, On
<1>4. MemOK(None) /\ mem' = [mem EXCEPT ![On(r)] = None]
  BY DEF MemOK, Forget
<1>5. MemPart'
  BY <1>1, <1>3, <1>4, MemPut
<1>6. requests[r].value \in BOOLEAN \cup {None}
  BY <1>2 DEF RequestOK, Request
<1>7. Go(r, "redis_del", On(r), requests[r].value)
  BY DEF Forget, GoTo
<1>8. RequestsPart'
  BY <1>1, <1>3, <1>6, <1>7, EmptyHanded DEF Pcs, Carrying
<1> QED BY <1>1, <1>5, <1>8, Same DEF Inv

LEMMA RedisDelInv == ASSUME Inv, NEW r \in Requests, RedisDel(r) PROVE Inv'
<1>1. Elsewhere /\ UNCHANGED <<mem, gate, query>> /\ RequestsPart'
  BY FinishOK DEF RedisDel
<1>2. RedisOK(redis)'
  <2>1. redis' = redis \/ redis' = None
    BY DEF RedisDel
  <2> QED BY <1>1, <2>1, Same DEF RedisOK
<1> QED BY <1>1, <1>2, Same DEF Inv

LEMMA InvalidateInv == ASSUME Inv, NEW r \in Requests, Invalidate(r) PROVE Inv'
<1>1. Elsewhere /\ UNCHANGED <<mem, redis, query>> /\ RequestsPart'
  BY FinishOK DEF Invalidate
<1>2. On(r) \in Instances
  BY RequestAt DEF Invalidate, At, RequestOK, On
<1>3. GateOK(None) /\ gate' = [gate EXCEPT ![On(r)] = None]
  BY DEF GateOK, Invalidate
<1>4. GatePart'
  BY <1>1, <1>2, <1>3, GatePut
<1> QED BY <1>1, <1>4, Same DEF Inv

-----------------------------------------------------------------------------
(* Time passes: nothing gets older than it was, and no call takes longer   *)
(* than it may.                                                            *)
LEMMA TickInv == ASSUME Inv, Tick PROVE Inv'
<1>1. UNCHANGED <<row, setting, query, requests, was>> /\ now' = now + 1 /\ now < MaxTime
  BY DEF Tick
<1>2. BaseOK /\ now \in Nat /\ MaxTime \in Nat /\ Latency \in Nat \ {0}
      /\ RedisTtl \in Nat \ {0} /\ MemTtl \in Nat \ {0} /\ GateTtl \in Nat \ {0}
  BY SessionsAssumption DEF Inv, BaseOK
<1>3. BaseOK'
  BY <1>1, <1>2 DEF BaseOK
<1>4. MemPart'
  <2>1. ASSUME NEW i \in Instances
        PROVE  MemOK(mem[i])'
    <3>1. MemOK(mem[i]) /\ mem'[i] \in {None, mem[i]}
      BY DEF Inv, MemPart, Tick, Expired
    <3> QED BY <1>1, <1>2, <3>1 DEF MemOK, EntryOK, Entry, RowAt
  <2> QED BY <2>1 DEF Tick, MemPart
<1>5. GatePart'
  <2>1. ASSUME NEW i \in Instances
        PROVE  GateOK(gate[i])'
    <3>1. GateOK(gate[i]) /\ gate'[i] \in {None, gate[i]}
      BY DEF Inv, GatePart, Tick, Expired
    <3> QED BY <1>1, <1>2, <3>1 DEF GateOK, EntryOK, Entry, SettingAt
  <2> QED BY <2>1 DEF Tick, GatePart
<1>6. RedisOK(redis)'
  <2>1. RedisOK(redis) /\ redis' \in {None, redis}
    BY DEF Inv, Tick, Expired
  <2> QED BY <1>1, <1>2, <2>1 DEF RedisOK, EntryOK, Entry, RowAt
<1>7. QueryPart'
  <2>1. ASSUME NEW i \in Instances
        PROVE  QueryOK(query[i])'
    <3>1. QueryOK(query[i]) /\ (query[i].pc # "none" => now < query[i].at + Latency)
      BY DEF Inv, QueryPart, Tick
    <3> QED BY <1>1, <1>2, <3>1 DEF QueryOK, Query, SettingAt, Timely
  <2> QED BY <1>1, <2>1 DEF Inv, QueryPart
<1>8. RequestsPart'
  <2>1. ASSUME NEW r \in Requests
        PROVE  RequestOK(requests[r])'
    <3>1. RequestOK(requests[r])
      BY DEF Inv, RequestsPart
    <3>2. requests[r].pc \notin {"idle", "wait"} => now < requests[r].at + Latency
      BY DEF Tick, At
    <3>3. requests[r].pc \notin {"idle", "wait"} => Timely(requests[r].at)'
      BY <1>1, <1>2, <3>1, <3>2 DEF RequestOK, Request, Timely
    <3> QED BY <1>1, <3>1, <3>3 DEF RequestOK, RowAt, SettingAt
  <2> QED BY <1>1, <2>1 DEF Inv, RequestsPart
<1> QED BY <1>3, <1>4, <1>5, <1>6, <1>7, <1>8 DEF Inv

LEMMA InvNext == Inv /\ [Next]_vars => Inv'
<1> SUFFICES ASSUME Inv, [Next]_vars PROVE Inv'
  OBVIOUS
<1>1. ASSUME NEW r \in Requests,
             \/ Start(r) \/ RedisGet(r) \/ Keep(r) \/ DbRead(r) \/ Fill(r) \/ RedisSet(r)
             \/ Refuse(r)
      PROVE  Inv'
  BY <1>1, StartInv, RedisGetInv, KeepInv, DbReadInv, FillInv, RedisSetInv, RefuseInv
<1>2. ASSUME NEW r \in Requests, AskGate(r) \/ Serve(r) \/ Toggle(r) \/ Invalidate(r)
      PROVE  Inv'
  BY <1>2, AskGateInv, ServeInv, ToggleInv, InvalidateInv
<1>3. ASSUME NEW r \in Requests, WriteRow(r) \/ Forget(r) \/ RedisDel(r)
      PROVE  Inv'
  BY <1>3, WriteRowInv, ForgetInv, RedisDelInv
<1>4. ASSUME NEW i \in Instances, ReadSetting(i) \/ StoreSetting(i)
      PROVE  Inv'
  BY <1>4, ReadSettingInv, StoreSettingInv
<1>5. CASE UNCHANGED vars
  BY <1>5, Same DEF vars, Elsewhere, Inv
<1> QED BY <1>1, <1>2, <1>3, <1>4, <1>5, TickInv DEF Next

-----------------------------------------------------------------------------
(* The clock, the caches and the requests of every instance keep their     *)
(* types whatever calls overlap or fail (requireAuth and what it awaits).  *)
THEOREM TypeCorrect == Spec => []TypeOK
<1>1. Inv => TypeOK
  <2> SUFFICES ASSUME Inv PROVE TypeOK
    OBVIOUS
  <2>1. mem \in [Instances -> Entries]
    BY DEF Inv, MemPart, MemOK, EntryOK, Entries
  <2>2. gate \in [Instances -> Entries]
    BY DEF Inv, GatePart, GateOK, EntryOK, Entries
  <2>3. redis \in Entries
    BY DEF Inv, RedisOK, EntryOK, Entries
  <2>4. \A i \in Instances : query[i].pc \in {"none", "asked", "read", "failed"}
    BY DEF Inv, QueryPart, QueryOK, Query
  <2>5. \A r \in Requests : requests[r].pc \in Pcs
    BY DEF Inv, RequestsPart, RequestOK, Request
  <2> QED BY <2>1, <2>2, <2>3, <2>4, <2>5 DEF TypeOK, Inv, BaseOK, Pcs
<1> QED BY <1>1, InvInit, InvNext, PTL DEF Spec

(* A suspended account is out, and a restored one in, after one life in    *)
(* Redis, one in memory and three calls at the latest, on every instance,  *)
(* whatever invalidation was lost, failed or was overtaken by a late fill  *)
(* (getCurrentAccountSupabase, setAccountCache, invalidateAccountCache).   *)
THEOREM StaleAccountsLapse == Spec => []AccountsAreRecent
<1>1. Inv => AccountsAreRecent
  <2> SUFFICES ASSUME Inv, NEW r \in Requests, requests[r].pc \in {"ask_gate", "refused"},
                      requests[r].at = now
               PROVE  WasTrue(requests[r].value, row, was.row, MemTtl + RedisTtl + 3 * Latency - 2)
    BY DEF AccountsAreRecent
  <2>1. RowAt(requests[r].value, now, MemLag - 1)
    BY RequestAt DEF RequestOK, Carrying, RowLag
  <2> QED BY <2>1, RequestAt, SessionsAssumption DEF RowAt, WasTrue, MemLag
<1> QED BY <1>1, InvInit, InvNext, PTL DEF Spec

(* An instance obeys the maintenance switch as it was set no longer ago    *)
(* than one life of its cache and the query that filled it                 *)
(* (isMaintenanceMode, invalidateMaintenanceCache).                        *)
THEOREM StaleSwitchLapses == Spec => []SwitchIsRecent
<1>1. Inv => SwitchIsRecent
  <2> SUFFICES ASSUME Inv, NEW r \in Requests, At(r, "passed"), requests[r].at = now
               PROVE  WasTrue(requests[r].value, setting, was.setting, GateTtl + Latency - 1)
    BY DEF SwitchIsRecent
  <2>1. SettingAt(requests[r].value, now, GateLag - 1)
    BY RequestAt DEF RequestOK, At
  <2> QED BY <2>1, RequestAt, SessionsAssumption DEF SettingAt, WasTrue, GateLag
<1> QED BY <1>1, InvInit, InvNext, PTL DEF Spec
=============================================================================
