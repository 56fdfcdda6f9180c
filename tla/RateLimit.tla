------------------------------ MODULE RateLimit ------------------------------
(***************************************************************************)
(* The limiter of one key of one preset: a sliding window in Redis, shared *)
(* by all instances, and a fixed window in the memory of each for when     *)
(* Redis cannot be asked; and the Redis client of every instance with its  *)
(* circuit breaker.                                                        *)
(*                                                                         *)
(* Times are ages and remaining times, so that the clock needs no bound.   *)
(* The clocks of the instances agree.  The key is one of fewer than        *)
(* MEMORY_MAX_KEYS, and its preset allows MaxRequests requests.            *)
(***************************************************************************)
EXTENDS Naturals, FiniteSets

CONSTANTS Instances, Requests, None,
          MaxRequests,
          Window,           \* windowMs
          Cooldown,         \* BREAKER_COOLDOWN_MS
          Latency           \* REDIS_OP_TIMEOUT_MS

(* MemoryBucket; one that is over is no older than that.                   *)
Bucket == [count : 0 .. MaxRequests, age : 0 .. Window]

ASSUME RateLimitAssumption ==
    /\ MaxRequests \in Nat \ {0} /\ Window \in Nat \ {0}
    /\ Cooldown \in Nat \ {0} /\ Latency \in Nat \ {0} /\ Latency < Window
    /\ None \notin Instances /\ None \notin Bucket

VARIABLES up,               \* whether Redis answers in time
          status,           \* of the client of each instance
          refused,          \* whether a wrong password set its initError
          breaker,          \* time left until unhealthyUntil
          reviving,         \* reviveInFlight
          log,              \* entries of the key in Redis, by the age of their score
          bucket,           \* memoryBuckets, by instance
          requests,
          passed,           \* history: requests Redis admitted, by age of the score
          let               \* history: requests each memory admitted, by age

vars == <<up, status, refused, breaker, reviving, log, bucket, requests, passed, let>>

client == <<status, refused, breaker, reviving>>

(* An older entry is removed by whatever script comes next.                *)
Ages == 0 .. (Window + Latency - 1)

Recent == 0 .. (Window - 1)

Nothing(ages) == [a \in ages |-> 0]

(* The members of those ages, and how many they are (ZCARD).               *)
Entries(counts, ages) == UNION {{a} \X (1 .. counts[a]) : a \in ages}

Total(counts, ages) == Cardinality(Entries(counts, ages))

Idle == [pc |-> "idle", instance |-> None, age |-> 0]

Init ==
    /\ up = TRUE
    /\ status = [i \in Instances |-> "ready"]
    /\ refused = [i \in Instances |-> FALSE]
    /\ breaker = [i \in Instances |-> 0]
    /\ reviving = [i \in Instances |-> FALSE]
    /\ log = Nothing(Ages) /\ passed = Nothing(Recent)
    /\ bucket = [i \in Instances |-> None]
    /\ let = [i \in Instances |-> Nothing(Recent)]
    /\ requests = [r \in Requests |-> Idle]

-----------------------------------------------------------------------------
(* memoryLimit.  A window that is over starts again with this request.     *)
Restarted(b) == [count |-> 0, age |-> 0]

Current(i) ==
    IF bucket[i] = None THEN [count |-> 0, age |-> 0]
    ELSE IF bucket[i].age >= Window THEN Restarted(bucket[i])
    ELSE bucket[i]

MemoryLimit(i) ==
    LET b == Current(i)
    IN  IF b.count < MaxRequests
        THEN /\ bucket' = [bucket EXCEPT ![i] = [b EXCEPT !.count = @ + 1]]
             /\ let' = [let EXCEPT ![i][0] = @ + 1]
        ELSE bucket' = [bucket EXCEPT ![i] = b] /\ UNCHANGED let

-----------------------------------------------------------------------------
(* isRedisAvailable; a client that has given up is revived on the way,     *)
(* unless its password was refused: then Redis stays off for good.         *)
IsOpen(i) == ~refused[i] /\ breaker[i] = 0

IsRedisAvailable(i) == IsOpen(i) /\ status[i] # "end"

(* reviveDeadClient, one at a time. *)
ReviveDeadClient(i) ==
    IF IsOpen(i) /\ status[i] = "end" /\ ~reviving[i]
    THEN /\ reviving' = [reviving EXCEPT ![i] = TRUE]
         /\ status' = [status EXCEPT ![i] = "connecting"]
    ELSE UNCHANGED <<reviving, status>>

(* rateLimit: Redis is asked, or the memory at once. *)
Ask(r, i) ==
    /\ requests[r].pc = "idle"
    /\ IF IsRedisAvailable(i)
       THEN /\ requests' = [requests EXCEPT ![r] = [pc |-> "eval", instance |-> i, age |-> 0]]
            /\ UNCHANGED <<bucket, let>>
       ELSE MemoryLimit(i) /\ UNCHANGED requests
    /\ ReviveDeadClient(i)
    /\ UNCHANGED <<up, refused, breaker, log, passed>>

(* The script, with the time at which the request asked: entries that are  *)
(* a window older than that go, and the request is added if there is room. *)
Kept(r) == [a \in Ages |-> IF a >= Window + requests[r].age THEN 0 ELSE log[a]]

HasRoom_OneMore(count) == count <= MaxRequests

HasRoom(count) == count < MaxRequests

Script(r) ==
    LET kept == Kept(r)
    IN  IF HasRoom(Total(kept, Ages))
        THEN log' = [kept EXCEPT ![requests[r].age] = @ + 1]
        ELSE log' = kept

(* Redis answers. *)
Eval(r) ==
    /\ requests[r].pc = "eval"
    /\ up /\ status[requests[r].instance] = "ready"
    /\ Script(r)
    /\ passed' = IF HasRoom(Total(Kept(r), Ages))
                 THEN [passed EXCEPT ![requests[r].age] = @ + 1] ELSE passed
    /\ requests' = [requests EXCEPT ![r] = Idle]
    /\ UNCHANGED <<up, bucket, let>> /\ UNCHANGED client

(* Redis fails to answer in time, whether it ran the script or not, or the *)
(* client refuses the call; only a time-out opens the breaker.  Then the   *)
(* memory decides.                                                         *)
Fail(r) ==
    /\ requests[r].pc = "eval"
    /\ LET i == requests[r].instance
       IN  /\ ~up \/ status[i] # "ready"
           /\ Script(r) \/ UNCHANGED log
           /\ breaker' \in {breaker, [breaker EXCEPT ![i] = Cooldown]}
           /\ MemoryLimit(i)
    /\ requests' = [requests EXCEPT ![r] = Idle]
    /\ UNCHANGED <<up, status, refused, reviving, passed>>

-----------------------------------------------------------------------------
AfterRevival_OnlySuccess(i) == IF up THEN [reviving EXCEPT ![i] = FALSE] ELSE reviving

(* finally *)
AfterRevival(i) == [reviving EXCEPT ![i] = FALSE]

(* The background connection of a client that had given up; if it fails,   *)
(* the breaker opens, and the client retries or gives up again.            *)
Revive(i) ==
    /\ status[i] = "connecting"
    /\ status' \in {[status EXCEPT ![i] = s] : s \in IF up THEN {"ready"}
                                                       ELSE {"reconnecting", "end"}}
    /\ breaker' = IF up THEN breaker ELSE [breaker EXCEPT ![i] = Cooldown]
    /\ reviving' = AfterRevival(i)
    /\ UNCHANGED <<up, refused, log, bucket, requests, passed, let>>

(* The connection is lost, found again by one of the three retries, or     *)
(* given up, at once if a command had been refused (authFailed); each      *)
(* error event opens the breaker.                                          *)
Lose(i) ==
    /\ ~up /\ status[i] = "ready"
    /\ status' \in {[status EXCEPT ![i] = s] : s \in {"reconnecting", "end"}}
    /\ breaker' = [breaker EXCEPT ![i] = Cooldown]
    /\ UNCHANGED <<up, refused, reviving, log, bucket, requests, passed, let>>

Reconnect(i) ==
    /\ status[i] = "reconnecting"
    /\ status' = [status EXCEPT ![i] = IF up THEN "ready" ELSE "end"]
    /\ breaker' = IF up THEN breaker ELSE [breaker EXCEPT ![i] = Cooldown]
    /\ UNCHANGED <<up, refused, reviving, log, bucket, requests, passed, let>>

(* Redis answers a connection attempt with WRONGPASS or NOAUTH: the error  *)
(* event sets initError, which nothing resets, and disconnects the client. *)
(* A revival fails by it, and opens the breaker as well.                   *)
RefusePassword(i) ==
    /\ up /\ status[i] \in {"connecting", "reconnecting"}
    /\ refused' = [refused EXCEPT ![i] = TRUE]
    /\ status' = [status EXCEPT ![i] = "end"]
    /\ breaker' = IF status[i] = "connecting" THEN [breaker EXCEPT ![i] = Cooldown] ELSE breaker
    /\ reviving' = IF status[i] = "connecting" THEN AfterRevival(i) ELSE reviving
    /\ UNCHANGED <<up, log, bucket, requests, passed, let>>

Break == up /\ up' = FALSE /\ UNCHANGED <<log, bucket, requests, passed, let>> /\ UNCHANGED client

Repair == ~up /\ up' = TRUE /\ UNCHANGED <<log, bucket, requests, passed, let>> /\ UNCHANGED client

-----------------------------------------------------------------------------
Older(counts, ages) == [a \in ages |-> IF a = 0 THEN 0 ELSE counts[a - 1]]

Tick ==
    /\ \A r \in Requests : requests[r].pc = "eval" => requests[r].age < Latency
    /\ breaker' = [i \in Instances |-> IF breaker[i] = 0 THEN 0 ELSE breaker[i] - 1]
    /\ log' = Older(log, Ages) /\ passed' = Older(passed, Recent)
    /\ let' = [i \in Instances |-> Older(let[i], Recent)]
    /\ bucket' = [i \in Instances |->
           IF bucket[i] = None \/ bucket[i].age = Window THEN bucket[i]
           ELSE [bucket[i] EXCEPT !.age = @ + 1]]
    /\ requests' = [r \in Requests |->
           IF requests[r].pc = "eval" THEN [requests[r] EXCEPT !.age = @ + 1] ELSE requests[r]]
    /\ UNCHANGED <<up, status, refused, reviving>>

ClientStep(i) == Revive(i) \/ Reconnect(i)

Next ==
    \/ \E r \in Requests : (\E i \in Instances : Ask(r, i)) \/ Eval(r) \/ Fail(r)
    \/ \E i \in Instances : ClientStep(i) \/ Lose(i) \/ RefusePassword(i)
    \/ Break \/ Repair \/ Tick

(* Time passes, calls are answered or time out, the client pursues its     *)
(* reconnections, and requests keep coming to every instance.  Redis owes  *)
(* nothing.                                                                *)
Fairness ==
    /\ WF_vars(Tick)
    /\ \A r \in Requests : WF_vars(Eval(r) \/ Fail(r))
    /\ \A i \in Instances : WF_vars(ClientStep(i)) /\ SF_vars(\E r \in Requests : Ask(r, i))

Spec == Init /\ [][Next]_vars /\ Fairness

-----------------------------------------------------------------------------
(* Properties. *)

(* Everything is of its type; Redis holds no more than MaxRequests entries. *)
TypeOK ==
    /\ up \in BOOLEAN /\ reviving \in [Instances -> BOOLEAN]
    /\ refused \in [Instances -> BOOLEAN]
    /\ status \in [Instances -> {"ready", "reconnecting", "connecting", "end"}]
    /\ breaker \in [Instances -> 0 .. Cooldown]
    /\ log \in [Ages -> 0 .. MaxRequests] /\ Total(log, Ages) <= MaxRequests
    /\ bucket \in [Instances -> Bucket \cup {None}]
    /\ \A r \in Requests : requests[r].pc \in {"idle", "eval"}

(* Of the requests that asked within the last window, Redis has at no      *)
(* moment admitted more than MaxRequests.  (A call that comes late counts  *)
(* by the time it was sent, and a later script may have removed what it    *)
(* should have seen: of any window, the part that is left is a window less *)
(* the time a call takes.)                                                 *)
RedisWindow == Total(passed, Recent) <= MaxRequests

(* The memory of an instance admits no more than twice MaxRequests within  *)
(* a window, at the seam of two of its fixed windows.                      *)
MemoryWindow ==
    \A i \in Instances : Total(let[i], Recent) <= 2 * MaxRequests

(* Once Redis answers for good, every instance uses it again and again,    *)
(* except one whose password Redis has refused: that one needs a restart.  *)
Recovers ==
    <>[]up =>
        \A i \in Instances :
            \/ <>refused[i]
            \/ []<>(status[i] = "ready" /\ \E r \in Requests : requests[r].instance = i)
=============================================================================
