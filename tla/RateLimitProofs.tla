--------------------------- MODULE RateLimitProofs ---------------------------
(***************************************************************************)
(* Proofs about RateLimit: how many requests each limiter lets through.    *)
(***************************************************************************)
EXTENDS RateLimit, Integers, FiniteSetTheorems, TLAPS

(***************************************************************************)
(* Members, counted by age.                                                *)
(***************************************************************************)

(* A member is an age and a number.                                        *)
LEMMA EntryIn ==
    ASSUME NEW counts, NEW ages, NEW a \in ages, NEW k \in 1 .. counts[a]
    PROVE  <<a, k>> \in Entries(counts, ages)
  BY DEF Entries

(* The members of finitely many ages are finitely many.                    *)
LEMMA EntriesAreFinite ==
    ASSUME NEW n \in Nat, NEW ages \in SUBSET (0 .. n), NEW counts,
           \A a \in ages : counts[a] \in Nat
    PROVE  IsFiniteSet(Entries(counts, ages)) /\ Total(counts, ages) \in Nat
<1> DEFINE f == [a \in ages |-> {a} \X (1 .. counts[a])]
<1> DEFINE blocks == {{a} \X (1 .. counts[a]) : a \in ages}
<1>1. IsFiniteSet(ages)
  <2>1. IsFiniteSet(0 .. n)
    BY FS_Interval
  <2> QED BY <2>1, FS_Subset
<1>2. f \in Surjection(ages, blocks)
  BY DEF Surjection
<1>3. IsFiniteSet(blocks)
  <2> HIDE DEF f, blocks
  <2> QED BY <1>1, <1>2, FS_Surjection
<1>4. ASSUME NEW a \in ages PROVE IsFiniteSet({a} \X (1 .. counts[a]))
  <2>1. IsFiniteSet({a})
    BY FS_Singleton
  <2>2. IsFiniteSet(1 .. counts[a])
    BY FS_Interval
  <2> QED BY <2>1, <2>2, FS_Product
<1>5. \A block \in blocks : IsFiniteSet(block)
  BY <1>4
<1>6. IsFiniteSet(UNION blocks)
  <2> HIDE DEF blocks
  <2> QED BY <1>3, <1>5, FS_UNION
<1>7. IsFiniteSet(Entries(counts, ages))
  BY <1>6 DEF Entries
<1> QED BY <1>7, FS_CardinalityType DEF Total

(* Fewer ages and fewer at each of them are fewer members.                 *)
LEMMA TotalIsMonotone ==
    ASSUME NEW n \in Nat, NEW ages \in SUBSET (0 .. n), NEW fewer \in SUBSET ages,
           NEW counts, \A a \in ages : counts[a] \in Nat,
           NEW less, \A a \in fewer : less[a] \in Nat /\ less[a] <= counts[a]
    PROVE  Total(less, fewer) <= Total(counts, ages)
<1>1. Entries(less, fewer) \subseteq Entries(counts, ages)
  <2> SUFFICES ASSUME NEW e \in Entries(less, fewer) PROVE e \in Entries(counts, ages)
    OBVIOUS
  <2>1. PICK a \in fewer : \E k \in 1 .. less[a] : e = <<a, k>>
    BY DEF Entries
  <2>2. PICK k \in 1 .. less[a] : e = <<a, k>>
    BY <2>1
  <2>3. k \in 1 .. counts[a]
    OBVIOUS
  <2> QED BY <2>2, <2>3, EntryIn
<1>2. IsFiniteSet(Entries(counts, ages))
  BY EntriesAreFinite
<1> QED BY <1>1, <1>2, FS_Subset DEF Total

(* None at any age are none.                                               *)
LEMMA TotalOfNone ==
    ASSUME NEW ages, NEW counts, \A a \in ages : counts[a] = 0
    PROVE  Total(counts, ages) = 0
<1>1. Entries(counts, ages) = {}
  BY DEF Entries
<1> QED BY <1>1, FS_EmptySet DEF Total

(* There are at least as many as at any one age.                           *)
LEMMA CountIsInTotal ==
    ASSUME NEW n \in Nat, NEW ages \in SUBSET (0 .. n), NEW counts,
           \A a \in ages : counts[a] \in Nat,
           NEW a \in ages
    PROVE  counts[a] <= Total(counts, ages)
<1>1. {a} \X (1 .. counts[a]) \subseteq Entries(counts, ages)
  BY DEF Entries
<1>2. IsFiniteSet(Entries(counts, ages))
  BY EntriesAreFinite
<1>3. Cardinality({a} \X (1 .. counts[a])) <= Total(counts, ages)
  BY <1>1, <1>2, FS_Subset DEF Total
<1>4. IsFiniteSet({a}) /\ Cardinality({a}) = 1
  BY FS_Singleton
<1>5. IsFiniteSet(1 .. counts[a]) /\ Cardinality(1 .. counts[a]) = counts[a]
  <2> DEFINE b == counts[a]
  <2>1. b \in Nat
    OBVIOUS
  <2> HIDE DEF b
  <2>2. IsFiniteSet(1 .. b) /\ Cardinality(1 .. b) = IF 1 > b THEN 0 ELSE b - 1 + 1
    BY <2>1, FS_Interval
  <2> QED BY <2>1, <2>2 DEF b
<1>6. Cardinality({a} \X (1 .. counts[a])) = 1 * counts[a]
  BY <1>4, <1>5, FS_Product
<1> QED BY <1>3, <1>6

(* One more at one age is one more.                                        *)
LEMMA TotalOfOneMore ==
    ASSUME NEW n \in Nat, NEW ages \in SUBSET (0 .. n), NEW counts,
           \A a \in ages : counts[a] \in Nat,
           NEW at \in ages, NEW more,
           more[at] = counts[at] + 1, \A a \in ages \ {at} : more[a] = counts[a]
    PROVE  Total(more, ages) = Total(counts, ages) + 1
<1> DEFINE new == <<at, counts[at] + 1>>
<1>1. Entries(more, ages) = Entries(counts, ages) \cup {new}
  <2>1. ASSUME NEW e \in Entries(more, ages) PROVE e \in Entries(counts, ages) \cup {new}
    <3>1. PICK a \in ages : \E k \in 1 .. more[a] : e = <<a, k>>
      BY <2>1 DEF Entries
    <3>2. PICK k \in 1 .. more[a] : e = <<a, k>>
      BY <3>1
    <3>3. CASE a = at
      <4>1. k \in 1 .. counts[at] \/ k = counts[at] + 1
        BY <3>3
      <4>2. CASE k = counts[at] + 1
        BY <3>2, <3>3, <4>2
      <4>3. CASE k \in 1 .. counts[at]
        BY <3>2, <3>3, <4>3, EntryIn
      <4> QED BY <4>1, <4>2, <4>3
    <3>4. CASE a # at
      <4>1. more[a] = counts[a]
        BY <3>4
      <4> QED BY <3>2, <4>1, EntryIn
    <3> QED BY <3>3, <3>4
  <2>2. ASSUME NEW e \in Entries(counts, ages) PROVE e \in Entries(more, ages)
    <3>1. PICK a \in ages : \E k \in 1 .. counts[a] : e = <<a, k>>
      BY <2>2 DEF Entries
    <3>2. PICK k \in 1 .. counts[a] : e = <<a, k>>
      BY <3>1
    <3>3. more[a] \in Nat /\ counts[a] <= more[a]
      <4>1. CASE a = at
        BY <4>1
      <4>2. CASE a # at
        BY <4>2
      <4> QED BY <4>1, <4>2
    <3>4. k \in 1 .. more[a]
      BY <3>3
    <3> QED BY <3>2, <3>4, EntryIn
  <2>3. new \in Entries(more, ages)
    <3>1. counts[at] + 1 \in 1 .. more[at]
      OBVIOUS
    <3> QED BY <3>1, EntryIn
  <2> QED BY <2>1, <2>2, <2>3
<1>2. new \notin Entries(counts, ages)
  <2>1. ASSUME NEW a \in ages, NEW k \in 1 .. counts[a], new = <<a, k>> PROVE FALSE
    BY <2>1
  <2> QED BY <2>1 DEF Entries
<1>3. IsFiniteSet(Entries(counts, ages))
  BY EntriesAreFinite
<1> HIDE DEF new
<1>4. Cardinality(Entries(counts, ages) \cup {new}) = Cardinality(Entries(counts, ages)) + 1
  BY <1>2, <1>3, FS_AddElement
<1> QED BY <1>1, <1>4 DEF Total

(* The members of two sets of ages are no more than those of each.         *)
LEMMA TotalOfUnion ==
    ASSUME NEW n \in Nat, NEW first \in SUBSET (0 .. n), NEW second \in SUBSET (0 .. n),
           NEW counts, \A a \in first \cup second : counts[a] \in Nat
    PROVE  Total(counts, first \cup second) <= Total(counts, first) + Total(counts, second)
<1>1. Entries(counts, first \cup second) = Entries(counts, first) \cup Entries(counts, second)
  BY DEF Entries
<1>2. IsFiniteSet(Entries(counts, first)) /\ IsFiniteSet(Entries(counts, second))
  BY EntriesAreFinite
<1>3. Cardinality(Entries(counts, first) \cap Entries(counts, second)) \in Nat
  BY <1>2, FS_Intersection, FS_CardinalityType
<1>4. Total(counts, first) \in Nat /\ Total(counts, second) \in Nat
  BY EntriesAreFinite
<1>5. Cardinality(Entries(counts, first) \cup Entries(counts, second))
        = Cardinality(Entries(counts, first)) + Cardinality(Entries(counts, second))
            - Cardinality(Entries(counts, first) \cap Entries(counts, second))
  BY <1>2, FS_Union
<1>6. Total(counts, first \cup second)
        = Total(counts, first) + Total(counts, second)
            - Cardinality(Entries(counts, first) \cap Entries(counts, second))
  BY <1>1, <1>5 DEF Total
<1> QED BY <1>3, <1>4, <1>6

(* When all grow older by one, those whose new ages are among some were    *)
(* among those a tick younger.                                             *)
LEMMA TotalOfOlder ==
    ASSUME NEW n \in Nat, NEW counts \in [0 .. n -> Nat],
           NEW now \in SUBSET (0 .. n), NEW before \in SUBSET (0 .. n),
           \A a \in now : a # 0 => a - 1 \in before
    PROVE  Total(Older(counts, 0 .. n), now) <= Total(counts, before)
<1> DEFINE older == Older(counts, 0 .. n)
<1> DEFINE f == [e \in Entries(older, now) |-> <<e[1] - 1, e[2]>>]
<1>1. ASSUME NEW a \in now, NEW k \in 1 .. older[a]
      PROVE  a # 0 /\ a - 1 \in before /\ k \in 1 .. counts[a - 1]
  BY DEF Older
<1> HIDE DEF older
<1>2. ASSUME NEW e \in Entries(older, now)
      PROVE  \E a \in Nat : \E k \in Nat : e = <<a, k>> /\ <<a - 1, k>> \in Entries(counts, before)
  <2>1. PICK a \in now : \E k \in 1 .. older[a] : e = <<a, k>>
    BY DEF Entries
  <2>2. PICK k \in 1 .. older[a] : e = <<a, k>>
    BY <2>1
  <2>3. a - 1 \in before /\ k \in 1 .. counts[a - 1]
    BY <1>1
  <2>4. <<a - 1, k>> \in Entries(counts, before)
    BY <2>3, EntryIn
  <2>5. a \in Nat /\ k \in Nat
    OBVIOUS
  <2> QED BY <2>2, <2>4, <2>5
<1>3. f \in [Entries(older, now) -> Entries(counts, before)]
  <2>1. ASSUME NEW e \in Entries(older, now) PROVE <<e[1] - 1, e[2]>> \in Entries(counts, before)
    <3>1. PICK a \in Nat, k \in Nat : e = <<a, k>> /\ <<a - 1, k>> \in Entries(counts, before)
      BY <1>2
    <3> QED BY <3>1
  <2> QED BY <2>1
<1>4. ASSUME NEW d \in Entries(older, now), NEW e \in Entries(older, now), f[d] = f[e]
      PROVE  d = e
  <2>1. PICK a \in Nat, k \in Nat : d = <<a, k>>
    BY <1>2
  <2>2. PICK b \in Nat, l \in Nat : e = <<b, l>>
    BY <1>2
  <2>3. f[d] = <<a - 1, k>>
    BY <2>1
  <2>4. f[e] = <<b - 1, l>>
    BY <2>2
  <2>5. a - 1 = b - 1 /\ k = l
    BY <1>4, <2>3, <2>4
  <2>6. a = b
    BY <2>5
  <2> QED BY <2>1, <2>2, <2>5, <2>6
<1>5. f \in Injection(Entries(older, now), Entries(counts, before))
  <2> HIDE DEF f
  <2> QED BY <1>3, <1>4 DEF Injection, IsInjective
<1>6. IsFiniteSet(Entries(counts, before))
  BY EntriesAreFinite
<1>7. Cardinality(Entries(older, now)) <= Cardinality(Entries(counts, before))
  <2> HIDE DEF f
  <2> QED BY <1>5, <1>6, FS_Injection
<1> QED BY <1>7 DEF Total, older

-----------------------------------------------------------------------------
(***************************************************************************)
(* The inductive invariant.                                                *)
(***************************************************************************)

Request == {Idle} \cup [pc : {"eval"}, instance : Instances, age : 0 .. Latency]

Typed ==
    /\ up \in BOOLEAN /\ reviving \in [Instances -> BOOLEAN]
    /\ refused \in [Instances -> BOOLEAN]
    /\ status \in [Instances -> {"ready", "reconnecting", "connecting", "end"}]
    /\ breaker \in [Instances -> 0 .. Cooldown]
    /\ bucket \in [Instances -> Bucket \cup {None}]
    /\ requests \in [Requests -> Request]

(* What Redis admitted within the window is still in its log: a script     *)
(* removes only what is a window older than its own request.               *)
Logged ==
    /\ log \in [Ages -> Nat] /\ passed \in [Recent -> Nat]
    /\ \A a \in Recent : passed[a] <= log[a]
    /\ Total(log, Ages) <= MaxRequests

(* What a memory admitted since its bucket began is in the bucket's count; *)
(* what it admitted before was in the count of the bucket before.  A       *)
(* window that is over admits nothing more: the next request restarts it.  *)
Since(b) == {a \in Recent : a <= b.age}

Before(b) == {a \in Recent : a > b.age}

Fits(counts, b) ==
    IF b = None THEN \A a \in Recent : counts[a] = 0
    ELSE /\ Total(counts, Since(b)) <= b.count
         /\ Total(counts, Before(b)) <= MaxRequests
         /\ b.age = Window => counts[0] = 0

Remembered ==
    /\ let \in [Instances -> [Recent -> Nat]]
    /\ \A i \in Instances : Fits(let[i], bucket[i])

LimitInv == Typed /\ Logged /\ Remembered

-----------------------------------------------------------------------------
(***************************************************************************)
(* The window in Redis.                                                    *)
(***************************************************************************)

LEMMA LatestIsAnAge == Window - 1 \in Nat /\ Window + Latency - 1 \in Nat
                         /\ Recent \subseteq Ages /\ 0 .. Latency \subseteq Recent
  BY RateLimitAssumption DEF Recent, Ages

(* A script keeps the log within the limit and whatever is recent in it;   *)
(* with room, it adds its request.                                         *)
LEMMA ScriptKeeps ==
    ASSUME Typed, Logged, NEW r \in Requests, requests[r].pc = "eval", Script(r)
    PROVE  /\ requests[r].age \in 0 .. Latency
           /\ log' \in [Ages -> Nat] /\ Total(log', Ages) <= MaxRequests
           /\ \A a \in Recent : log[a] <= log'[a]
           /\ HasRoom(Total(Kept(r), Ages)) => log[requests[r].age] + 1 <= log'[requests[r].age]
<1> DEFINE age == requests[r].age
<1> DEFINE kept == Kept(r)
<1> DEFINE n == Window + Latency - 1
<1>1. age \in 0 .. Latency /\ age \in Recent /\ age \in Ages
  BY LatestIsAnAge DEF Typed, Request, Idle
<1>2. kept \in [Ages -> Nat] /\ \A a \in Ages : kept[a] <= log[a]
  BY RateLimitAssumption, <1>1 DEF Kept, Logged
<1>3. ASSUME NEW a \in Recent PROVE kept[a] = log[a]
  <2>1. a \in Ages
    BY LatestIsAnAge
  <2>2. ~(a >= Window + age)
    <3> HIDE DEF age
    <3> QED BY RateLimitAssumption, <1>1 DEF Recent
  <2> QED BY <2>1, <2>2 DEF Kept
<1>4. Total(kept, Ages) <= Total(log, Ages)
  <2> HIDE DEF kept
  <2>1. n \in Nat /\ Ages \in SUBSET (0 .. n)
    BY LatestIsAnAge DEF Ages
  <2>2. \A a \in Ages : log[a] \in Nat
    BY DEF Logged
  <2> HIDE DEF n
  <2> QED BY <1>2, <2>1, <2>2, TotalIsMonotone
<1>5. Total(kept, Ages) \in Nat /\ Total(log, Ages) \in Nat
  <2> HIDE DEF kept
  <2>1. n \in Nat /\ Ages \in SUBSET (0 .. n)
    BY LatestIsAnAge DEF Ages
  <2>2. \A a \in Ages : log[a] \in Nat /\ kept[a] \in Nat
    BY <1>2 DEF Logged
  <2> HIDE DEF n
  <2> QED BY <2>1, <2>2, EntriesAreFinite
<1>6. CASE HasRoom(Total(kept, Ages))
  <2>1. log' = [kept EXCEPT ![age] = @ + 1]
    BY <1>6 DEF Script
  <2> HIDE DEF kept, age
  <2>2. log' \in [Ages -> Nat] /\ log'[age] = kept[age] + 1
        /\ \A a \in Ages \ {age} : log'[a] = kept[a]
    BY <1>1, <1>2, <2>1
  <2>3. Total(log', Ages) = Total(kept, Ages) + 1
    <3>1. n \in Nat /\ Ages \in SUBSET (0 .. n)
      BY LatestIsAnAge DEF Ages
    <3>2. \A a \in Ages : kept[a] \in Nat
      BY <1>2
    <3> HIDE DEF n
    <3> QED BY <1>1, <2>2, <3>1, <3>2, TotalOfOneMore
  <2>4. Total(log', Ages) <= MaxRequests
    BY <1>5, <1>6, <2>3, RateLimitAssumption DEF HasRoom
  <2>5. \A a \in Recent : log[a] <= log'[a]
    <3>1. ASSUME NEW a \in Recent PROVE log[a] <= log'[a]
      <4>1. a \in Ages /\ log[a] \in Nat /\ kept[a] = log[a]
        BY <1>3, LatestIsAnAge DEF Logged
      <4>2. CASE a = age
        BY <4>1, <4>2, <2>2
      <4>3. CASE a # age
        BY <4>1, <4>3, <2>2
      <4> QED BY <4>2, <4>3
    <3> QED BY <3>1
  <2>6. log[age] \in Nat /\ kept[age] = log[age]
    BY <1>1, <1>3 DEF Logged
  <2>7. log[age] + 1 <= log'[age]
    BY <2>2, <2>6
  <2> QED BY <1>1, <2>2, <2>4, <2>5, <2>7 DEF age
<1>7. CASE ~HasRoom(Total(kept, Ages))
  <2>1. log' = kept
    BY <1>7 DEF Script
  <2>2. \A a \in Recent : log[a] \in Nat /\ log[a] <= log'[a]
    BY <1>3, <2>1, LatestIsAnAge DEF Logged
  <2>3. Total(log', Ages) <= MaxRequests
    BY <1>4, <1>5, <2>1, RateLimitAssumption DEF Logged
  <2> QED BY <1>1, <1>2, <1>7, <2>1, <2>2, <2>3
<1> QED BY <1>6, <1>7

(* Redis answers, and its answer is counted.                               *)
LEMMA EvalKeepsLogged ==
    ASSUME Typed, Logged, NEW r \in Requests, Eval(r)
    PROVE  Logged'
<1> DEFINE age == requests[r].age
<1>1. /\ age \in 0 .. Latency
      /\ log' \in [Ages -> Nat] /\ Total(log', Ages) <= MaxRequests
      /\ \A a \in Recent : log[a] <= log'[a]
      /\ HasRoom(Total(Kept(r), Ages)) => log[age] + 1 <= log'[age]
  BY ScriptKeeps DEF Eval
<1>2. age \in Recent
  BY <1>1, LatestIsAnAge
<1>3. \A a \in Recent : log[a] \in Nat /\ log'[a] \in Nat /\ passed[a] \in Nat
  BY <1>1, LatestIsAnAge DEF Logged
<1>4. CASE HasRoom(Total(Kept(r), Ages))
  <2>1. passed' = [passed EXCEPT ![age] = @ + 1]
    BY <1>4 DEF Eval
  <2>2. passed' \in [Recent -> Nat] /\ passed'[age] = passed[age] + 1
        /\ \A a \in Recent \ {age} : passed'[a] = passed[a]
    <3> HIDE DEF age
    <3> QED BY <1>2, <1>3, <2>1 DEF Logged
  <2>3. ASSUME NEW a \in Recent PROVE passed'[a] <= log'[a]
    <3>1. passed[a] <= log[a] /\ log[a] <= log'[a]
      BY <1>1 DEF Logged
    <3>2. CASE a = age
      BY <1>1, <1>3, <1>4, <2>2, <3>1, <3>2
    <3>3. CASE a # age
      BY <1>3, <2>2, <3>1, <3>3
    <3> QED BY <3>2, <3>3
  <2> QED BY <1>1, <2>2, <2>3 DEF Logged
<1>5. CASE ~HasRoom(Total(Kept(r), Ages))
  <2>1. passed' = passed
    BY <1>5 DEF Eval
  <2>2. \A a \in Recent : passed'[a] <= log'[a]
    BY <1>1, <1>3, <2>1 DEF Logged
  <2> QED BY <1>1, <2>1, <2>2 DEF Logged
<1> QED BY <1>4, <1>5

(* A call that fails may have run its script all the same.                 *)
LEMMA FailKeepsLogged ==
    ASSUME Typed, Logged, NEW r \in Requests, Fail(r)
    PROVE  Logged'
<1>1. requests[r].pc = "eval" /\ passed' = passed
  BY DEF Fail
<1>2. CASE Script(r)
  <2>1. /\ log' \in [Ages -> Nat] /\ Total(log', Ages) <= MaxRequests
        /\ \A a \in Recent : log[a] <= log'[a]
    BY <1>1, <1>2, ScriptKeeps
  <2>2. \A a \in Recent : log[a] \in Nat /\ log'[a] \in Nat /\ passed[a] \in Nat
    BY <2>1, LatestIsAnAge DEF Logged
  <2>3. \A a \in Recent : passed'[a] <= log'[a]
    BY <1>1, <2>1, <2>2 DEF Logged
  <2> QED BY <1>1, <2>1, <2>3 DEF Logged
<1>3. CASE UNCHANGED log
  BY <1>1, <1>3 DEF Logged
<1> QED BY <1>2, <1>3 DEF Fail

(* Time passes for the log and for the history alike.                      *)
LEMMA TickKeepsLogged ==
    ASSUME Logged, Tick
    PROVE  Logged'
<1> DEFINE n == Window + Latency - 1
<1>1. log' = Older(log, Ages) /\ passed' = Older(passed, Recent)
  BY DEF Tick
<1>2. n \in Nat /\ Ages = 0 .. n
  BY LatestIsAnAge DEF Ages
<1>3. log' \in [Ages -> Nat]
  BY <1>1, LatestIsAnAge DEF Logged, Older, Ages
<1>4. passed' \in [Recent -> Nat]
  BY <1>1, LatestIsAnAge DEF Logged, Older, Recent
<1>5. ASSUME NEW a \in Recent PROVE passed'[a] <= log'[a]
  <2>1. a \in Ages
    BY LatestIsAnAge
  <2>2. CASE a = 0
    BY <1>1, <2>1, <2>2 DEF Older
  <2>3. CASE a # 0
    <3>1. a - 1 \in Recent
      BY <2>3, RateLimitAssumption DEF Recent
    <3>2. passed'[a] = passed[a - 1] /\ log'[a] = log[a - 1]
      BY <1>1, <2>1, <2>3 DEF Older
    <3> QED BY <3>1, <3>2 DEF Logged
  <2> QED BY <2>2, <2>3
<1>6. Total(log', Ages) <= Total(log, Ages)
  <2>1. \A a \in Ages : a # 0 => a - 1 \in Ages
    BY <1>2
  <2>2. log \in [0 .. n -> Nat]
    BY <1>2 DEF Logged
  <2> HIDE DEF n
  <2>3. Total(Older(log, 0 .. n), Ages) <= Total(log, Ages)
    BY <1>2, <2>1, <2>2, TotalOfOlder
  <2> QED BY <1>1, <1>2, <2>3
<1>7. Total(log, Ages) \in Nat /\ Total(log', Ages) \in Nat
  <2>1. \A a \in Ages : log[a] \in Nat /\ log'[a] \in Nat
    BY <1>3 DEF Logged
  <2> HIDE DEF n
  <2> QED BY <1>2, <2>1, EntriesAreFinite
<1>8. Total(log', Ages) <= MaxRequests
  BY <1>6, <1>7, RateLimitAssumption DEF Logged
<1> QED BY <1>3, <1>4, <1>5, <1>8 DEF Logged

-----------------------------------------------------------------------------
(***************************************************************************)
(* The windows in memory.                                                  *)
(***************************************************************************)

LEMMA AgesOfABucket ==
    ASSUME NEW b
    PROVE  Since(b) \in SUBSET (0 .. Window - 1) /\ Before(b) \in SUBSET (0 .. Window - 1)
  BY DEF Since, Before, Recent

(* The bucket a request meets, restarted if its window is over.            *)
LEMMA CurrentFits ==
    ASSUME NEW i \in Instances, bucket[i] \in Bucket \cup {None},
           NEW counts \in [Recent -> Nat], Fits(counts, bucket[i])
    PROVE  Current(i) \in Bucket /\ Current(i).age < Window /\ Fits(counts, Current(i))
<1> DEFINE fresh == [count |-> 0, age |-> 0]
<1> DEFINE last == Window - 1
<1>1. fresh \in Bucket /\ fresh.age < Window /\ fresh # None
  BY RateLimitAssumption DEF Bucket
<1>2. Since(fresh) = {0}
  BY LatestIsAnAge DEF Since, Recent
<1>3. last \in Nat /\ Recent = 0 .. last
  BY LatestIsAnAge DEF Recent
<1>4. \A a \in Recent : counts[a] \in Nat
  OBVIOUS
<1>5. ASSUME counts[0] = 0, Total(counts, Before(fresh)) <= MaxRequests
      PROVE  Fits(counts, fresh)
  <2>1. Total(counts, {0}) = 0
    BY <1>5, TotalOfNone
  <2>2. Total(counts, Since(fresh)) <= fresh.count
    BY <1>2, <2>1
  <2> QED BY <1>1, <1>5, <2>2, RateLimitAssumption DEF Fits
<1>6. CASE bucket[i] = None
  <2>1. Current(i) = fresh
    BY <1>6 DEF Current
  <2>2. \A a \in Recent : counts[a] = 0
    BY <1>6 DEF Fits
  <2>3. Total(counts, Before(fresh)) = 0
    BY <2>2, TotalOfNone DEF Before
  <2>4. counts[0] = 0
    BY <2>2, LatestIsAnAge DEF Recent
  <2> QED BY <1>1, <1>5, <2>1, <2>3, <2>4, RateLimitAssumption
<1>7. CASE bucket[i] # None /\ bucket[i].age >= Window
  <2> DEFINE b == bucket[i]
  <2>1. Current(i) = fresh
    BY <1>7 DEF Current, Restarted
  <2>2. b \in Bucket /\ b.age = Window /\ b.count \in 0 .. MaxRequests
    BY <1>7, RateLimitAssumption DEF Bucket
  <2>3. counts[0] = 0 /\ Total(counts, Since(b)) <= b.count
    BY <1>7, <2>2 DEF Fits
  <2>4. Before(fresh) \subseteq Since(b) /\ Since(b) \in SUBSET (0 .. last)
    BY <1>3, <2>2, RateLimitAssumption DEF Before, Since, Recent
  <2>5. \A a \in Since(b) : counts[a] \in Nat
    BY DEF Since
  <2>6. \A a \in Before(fresh) : counts[a] \in Nat /\ counts[a] <= counts[a]
    BY DEF Before
  <2>7. Total(counts, Before(fresh)) <= Total(counts, Since(b))
    <3> HIDE DEF b, fresh, last
    <3> QED BY <1>3, <2>4, <2>5, <2>6, TotalIsMonotone
  <2>8. Total(counts, Since(b)) \in Nat /\ Total(counts, Before(fresh)) \in Nat
    <3> HIDE DEF b, fresh, last
    <3>1. Before(fresh) \in SUBSET (0 .. last)
      BY <2>4
    <3> QED BY <1>3, <2>4, <2>5, <2>6, <3>1, EntriesAreFinite
  <2>9. Total(counts, Before(fresh)) <= MaxRequests
    <3> HIDE DEF b, fresh
    <3> QED BY <2>2, <2>3, <2>7, <2>8, RateLimitAssumption
  <2> QED BY <1>1, <1>5, <2>1, <2>3, <2>9
<1>8. CASE bucket[i] # None /\ ~(bucket[i].age >= Window)
  BY <1>8, RateLimitAssumption DEF Current, Bucket
<1> QED BY <1>6, <1>7, <1>8

(* One more, while there is room.                                          *)
LEMMA AdmitFits ==
    ASSUME NEW b \in Bucket, b.age < Window, b.count < MaxRequests,
           NEW counts \in [Recent -> Nat], Fits(counts, b)
    PROVE  /\ [b EXCEPT !.count = @ + 1] \in Bucket
           /\ [counts EXCEPT ![0] = @ + 1] \in [Recent -> Nat]
           /\ Fits([counts EXCEPT ![0] = @ + 1], [b EXCEPT !.count = @ + 1])
<1> DEFINE fuller == [b EXCEPT !.count = @ + 1]
<1> DEFINE more == [counts EXCEPT ![0] = @ + 1]
<1> DEFINE last == Window - 1
<1>1. fuller \in Bucket /\ fuller.age = b.age /\ fuller.count = b.count + 1 /\ b.count \in Nat
  BY RateLimitAssumption DEF Bucket
<1>2. b # None /\ fuller # None
  BY <1>1, RateLimitAssumption
<1>3. 0 \in Recent /\ last \in Nat /\ Recent = 0 .. last
  BY LatestIsAnAge DEF Recent
<1>4. more \in [Recent -> Nat] /\ more[0] = counts[0] + 1
      /\ \A a \in Recent \ {0} : more[a] = counts[a]
  BY <1>3
<1>5. Since(fuller) = Since(b) /\ Before(fuller) = Before(b)
  BY <1>1 DEF Since, Before
<1> HIDE DEF fuller, more, last
<1>6. Since(b) \in SUBSET (0 .. last) /\ Before(b) \in SUBSET (0 .. last)
  BY <1>3 DEF Since, Before
<1>7. 0 \in Since(b) /\ 0 \notin Before(b)
  BY <1>3 DEF Since, Before, Bucket
<1>8. Total(more, Since(b)) = Total(counts, Since(b)) + 1
  <2>1. \A a \in Since(b) : counts[a] \in Nat
    BY DEF Since
  <2>2. \A a \in Since(b) \ {0} : more[a] = counts[a]
    BY <1>4 DEF Since
  <2> QED BY <1>3, <1>4, <1>6, <1>7, <2>1, <2>2, TotalOfOneMore
<1>9. Total(more, Before(b)) <= Total(counts, Before(b))
  <2>1. \A a \in Before(b) : counts[a] \in Nat /\ more[a] \in Nat /\ more[a] <= counts[a]
    BY <1>4, <1>7 DEF Before
  <2> QED BY <1>3, <1>6, <2>1, TotalIsMonotone
<1>10. Total(counts, Since(b)) \in Nat /\ Total(counts, Before(b)) \in Nat
       /\ Total(more, Before(b)) \in Nat
  <2>1. \A a \in Recent : counts[a] \in Nat /\ more[a] \in Nat
    BY <1>4
  <2>2. \A a \in Since(b) : counts[a] \in Nat
    BY <2>1 DEF Since
  <2>3. \A a \in Before(b) : counts[a] \in Nat /\ more[a] \in Nat
    BY <2>1 DEF Before
  <2> QED BY <1>3, <1>6, <2>2, <2>3, EntriesAreFinite
<1>11. Total(counts, Since(b)) <= b.count /\ Total(counts, Before(b)) <= MaxRequests
  BY <1>2 DEF Fits
<1>12. Total(more, Since(fuller)) <= fuller.count /\ Total(more, Before(fuller)) <= MaxRequests
  BY <1>1, <1>5, <1>8, <1>9, <1>10, <1>11, RateLimitAssumption
<1>13. fuller.age # Window
  BY <1>1, RateLimitAssumption DEF Bucket
<1>14. Fits(more, fuller)
  BY <1>2, <1>12, <1>13 DEF Fits
<1> QED BY <1>1, <1>4, <1>14 DEF fuller, more

(* The memory decides on a request.                                        *)
LEMMA MemoryLimitFits ==
    ASSUME Typed, Remembered, NEW i \in Instances, MemoryLimit(i)
    PROVE  bucket' \in [Instances -> Bucket \cup {None}] /\ Remembered'
<1> DEFINE b == Current(i)
<1>1. b \in Bucket /\ b.age < Window /\ Fits(let[i], b)
  BY CurrentFits DEF Typed, Remembered
<1>2. let[i] \in [Recent -> Nat]
  BY DEF Remembered
<1> HIDE DEF b
<1>3. CASE b.count < MaxRequests
  <2> DEFINE fuller == [b EXCEPT !.count = @ + 1]
  <2> DEFINE more == [let[i] EXCEPT ![0] = @ + 1]
  <2>1. fuller \in Bucket /\ more \in [Recent -> Nat] /\ Fits(more, fuller)
    BY <1>1, <1>2, <1>3, AdmitFits
  <2>2. bucket' = [bucket EXCEPT ![i] = fuller]
    BY <1>3 DEF MemoryLimit, b
  <2>3. let' = [let EXCEPT ![i] = more]
    BY <1>3 DEF MemoryLimit, b
  <2> HIDE DEF fuller, more
  <2>4. bucket' \in [Instances -> Bucket \cup {None}]
    BY <2>1, <2>2 DEF Typed
  <2>5. let' \in [Instances -> [Recent -> Nat]]
    BY <2>1, <2>3 DEF Remembered
  <2>6. ASSUME NEW j \in Instances PROVE Fits(let'[j], bucket'[j])
    <3>1. CASE j = i
      <4>1. let'[j] = more /\ bucket'[j] = fuller
        BY <2>2, <2>3, <3>1 DEF Typed, Remembered
      <4> QED BY <4>1, <2>1
    <3>2. CASE j # i
      <4>1. let'[j] = let[j] /\ bucket'[j] = bucket[j]
        BY <2>2, <2>3, <3>2 DEF Typed, Remembered
      <4> QED BY <4>1 DEF Remembered
    <3> QED BY <3>1, <3>2
  <2>7. \A j \in Instances : Fits(let[j], bucket[j])'
    BY <2>6 DEF Fits, Total, Entries, Since, Before
  <2> QED BY <2>4, <2>5, <2>7 DEF Remembered
<1>4. CASE ~(b.count < MaxRequests)
  <2>1. bucket' = [bucket EXCEPT ![i] = b] /\ let' = let
    BY <1>4 DEF MemoryLimit, b
  <2>2. bucket' \in [Instances -> Bucket \cup {None}]
    BY <1>1, <2>1 DEF Typed
  <2>3. ASSUME NEW j \in Instances PROVE Fits(let'[j], bucket'[j])
    <3>1. CASE j = i
      <4>1. let'[j] = let[i] /\ bucket'[j] = b
        BY <2>1, <3>1 DEF Typed
      <4> QED BY <4>1, <1>1
    <3>2. CASE j # i
      <4>1. let'[j] = let[j] /\ bucket'[j] = bucket[j]
        BY <2>1, <3>2 DEF Typed
      <4> QED BY <4>1 DEF Remembered
    <3> QED BY <3>1, <3>2
  <2>4. \A j \in Instances : Fits(let[j], bucket[j])'
    BY <2>3 DEF Fits, Total, Entries, Since, Before
  <2> QED BY <2>1, <2>2, <2>4 DEF Remembered
<1> QED BY <1>3, <1>4

(* Time passes for a bucket and for what it admitted.                      *)
LEMMA OlderFits ==
    ASSUME NEW b \in Bucket \cup {None}, NEW older,
           older = IF b = None \/ b.age = Window THEN b ELSE [b EXCEPT !.age = @ + 1],
           NEW counts \in [Recent -> Nat], Fits(counts, b)
    PROVE  /\ older \in Bucket \cup {None}
           /\ Older(counts, Recent) \in [Recent -> Nat]
           /\ Fits(Older(counts, Recent), older)
<1> DEFINE now == Older(counts, Recent)
<1> DEFINE last == Window - 1
<1>1. last \in Nat /\ Recent = 0 .. last /\ 0 \in Recent
  BY LatestIsAnAge DEF Recent
<1>2. now \in [Recent -> Nat] /\ now[0] = 0
  BY <1>1 DEF Older
<1>3. CASE b = None
  <2>1. \A a \in Recent : counts[a] = 0
    BY <1>3 DEF Fits
  <2>2. \A a \in Recent : now[a] = 0
    BY <1>1, <2>1 DEF Older
  <2> QED BY <1>2, <1>3, <2>2 DEF Fits
<1>4. CASE b # None
  <2>1. b \in Bucket /\ b.age \in 0 .. Window /\ b.count \in 0 .. MaxRequests
    BY <1>4 DEF Bucket
  <2>2. older \in Bucket /\ older.count = b.count
        /\ older.age = (IF b.age = Window THEN Window ELSE b.age + 1)
    BY <1>4, <2>1, RateLimitAssumption DEF Bucket
  <2>3. older # None
    BY <2>2, RateLimitAssumption
  <2>4. Total(counts, Since(b)) <= b.count /\ Total(counts, Before(b)) <= MaxRequests
    BY <1>4 DEF Fits
  <2>5. \A a \in Since(older) : a # 0 => a - 1 \in Since(b)
    BY <1>1, <2>1, <2>2, RateLimitAssumption DEF Since
  <2>6. \A a \in Before(older) : a # 0 => a - 1 \in Before(b)
    BY <1>1, <2>1, <2>2, RateLimitAssumption DEF Before
  <2>7. /\ Since(b) \in SUBSET (0 .. last) /\ Since(older) \in SUBSET (0 .. last)
        /\ Before(b) \in SUBSET (0 .. last) /\ Before(older) \in SUBSET (0 .. last)
    BY <1>1 DEF Since, Before
  <2>8. counts \in [0 .. last -> Nat] /\ now = Older(counts, 0 .. last)
    BY <1>1
  <2>9. \A a \in 0 .. last : counts[a] \in Nat /\ now[a] \in Nat
    BY <1>1, <1>2
  <2> HIDE DEF now, last
  <2>10. Total(now, Since(older)) <= Total(counts, Since(b))
    BY <1>1, <2>5, <2>7, <2>8, TotalOfOlder
  <2>11. Total(now, Before(older)) <= Total(counts, Before(b))
    BY <1>1, <2>6, <2>7, <2>8, TotalOfOlder
  <2>12. \A a \in Since(b) \cup Before(b) : counts[a] \in Nat
    BY <2>7, <2>9
  <2>13. \A a \in Since(older) \cup Before(older) : now[a] \in Nat
    BY <2>7, <2>9
  <2>14. /\ Total(counts, Since(b)) \in Nat /\ Total(counts, Before(b)) \in Nat
         /\ Total(now, Since(older)) \in Nat /\ Total(now, Before(older)) \in Nat
    BY <1>1, <2>7, <2>12, <2>13, EntriesAreFinite
  <2>15. Total(now, Since(older)) <= older.count /\ Total(now, Before(older)) <= MaxRequests
    BY <2>1, <2>2, <2>4, <2>10, <2>11, <2>14, RateLimitAssumption
  <2>16. Fits(now, older)
    BY <1>2, <2>3, <2>15 DEF Fits
  <2> QED BY <1>2, <2>2, <2>16 DEF now
<1> QED BY <1>3, <1>4

LEMMA TickKeepsRemembered ==
    ASSUME Typed, Remembered, Tick
    PROVE  bucket' \in [Instances -> Bucket \cup {None}] /\ Remembered'
<1>1. ASSUME NEW i \in Instances
      PROVE  /\ bucket'[i] \in Bucket \cup {None} /\ let'[i] \in [Recent -> Nat]
             /\ Fits(let'[i], bucket'[i])
  <2>1. bucket[i] \in Bucket \cup {None} /\ let[i] \in [Recent -> Nat] /\ Fits(let[i], bucket[i])
    BY DEF Typed, Remembered
  <2>2. bucket'[i] = IF bucket[i] = None \/ bucket[i].age = Window THEN bucket[i]
                     ELSE [bucket[i] EXCEPT !.age = @ + 1]
    BY DEF Tick
  <2>3. let'[i] = Older(let[i], Recent)
    BY DEF Tick
  <2> QED BY <2>1, <2>2, <2>3, OlderFits
<1>2. bucket' \in [Instances -> Bucket \cup {None}] /\ let' \in [Instances -> [Recent -> Nat]]
  <2>1. bucket' = [i \in Instances |-> bucket'[i]] /\ let' = [i \in Instances |-> let'[i]]
    BY DEF Tick
  <2> QED BY <1>1, <2>1
<1>3. \A i \in Instances : Fits(let[i], bucket[i])'
  BY <1>1 DEF Fits, Total, Entries, Since, Before
<1> QED BY <1>2, <1>3 DEF Remembered

-----------------------------------------------------------------------------
(***************************************************************************)
(* The invariant holds of every behaviour.                                 *)
(***************************************************************************)

LEMMA InitEstablishes == Init => LimitInv
<1> SUFFICES ASSUME Init PROVE LimitInv
  OBVIOUS
<1>1. Typed
  BY RateLimitAssumption DEF Init, Typed, Request
<1>2. log \in [Ages -> Nat] /\ passed \in [Recent -> Nat] /\ \A a \in Recent : passed[a] <= log[a]
  BY LatestIsAnAge DEF Init, Nothing
<1>3. Total(log, Ages) = 0
  <2>1. \A a \in Ages : log[a] = 0
    BY DEF Init, Nothing
  <2> QED BY <2>1, TotalOfNone
<1>4. Logged
  BY <1>2, <1>3, RateLimitAssumption DEF Logged
<1>5. Remembered
  BY DEF Init, Nothing, Remembered, Fits
<1> QED BY <1>1, <1>4, <1>5 DEF LimitInv

LEMMA ReviveDeadClientIsTyped ==
    ASSUME Typed, NEW i \in Instances, ReviveDeadClient(i)
    PROVE  /\ reviving' \in [Instances -> BOOLEAN]
           /\ status' \in [Instances -> {"ready", "reconnecting", "connecting", "end"}]
<1>1. CASE IsOpen(i) /\ status[i] = "end" /\ ~reviving[i]
  BY <1>1 DEF Typed, ReviveDeadClient
<1>2. CASE ~(IsOpen(i) /\ status[i] = "end" /\ ~reviving[i])
  BY <1>2 DEF Typed, ReviveDeadClient
<1> QED BY <1>1, <1>2

LEMMA AskKeeps ==
    ASSUME LimitInv, NEW r \in Requests, NEW i \in Instances, Ask(r, i)
    PROVE  LimitInv'
<1> USE DEF LimitInv
<1>1. ReviveDeadClient(i) /\ UNCHANGED <<up, refused, breaker, log, passed>>
  BY DEF Ask
<1>2. Logged'
  BY <1>1 DEF Logged
<1>3. CASE IsRedisAvailable(i)
  <2>1. requests' = [requests EXCEPT ![r] = [pc |-> "eval", instance |-> i, age |-> 0]]
        /\ UNCHANGED <<bucket, let>>
    BY <1>3 DEF Ask
  <2>2. [pc |-> "eval", instance |-> i, age |-> 0] \in Request
    BY RateLimitAssumption DEF Request
  <2>3. requests' \in [Requests -> Request]
    BY <2>1, <2>2 DEF Typed
  <2>4. Typed'
    BY <1>1, <2>1, <2>3, ReviveDeadClientIsTyped DEF Typed
  <2>5. Remembered'
    BY <2>1 DEF Remembered
  <2> QED BY <1>2, <2>4, <2>5
<1>4. CASE ~IsRedisAvailable(i)
  <2>1. MemoryLimit(i) /\ UNCHANGED requests
    BY <1>4 DEF Ask
  <2>2. bucket' \in [Instances -> Bucket \cup {None}] /\ Remembered'
    BY <2>1, MemoryLimitFits
  <2>3. Typed'
    BY <1>1, <2>1, <2>2, ReviveDeadClientIsTyped DEF Typed
  <2> QED BY <1>2, <2>2, <2>3
<1> QED BY <1>3, <1>4

LEMMA EvalKeeps ==
    ASSUME LimitInv, NEW r \in Requests, Eval(r)
    PROVE  LimitInv'
<1> USE DEF LimitInv
<1>1. Logged'
  BY EvalKeepsLogged
<1>2. requests' \in [Requests -> Request]
  BY DEF Eval, Typed, Request
<1>3. UNCHANGED <<up, status, refused, breaker, reviving, bucket, let>>
  BY DEF Eval, client
<1>4. Typed'
  BY <1>2, <1>3 DEF Typed
<1>5. Remembered'
  BY <1>3 DEF Remembered
<1> QED BY <1>1, <1>4, <1>5

LEMMA FailKeeps ==
    ASSUME LimitInv, NEW r \in Requests, Fail(r)
    PROVE  LimitInv'
<1> USE DEF LimitInv
<1> DEFINE i == requests[r].instance
<1>1. requests[r] \in Request /\ requests[r].pc = "eval"
  BY DEF Fail, Typed
<1>2. i \in Instances
  BY <1>1 DEF Request, Idle
<1>3. MemoryLimit(i) /\ breaker' \in {breaker, [breaker EXCEPT ![i] = Cooldown]}
  BY DEF Fail
<1>4. Logged'
  BY FailKeepsLogged
<1> HIDE DEF i
<1>5. bucket' \in [Instances -> Bucket \cup {None}] /\ Remembered'
  BY <1>2, <1>3, MemoryLimitFits
<1>6. breaker' \in [Instances -> 0 .. Cooldown]
  BY <1>2, <1>3, RateLimitAssumption DEF Typed
<1>7. requests' \in [Requests -> Request]
  BY DEF Fail, Typed, Request
<1>8. Typed'
  BY <1>5, <1>6, <1>7 DEF Typed, Fail
<1> QED BY <1>4, <1>5, <1>8

(* The client's own steps touch neither limiter.                           *)
LEMMA ClientStepKeeps ==
    ASSUME LimitInv, NEW i \in Instances, ClientStep(i) \/ Lose(i) \/ RefusePassword(i)
    PROVE  LimitInv'
<1> USE DEF LimitInv
<1>1. UNCHANGED <<up, log, bucket, requests, passed, let>>
  BY DEF ClientStep, Revive, Reconnect, Lose, RefusePassword
<1>2. breaker' \in {breaker, [breaker EXCEPT ![i] = Cooldown]}
  BY DEF ClientStep, Revive, Reconnect, Lose, RefusePassword
<1>3. breaker' \in [Instances -> 0 .. Cooldown]
  BY <1>2, RateLimitAssumption DEF Typed
<1>4. \E s \in {"ready", "reconnecting", "end"} : status' = [status EXCEPT ![i] = s]
  BY DEF ClientStep, Revive, Reconnect, Lose, RefusePassword
<1>5. status' \in [Instances -> {"ready", "reconnecting", "connecting", "end"}]
  BY <1>4 DEF Typed
<1>6. reviving' \in [Instances -> BOOLEAN]
  BY DEF Typed, ClientStep, Revive, AfterRevival, Reconnect, Lose, RefusePassword
<1>7. refused' \in [Instances -> BOOLEAN]
  BY DEF Typed, ClientStep, Revive, Reconnect, Lose, RefusePassword
<1>8. Typed'
  BY <1>1, <1>3, <1>5, <1>6, <1>7 DEF Typed
<1>9. Logged' /\ Remembered'
  BY <1>1 DEF Logged, Remembered
<1> QED BY <1>8, <1>9

LEMMA TickKeeps ==
    ASSUME LimitInv, Tick
    PROVE  LimitInv'
<1> USE DEF LimitInv
<1>1. Logged'
  BY TickKeepsLogged
<1>2. bucket' \in [Instances -> Bucket \cup {None}] /\ Remembered'
  BY TickKeepsRemembered
<1>3. breaker' \in [Instances -> 0 .. Cooldown]
  <2>1. \A time \in 0 .. Cooldown : (IF time = 0 THEN 0 ELSE time - 1) \in 0 .. Cooldown
    BY RateLimitAssumption
  <2>2. breaker' = [i \in Instances |-> IF breaker[i] = 0 THEN 0 ELSE breaker[i] - 1]
    BY DEF Tick
  <2>3. \A i \in Instances : breaker[i] \in 0 .. Cooldown
    BY DEF Typed
  <2> QED BY <2>1, <2>2, <2>3
<1>4. ASSUME NEW r \in Requests PROVE requests'[r] \in Request
  <2>1. requests[r] \in Request
    BY DEF Typed
  <2>2. CASE requests[r].pc = "eval"
    <3>1. requests[r] \in [pc : {"eval"}, instance : Instances, age : 0 .. Latency]
      BY <2>1, <2>2 DEF Request, Idle
    <3>2. requests[r].age < Latency /\ requests'[r] = [requests[r] EXCEPT !.age = @ + 1]
      BY <2>2 DEF Tick
    <3> QED BY <3>1, <3>2, RateLimitAssumption DEF Request
  <2>3. CASE requests[r].pc # "eval"
    BY <2>1, <2>3 DEF Tick
  <2> QED BY <2>2, <2>3
<1>5. requests' \in [Requests -> Request]
  <2>1. requests' = [r \in Requests |-> requests'[r]]
    BY DEF Tick
  <2> QED BY <1>4, <2>1
<1>6. Typed'
  BY <1>2, <1>3, <1>5 DEF Typed, Tick
<1> QED BY <1>1, <1>2, <1>6

LEMMA Invariance == Spec => []LimitInv
<1>1. Init => LimitInv
  BY InitEstablishes
<1>2. LimitInv /\ [Next]_vars => LimitInv'
  <2> SUFFICES ASSUME LimitInv, [Next]_vars PROVE LimitInv'
    OBVIOUS
  <2>1. ASSUME NEW r \in Requests, NEW i \in Instances, Ask(r, i) PROVE LimitInv'
    BY <2>1, AskKeeps
  <2>2. ASSUME NEW r \in Requests, Eval(r) PROVE LimitInv'
    BY <2>2, EvalKeeps
  <2>3. ASSUME NEW r \in Requests, Fail(r) PROVE LimitInv'
    BY <2>3, FailKeeps
  <2>4. ASSUME NEW i \in Instances, ClientStep(i) \/ Lose(i) \/ RefusePassword(i)
        PROVE  LimitInv'
    BY <2>4, ClientStepKeeps
  <2>5. CASE Break \/ Repair
    BY <2>5 DEF Break, Repair, client, LimitInv, Typed, Logged, Remembered
  <2>6. CASE Tick
    BY <2>6, TickKeeps
  <2>7. CASE UNCHANGED vars
    BY <2>7 DEF vars, LimitInv, Typed, Logged, Remembered
  <2> QED BY <2>1, <2>2, <2>3, <2>4, <2>5, <2>6, <2>7 DEF Next
<1> QED BY <1>1, <1>2, PTL DEF Spec

-----------------------------------------------------------------------------
(* Everything is of its type: each age holds no more entries than they are *)
(* in all, and these are no more than MaxRequests.                         *)
THEOREM TypeCorrect == Spec => []TypeOK
<1>1. LimitInv => TypeOK
  <2> SUFFICES ASSUME LimitInv PROVE TypeOK
    OBVIOUS
  <2> DEFINE n == Window + Latency - 1
  <2>1. n \in Nat /\ Ages \in SUBSET (0 .. n)
    BY LatestIsAnAge DEF Ages
  <2>2. log \in [Ages -> Nat] /\ Total(log, Ages) <= MaxRequests
    BY DEF LimitInv, Logged
  <2> HIDE DEF n
  <2>3. \A a \in Ages : log[a] \in Nat
    BY <2>2
  <2>4. Total(log, Ages) \in Nat
    BY <2>1, <2>3, EntriesAreFinite
  <2>5. ASSUME NEW a \in Ages PROVE log[a] \in 0 .. MaxRequests
    <3>1. log[a] <= Total(log, Ages)
      BY <2>1, <2>3, CountIsInTotal
    <3> QED BY <3>1, <2>2, <2>3, <2>4, RateLimitAssumption
  <2>6. log \in [Ages -> 0 .. MaxRequests]
    BY <2>2, <2>5
  <2>7. \A r \in Requests : requests[r].pc \in {"idle", "eval"}
    BY DEF LimitInv, Typed, Request, Idle
  <2> QED BY <2>2, <2>6, <2>7 DEF TypeOK, LimitInv, Typed
<1> QED BY <1>1, Invariance, PTL

(* Of the requests that asked within the last window, Redis has admitted   *)
(* no more than MaxRequests.                                               *)
THEOREM RedisHoldsTheLimit == Spec => []RedisWindow
<1>1. LimitInv => RedisWindow
  <2> SUFFICES ASSUME LimitInv PROVE Total(passed, Recent) <= MaxRequests
    BY DEF RedisWindow
  <2> DEFINE n == Window + Latency - 1
  <2>1. n \in Nat /\ Ages \in SUBSET (0 .. n) /\ Recent \in SUBSET Ages
    BY LatestIsAnAge DEF Ages
  <2>2. \A a \in Ages : log[a] \in Nat
    BY DEF LimitInv, Logged
  <2>3. \A a \in Recent : passed[a] \in Nat /\ passed[a] <= log[a]
    BY DEF LimitInv, Logged
  <2> HIDE DEF n
  <2>4. Total(passed, Recent) <= Total(log, Ages)
    BY <2>1, <2>2, <2>3, TotalIsMonotone
  <2>5. Recent \in SUBSET (0 .. n)
    BY <2>1
  <2>6. Total(passed, Recent) \in Nat /\ Total(log, Ages) \in Nat
    BY <2>1, <2>2, <2>3, <2>5, EntriesAreFinite
  <2> QED BY <2>4, <2>6, RateLimitAssumption DEF LimitInv, Logged
<1> QED BY <1>1, Invariance, PTL

(* The memory of an instance admits no more than twice MaxRequests within  *)
(* a window.                                                               *)
THEOREM MemoryHoldsTwice == Spec => []MemoryWindow
<1>1. LimitInv => MemoryWindow
  <2> SUFFICES ASSUME LimitInv, NEW i \in Instances
               PROVE  Total(let[i], Recent) <= 2 * MaxRequests
    BY DEF MemoryWindow
  <2> DEFINE b == bucket[i]
  <2> DEFINE counts == let[i]
  <2> DEFINE last == Window - 1
  <2>1. b \in Bucket \cup {None} /\ counts \in [Recent -> Nat] /\ Fits(counts, b)
    BY DEF LimitInv, Typed, Remembered
  <2>2. last \in Nat /\ Recent = 0 .. last
    BY LatestIsAnAge DEF Recent
  <2> HIDE DEF b, counts, last
  <2>3. CASE b = None
    <3>1. Total(counts, Recent) = 0
      BY <2>1, <2>3, TotalOfNone DEF Fits
    <3> QED BY <3>1, RateLimitAssumption DEF counts
  <2>4. CASE b # None
    <3>1. b.count \in 0 .. MaxRequests /\ b.age \in 0 .. Window
      BY <2>1, <2>4 DEF Bucket
    <3>2. Total(counts, Since(b)) <= b.count /\ Total(counts, Before(b)) <= MaxRequests
      BY <2>1, <2>4 DEF Fits
    <3>3. Recent = Since(b) \cup Before(b)
      BY <2>2, <3>1, RateLimitAssumption DEF Since, Before
    <3>4. Since(b) \in SUBSET (0 .. last) /\ Before(b) \in SUBSET (0 .. last)
      BY <2>2 DEF Since, Before
    <3>5. \A a \in Since(b) \cup Before(b) : counts[a] \in Nat
      BY <2>1, <3>3
    <3>6. Total(counts, Since(b) \cup Before(b))
            <= Total(counts, Since(b)) + Total(counts, Before(b))
      BY <2>2, <3>4, <3>5, TotalOfUnion
    <3>7. /\ Total(counts, Since(b)) \in Nat /\ Total(counts, Before(b)) \in Nat
          /\ Total(counts, Since(b) \cup Before(b)) \in Nat
      <4>1. Since(b) \cup Before(b) \in SUBSET (0 .. last)
        BY <3>4
      <4> QED BY <2>2, <3>4, <3>5, <4>1, EntriesAreFinite
    <3>8. Total(counts, Since(b) \cup Before(b)) <= 2 * MaxRequests
      BY <3>1, <3>2, <3>6, <3>7, RateLimitAssumption
    <3> QED BY <3>3, <3>8 DEF counts
  <2> QED BY <2>3, <2>4
<1> QED BY <1>1, Invariance, PTL
=============================================================================
