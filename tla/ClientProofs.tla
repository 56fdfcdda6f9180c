---------------------------- MODULE ClientProofs -----------------------------
(***************************************************************************)
(* The theorems of the student's and the staff's browser, whose state is   *)
(* the page's own: of the scanner, for any projectors, and of the two      *)
(* queues, for any number of items, drains, views and network losses.      *)
(***************************************************************************)
EXTENDS ScanCapture, Delivery, OverrideQueue, FiniteSetTheorems, SequenceTheorems,
        WellFoundedInduction, TLAPS

(***************************************************************************)
(* Sorting.                                                                *)
(***************************************************************************)

(* What has distinct integer keys can be put in their order: each goes to  *)
(* the place that says how many have no greater key.                       *)
LEMMA Sortable ==
    ASSUME NEW set, IsFiniteSet(set), NEW key \in [set -> Int],
           \A f, g \in set : key[f] = key[g] => f = g
    PROVE  /\ Cardinality(set) \in Nat
           /\ \E sorted \in [1 .. Cardinality(set) -> set] :
                 \A i, j \in 1 .. Cardinality(set) : i < j => key[sorted[i]] < key[sorted[j]]
<1> DEFINE n == Cardinality(set)
<1> DEFINE upTo(f) == {g \in set : key[g] <= key[f]}
<1> DEFINE rank == [f \in set |-> Cardinality(upTo(f))]
<1>1. n \in Nat
  BY FS_CardinalityType
<1>2. ASSUME NEW f \in set
      PROVE  IsFiniteSet(upTo(f)) /\ Cardinality(upTo(f)) \in 1 .. n
  <2>1. upTo(f) \in SUBSET set /\ f \in upTo(f)
    OBVIOUS
  <2> HIDE DEF upTo
  <2>2. IsFiniteSet(upTo(f)) /\ Cardinality(upTo(f)) <= n
    BY <2>1, FS_Subset
  <2>3. Cardinality(upTo(f)) \in Nat /\ Cardinality(upTo(f)) # 0
    BY <2>1, <2>2, FS_CardinalityType, FS_EmptySet
  <2> QED BY <1>1, <2>2, <2>3
<1>3. ASSUME NEW f \in set, NEW g \in set, key[f] < key[g]
      PROVE  rank[f] < rank[g]
  <2>1. upTo(f) \in SUBSET upTo(g) /\ upTo(f) # upTo(g)
    BY <1>3
  <2>2. /\ IsFiniteSet(upTo(g))
        /\ Cardinality(upTo(f)) \in Nat /\ Cardinality(upTo(g)) \in Nat
    <3> HIDE DEF upTo, n
    <3> QED BY <1>1, <1>2
  <2> HIDE DEF upTo
  <2>3. Cardinality(upTo(f)) <= Cardinality(upTo(g))
        /\ Cardinality(upTo(f)) # Cardinality(upTo(g))
    BY <2>1, <2>2, FS_Subset
  <2> QED BY <2>2, <2>3
<1>4. rank \in [set -> 1 .. n]
  BY <1>2
<1> HIDE DEF rank
<1>5. \A f, g \in set : rank[f] = rank[g] => f = g
  <2> SUFFICES ASSUME NEW f \in set, NEW g \in set, rank[f] = rank[g] PROVE f = g
    OBVIOUS
  <2>1. rank[f] \in Nat /\ rank[g] \in Nat /\ key[f] \in Int /\ key[g] \in Int
    BY <1>4
  <2>2. ~(key[f] < key[g]) /\ ~(key[g] < key[f])
    BY <1>3, <2>1
  <2> QED BY <2>1, <2>2
<1>6. rank \in Injection(set, 1 .. n)
  BY <1>4, <1>5 DEF Injection, IsInjective
<1>7. IsFiniteSet(1 .. n) /\ Cardinality(1 .. n) = n
  <2> HIDE DEF n
  <2>1. Cardinality(1 .. n) = IF 1 > n THEN 0 ELSE n - 1 + 1
    BY <1>1, FS_Interval
  <2> QED BY <1>1, <2>1, FS_Interval
<1>8. rank \in Surjection(set, 1 .. n)
  BY <1>6, <1>7, FS_Injection
<1>9. \A i \in 1 .. n : \E f \in set : rank[f] = i
  BY <1>8 DEF Surjection
<1> DEFINE sorted == [i \in 1 .. n |-> CHOOSE f \in set : rank[f] = i]
<1>10. \A i \in 1 .. n : sorted[i] \in set /\ rank[sorted[i]] = i
  BY <1>9
<1>11. sorted \in [1 .. n -> set]
  BY <1>10
<1> HIDE DEF sorted
<1>12. ASSUME NEW i \in 1 .. n, NEW j \in 1 .. n, i < j
       PROVE  key[sorted[i]] < key[sorted[j]]
  <2>1. sorted[i] \in set /\ sorted[j] \in set /\ rank[sorted[i]] = i /\ rank[sorted[j]] = j
    BY <1>10
  <2>2. key[sorted[i]] \in Int /\ key[sorted[j]] \in Int
    BY <2>1
  <2>3. ~(key[sorted[j]] < key[sorted[i]])
    BY <1>1, <1>3, <1>12, <2>1
  <2>4. key[sorted[i]] # key[sorted[j]]
    BY <1>1, <1>12, <2>1
  <2> QED BY <2>2, <2>3, <2>4
<1> QED BY <1>1, <1>11, <1>12

(* Nothing is left out of them.                                            *)
LEMMA SortedIsAll ==
    ASSUME NEW set, IsFiniteSet(set), NEW key \in [set -> Int],
           NEW sorted \in [1 .. Cardinality(set) -> set],
           \A i, j \in 1 .. Cardinality(set) : i < j => key[sorted[i]] < key[sorted[j]]
    PROVE  \A f \in set : \E i \in 1 .. Cardinality(set) : sorted[i] = f
<1> DEFINE n == Cardinality(set)
<1>1. n \in Nat
  BY FS_CardinalityType
<1>2. \A i, j \in 1 .. n : sorted[i] = sorted[j] => i = j
  <2> SUFFICES ASSUME NEW i \in 1 .. n, NEW j \in 1 .. n, sorted[i] = sorted[j] PROVE i = j
    OBVIOUS
  <2>1. key[sorted[i]] \in Int /\ key[sorted[j]] \in Int
    OBVIOUS
  <2>2. ~(i < j) /\ ~(j < i)
    BY <2>1
  <2> QED BY <1>1, <2>2
<1>3. sorted \in Injection(1 .. n, set)
  BY <1>2 DEF Injection, IsInjective
<1>4. Cardinality(1 .. n) = n
  <2> HIDE DEF n
  <2>1. Cardinality(1 .. n) = IF 1 > n THEN 0 ELSE n - 1 + 1
    BY <1>1, FS_Interval
  <2> QED BY <1>1, <2>1
<1>5. sorted \in Surjection(1 .. n, set)
  BY <1>3, <1>4, FS_Injection
<1> QED BY <1>5 DEF Surjection

(* What InOrder chooses exists.                                            *)
LEMMA InOrderSorts ==
    ASSUME NEW set, IsFiniteSet(set), \A f \in set : f.subFrame \in Int,
           \A f, g \in set : f.subFrame = g.subFrame => f = g
    PROVE  /\ Cardinality(set) \in Nat
           /\ InOrder(set) \in [1 .. Cardinality(set) -> set]
           /\ \A i, j \in 1 .. Cardinality(set) :
                 i < j => InOrder(set)[i].subFrame < InOrder(set)[j].subFrame
           /\ \A f \in set : \E i \in 1 .. Cardinality(set) : InOrder(set)[i] = f
<1> DEFINE n == Cardinality(set)
<1> DEFINE key == [f \in set |-> f.subFrame]
<1> DEFINE Sorted(s) == \A i, j \in DOMAIN s : i < j => s[i].subFrame < s[j].subFrame
<1>1. key \in [set -> Int] /\ \A f \in set : key[f] = f.subFrame
  OBVIOUS
<1>2. \A f, g \in set : key[f] = key[g] => f = g
  OBVIOUS
<1> HIDE DEF key
<1>3. n \in Nat /\ \E s \in [1 .. n -> set] :
                     \A i, j \in 1 .. n : i < j => key[s[i]] < key[s[j]]
  BY <1>1, <1>2, Sortable
<1>4. \E s \in [1 .. n -> set] : Sorted(s)
  <2>1. PICK s \in [1 .. n -> set] : \A i, j \in 1 .. n : i < j => key[s[i]] < key[s[j]]
    BY <1>3
  <2>2. \A i \in 1 .. n : key[s[i]] = s[i].subFrame
    BY <1>1
  <2>3. Sorted(s)
    BY <2>1, <2>2
  <2> QED BY <2>3
<1>5. InOrder(set) \in [1 .. n -> set] /\ Sorted(InOrder(set))
  <2>1. InOrder(set) = CHOOSE s \in [1 .. n -> set] : Sorted(s)
    BY DEF InOrder
  <2> HIDE DEF Sorted, n
  <2> QED BY <1>4, <2>1
<1>6. \A i, j \in 1 .. n : i < j => InOrder(set)[i].subFrame < InOrder(set)[j].subFrame
  BY <1>5
<1>7. \A i, j \in 1 .. n : i < j => key[InOrder(set)[i]] < key[InOrder(set)[j]]
  BY <1>1, <1>5, <1>6
<1>8. \A f \in set : \E i \in 1 .. n : InOrder(set)[i] = f
  <2> DEFINE s == InOrder(set)
  <2>1. s \in [1 .. n -> set] /\ \A i, j \in 1 .. n : i < j => key[s[i]] < key[s[j]]
    BY <1>5, <1>7
  <2> HIDE DEF s, Sorted
  <2>2. key \in [set -> Int] /\ IsFiniteSet(set)
    BY <1>1
  <2>3. s \in [1 .. Cardinality(set) -> set]
    BY <2>1
  <2>4. \A i, j \in 1 .. Cardinality(set) : i < j => key[s[i]] < key[s[j]]
    BY <2>1
  <2>5. \A f \in set : \E i \in 1 .. Cardinality(set) : s[i] = f
    BY ONLY <2>2, <2>3, <2>4, SortedIsAll
  <2> QED BY <2>5 DEF s
<1> QED BY <1>3, <1>5, <1>6, <1>8

(***************************************************************************)
(* The check of a run, by itself.                                          *)
(***************************************************************************)

(* The set definition of a run accepts what sorting the places and         *)
(* comparing neighbours accepts, whatever order the sort leaves equal      *)
(* places in: verifySubFrameLiveness.                                      *)
THEOREM SortedAlike ==
    ASSUME NEW n \in Nat, NEW array, DOMAIN array = 1 .. n,
           NEW place \in [1 .. n -> Int],
           NEW sorted \in Bijection(1 .. n, 1 .. n),
           \A i, j \in 1 .. n : i < j => place[sorted[i]] <= place[sorted[j]]
    PROVE  IsRun(array, place) <=>
             \A k \in 1 .. n : k < n => place[sorted[k + 1]] - place[sorted[k]] \in 1 .. 2
<1> DEFINE at(k) == place[sorted[k]]
<1>1. /\ \A k \in 1 .. n : sorted[k] \in 1 .. n /\ at(k) \in Int
      /\ \A i, j \in 1 .. n : sorted[i] = sorted[j] => i = j
      /\ \A i \in 1 .. n : \E k \in 1 .. n : sorted[k] = i
  BY DEF Bijection, Injection, IsInjective, Surjection
<1>2. \A i, j \in 1 .. n : i < j => at(i) <= at(j)
  OBVIOUS
<1>3. ASSUME IsRun(array, place), NEW k \in 1 .. n, k < n
      PROVE  at(k + 1) - at(k) \in 1 .. 2
  <2>1. k + 1 \in 1 .. n
    BY <1>3
  <2>2. at(k) \in Int /\ at(k + 1) \in Int /\ at(k) <= at(k + 1) /\ at(k) # at(k + 1)
    <3>1. sorted[k] # sorted[k + 1] /\ sorted[k] \in 1 .. n /\ sorted[k + 1] \in 1 .. n
      BY <1>1, <2>1
    <3>2. at(k) # at(k + 1)
      BY <1>3, <3>1 DEF IsRun
    <3> QED BY <1>1, <1>2, <2>1, <3>2
  <2>3. PICK j \in 1 .. n : place[j] - at(k) \in 1 .. 2
    <3>1. sorted[k] \in 1 .. n /\ sorted[k + 1] \in 1 .. n
      BY <1>1, <2>1
    <3>2. ~ (\A j \in 1 .. n : place[j] <= at(k))
      BY <2>2, <3>1
    <3> QED BY <1>3, <3>1, <3>2 DEF IsRun
  <2>4. PICK m \in 1 .. n : sorted[m] = j
    BY <1>1
  <2>5. at(m) \in Int /\ at(m) - at(k) \in 1 .. 2
    BY <1>1, <2>3, <2>4
  <2>6. ~ (m <= k)
    <3>1. m # k
      BY <2>2, <2>5
    <3>2. ~ (m < k)
      <4>1. m < k => at(m) <= at(k)
        BY <1>2
      <4> HIDE DEF at
      <4> QED BY <2>2, <2>5, <4>1
    <3> QED BY <3>1, <3>2
  <2>7. at(k + 1) <= at(m)
    <3>1. m = k + 1 \/ k + 1 < m
      BY <2>6
    <3> QED BY <1>2, <2>1, <2>5, <3>1
  <2> HIDE DEF at
  <2> QED BY <2>2, <2>5, <2>7
<1>4. ASSUME \A k \in 1 .. n : k < n => at(k + 1) - at(k) \in 1 .. 2
      PROVE  IsRun(array, place)
  <2>1. ASSUME NEW i \in 1 .. n, NEW j \in 1 .. n, i < j PROVE at(i) < at(j)
    <3>1. i + 1 \in 1 .. n /\ i < n
      BY <2>1
    <3>2. at(i + 1) - at(i) \in 1 .. 2
      BY <1>4, <3>1
    <3>3. i + 1 = j \/ i + 1 < j
      BY <2>1
    <3>4. at(i) \in Int /\ at(i + 1) \in Int /\ at(j) \in Int
      BY <1>1, <3>1
    <3>5. at(i + 1) <= at(j)
      <4>1. CASE i + 1 = j
        <5>1. at(i + 1) = at(j)
          BY <4>1
        <5> HIDE DEF at
        <5> QED BY <3>4, <5>1
      <4>2. CASE i + 1 < j
        BY <1>2, <3>1, <4>2
      <4> QED BY <3>3, <4>1, <4>2
    <3> HIDE DEF at
    <3> QED BY <3>2, <3>4, <3>5
  <2>2. ASSUME NEW i \in 1 .. n, NEW j \in 1 .. n, i # j PROVE place[i] # place[j]
    <3>1. PICK k \in 1 .. n : sorted[k] = i
      BY <1>1
    <3>2. PICK m \in 1 .. n : sorted[m] = j
      BY <1>1
    <3>3. k < m \/ m < k
      BY <2>2, <3>1, <3>2
    <3>4. at(k) < at(m) \/ at(m) < at(k)
      BY <2>1, <3>3
    <3>5. at(k) \in Int /\ at(m) \in Int /\ at(k) = place[i] /\ at(m) = place[j]
      BY <1>1, <3>1, <3>2
    <3> HIDE DEF at
    <3> QED BY <3>4, <3>5
  <2>3. ASSUME NEW i \in 1 .. n
        PROVE  \/ \A j \in 1 .. n : place[j] <= place[i]
               \/ \E j \in 1 .. n : place[j] - place[i] \in 1 .. 2
    <3>1. PICK k \in 1 .. n : sorted[k] = i
      BY <1>1
    <3>2. CASE k < n
      <4>1. at(k + 1) - at(k) \in 1 .. 2 /\ sorted[k + 1] \in 1 .. n
        BY <1>1, <1>4, <3>2
      <4> QED BY <3>1, <4>1
    <3>3. CASE k = n
      <4>1. ASSUME NEW j \in 1 .. n PROVE place[j] <= place[i]
        <5>1. PICK m \in 1 .. n : sorted[m] = j
          BY <1>1
        <5>2. m = k \/ m < k
          BY <3>3
        <5>3. at(m) <= at(k)
          BY <1>1, <1>2, <5>2
        <5> QED BY <3>1, <5>1, <5>3
      <4> QED BY <4>1
    <3> QED BY <3>2, <3>3
  <2> QED BY <2>2, <2>3 DEF IsRun
<1> QED BY <1>3, <1>4

(* Steps of one or two, taken together.                                    *)
LEMMA StepsAddUp ==
    ASSUME NEW n \in Nat, NEW at \in [1 .. n -> Int],
           \A k \in 1 .. n : k < n => at[k + 1] - at[k] \in 1 .. 2
    PROVE  \A k \in 1 .. n : at[k] - at[1] \in k - 1 .. 2 * (k - 1)
<1> DEFINE Bad == {k \in Nat : k \in 1 .. n /\ at[k] - at[1] \notin k - 1 .. 2 * (k - 1)}
<1>1. SUFFICES ASSUME Bad # {} PROVE FALSE
  <2>1. \A k \in 1 .. n : k \in Nat
    OBVIOUS
  <2>2. (\A k \in 1 .. n : k \notin Bad)
           => \A k \in 1 .. n : at[k] - at[1] \in k - 1 .. 2 * (k - 1)
    BY <2>1
  <2> HIDE DEF Bad
  <2> QED BY <2>2
<1>2. PICK x \in Bad : \A y \in Bad : ~ (<<y, x>> \in OpToRel(<, Nat))
  <2>1. Bad \subseteq Nat
    OBVIOUS
  <2> HIDE DEF Bad
  <2> QED BY <1>1, <2>1, NatLessThanWellFounded, WFMin
<1>3. \A y \in Bad : ~ (y < x)
  BY <1>2 DEF OpToRel
<1>4. x # 1
  OBVIOUS
<1>5. x - 1 \in 1 .. n /\ x - 1 \notin Bad /\ x - 1 < n
  BY <1>3, <1>4
<1>6. at[x - 1] - at[1] \in x - 2 .. 2 * (x - 2)
  BY <1>5
<1>7. at[x] - at[x - 1] \in 1 .. 2
  BY <1>5
<1>8. at[x] \in Int /\ at[x - 1] \in Int /\ at[1] \in Int
  BY <1>5
<1>9. at[x] - at[1] \in x - 1 .. 2 * (x - 1)
  BY <1>6, <1>7, <1>8
<1> QED BY <1>9

-----------------------------------------------------------------------------
(***************************************************************************)
(* Time.                                                                   *)
(***************************************************************************)

LEMMA BlockTypes ==
    ASSUME NEW t \in Nat
    PROVE  /\ BlockOf(t) \in Nat /\ SubFrameOf(t) \in 0 .. SubFramesPerBlock - 1
           /\ t = SubFramesPerBlock * BlockOf(t) + SubFrameOf(t)
  BY QrTokenAssumption DEF BlockOf, SubFrameOf

(* Instants a number of blocks apart are in blocks as many apart.          *)
LEMMA BlocksApart ==
    ASSUME NEW s \in Nat, NEW t \in Nat, s - t <= Tolerance * SubFramesPerBlock
    PROVE  BlockOf(s) - BlockOf(t) <= Tolerance
<1> DEFINE S == SubFramesPerBlock
<1> DEFINE b == BlockOf(s)
<1> DEFINE c == BlockOf(t)
<1>1. /\ b \in Nat /\ c \in Nat /\ S \in Nat \ {0} /\ Tolerance \in Nat
      /\ SubFrameOf(s) \in 0 .. S - 1 /\ SubFrameOf(t) \in 0 .. S - 1
      /\ s = S * b + SubFrameOf(s) /\ t = S * c + SubFrameOf(t)
  BY BlockTypes, QrTokenAssumption
<1> HIDE DEF S, b, c
<1>2. S * b - S * c <= Tolerance * S + S - 1
  BY <1>1 DEF S
<1>3. S * (b - c) <= S * (Tolerance + 1) - 1
  BY <1>1, <1>2
<1>4. ASSUME b - c >= Tolerance + 1 PROVE FALSE
  <2>1. S * (b - c) >= S * (Tolerance + 1)
    BY <1>1, <1>4
  <2> QED BY <1>1, <1>3, <2>1
<1>5. b - c <= Tolerance
  BY <1>1, <1>4
<1> QED BY <1>5 DEF b, c

-----------------------------------------------------------------------------
(***************************************************************************)
(* The inductive invariant.                                                *)
(***************************************************************************)

(* What a projector shows: the code of its own event, with the event's key. *)
IsFrame(f) ==
    /\ f.event \in Events /\ f.block \in Int /\ f.subFrame \in 0 .. SubFramesPerBlock - 1
    /\ f.hmac = SubFrameHmac(f.event, f.event, f.block, f.subFrame)

(* Frames of one block of one event, each once.                            *)
IsCollection(set, e, b) ==
    /\ IsFiniteSet(set)
    /\ \A f \in set : IsFrame(f) /\ f.event = e /\ f.block = b
    /\ \A f, g \in set : f.subFrame = g.subFrame => f = g

(* Enough of them in a row.                                                *)
IsViewing(q, e, b) ==
    /\ Len(q) >= MinSubFrames
    /\ \A i \in DOMAIN q : IsFrame(q[i]) /\ q[i].event = e /\ q[i].block = b
    /\ \A i, j \in DOMAIN q : i # j => q[i].subFrame # q[j].subFrame
    /\ \A i \in DOMAIN q :
          \/ \A j \in DOMAIN q : q[j].subFrame <= q[i].subFrame
          \/ \E j \in DOMAIN q : q[j].subFrame - q[i].subFrame \in 1 .. 2

(* The block that was on the screen of e, by the projector's clock, when   *)
(* the phone's was at t.                                                   *)
WasShown(e, b, t) ==
    \E lag \in 0 .. MaxLag : t + ahead[e] - lag >= 0 /\ b = BlockOf(t + ahead[e] - lag)

(* A certificate in the making: what was seen since it was begun is of the *)
(* block shown then, and that is not long ago.                             *)
IsSigning(s) ==
    /\ s.event \in Events
    /\ s.since \in Nat /\ s.since <= time /\ time - s.since <= MaxSigning
    /\ s.subFrames \in Seq(Frames) /\ s.subFrames # << >>
    /\ LET b == s.subFrames[Len(s.subFrames)].block
       IN  IsViewing(s.subFrames, s.event, b) /\ WasShown(s.event, b, s.since)

CaptureInv ==
    /\ time \in Nat \ {0} /\ ahead \in [Events -> Offsets]
    /\ camera \in BOOLEAN /\ inFlight \in BOOLEAN /\ locked \in BOOLEAN
    /\ block \in Int /\ event \in Events \cup {NoFrame} /\ lastCapture \in Nat
    /\ lastRaw = NoFrame \/ lastRaw \in Frames
    /\ frames # {} => lastCapture # 0
    /\ frames \subseteq Frames /\ IsCollection(frames, event, block)
    /\ \A s \in signing : IsSigning(s)
    /\ ScansAreAccepted

(***************************************************************************)
(* What the server makes of a viewing.                                     *)
(***************************************************************************)

(* Frames of one block in a row are a run.                                 *)
LEMMA ViewingIsLive ==
    ASSUME NEW q, NEW e \in Events, NEW b \in Int, IsViewing(q, e, b)
    PROVE  Live(q, e, e, b)
<1> DEFINE place == [i \in DOMAIN q |-> Place(q[i], e, e, b)]
<1> DEFINE base == b * SubFramesPerBlock
<1>1. base \in Int
  BY QrTokenAssumption
<1>2. ASSUME NEW i \in DOMAIN q
      PROVE  /\ Known(q[i], e, e, b) /\ q[i].subFrame \in Int
             /\ place[i] = base + q[i].subFrame
  <2>1. /\ q[i].subFrame \in 0 .. SubFramesPerBlock - 1
        /\ q[i].hmac = SubFrameHmac(e, e, b, q[i].subFrame)
    BY DEF IsViewing, IsFrame
  <2>2. ShownIn(b, q[i], e, e)
    BY <2>1 DEF ShownIn
  <2>3. q[i].subFrame \in Int
    BY <2>1, QrTokenAssumption
  <2> QED BY <2>1, <2>2, <2>3 DEF Known, Place
<1> HIDE DEF base
<1>3. \A i, j \in DOMAIN q : i # j => place[i] # place[j]
  <2> SUFFICES ASSUME NEW i \in DOMAIN q, NEW j \in DOMAIN q, i # j PROVE place[i] # place[j]
    OBVIOUS
  <2>1. q[i].subFrame # q[j].subFrame
    BY DEF IsViewing
  <2>2. /\ q[i].subFrame \in Int /\ place[i] = base + q[i].subFrame
        /\ q[j].subFrame \in Int /\ place[j] = base + q[j].subFrame
    BY <1>2
  <2> HIDE DEF place
  <2> QED BY ONLY <1>1, <2>1, <2>2
<1>4. ASSUME NEW i \in DOMAIN q
      PROVE  \/ \A j \in DOMAIN q : place[j] <= place[i]
             \/ \E j \in DOMAIN q : place[j] - place[i] \in 1 .. 2
  <2>1. CASE \A j \in DOMAIN q : q[j].subFrame <= q[i].subFrame
    <3>1. ASSUME NEW j \in DOMAIN q PROVE place[j] <= place[i]
      <4> HIDE DEF place
      <4> QED BY <1>1, <1>2, <2>1
    <3> QED BY <3>1
  <2>2. CASE \E j \in DOMAIN q : q[j].subFrame - q[i].subFrame \in 1 .. 2
    <3>1. PICK j \in DOMAIN q : q[j].subFrame - q[i].subFrame \in 1 .. 2
      BY <2>2
    <3>2. place[j] - place[i] \in 1 .. 2
      <4> HIDE DEF place
      <4> QED BY <1>1, <1>2, <3>1
    <3> QED BY <3>2
  <2> QED BY <2>1, <2>2 DEF IsViewing
<1>5. IsRun(q, place)
  BY <1>3, <1>4 DEF IsRun
<1> QED BY <1>2, <1>5 DEF Live, IsViewing

(* Whatever array of frames passes the check of sub-frames, it was seen on *)
(* the screen of the event for as long as it has frames: no still picture  *)
(* and no frames of another event or of an old block pass.                 *)
THEOREM LiveIsViewed ==
    ASSUME NEW e \in Events, NEW b \in Int, NEW array \in Seq(Frames),
           \A i \in DOMAIN array : IsFrame(array[i]),
           Live(array, e, e, b)
    PROVE  ViewedFor(array, e, b)
<1> DEFINE n == Len(array)
<1> DEFINE place == [i \in DOMAIN array |-> Place(array[i], e, e, b)]
<1>1. /\ n \in Nat \ {0} /\ DOMAIN array = 1 .. n /\ IsRun(array, place)
      /\ \A i \in 1 .. n : Known(array[i], e, e, b)
  <2>1. n >= MinSubFrames
    BY DEF Live
  <2> QED BY <2>1, QrTokenAssumption DEF Live
<1>2. ASSUME NEW i \in 1 .. n
      PROVE  /\ array[i].event = e /\ array[i].block \in {b - 1, b}
             /\ place[i] \in Int /\ place[i] = Instant(array[i])
  <2>1. /\ array[i].block \in Int /\ array[i].subFrame \in 0 .. SubFramesPerBlock - 1
        /\ array[i].hmac = <<array[i].event, array[i].event, array[i].block, array[i].subFrame>>
    BY <1>1 DEF IsFrame, SubFrameHmac
  <2>2. place[i] = Place(array[i], e, e, b)
    BY <1>1
  <2>3. ShownIn(b, array[i], e, e) <=> array[i].event = e /\ array[i].block = b
    BY <2>1 DEF ShownIn, SubFrameHmac
  <2>4. ShownIn(b - 1, array[i], e, e) <=> array[i].event = e /\ array[i].block = b - 1
    BY <2>1 DEF ShownIn, SubFrameHmac
  <2>5. /\ array[i].event = e /\ array[i].block \in {b - 1, b}
        /\ place[i] = Instant(array[i])
    BY <1>1, <2>2, <2>3, <2>4 DEF Known, Place, Instant
  <2>6. Instant(array[i]) \in Int
    BY <2>1, QrTokenAssumption DEF Instant
  <2> QED BY <2>5, <2>6
<1>3. place \in [1 .. n -> Int]
  BY <1>1, <1>2
<1>4. IsFiniteSet(1 .. n) /\ Cardinality(1 .. n) = n
  <2> HIDE DEF n
  <2>1. Cardinality(1 .. n) = IF 1 > n THEN 0 ELSE n - 1 + 1
    BY <1>1, FS_Interval
  <2> QED BY <1>1, <2>1, FS_Interval
<1> HIDE DEF place, n
<1>5. \A i, j \in 1 .. n : place[i] = place[j] => i = j
  BY <1>1 DEF IsRun
<1>6. PICK sorted \in [1 .. n -> 1 .. n] :
         \A i, j \in 1 .. n : i < j => place[sorted[i]] < place[sorted[j]]
  BY <1>3, <1>4, <1>5, Sortable
<1>7. \A i \in 1 .. n : \E k \in 1 .. n : sorted[k] = i
  <2> DEFINE set == 1 .. n
  <2>1. sorted \in [1 .. Cardinality(set) -> set] /\ place \in [set -> Int] /\ IsFiniteSet(set)
    BY <1>3, <1>4
  <2>2. \A i, j \in 1 .. Cardinality(set) : i < j => place[sorted[i]] < place[sorted[j]]
    BY <1>4, <1>6
  <2> HIDE DEF set
  <2>3. \A f \in set : \E i \in 1 .. Cardinality(set) : sorted[i] = f
    BY ONLY <2>1, <2>2, SortedIsAll
  <2> QED BY <1>4, <2>3 DEF set
<1> DEFINE at == [k \in 1 .. n |-> place[sorted[k]]]
<1>8. /\ at \in [1 .. n -> Int] /\ \A k \in 1 .. n : at[k] = place[sorted[k]]
      /\ \A i, j \in 1 .. n : i < j => at[i] < at[j]
  BY <1>3, <1>6
<1> HIDE DEF at
<1>9. sorted \in Bijection(1 .. n, 1 .. n)
  <2>1. \A i, j \in 1 .. n : sorted[i] = sorted[j] => i = j
    <3> SUFFICES ASSUME NEW i \in 1 .. n, NEW j \in 1 .. n, sorted[i] = sorted[j] PROVE i = j
      OBVIOUS
    <3>1. at[i] = at[j] /\ at[i] \in Int
      BY <1>8
    <3>2. ~ (i < j) /\ ~ (j < i)
      <4>1. (i < j => at[i] < at[j]) /\ (j < i => at[j] < at[i])
        BY <1>8
      <4> QED BY <3>1, <4>1
    <3> QED BY <3>2
  <2> QED BY <1>6, <1>7, <2>1 DEF Bijection, Injection, IsInjective, Surjection
<1>10. \A i, j \in 1 .. n : i < j => place[sorted[i]] <= place[sorted[j]]
  <2> SUFFICES ASSUME NEW i \in 1 .. n, NEW j \in 1 .. n, i < j
               PROVE  place[sorted[i]] <= place[sorted[j]]
    OBVIOUS
  <2>1. at[i] < at[j] /\ at[i] \in Int /\ at[j] \in Int
    BY <1>8
  <2>2. at[i] = place[sorted[i]] /\ at[j] = place[sorted[j]]
    BY <1>8
  <2> QED BY <2>1, <2>2
<1>11. \A k \in 1 .. n : k < n => place[sorted[k + 1]] - place[sorted[k]] \in 1 .. 2
  BY <1>1, <1>3, <1>9, <1>10, SortedAlike
<1>12. \A k \in 1 .. n : at[k] - at[1] \in k - 1 .. 2 * (k - 1)
  <2>1. \A k \in 1 .. n : k < n => at[k + 1] - at[k] \in 1 .. 2
    <3> SUFFICES ASSUME NEW k \in 1 .. n, k < n PROVE at[k + 1] - at[k] \in 1 .. 2
      OBVIOUS
    <3>1. k + 1 \in 1 .. n
      BY <1>1
    <3>2. at[k + 1] = place[sorted[k + 1]] /\ at[k] = place[sorted[k]]
      BY <1>8, <3>1
    <3> QED BY <1>11, <3>2
  <2> QED BY <1>1, <1>8, <2>1, StepsAddUp
<1> DEFINE instants == {Instant(array[i]) : i \in DOMAIN array}
<1>13. 1 \in 1 .. n /\ n \in 1 .. n
  BY <1>1
<1>14. at[1] \in instants /\ at[n] \in instants
  <2>1. \A k \in 1 .. n : at[k] = Instant(array[sorted[k]]) /\ sorted[k] \in DOMAIN array
    BY <1>1, <1>2, <1>6, <1>8
  <2> QED BY <1>13, <2>1
<1>15. \A t \in instants : t \in at[1] .. at[n]
  <2> SUFFICES ASSUME NEW i \in 1 .. n PROVE Instant(array[i]) \in at[1] .. at[n]
    BY <1>1
  <2>1. PICK k \in 1 .. n : sorted[k] = i
    BY <1>7
  <2>2. Instant(array[i]) = at[k] /\ at[k] \in Int /\ at[1] \in Int /\ at[n] \in Int
    BY <1>2, <1>8, <1>13, <2>1
  <2>3. at[1] <= at[k]
    <3>1. k = 1 \/ 1 < k
      OBVIOUS
    <3> QED BY <1>8, <1>13, <2>2, <3>1
  <2>4. at[k] <= at[n]
    <3>1. k = n \/ k < n
      BY <1>1
    <3> QED BY <1>8, <1>13, <2>2, <3>1
  <2> QED BY <2>2, <2>3, <2>4
<1>16. at[n] - at[1] \in n - 1 .. 2 * (n - 1)
  BY <1>12, <1>13
<1>17. \A i \in DOMAIN array : array[i].event = e /\ array[i].block \in {b - 1, b}
  BY <1>1, <1>2
<1> HIDE DEF instants
<1>18. \E first, last \in instants :
          /\ \A t \in instants : t \in first .. last
          /\ last - first \in n - 1 .. 2 * (n - 1)
  BY <1>14, <1>15, <1>16
<1> QED BY <1>17, <1>18 DEF ViewedFor, instants, n

(* The token of a certificate is of a block near that of its instant.      *)
LEMMA ShownIsValid ==
    ASSUME NEW e \in Events, NEW b \in Int, NEW since \in Nat, NEW t \in Nat,
           since <= t, t - since <= MaxSigning,
           ahead \in [Events -> Offsets], WasShown(e, b, since)
    PROVE  b - BlockOf(t) \in -Tolerance .. Tolerance
<1> PICK lag \in 0 .. MaxLag : since + ahead[e] - lag >= 0 /\ b = BlockOf(since + ahead[e] - lag)
  BY DEF WasShown
<1> DEFINE instant == since + ahead[e] - lag
<1> DEFINE slack == Tolerance * SubFramesPerBlock
<1>1. ahead[e] \in Int /\ slack \in Int /\ MaxLag \in Nat /\ MaxSigning \in Nat
  <2>1. ahead[e] \in Offsets
    OBVIOUS
  <2>2. slack \in Int
    BY QrTokenAssumption
  <2> QED BY <2>1, <2>2, ScanCaptureAssumption
<1>2. ahead[e] <= slack /\ MaxSigning + MaxLag - ahead[e] <= slack
  BY ScanCaptureAssumption
<1>3. instant \in Nat
  BY <1>1
<1>4. instant - t <= slack /\ t - instant <= slack
  <2> HIDE DEF slack
  <2> QED BY <1>1, <1>2
<1> HIDE DEF instant
<1>5. BlockOf(instant) - BlockOf(t) <= Tolerance /\ BlockOf(t) - BlockOf(instant) <= Tolerance
  BY <1>3, <1>4, BlocksApart
<1>6. BlockOf(instant) \in Nat /\ BlockOf(t) \in Nat /\ Tolerance \in Nat
  BY <1>3, BlockTypes, QrTokenAssumption
<1>7. BlockOf(instant) - BlockOf(t) \in -Tolerance .. Tolerance
  BY <1>5, <1>6
<1> QED BY <1>7 DEF instant

LEMMA SignedIsGenuine ==
    ASSUME CaptureInv, NEW s \in signing
    PROVE  Genuine(Certificate(s))
<1> DEFINE q == s.subFrames
<1> DEFINE e == s.event
<1> DEFINE token == q[Len(q)]
<1> DEFINE b == token.block
<1>1. /\ e \in Events /\ q \in Seq(Frames) /\ q # << >>
      /\ s.since \in Nat /\ s.since <= time /\ time - s.since <= MaxSigning
      /\ IsViewing(q, e, b) /\ WasShown(e, b, s.since)
  BY DEF CaptureInv, IsSigning
<1>2. time \in Nat /\ ahead \in [Events -> Offsets]
  BY DEF CaptureInv
<1>3. Certificate(s) = [event |-> e, token |-> token, scannedAt |-> time, subFrames |-> q]
  BY DEF Certificate
<1> HIDE DEF q, e
<1>4. Len(q) \in DOMAIN q
  BY <1>1
<1>5. IsFrame(token) /\ token.event = e
  BY <1>1, <1>4 DEF IsViewing
<1> HIDE DEF token
<1>6. b \in Int
  BY <1>5 DEF IsFrame
<1>7. Live(q, e, e, b)
  BY <1>1, <1>6, ViewingIsLive
<1>8. b - BlockOf(time) \in -Tolerance .. Tolerance
  BY <1>1, <1>2, <1>6, ShownIsValid
<1>9. ValidPayload(token, e, time)
  BY <1>5, <1>8 DEF ValidPayload, IsFrame
<1> QED BY <1>3, <1>5, <1>7, <1>9 DEF Genuine

-----------------------------------------------------------------------------
(***************************************************************************)
(* The steps.                                                              *)
(***************************************************************************)

(* A function on 1 .. n is a sequence.                                     *)
LEMMA FunctionIsSeq ==
    ASSUME NEW set, NEW n \in Nat, NEW q \in [1 .. n -> set]
    PROVE  q \in Seq(set) /\ Len(q) = n /\ DOMAIN q = 1 .. n
  BY IsASeq

(* What is collected with a frame is a collection of its block and event,  *)
(* unless its sub-frame was there already.                                 *)
LEMMA CollectedIsCollection ==
    ASSUME CaptureInv, NEW raw \in Frames, IsFrame(raw),
           ~(~IsOther(raw) /\ \E f \in frames : f.subFrame = raw.subFrame)
    PROVE  /\ IsCollection(Collected(raw), raw.event, raw.block)
           /\ Collected(raw) \subseteq Frames
<1>1. CASE IsOther(raw)
  <2>1. Collected(raw) = {raw}
    BY <1>1 DEF Collected
  <2>2. IsFiniteSet({raw})
    BY FS_Singleton
  <2> QED BY <2>1, <2>2 DEF IsCollection
<1>2. CASE ~IsOther(raw)
  <2>1. Collected(raw) = frames \cup {raw}
    BY <1>2 DEF Collected
  <2>2. block = raw.block /\ event = raw.event
    BY <1>2 DEF IsOther
  <2>3. IsCollection(frames, raw.event, raw.block) /\ frames \subseteq Frames
    BY <2>2 DEF CaptureInv
  <2>4. \A f \in frames : f.subFrame # raw.subFrame
    BY <1>2
  <2>5. IsFiniteSet(frames \cup {raw})
    BY <2>3, FS_AddElement DEF IsCollection
  <2>6. \A f \in frames \cup {raw} : IsFrame(f) /\ f.event = raw.event /\ f.block = raw.block
    BY <2>3 DEF IsCollection
  <2>7. \A f, g \in frames \cup {raw} : f.subFrame = g.subFrame => f = g
    BY <2>3, <2>4 DEF IsCollection
  <2> QED BY <2>1, <2>3, <2>5, <2>6, <2>7 DEF IsCollection
<1> QED BY <1>1, <1>2

(* In order, enough frames in a row are a viewing.                         *)
LEMMA InOrderIsViewing ==
    ASSUME NEW set, NEW e, NEW b, IsCollection(set, e, b), set \subseteq Frames,
           Enough(set), Consecutive(set)
    PROVE  /\ InOrder(set) \in Seq(Frames) /\ InOrder(set) # << >>
           /\ IsViewing(InOrder(set), e, b)
           /\ InOrder(set)[Len(InOrder(set))].block = b
<1> DEFINE q == InOrder(set)
<1> DEFINE n == Cardinality(set)
<1>1. \A f \in set : f.subFrame \in Int
  BY QrTokenAssumption DEF IsCollection, IsFrame
<1>2. /\ n \in Nat /\ q \in [1 .. n -> set]
      /\ \A i, j \in 1 .. n : i < j => q[i].subFrame < q[j].subFrame
      /\ \A f \in set : \E i \in 1 .. n : q[i] = f
  BY <1>1, InOrderSorts DEF IsCollection
<1>3. n >= MinSubFrames
  BY DEF Enough
<1> HIDE DEF q, n
<1>4. q \in Seq(set) /\ Len(q) = n /\ DOMAIN q = 1 .. n
  BY <1>2, FunctionIsSeq
<1>5. n >= 1 /\ n \in 1 .. n
  BY <1>2, <1>3, QrTokenAssumption
<1>6. q \in Seq(Frames) /\ q # << >>
  <2>1. q \in [1 .. n -> Frames]
    BY <1>2
  <2>2. q \in Seq(Frames)
    BY <1>2, <2>1, FunctionIsSeq
  <2> QED BY <1>4, <1>5, <2>2
<1>7. \A i \in DOMAIN q : IsFrame(q[i]) /\ q[i].event = e /\ q[i].block = b
  BY <1>2, <1>4 DEF IsCollection
<1>8. \A i, j \in DOMAIN q : i # j => q[i].subFrame # q[j].subFrame
  <2> SUFFICES ASSUME NEW i \in 1 .. n, NEW j \in 1 .. n, i # j
               PROVE  q[i].subFrame # q[j].subFrame
    BY <1>4
  <2>1. q[i].subFrame \in Int /\ q[j].subFrame \in Int
    BY <1>1, <1>2
  <2>2. CASE i < j
    BY <1>2, <2>1, <2>2
  <2>3. CASE j < i
    BY <1>2, <2>1, <2>3
  <2> QED BY <1>2, <2>2, <2>3
<1>9. ASSUME NEW i \in DOMAIN q
      PROVE  \/ \A j \in DOMAIN q : q[j].subFrame <= q[i].subFrame
             \/ \E j \in DOMAIN q : q[j].subFrame - q[i].subFrame \in 1 .. 2
  <2>1. q[i] \in set
    BY <1>2, <1>4
  <2>2. CASE \A g \in set : g.subFrame <= q[i].subFrame
    BY <1>2, <1>4, <2>2
  <2>3. CASE \E g \in set : g.subFrame - q[i].subFrame \in 1 .. 2
    BY <1>2, <1>4, <2>3
  <2> QED BY <2>1, <2>2, <2>3 DEF Consecutive
<1>10. IsViewing(q, e, b)
  BY <1>3, <1>4, <1>7, <1>8, <1>9 DEF IsViewing
<1>11. q[Len(q)].block = b
  BY <1>4, <1>5, <1>7
<1> QED BY <1>6, <1>10, <1>11 DEF q

(* A frame is decoded.                                                     *)
LEMMA DecodeKeeps ==
    ASSUME CaptureInv, NEW raw \in Frames, IsFrame(raw),
           WasShown(raw.event, raw.block, time), Decode(raw)
    PROVE  CaptureInv'
<1> DEFINE set == Collected(raw)
<1>1. UNCHANGED <<time, ahead, camera, locked, certs>>
  BY DEF Decode
<1>2. time \in Nat \ {0} /\ raw.event \in Events /\ raw.block \in Int
  BY DEF CaptureInv, IsFrame
<1>3. \A s : IsSigning(s) => IsSigning(s)'
  BY <1>1 DEF IsSigning, WasShown, IsViewing, IsFrame
<1>4. ScansAreAccepted'
  BY <1>1 DEF CaptureInv, ScansAreAccepted
<1>5. CASE ~IsOther(raw) /\ \E f \in frames : f.subFrame = raw.subFrame
  <2>1. lastRaw' = raw
        /\ UNCHANGED <<frames, block, event, lastCapture, inFlight, signing>>
    BY <1>5 DEF Decode
  <2>2. IsCollection(frames, event, block)'
    BY <2>1 DEF CaptureInv, IsCollection, IsFrame
  <2> QED BY <1>1, <1>3, <1>4, <2>1, <2>2 DEF CaptureInv
<1>6. CASE ~(~IsOther(raw) /\ \E f \in frames : f.subFrame = raw.subFrame)
  <2>1. IsCollection(set, raw.event, raw.block) /\ set \subseteq Frames
    BY <1>6, CollectedIsCollection
  <2>2. CASE Enough(set) /\ ~Consecutive(set)
    <3>1. Reset /\ UNCHANGED <<inFlight, signing>>
      BY <1>6, <2>2 DEF Decode
    <3>2. IsCollection(frames, event, block)'
      BY <3>1, FS_EmptySet DEF Reset, IsCollection
    <3> QED BY <1>1, <1>3, <1>4, <3>1, <3>2 DEF CaptureInv, Reset
  <2>3. CASE ~(Enough(set) /\ ~Consecutive(set))
    <3>1. /\ frames' = set /\ block' = raw.block /\ event' = raw.event
          /\ lastCapture' = time /\ lastRaw' \in {NoFrame, raw}
      BY <1>6, <2>3 DEF Decode
    <3>2. IsCollection(frames, event, block)'
      BY <2>1, <3>1 DEF IsCollection, IsFrame
    <3>3. CASE ~Enough(set)
      <4>1. UNCHANGED <<inFlight, signing>>
        BY <1>6, <3>3 DEF Decode
      <4> HIDE DEF set
      <4> QED BY <1>1, <1>2, <1>3, <1>4, <2>1, <3>1, <3>2, <4>1 DEF CaptureInv
    <3>4. CASE Enough(set)
      <4> DEFINE new == [subFrames |-> InOrder(set), event |-> raw.event, since |-> time]
      <4>1. inFlight' = TRUE /\ signing' = signing \cup {new}
        BY <1>6, <2>3, <3>4 DEF Decode
      <4>2. Consecutive(set)
        BY <2>3, <3>4
      <4>3. /\ InOrder(set) \in Seq(Frames) /\ InOrder(set) # << >>
            /\ IsViewing(InOrder(set), raw.event, raw.block)
            /\ InOrder(set)[Len(InOrder(set))].block = raw.block
        BY <2>1, <3>4, <4>2, InOrderIsViewing
      <4>4. IsSigning(new)
        <5>1. new.event = raw.event /\ new.since = time /\ new.subFrames = InOrder(set)
          OBVIOUS
        <5>2. time <= time /\ time - time <= MaxSigning
          BY <1>2, ScanCaptureAssumption
        <5> HIDE DEF new, set
        <5> QED BY <1>2, <4>3, <5>1, <5>2 DEF IsSigning
      <4>5. \A s \in signing' : IsSigning(s)'
        <5> HIDE DEF new
        <5> QED BY <1>3, <4>1, <4>4 DEF CaptureInv
      <4> HIDE DEF set, new
      <4> QED BY <1>1, <1>2, <1>4, <2>1, <3>1, <3>2, <4>1, <4>5 DEF CaptureInv
    <3> QED BY <3>3, <3>4
  <2> QED BY <2>2, <2>3
<1> QED BY <1>5, <1>6

LEMMA SeeKeeps ==
    ASSUME CaptureInv, NEW e \in Events, See(e)
    PROVE  CaptureInv'
<1>1. PICK lag \in 0 .. MaxLag :
         time + ahead[e] - lag >= 0 /\ Decode(QrPayload(e, time + ahead[e] - lag))
  BY DEF See
<1> DEFINE instant == time + ahead[e] - lag
<1>2. ahead[e] \in Int /\ time \in Nat
  BY ScanCaptureAssumption DEF CaptureInv
<1>3. instant \in Nat
  BY <1>1, <1>2
<1>4. BlockOf(instant) \in Nat /\ SubFrameOf(instant) \in 0 .. SubFramesPerBlock - 1
  <2> HIDE DEF instant
  <2> QED BY <1>3, BlockTypes
<1> DEFINE raw == QrPayload(e, instant)
<1>5. WasShown(e, BlockOf(instant), time)
  BY <1>1 DEF WasShown
<1>6. Decode(raw)
  BY <1>1
<1> HIDE DEF instant
<1>7. /\ raw.event = e /\ raw.block = BlockOf(instant) /\ raw.subFrame = SubFrameOf(instant)
      /\ raw.hmac = SubFrameHmac(e, e, raw.block, raw.subFrame)
  BY DEF QrPayload
<1>8. raw \in Frames /\ IsFrame(raw)
  BY <1>4 DEF QrPayload, Frames, IsFrame, SubFrameHmac
<1>9. WasShown(raw.event, raw.block, time)
  BY <1>5, <1>7
<1> HIDE DEF raw
<1> QED BY <1>6, <1>8, <1>9, DecodeKeeps

(* After a reset nothing is collected.                                     *)
LEMMA ResetEmpties ==
    ASSUME Reset
    PROVE  /\ frames' = {} /\ block' \in Int /\ event' \in Events \cup {NoFrame}
           /\ lastCapture' \in Nat /\ (lastRaw' = NoFrame \/ lastRaw' \in Frames)
           /\ IsCollection(frames, event, block)'
<1>1. frames' = {} /\ block' = -1 /\ event' = NoFrame /\ lastCapture' = 0 /\ lastRaw' = NoFrame
  BY DEF Reset
<1>2. -1 \in Int
  OBVIOUS
<1>3. IsCollection(frames, event, block)'
  BY <1>1, FS_EmptySet DEF IsCollection
<1> QED BY <1>1, <1>2, <1>3

(* A certificate is enqueued, and it is accepted.                          *)
LEMMA CertificateKeeps ==
    ASSUME CaptureInv, NEW s \in signing, EnqueueCertificate(s)
    PROVE  CaptureInv'
<1>1. /\ certs' = certs \cup {Certificate(s)} /\ signing' = signing \ {s}
      /\ inFlight' = FALSE /\ locked' = TRUE /\ Reset /\ UNCHANGED <<time, ahead, camera>>
  BY DEF EnqueueCertificate
<1>2. Genuine(Certificate(s))
  BY SignedIsGenuine
<1>3. \A cert \in certs' : Genuine(cert)
  BY <1>1, <1>2 DEF CaptureInv, ScansAreAccepted
<1>4. ScansAreAccepted'
  BY <1>3 DEF ScansAreAccepted
<1>5. \A r \in signing' : IsSigning(r)'
  BY <1>1 DEF CaptureInv, IsSigning, WasShown, IsViewing, IsFrame
<1>6. /\ frames' = {} /\ block' \in Int /\ event' \in Events \cup {NoFrame}
      /\ lastCapture' \in Nat /\ (lastRaw' = NoFrame \/ lastRaw' \in Frames)
      /\ IsCollection(frames, event, block)'
  BY <1>1, ResetEmpties
<1> QED BY <1>1, <1>4, <1>5, <1>6 DEF CaptureInv

LEMMA SigningFailsKeeps ==
    ASSUME CaptureInv, NEW s \in signing, SigningFails(s)
    PROVE  CaptureInv'
<1>1. /\ signing' = signing \ {s} /\ inFlight' = FALSE /\ Reset
      /\ UNCHANGED <<time, ahead, camera, locked, certs>>
  BY DEF SigningFails
<1>2. \A r \in signing' : IsSigning(r)'
  BY <1>1 DEF CaptureInv, IsSigning, WasShown, IsViewing, IsFrame
<1>3. /\ frames' = {} /\ block' \in Int /\ event' \in Events \cup {NoFrame}
      /\ lastCapture' \in Nat /\ (lastRaw' = NoFrame \/ lastRaw' \in Frames)
      /\ IsCollection(frames, event, block)'
  BY <1>1, ResetEmpties
<1>4. ScansAreAccepted'
  BY <1>1 DEF CaptureInv, ScansAreAccepted
<1> QED BY <1>1, <1>2, <1>3, <1>4 DEF CaptureInv

(* The user's buttons and the lock's timer leave signing alone.            *)
LEMMA CameraKeeps ==
    ASSUME CaptureInv, Unlock \/ StartCamera \/ StopCamera
    PROVE  CaptureInv'
<1>1. UNCHANGED <<time, ahead, signing, certs>>
  BY DEF Unlock, StartCamera, StopCamera
<1>2. \A s \in signing' : IsSigning(s)'
  BY <1>1 DEF CaptureInv, IsSigning, WasShown, IsViewing, IsFrame
<1>3. ScansAreAccepted'
  BY <1>1 DEF CaptureInv, ScansAreAccepted
<1>4. CASE Unlock \/ StartCamera
  <2>1. UNCHANGED capture /\ inFlight' = inFlight
    BY <1>4 DEF Unlock, StartCamera
  <2>2. IsCollection(frames, event, block)'
    BY <2>1 DEF capture, CaptureInv, IsCollection, IsFrame
  <2>3. camera' \in BOOLEAN /\ locked' \in BOOLEAN
    BY <1>4 DEF CaptureInv, Unlock, StartCamera
  <2> QED BY <1>1, <1>2, <1>3, <2>1, <2>2, <2>3 DEF CaptureInv, capture
<1>5. CASE StopCamera
  <2>1. camera' = FALSE /\ inFlight' = FALSE /\ locked' = FALSE /\ Reset
    BY <1>5 DEF StopCamera
  <2>2. /\ frames' = {} /\ block' \in Int /\ event' \in Events \cup {NoFrame}
        /\ lastCapture' \in Nat /\ (lastRaw' = NoFrame \/ lastRaw' \in Frames)
        /\ IsCollection(frames, event, block)'
    BY <2>1, ResetEmpties
  <2> QED BY <1>1, <1>2, <1>3, <2>1, <2>2 DEF CaptureInv
<1> QED BY <1>4, <1>5

(* Time waits for the certificates that are being signed.                  *)
LEMMA CaptureTickKeeps ==
    ASSUME CaptureInv, Tick
    PROVE  CaptureInv'
<1>1. /\ time' = time + 1 /\ \A s \in signing : time - s.since < MaxSigning
      /\ UNCHANGED <<ahead, camera, capture, inFlight, locked, signing, certs>>
  BY DEF Tick
<1>2. ASSUME NEW s \in signing PROVE IsSigning(s)'
  <2>1. IsSigning(s) /\ time \in Nat
    BY DEF CaptureInv
  <2>2. s.since <= time' /\ time' - s.since <= MaxSigning
    BY <1>1, <2>1, ScanCaptureAssumption DEF IsSigning
  <2> QED BY <1>1, <2>1, <2>2 DEF IsSigning, WasShown, IsViewing, IsFrame
<1>3. IsCollection(frames, event, block)'
  BY <1>1 DEF capture, CaptureInv, IsCollection, IsFrame
<1>4. ScansAreAccepted'
  BY <1>1 DEF CaptureInv, ScansAreAccepted
<1>5. time' \in Nat \ {0}
  BY <1>1 DEF CaptureInv
<1> QED BY <1>1, <1>2, <1>3, <1>4, <1>5 DEF CaptureInv, capture

LEMMA CaptureInvariance == CaptureSpec => []CaptureInv
<1>1. CaptureInit => CaptureInv
  <2> SUFFICES ASSUME CaptureInit PROVE CaptureInv
    OBVIOUS
  <2>1. IsCollection(frames, event, block)
    BY FS_EmptySet DEF CaptureInit, IsCollection
  <2>2. time \in Nat \ {0}
    BY QrTokenAssumption DEF CaptureInit
  <2>3. /\ frames = {} /\ event = NoFrame /\ lastCapture = 0 /\ lastRaw = NoFrame
        /\ ahead \in [Events -> Offsets] /\ signing = {} /\ certs = {}
        /\ camera = FALSE /\ inFlight = FALSE /\ locked = FALSE
    BY DEF CaptureInit
  <2>4. block \in Int
    BY DEF CaptureInit
  <2> QED BY <2>1, <2>2, <2>3, <2>4 DEF CaptureInv, ScansAreAccepted
<1>2. CaptureInv /\ [CaptureNext]_captureVars => CaptureInv'
  <2> SUFFICES ASSUME CaptureInv, [CaptureNext]_captureVars PROVE CaptureInv'
    OBVIOUS
  <2>1. ASSUME NEW e \in Events, See(e) PROVE CaptureInv'
    BY <2>1, SeeKeeps
  <2>2. ASSUME NEW s \in signing, EnqueueCertificate(s) PROVE CaptureInv'
    BY <2>2, CertificateKeeps
  <2>3. ASSUME NEW s \in signing, SigningFails(s) PROVE CaptureInv'
    BY <2>3, SigningFailsKeeps
  <2>4. CASE Unlock \/ StartCamera \/ StopCamera
    BY <2>4, CameraKeeps
  <2>5. CASE Tick
    BY <2>5, CaptureTickKeeps
  <2>6. CASE UNCHANGED captureVars
    <3>1. UNCHANGED <<time, ahead, camera, frames, block, event, lastCapture, lastRaw,
                      inFlight, locked, signing, certs>>
      BY <2>6 DEF captureVars, capture
    <3>2. \A s \in signing' : IsSigning(s)'
      BY <3>1 DEF CaptureInv, IsSigning, WasShown, IsViewing, IsFrame
    <3>3. IsCollection(frames, event, block)'
      BY <3>1 DEF CaptureInv, IsCollection, IsFrame
    <3> QED BY <3>1, <3>2, <3>3 DEF CaptureInv, ScansAreAccepted
  <2> QED BY <2>1, <2>2, <2>3, <2>4, <2>5, <2>6 DEF CaptureNext
<1> QED BY <1>1, <1>2, PTL DEF CaptureSpec

-----------------------------------------------------------------------------
(* What the scanner keeps is of its type; the frames it has collected are  *)
(* of the block and the event it believes they are of.                     *)
THEOREM CaptureTypeCorrect == CaptureSpec => []CaptureTypeOK
<1>1. CaptureInv => CaptureTypeOK
  <2> SUFFICES ASSUME CaptureInv PROVE CaptureTypeOK
    OBVIOUS
  <2>1. ahead \in [Events -> Int]
    BY ScanCaptureAssumption DEF CaptureInv
  <2>2. \A s \in signing : \A i \in DOMAIN s.subFrames : s.subFrames[i] \in Frames
    BY DEF CaptureInv, IsSigning
  <2>3. \A f \in frames : f.block = block /\ f.event = event
    BY DEF CaptureInv, IsCollection
  <2> QED BY <2>1, <2>2, <2>3 DEF CaptureInv, CaptureTypeOK
<1> QED BY <1>1, CaptureInvariance, PTL

(* Whatever the camera catches of whichever screens, and whenever it is    *)
(* stopped, a certificate the scanner makes passes the server's check.     *)
THEOREM WhatIsScannedIsAccepted == CaptureSpec => []ScansAreAccepted
<1>1. CaptureInv => ScansAreAccepted
  BY DEF CaptureInv
<1> QED BY <1>1, CaptureInvariance, PTL

-----------------------------------------------------------------------------
(***************************************************************************)
(* The queues: first what the steps that they share keep, then the scan    *)
(* queue, then the override queue.                                         *)
(***************************************************************************)

(* As much of TypeOK as the proofs need.                                   *)
QueueTypes ==
    /\ status \in [Items -> Statuses]
    /\ shown \in [Items -> Statuses]
    /\ drains = [d \in Drains |-> drains[d]]

(* What the queue or the view calls sent, the server has.  The view may    *)
(* lag behind the queue, and a view that is gone keeps what it saw last.   *)
SentInv ==
    \A i \in Items : status[i] = "synced" \/ shown[i] = "synced" => i \in saved

QueueInv == QueueTypes /\ SentInv /\ NoneStranded

(* A drain takes its next item: that one is being sent, the others keep    *)
(* the status they were given, and no other drain changes.                 *)
LEMMA Proceeding ==
  ASSUME QueueTypes, NEW d \in Drains, NEW v, NEW items, NEW st \in [Items -> Statuses],
         NEW saves \in BOOLEAN, saves \/ st = status,
         Proceed(d, v, items, st, saves)
  PROVE  /\ QueueTypes'
         /\ \A i \in Items : status'[i] = st[i] \/ status'[i] = "syncing"
         /\ \A i \in Items : shown'[i] = shown[i] \/ shown'[i] = status'[i]
         /\ \A i \in Items : status'[i] = "syncing" => st[i] = "syncing" \/ drains'[d].at = i
         /\ \A e \in Drains \ {d} : drains'[e] = drains[e]
<1> DEFINE left == Remaining(items, st)
<1> USE DEF QueueTypes
<1>1. CASE left = {} /\ drains' = [drains EXCEPT ![d] = Idle]
           /\ IF saves THEN Persist(v, st) ELSE UNCHANGED <<status, shown, changed>>
  <2>1. status' = st /\ (shown' = shown \/ shown' = st)
    BY <1>1 DEF Persist
  <2> QED BY <1>1, <2>1
<1>2. ASSUME NEW i \in left,
             drains' = [drains EXCEPT ![d] = [view |-> v, at |-> i, rest |-> left \ {i}]],
             Persist(v, [st EXCEPT ![i] = "syncing"])
      PROVE  /\ QueueTypes'
             /\ \A j \in Items : status'[j] = st[j] \/ status'[j] = "syncing"
             /\ \A j \in Items : status'[j] = "syncing" => st[j] = "syncing" \/ j = i
             /\ \A j \in Items : shown'[j] = shown[j] \/ shown'[j] = status'[j]
             /\ drains'[d].at = i
             /\ \A e \in Drains \ {d} : drains'[e] = drains[e]
  <2>1. status' = [st EXCEPT ![i] = "syncing"] /\ (shown' = shown \/ shown' = status')
    BY <1>2 DEF Persist
  <2>2. status' \in [Items -> Statuses]
    BY <2>1 DEF Statuses, Queued
  <2>3. drains'[d].at = i /\ drains' = [e \in Drains |-> drains'[e]]
    BY <1>2
  <2> QED BY <1>2, <2>1, <2>2, <2>3
<1> HIDE DEF left
<1>4. CASE \E i \in left :
              /\ drains' = [drains EXCEPT ![d] = [view |-> v, at |-> i, rest |-> left \ {i}]]
              /\ Persist(v, [st EXCEPT ![i] = "syncing"])
  BY <1>2, <1>4
<1> QED BY <1>1, <1>4 DEF Proceed, left

(* ... and it is one of those the drain had.                               *)
LEMMA Taking ==
  ASSUME NEW d \in Drains, NEW v, NEW items, NEW st, NEW saves \in BOOLEAN,
         saves \/ st = status,
         Proceed(d, v, items, st, saves)
  PROVE  \A i : status'[i] = st[i] \/ i \in items
<1>1. CASE (IF saves THEN Persist(v, st) ELSE UNCHANGED <<status, shown, changed>>)
  BY <1>1 DEF Persist
<1>2. CASE \E j \in Remaining(items, st) : Persist(v, [st EXCEPT ![j] = "syncing"])
  <2>1. PICK j \in Remaining(items, st) : Persist(v, [st EXCEPT ![j] = "syncing"])
    BY <1>2
  <2>2. status' = [st EXCEPT ![j] = "syncing"] /\ j \in items
    BY <2>1 DEF Persist, Remaining
  <2> QED BY <2>2
<1> QED BY <1>1, <1>2 DEF Proceed

LEMMA QueueInit ==
  ASSUME Init PROVE QueueInv
BY DEF Init, QueueInv, QueueTypes, SentInv, NoneStranded, Statuses

-----------------------------------------------------------------------------
(* The steps of the page. *)

LEMMA MountKeeps ==
  ASSUME QueueInv, Mount PROVE QueueInv'
<1> USE DEF QueueInv, QueueTypes
<1>1. status' = Recovered(status) /\ shown' = status' /\ drains' = drains /\ saved' = saved
  BY DEF Mount
<1>2. /\ status' \in [Items -> Statuses]
      /\ \A i \in Items : status'[i] # "syncing" /\ (status'[i] = "synced" => status[i] = "synced")
  BY <1>1 DEF Recovered, Statuses, Queued
<1> QED BY <1>1, <1>2 DEF SentInv, NoneStranded

(* Steps that leave the items and their drains as they are. *)
LEMMA PageKeeps ==
  ASSUME QueueInv, Unmount \/ Crash \/ Effect \/ LinkDown \/ LinkUp PROVE QueueInv'
<1> USE DEF QueueInv, QueueTypes
<1>1. UNCHANGED <<status, shown, saved>>
  BY DEF Unmount, Crash, Effect, LinkDown, LinkUp, stored, page, net
<1>2. \/ mounted' = FALSE /\ drains' = [d \in Drains |-> drains'[d]]
      \/ mounted' = mounted /\ drains' = drains
  BY DEF Unmount, Crash, Effect, LinkDown, LinkUp, stored, page, net
<1> QED BY <1>1, <1>2 DEF SentInv, NoneStranded

-----------------------------------------------------------------------------
(* The steps of the queue. *)

LEMMA EnqueueKeeps ==
  ASSUME QueueInv, NEW v \in Views, NEW i \in Items, Enqueue(v, i) PROVE QueueInv'
<1> USE DEF QueueInv, QueueTypes
<1>1. /\ status' = [status EXCEPT ![i] = "pending"]
      /\ shown' = status' \/ shown' = shown
      /\ UNCHANGED <<mounted, drains, saved>>
  BY DEF Enqueue, Persist
<1>2. status' \in [Items -> Statuses]
  BY <1>1 DEF Statuses, Queued
<1> QED BY <1>1, <1>2 DEF SentInv, NoneStranded

(* A drain that goes on from the statuses st, having had the answer that   *)
(* it waited for: the item of the answer is not being sent in st.          *)
LEMMA ProceedKeeps ==
  ASSUME QueueInv, NEW d \in Drains, NEW v, NEW items, NEW st \in [Items -> Statuses],
         NEW saves \in BOOLEAN, saves \/ st = status,
         Proceed(d, v, items, st, saves),
         \A i \in Items : st[i] = "syncing" => status[i] = "syncing" /\ drains[d].at # i,
         \A i \in Items : st[i] = "synced" => status[i] = "synced" \/ i \in saved',
         saved \subseteq saved', mounted' = mounted
  PROVE  QueueInv'
<1> USE DEF QueueInv
<1>1. /\ QueueTypes'
      /\ \A i \in Items : status'[i] = st[i] \/ status'[i] = "syncing"
      /\ \A i \in Items : shown'[i] = shown[i] \/ shown'[i] = status'[i]
      /\ \A i \in Items : status'[i] = "syncing" => st[i] = "syncing" \/ drains'[d].at = i
      /\ \A e \in Drains \ {d} : drains'[e] = drains[e]
  BY Proceeding
<1>2. SentInv'
  BY <1>1 DEF SentInv
<1>3. ASSUME mounted', NEW i \in Items, status'[i] = "syncing"
      PROVE  \E e \in Drains : drains'[e].at = i
  <2>1. CASE drains'[d].at = i
    BY <2>1
  <2>2. CASE st[i] = "syncing"
    <3>1. PICK e \in Drains : drains[e].at = i
      BY <1>3, <2>2 DEF NoneStranded
    <3>2. e # d
      BY <2>2, <3>1
    <3> QED BY <1>1, <3>1, <3>2
  <2> QED BY <1>1, <1>3, <2>1, <2>2
<1>4. NoneStranded'
  BY <1>3 DEF NoneStranded
<1> QED BY <1>1, <1>2, <1>4

LEMMA StartKeeps ==
  ASSUME QueueInv, NEW d \in Drains, NEW v, StartDrain(d, v), UNCHANGED <<mounted, saved>>
  PROVE  QueueInv'
<1>1. CASE online[v]
  <2>1. Proceed(d, v, Waiting(status), status, FALSE)
    BY <1>1 DEF StartDrain
  <2>2. status \in [Items -> Statuses]
    BY DEF QueueInv, QueueTypes
  <2>3. drains[d].at = Nothing
    BY DEF StartDrain, Idle
  <2>4. \A i \in Items : drains[d].at # i
    BY <2>3, SyncQueueAssumption
  <2>5. saved \subseteq saved' /\ mounted' = mounted
    OBVIOUS
  <2> QED BY <2>1, <2>2, <2>4, <2>5, ProceedKeeps
<1>2. CASE ~online[v]
  BY <1>2 DEF StartDrain, QueueInv, QueueTypes, SentInv, NoneStranded
<1> QED BY <1>1, <1>2

LEMMA SettledIs ==
  ASSUME QueueTypes, NEW i, NEW result \in Queued
  PROVE  /\ Settled(i, result) \in [Items -> Statuses]
         /\ \A j \in Items : j # i => Settled(i, result)[j] = status[j]
         /\ i \in Items => Settled(i, result)[i] \in {result} \cup (Statuses \ Queued)
         /\ status[i] \notin Queued => Settled(i, result) = status
BY DEF QueueTypes, Settled, Statuses, Queued

(* A drain has the answer of its item, which is not being sent any more,   *)
(* and takes the next one.                                                 *)
LEMMA SettleKeeps ==
  ASSUME QueueInv, NEW d \in Drains, NEW result \in Queued \ {"syncing"},
         Proceed(d, drains[d].view, drains[d].rest, Settled(drains[d].at, result),
                 status[drains[d].at] \in Queued),
         result = "synced" => drains[d].at \in saved',
         saved \subseteq saved', mounted' = mounted
  PROVE  QueueInv'
<1> DEFINE i == drains[d].at
           st == Settled(i, result)
           saves == status[i] \in Queued
<1>1. /\ st \in [Items -> Statuses]
      /\ \A j \in Items : j # i => st[j] = status[j]
      /\ i \in Items => st[i] \in {result} \cup (Statuses \ Queued)
      /\ saves \/ st = status
  BY SettledIs DEF QueueInv
<1>2. saves \in BOOLEAN
  OBVIOUS
<1>3. i \in Items => st[i] # "syncing" /\ (st[i] = "synced" => result = "synced")
  BY <1>1 DEF Statuses, Queued
<1>4. Proceed(d, drains[d].view, drains[d].rest, st, saves)
  OBVIOUS
<1>5. \A j \in Items : st[j] = "syncing" => status[j] = "syncing" /\ drains[d].at # j
  BY <1>1, <1>3
<1>6. \A j \in Items : st[j] = "synced" => status[j] = "synced" \/ j \in saved'
  BY <1>1, <1>3
<1> HIDE DEF st, saves
<1> QED BY <1>1, <1>2, <1>4, <1>5, <1>6, ProceedKeeps

LEMMA AcceptedKeeps ==
  ASSUME QueueInv, NEW d \in Drains, Accepted(d) PROVE QueueInv'
<1>1. "synced" \in Queued \ {"syncing"}
  BY DEF Queued
<1>2. /\ Proceed(d, drains[d].view, drains[d].rest, Settled(drains[d].at, "synced"),
                 status[drains[d].at] \in Queued)
      /\ drains[d].at \in saved' /\ saved \subseteq saved' /\ mounted' = mounted
  BY DEF Accepted
<1> QED BY <1>1, <1>2, SettleKeeps

LEMMA RetriedKeeps ==
  ASSUME QueueInv, NEW d \in Drains, Retried(d) PROVE QueueInv'
<1> DEFINE i == drains[d].at
<1> USE DEF QueueInv, QueueTypes
<1>1. /\ drains' = [drains EXCEPT ![d] = Idle]
      /\ UNCHANGED <<mounted, saved>>
      /\ shown' = shown \/ shown' = status'
  BY DEF Retried, Persist
<1>2. /\ status' \in [Items -> Statuses]
      /\ \A j \in Items : j # i => status'[j] = status[j]
      /\ i \in Items => status'[i] \in {"pending", "failed", "new", "gone"}
  BY DEF Retried, Persist, Statuses, Queued
<1>3. SentInv'
  BY <1>1, <1>2 DEF SentInv
<1>4. ASSUME mounted', NEW j \in Items, status'[j] = "syncing"
      PROVE  \E e \in Drains : drains'[e].at = j
  <2>1. j # i /\ status[j] = "syncing"
    BY <1>2, <1>4
  <2>2. PICK e \in Drains : drains[e].at = j
    BY <1>1, <1>4, <2>1 DEF NoneStranded
  <2>3. e # d
    BY <2>1, <2>2
  <2> QED BY <1>1, <2>2, <2>3
<1>5. NoneStranded'
  BY <1>4 DEF NoneStranded
<1> QED BY <1>1, <1>2, <1>3, <1>5

(* What is taken out of the queue is off the list, nothing else changes. *)
LEMMA TakenOut ==
  ASSUME QueueInv, NEW out \in SUBSET Items, TakeOut(out)
  PROVE  /\ QueueInv'
         /\ saved' = saved
         /\ status' = [i \in Items |-> IF i \in out THEN "gone" ELSE status[i]]
<1> USE DEF QueueInv, QueueTypes
<1>1. /\ status' = [i \in Items |-> IF i \in out THEN "gone" ELSE status[i]]
      /\ shown' = shown \/ shown' = status'
      /\ UNCHANGED <<mounted, drains, saved>>
  BY DEF TakeOut, Persist
<1>2. status' \in [Items -> Statuses]
  BY <1>1 DEF Statuses
<1> QED BY <1>1, <1>2 DEF SentInv, NoneStranded

-----------------------------------------------------------------------------
(***************************************************************************)
(* The scan queue: nothing is called sent, and nothing leaves the list,    *)
(* that the server does not have; and nothing hangs.  For any number of    *)
(* scans, drains in flight, remounts, crashes and network losses.          *)
(***************************************************************************)

ScanInv == QueueInv /\ RemovedWasSaved

(* A step that takes nothing off the list keeps RemovedWasSaved. *)
LEMMA Stays ==
  ASSUME RemovedWasSaved, saved \subseteq saved',
         \A i \in Items : status'[i] = "gone" => status[i] = "gone"
  PROVE  RemovedWasSaved'
BY DEF RemovedWasSaved

LEMMA PageStays ==
  ASSUME ScanInv, Mount \/ Unmount \/ Crash \/ Effect \/ LinkDown \/ LinkUp
  PROVE  RemovedWasSaved'
<1>1. saved' = saved /\ (status' = status \/ status' = Recovered(status))
  BY DEF Mount, Unmount, Crash, Effect, LinkDown, LinkUp, stored
<1>2. \A i \in Items : status'[i] = "gone" => status[i] = "gone"
  BY <1>1 DEF Recovered
<1> QED BY <1>1, <1>2, Stays DEF ScanInv

LEMMA StartStays ==
  ASSUME ScanInv, NEW d \in Drains, NEW v, StartDrain(d, v), saved' = saved
  PROVE  RemovedWasSaved'
<1>1. status \in [Items -> Statuses]
  BY DEF ScanInv, QueueInv, QueueTypes
<1>2. CASE online[v]
  <2>1. Proceed(d, v, Waiting(status), status, FALSE)
    BY <1>2 DEF StartDrain
  <2>2. \A i \in Items : status'[i] = status[i] \/ status'[i] = "syncing"
    BY <1>1, <2>1, Proceeding DEF ScanInv, QueueInv
  <2> QED BY <2>2, Stays DEF ScanInv
<1>3. CASE ~online[v]
  BY <1>3, Stays DEF StartDrain, ScanInv
<1> QED BY <1>2, <1>3

LEMMA AnswerStays ==
  ASSUME ScanInv, NEW d \in Drains, ScanAnswered(d) PROVE RemovedWasSaved'
<1> DEFINE i == drains[d].at
<1>1. QueueTypes
  BY DEF ScanInv, QueueInv
<1>2. CASE Accepted(d)
  <2> DEFINE st == Settled(i, "synced")
             saves == status[i] \in Queued
  <2>1. /\ st \in [Items -> Statuses]
        /\ \A j \in Items : j # i => st[j] = status[j]
        /\ i \in Items => st[i] \in {"synced"} \cup (Statuses \ Queued)
        /\ saves \/ st = status
    BY <1>1, SettledIs DEF Queued
  <2>2. saves \in BOOLEAN /\ Proceed(d, drains[d].view, drains[d].rest, st, saves)
    BY <1>2 DEF Accepted
  <2> HIDE DEF st, saves
  <2>3. \A j \in Items : st[j] = "gone" => status[j] = "gone" \/ j \in saved'
    BY <1>2, <2>1 DEF Accepted
  <2>4. \A j \in Items : status'[j] = st[j] \/ status'[j] = "syncing"
    BY <1>1, <2>1, <2>2, Proceeding
  <2>5. saved \subseteq saved'
    BY <1>2 DEF Accepted
  <2> QED BY <2>3, <2>4, <2>5 DEF RemovedWasSaved, ScanInv
<1>3. CASE Retried(d)
  <2>1. saved' = saved /\ \A j \in Items : status'[j] = "gone" => status[j] = "gone"
    BY <1>1, <1>3 DEF Retried, Persist, QueueTypes
  <2> QED BY <2>1, Stays DEF ScanInv
<1> QED BY <1>2, <1>3 DEF ScanAnswered

-----------------------------------------------------------------------------
LEMMA UserKeeps ==
  ASSUME ScanInv, UserStep PROVE ScanInv'
<1> USE DEF ScanInv
<1>1. ASSUME NEW v \in Views, NEW i \in Items, Enqueue(v, i) PROVE ScanInv'
  <2>1. QueueInv'
    BY <1>1, EnqueueKeeps
  <2>2. saved' = saved /\ \A j \in Items : status'[j] = "gone" => status[j] = "gone"
    BY <1>1 DEF Enqueue, Persist, QueueInv, QueueTypes
  <2> QED BY <2>1, <2>2, Stays
<1>2. ASSUME NEW i \in Items, RemoveScan(i) PROVE ScanInv'
  <2>1. /\ QueueInv'
        /\ saved' = saved
        /\ status' = [j \in Items |-> IF j \in {i} THEN "gone" ELSE status[j]]
    BY <1>2, TakenOut DEF RemoveScan
  <2>2. i \in saved
    BY <1>2 DEF RemoveScan, QueueInv, SentInv
  <2> QED BY <2>1, <2>2 DEF RemovedWasSaved
<1>3. ASSUME NEW d \in Drains, SendNow(d) PROVE ScanInv'
  <2>1. StartDrain(d, view) /\ UNCHANGED <<mounted, saved>>
    BY <1>3 DEF SendNow
  <2> QED BY <2>1, StartKeeps, StartStays
<1>4. CASE ClearSynced
  <2>1. /\ QueueInv'
        /\ saved' = saved
        /\ status' = [j \in Items |-> IF j \in Clearable THEN "gone" ELSE status[j]]
    BY <1>4, TakenOut DEF ClearSynced, Clearable
  <2>2. Clearable \subseteq saved
    BY DEF Clearable, QueueInv, SentInv
  <2> QED BY <2>1, <2>2 DEF RemovedWasSaved
<1> QED BY <1>1, <1>2, <1>3, <1>4 DEF UserStep

LEMMA ScanStep ==
  ASSUME ScanInv, [ScanNext]_vars PROVE ScanInv'
<1> USE DEF ScanInv
<1>1. CASE UserStep
  BY <1>1, UserKeeps
<1>2. CASE Mount
  BY <1>2, MountKeeps, PageStays
<1>3. CASE Unmount \/ Crash \/ Effect \/ LinkDown \/ LinkUp
  BY <1>3, PageKeeps, PageStays
<1>4. ASSUME NEW d \in Drains, ScanAnswered(d) PROVE ScanInv'
  BY <1>4, AcceptedKeeps, RetriedKeeps, AnswerStays DEF ScanAnswered
<1>5. ASSUME NEW d \in Drains, NEW v \in Views, Fire(v, d) PROVE ScanInv'
  <2>1. StartDrain(d, v) /\ UNCHANGED <<mounted, saved>>
    BY <1>5 DEF Fire
  <2> QED BY <2>1, StartKeeps, StartStays
<1>6. CASE UNCHANGED vars
  BY <1>6 DEF vars, stored, page, net, QueueInv, QueueTypes, SentInv, NoneStranded,
              RemovedWasSaved
<1> QED BY <1>1, <1>2, <1>3, <1>4, <1>5, <1>6 DEF ScanNext

LEMMA ScanInductive == ScanSpec => []ScanInv
<1>1. Init => ScanInv
  BY QueueInit DEF ScanInv, Init, RemovedWasSaved
<1>2. ScanInv /\ [ScanNext]_vars => ScanInv'
  BY ScanStep
<1> QED BY <1>1, <1>2, PTL DEF ScanSpec

(* Whatever drains overlap, views are left and pages are closed: a scan    *)
(* that the queue shows as sent is one the server acknowledged.            *)
THEOREM SentWasSaved == ScanSpec => []SyncedWasSaved
<1>1. ScanInv => SyncedWasSaved
  BY DEF ScanInv, QueueInv, SentInv, SyncedWasSaved
<1> QED BY <1>1, ScanInductive, PTL

(* A scan shown as being sent has a drain that waits for its answer. *)
THEOREM NoScanHangs == ScanSpec => []NoneStranded
<1>1. ScanInv => NoneStranded
  BY DEF ScanInv, QueueInv
<1> QED BY <1>1, ScanInductive, PTL

(* A scan that is off the list was saved: "Clear sent scans" takes only    *)
(* what the queue calls synced, and the button on a row only what the view *)
(* does, which may be behind the queue but never ahead of the server.      *)
THEOREM OffTheListWasSaved == ScanSpec => []RemovedWasSaved
<1>1. ScanInv => RemovedWasSaved
  BY DEF ScanInv
<1> QED BY <1>1, ScanInductive, PTL

(* A scan that was sent or given up is sent again only by a drain that had *)
(* taken it before: no drain that starts takes it, and hydration leaves it *)
(* alone (drain, the effect of hydration).                                 *)
THEOREM SettledIsLeftAlone == ScanSpec => SettledStays
<1> DEFINE Kept(i) ==
             status[i] \in {"synced", "failed"} /\ status'[i] \in {"pending", "syncing"} =>
                 \E d \in Drains : Holds(d, i)
<1>1. ASSUME ScanInv, [ScanNext]_vars, NEW i \in Items
      PROVE  Kept(i)
  <2>0. QueueTypes /\ status \in [Items -> Statuses]
    BY <1>1 DEF ScanInv, QueueInv, QueueTypes
  <2>1. ASSUME NEW d \in Drains, NEW v, StartDrain(d, v) PROVE Kept(i)
    <3>1. CASE online[v]
      <4>1. Proceed(d, v, Waiting(status), status, FALSE)
        BY <2>1, <3>1 DEF StartDrain
      <4>2. status'[i] = status[i] \/ i \in Waiting(status)
        BY <4>1, Taking
      <4> QED BY <4>2 DEF Waiting
    <3>2. CASE ~online[v]
      BY <2>1, <3>2 DEF StartDrain
    <3> QED BY <3>1, <3>2
  <2>2. ASSUME NEW d \in Drains, ScanAnswered(d) PROVE Kept(i)
    <3>1. CASE Accepted(d)
      <4> DEFINE st == Settled(drains[d].at, "synced")
                 saves == status[drains[d].at] \in Queued
      <4>1. /\ st \in [Items -> Statuses]
            /\ i # drains[d].at => st[i] = status[i]
            /\ saves \/ st = status
        BY <2>0, SettledIs DEF Queued
      <4>2. saves \in BOOLEAN /\ Proceed(d, drains[d].view, drains[d].rest, st, saves)
        BY <3>1 DEF Accepted
      <4> HIDE DEF st, saves
      <4>3. status'[i] = st[i] \/ i \in drains[d].rest
        BY <4>1, <4>2, Taking
      <4> QED BY <4>1, <4>3 DEF Holds
    <3>2. CASE Retried(d)
      <4>1. drains[d].at = i \/ status'[i] = status[i]
        BY <2>0, <3>2 DEF Retried, Persist
      <4> QED BY <4>1 DEF Holds
    <3> QED BY <2>2, <3>1, <3>2 DEF ScanAnswered
  <2>3. CASE \E v \in Views, j \in Items : Enqueue(v, j)
    BY <2>0, <2>3 DEF Enqueue, Persist
  <2>4. ASSUME NEW out, TakeOut(out) PROVE Kept(i)
    BY <2>4 DEF TakeOut, Persist
  <2>5. CASE Mount
    BY <2>0, <2>5 DEF Mount, Recovered
  <2>6. CASE Unmount \/ Crash \/ Effect \/ LinkDown \/ LinkUp \/ UNCHANGED vars
    BY <2>6 DEF Unmount, Crash, Effect, LinkDown, LinkUp, stored, vars
  <2> HIDE DEF Kept
  <2>7. CASE UserStep
    BY <2>1, <2>3, <2>4, <2>7 DEF UserStep, SendNow, RemoveScan, ClearSynced
  <2>8. ASSUME NEW d \in Drains, NEW v \in Views, Fire(v, d) PROVE Kept(i)
    BY <2>1, <2>8 DEF Fire
  <2> QED BY <1>1, <2>2, <2>5, <2>6, <2>7, <2>8 DEF ScanNext
<1>2. ScanInv /\ [ScanNext]_vars =>
        [\A i \in Items :
            status[i] \in {"synced", "failed"} /\ status'[i] \in {"pending", "syncing"} =>
                (\E d \in Drains : Holds(d, i)) \/ attempts'[i] = 0]_vars
  BY <1>1
<1> QED BY <1>2, ScanInductive, PTL DEF ScanSpec, SettledStays

-----------------------------------------------------------------------------
(***************************************************************************)
(* The override queue tells errors apart, and is right to: what it calls   *)
(* sent the server has, and what the server has it does not give up before *)
(* it has asked as often as it may.                                        *)
(***************************************************************************)

(* A failed entry was answered often enough, or refused. *)
FailedInv ==
    /\ attempts \in [Items -> Nat]
    /\ \A i \in Items :
          status[i] = "failed" => attempts[i] >= MaxAttempts \/ i \in refused

Attended == recorded \cup scanned

OverrideInv == QueueInv /\ saved \subseteq Attended /\ FailedInv

(* No entry fails, and no attempt is forgotten. *)
LEMMA NoneFails ==
  ASSUME FailedInv, attempts' \in [Items -> Nat], refused \subseteq refused',
         \A i \in Items : /\ attempts[i] <= attempts'[i]
                          /\ status'[i] = "failed" => status[i] = "failed"
  PROVE  FailedInv'
BY SyncQueueAssumption DEF FailedInv

LEMMA StartFails ==
  ASSUME OverrideInv, NEW d \in Drains, NEW v, StartDrain(d, v), UNCHANGED refused
  PROVE  FailedInv'
<1>1. status \in [Items -> Statuses] /\ QueueTypes
  BY DEF OverrideInv, QueueInv, QueueTypes
<1>2. \A i \in Items : status'[i] = status[i] \/ status'[i] = "syncing"
  <2>1. CASE online[v]
    BY <1>1, <2>1, Proceeding DEF StartDrain
  <2>2. CASE ~online[v]
    BY <2>2 DEF StartDrain
  <2> QED BY <2>1, <2>2
<1>3. attempts' = attempts
  BY DEF StartDrain
<1> QED BY <1>2, <1>3, NoneFails DEF OverrideInv, FailedInv

LEMMA CountedIs ==
  ASSUME attempts \in [Items -> Nat], NEW i, Counted(i)
  PROVE  /\ attempts' \in [Items -> Nat]
         /\ \A j \in Items : attempts[j] <= attempts'[j]
         /\ i \in Items /\ status[i] \in Queued => attempts'[i] = attempts[i] + 1
<1>1. CASE i \in Items
  BY <1>1 DEF Counted
<1>2. CASE i \notin Items
  <2>1. attempts' = attempts
    BY <1>2 DEF Counted
  <2> QED BY <1>2, <2>1
<1> QED BY <1>1, <1>2

(* An answer that settles an item with the result, and its drain goes on. *)
LEMMA SettleFails ==
  ASSUME OverrideInv, NEW d \in Drains, NEW result \in {"synced", "failed"},
         Proceed(d, drains[d].view, drains[d].rest, Settled(drains[d].at, result),
                 status[drains[d].at] \in Queued),
         Counted(drains[d].at), refused \subseteq refused',
         result = "failed" => drains[d].at \in refused'
  PROVE  FailedInv'
<1> DEFINE i == drains[d].at
           st == Settled(i, result)
           saves == status[i] \in Queued
<1> USE DEF OverrideInv, FailedInv
<1>1. QueueTypes
  BY DEF QueueInv
<1>2. /\ st \in [Items -> Statuses]
      /\ \A j \in Items : j # i => st[j] = status[j]
      /\ i \in Items => st[i] \in {result} \cup (Statuses \ Queued)
      /\ saves \/ st = status
  BY <1>1, SettledIs DEF Queued
<1>3. saves \in BOOLEAN /\ Proceed(d, drains[d].view, drains[d].rest, st, saves)
  OBVIOUS
<1>4. \A j \in Items : st[j] = "failed" => status[j] = "failed" \/ j \in refused'
  BY <1>2 DEF Statuses, Queued
<1>5. \A j \in Items : status'[j] = st[j] \/ status'[j] = "syncing"
  <2> HIDE DEF st, saves, OverrideInv, FailedInv
  <2> QED BY <1>1, <1>2, <1>3, Proceeding
<1> HIDE DEF st, saves
<1>6. attempts' \in [Items -> Nat] /\ \A j \in Items : attempts[j] <= attempts'[j]
  BY CountedIs
<1> QED BY <1>4, <1>5, <1>6, SyncQueueAssumption

LEMMA RefusedKeeps ==
  ASSUME QueueInv, NEW d \in Drains, Refused(d) PROVE QueueInv'
<1>1. "failed" \in Queued \ {"syncing"}
  BY DEF Queued
<1>2. /\ Proceed(d, drains[d].view, drains[d].rest, Settled(drains[d].at, "failed"),
                 status[drains[d].at] \in Queued)
      /\ saved \subseteq saved' /\ mounted' = mounted
  BY DEF Refused
<1> QED BY <1>1, <1>2, SettleKeeps

LEMMA RetriedFails ==
  ASSUME OverrideInv, NEW d \in Drains, Retried(d), refused \subseteq refused'
  PROVE  FailedInv'
<1> DEFINE i == drains[d].at
<1> USE DEF OverrideInv, FailedInv
<1>1. status \in [Items -> Statuses]
  BY DEF QueueInv, QueueTypes
<1>2. /\ attempts' \in [Items -> Nat]
      /\ \A j \in Items : attempts[j] <= attempts'[j]
      /\ i \in Items /\ status[i] \in Queued => attempts'[i] = attempts[i] + 1
  BY CountedIs DEF Retried
<1>3. ASSUME NEW j \in Items, status'[j] = "failed"
      PROVE  \/ status[j] = "failed"
             \/ j = i /\ status[i] \in Queued /\ attempts[i] + 1 >= MaxAttempts
  BY <1>1, <1>3 DEF Retried, Persist
<1> QED BY <1>2, <1>3, SyncQueueAssumption

-----------------------------------------------------------------------------
LEMMA AnswerKeeps ==
  ASSUME OverrideInv, NEW d \in Drains, EntryAnswered(d) PROVE OverrideInv'
<1> DEFINE i == drains[d].at
<1> USE DEF OverrideInv
<1>1. ASSUME Accepted(d), i \in Attended', Attended \subseteq Attended',
             refused \subseteq refused'
      PROVE  OverrideInv'
  <2>1. QueueInv'
    BY <1>1, AcceptedKeeps
  <2>2. saved' \subseteq Attended'
    BY <1>1 DEF Accepted
  <2>3. FailedInv'
    BY <1>1, SettleFails DEF Accepted
  <2> QED BY <2>1, <2>2, <2>3
<1>2. ASSUME NEW e \in Errors, Failed(d, e), RecordedAfter(i, e),
             refused' = IF e = "client" THEN refused \cup {i} ELSE refused
      PROVE  OverrideInv'
  <2>1. Attended \subseteq Attended' /\ refused \subseteq refused'
    BY <1>2 DEF RecordedAfter, Errors, Attended, server
  <2>2. CASE e \in AlreadyOverridden
    <3>1. i \in Attended'
      BY <1>2, <2>2 DEF RecordedAfter, AlreadyOverridden, Attended
    <3>2. Accepted(d)
      BY <1>2, <2>2 DEF Failed, AlreadyOverridden, Retryable, Terminal
    <3> QED BY <1>1, <2>1, <3>1, <3>2
  <2>3. CASE e \in Retryable
    <3>1. Retried(d)
      BY <1>2, <2>3 DEF Failed, AlreadyOverridden, Retryable, Terminal
    <3>2. saved' = saved
      BY <3>1 DEF Retried
    <3> QED BY <2>1, <3>1, <3>2, RetriedKeeps, RetriedFails
  <2>4. CASE e \in Terminal
    <3>1. e = "client"
      BY <2>4 DEF Terminal, Errors, AlreadyOverridden, Retryable
    <3>2. Refused(d)
      BY <1>2, <2>4 DEF Failed, AlreadyOverridden, Retryable, Terminal
    <3>3. saved' = saved /\ i \in refused'
      BY <1>2, <3>1, <3>2 DEF Refused
    <3>4. FailedInv'
      BY <2>1, <3>2, <3>3, SettleFails DEF Refused
    <3> QED BY <2>1, <3>2, <3>3, <3>4, RefusedKeeps
  <2> QED BY <1>2, <2>2, <2>3, <2>4 DEF Failed
<1>3. ASSUME Accepted(d), recorded' = recorded \cup {i}, UNCHANGED <<scanned, refused>>
      PROVE  OverrideInv'
  BY <1>1, <1>3 DEF Attended
<1> QED BY <1>2, <1>3 DEF EntryAnswered

(* The steps that the scan queue has too, and that say nothing of the      *)
(* server.                                                                 *)
LEMMA PageStepKeeps ==
  ASSUME OverrideInv, PageStep PROVE OverrideInv'
<1> USE DEF OverrideInv, Attended, server
<1>0. UNCHANGED <<server, refused, saved>>
  BY DEF PageStep, Mounting, Reconnecting, Rendering, Firing, Own, Mount, Unmount, Crash,
         Effect, LinkDown, LinkUp, ClearSynced, Fire, Enqueue, RemoveEntry, TakeOut
<1>1. CASE Mount
  <2>1. FailedInv'
    BY <1>0, <1>1 DEF Mount, Recovered, FailedInv
  <2> QED BY <1>0, <1>1, <2>1, MountKeeps
<1>2. CASE Unmount \/ Crash \/ Effect \/ LinkDown \/ LinkUp
  <2>1. UNCHANGED <<status, attempts>>
    BY <1>2 DEF Unmount, Crash, Effect, LinkDown, LinkUp, stored
  <2> QED BY <1>0, <1>2, <2>1, PageKeeps DEF FailedInv
<1>3. ASSUME NEW v \in Views, NEW d \in Drains, Fire(v, d) PROVE OverrideInv'
  <2>1. StartDrain(d, v) /\ UNCHANGED <<mounted, saved>>
    BY <1>3 DEF Fire
  <2> QED BY <1>0, <2>1, StartKeeps, StartFails
<1>4. ASSUME NEW v \in Views, NEW i \in Items, Enqueue(v, i) PROVE OverrideInv'
  <2>1. attempts' = attempts /\ \A j \in Items : status'[j] = "failed" => status[j] = "failed"
    BY <1>4 DEF Enqueue, Persist, QueueInv, QueueTypes
  <2> QED BY <1>0, <1>4, <2>1, EnqueueKeeps DEF FailedInv
<1>5. ASSUME NEW out \in SUBSET Items, TakeOut(out) PROVE OverrideInv'
  <2>1. attempts' = attempts
    BY <1>5 DEF TakeOut
  <2>2. QueueInv' /\ status' = [j \in Items |-> IF j \in out THEN "gone" ELSE status[j]]
    BY <1>5, TakenOut
  <2> QED BY <1>0, <2>1, <2>2 DEF FailedInv
<1>6. CASE ClearSynced
  BY <1>5, <1>6 DEF ClearSynced, Clearable
<1>7. ASSUME NEW i \in Items, RemoveEntry(i) PROVE OverrideInv'
  BY <1>5, <1>7 DEF RemoveEntry
<1> QED BY <1>1, <1>2, <1>3, <1>4, <1>6, <1>7
        DEF PageStep, Mounting, Reconnecting, Rendering, Firing, Own

(* A retry starts the count again, with an item that waits. *)
LEMMA RetryKeeps ==
  ASSUME OverrideInv, NEW i \in Items, RetryItem(i) PROVE OverrideInv'
<1> USE DEF OverrideInv, QueueInv, QueueTypes, Attended, server
<1>1. /\ status' = [status EXCEPT ![i] = "pending"]
      /\ attempts' = [attempts EXCEPT ![i] = 0]
      /\ shown' = status' \/ shown' = shown
      /\ refused' = refused \ {i}
      /\ UNCHANGED <<mounted, drains, saved, server>>
  BY DEF RetryItem, Persist
<1>2. status' \in [Items -> Statuses]
  BY <1>1 DEF Statuses, Queued
<1>3. SentInv' /\ NoneStranded'
  BY <1>1, <1>2 DEF SentInv, NoneStranded
<1>4. FailedInv'
  BY <1>1, <1>2 DEF FailedInv
<1> QED BY <1>1, <1>2, <1>3, <1>4

LEMMA OverrideInductive == OverrideSpec => []OverrideInv
<1>1. Init /\ recorded = {} /\ scanned = {} /\ refused = {} /\ retries = 0 => OverrideInv
  <2> SUFFICES ASSUME Init, refused = {} PROVE OverrideInv
    OBVIOUS
  <2>1. saved = {} /\ FailedInv
    BY DEF Init, FailedInv
  <2> QED BY <2>1, QueueInit DEF OverrideInv
<1>2. OverrideInv /\ [OverrideNext]_allVars => OverrideInv'
  <2> SUFFICES ASSUME OverrideInv, [OverrideNext]_allVars PROVE OverrideInv'
    OBVIOUS
  <2>1. CASE UNCHANGED allVars
    BY <2>1 DEF allVars, server, Attended, vars, stored, page, net, OverrideInv, QueueInv, QueueTypes, SentInv,
                NoneStranded, FailedInv
  <2> QED BY <2>1, AnswerKeeps, PageStepKeeps, RetryKeeps DEF OverrideNext
<1> QED BY <1>1, <1>2, PTL DEF OverrideSpec

(* Where the queue shows an entry as sent, the server has the student      *)
(* present: it took the entry, or answered 409, of which Attendance's      *)
(* AnswersAreTrue says that there is a row, though maybe a scan's and no   *)
(* entry.                                                                  *)
THEOREM SentEntryIsPresent == OverrideSpec => []SyncedIsPresent
<1>1. OverrideInv => SyncedIsPresent
  BY DEF OverrideInv, Attended, QueueInv, SentInv, SyncedIsPresent
<1> QED BY <1>1, OverrideInductive, PTL

(* An entry that the server has is given up only after MaxAttempts answers *)
(* since the user last asked, or after a refusal, however drains overlap.  *)
THEOREM GivenUpWasTried == OverrideSpec => []RecordedIsNotFailed
<1>1. OverrideInv => RecordedIsNotFailed
  BY DEF OverrideInv, FailedInv, RecordedIsNotFailed
<1> QED BY <1>1, OverrideInductive, PTL
-----------------------------------------------------------------------------
(***************************************************************************)
(* From the phone to the table: for any number of scans, of any events,    *)
(* drains, views, losses and deletions.                                    *)
(***************************************************************************)

(* What drains have in hand are scans that were signed. *)
HeldInv ==
    \A d \in Drains :
        /\ drains[d].at \in Items \cup {Nothing}
        /\ drains[d].rest \subseteq Items
        /\ \A i \in Items : Holds(d, i) => status[i] # "new"

(* Nothing goes back to before it was signed. *)
StaysSigned == \A i \in Items : status[i] # "new" => status'[i] # "new"

LEMMA ProceedHolds ==
  ASSUME QueueTypes, HeldInv, NEW d \in Drains, NEW v, NEW items \in SUBSET Items,
         NEW st \in [Items -> Statuses], NEW saves \in BOOLEAN, saves \/ st = status,
         \A i \in Items : status[i] # "new" => st[i] # "new",
         Proceed(d, v, items, st, saves)
  PROVE  /\ HeldInv' /\ StaysSigned
         /\ \A e \in Drains \ {d} : drains'[e] = drains[e]
<1>1. /\ \A i \in Items : status'[i] = st[i] \/ status'[i] = "syncing"
      /\ \A e \in Drains \ {d} : drains'[e] = drains[e]
  BY Proceeding
<1>2. StaysSigned
  BY <1>1 DEF StaysSigned
<1>3. ASSUME NEW e \in Drains \ {d}
      PROVE  /\ drains'[e].at \in Items \cup {Nothing} /\ drains'[e].rest \subseteq Items
             /\ \A i \in Items : Holds(e, i)' => status'[i] # "new"
  BY <1>1, <1>2 DEF HeldInv, Holds, StaysSigned
<1>4. CASE drains' = [drains EXCEPT ![d] = Idle]
  <2>1. drains'[d] = Idle
    BY <1>4 DEF QueueTypes
  <2>2. \A i \in Items : ~Holds(d, i)'
    BY <2>1, SyncQueueAssumption DEF Holds, Idle
  <2>3. drains'[d].at = Nothing /\ drains'[d].rest = {}
    BY <2>1 DEF Idle
  <2> QED BY <1>1, <1>2, <1>3, <2>2, <2>3 DEF HeldInv
<1>5. ASSUME NEW i \in Remaining(items, st),
             drains' = [drains EXCEPT ![d] = [view |-> v, at |-> i,
                                              rest |-> Remaining(items, st) \ {i}]]
      PROVE  HeldInv'
  <2>1. drains'[d].at = i /\ drains'[d].rest = Remaining(items, st) \ {i}
    BY <1>5 DEF QueueTypes
  <2>2. /\ Remaining(items, st) \subseteq Items
        /\ \A j \in Remaining(items, st) : st[j] # "new"
    BY DEF Remaining, Queued
  <2>3. \A j \in Items : Holds(d, j)' => j \in Remaining(items, st)
    BY <2>1 DEF Holds
  <2>4. \A j \in Items : Holds(d, j)' => status'[j] # "new"
    BY <1>1, <2>2, <2>3
  <2> QED BY <1>3, <2>1, <2>2, <2>4 DEF HeldInv
<1> QED BY <1>1, <1>2, <1>4, <1>5 DEF Proceed

LEMMA StartHolds ==
  ASSUME QueueTypes, HeldInv, NEW d \in Drains, NEW v, StartDrain(d, v)
  PROVE  /\ HeldInv' /\ StaysSigned
         /\ drains[d] = Idle
         /\ \A e \in Drains \ {d} : drains'[e] = drains[e]
<1>1. CASE online[v]
  <2>1. Proceed(d, v, Waiting(status), status, FALSE)
    BY <1>1 DEF StartDrain
  <2>2. Waiting(status) \in SUBSET Items /\ status \in [Items -> Statuses]
    BY DEF Waiting, QueueTypes
  <2> QED BY <2>1, <2>2, ProceedHolds DEF StartDrain
<1>2. CASE ~online[v]
  BY <1>2 DEF StartDrain, HeldInv, Holds, StaysSigned
<1> QED BY <1>1, <1>2

LEMMA AcceptedHolds ==
  ASSUME QueueTypes, HeldInv, NEW d \in Drains, Accepted(d)
  PROVE  /\ HeldInv' /\ StaysSigned
         /\ \A e \in Drains \ {d} : drains'[e] = drains[e]
<1> DEFINE st == Settled(drains[d].at, "synced")
           saves == status[drains[d].at] \in Queued
<1>1. /\ st \in [Items -> Statuses]
      /\ \A j \in Items : j # drains[d].at => st[j] = status[j]
      /\ drains[d].at \in Items => st[drains[d].at] \in {"synced"} \cup (Statuses \ Queued)
      /\ saves \/ st = status
  BY SettledIs DEF Queued
<1>2. \A j \in Items : status[j] # "new" => st[j] # "new"
  <2> SUFFICES ASSUME NEW j \in Items, status[j] # "new" PROVE st[j] # "new"
    OBVIOUS
  <2>1. CASE saves
    BY <2>1 DEF Settled, Queued, QueueTypes
  <2> QED BY <1>1, <2>1
<1>3. drains[d].rest \in SUBSET Items /\ saves \in BOOLEAN
  BY DEF HeldInv
<1>4. Proceed(d, drains[d].view, drains[d].rest, st, saves)
  BY DEF Accepted
<1> HIDE DEF st, saves
<1> QED BY <1>1, <1>2, <1>3, <1>4, ProceedHolds

LEMMA RetriedHolds ==
  ASSUME QueueTypes, HeldInv, NEW d \in Drains, Retried(d)
  PROVE  /\ HeldInv' /\ StaysSigned
         /\ drains'[d].at = Nothing
         /\ \A e \in Drains \ {d} : drains'[e] = drains[e]
<1>1. /\ drains'[d] = Idle
      /\ \A e \in Drains \ {d} : drains'[e] = drains[e]
  BY DEF Retried, QueueTypes
<1>2. StaysSigned
  BY DEF Retried, Persist, StaysSigned, QueueTypes
<1>3. \A i \in Items : ~Holds(d, i)'
  BY <1>1, SyncQueueAssumption DEF Holds, Idle
<1>4. drains'[d].at = Nothing /\ drains'[d].rest = {}
  BY <1>1 DEF Idle
<1>5. HeldInv'
  BY <1>1, <1>2, <1>3, <1>4 DEF HeldInv, Holds, StaysSigned
<1> QED BY <1>1, <1>2, <1>4, <1>5

(* Steps that leave the drains alone. *)
LEMMA LeftHeld ==
  ASSUME HeldInv, StaysSigned, drains' = drains PROVE HeldInv'
BY DEF HeldInv, StaysSigned, Holds

-----------------------------------------------------------------------------
(* The table. *)

(* A scan is accounted for: it is in the table, or its event or the        *)
(* account is gone.                                                        *)
Accounted(i) == Present(i) \/ Deleted(i)

(* Once it is, it stays so. *)
LEMMA TableKeeps ==
  ASSUME Ledger!TypeOK,
         \/ UNCHANGED table
         \/ \E i \in Items : Ledger!CheckIn(Pair(i)) \/ Ledger!TimeOut(Pair(i))
                             \/ Ledger!Override(Pair(i))
         \/ \E x \in Occasions \cup {Student} : Ledger!Delete(x)
  PROVE  Ledger!TypeOK' /\ \A i \in Items : Accounted(i) => Accounted(i)'
<1>0. \A i \in Items : Pair(i) \in Occasions \X {Student}
  BY DEF Pair, Occasions
<1>1. CASE UNCHANGED table
  BY <1>1 DEF table, Ledger!TypeOK, Ledger!Pairs, Accounted, Present, Deleted, Ledger!Open
<1>2. ASSUME NEW j \in Items, NEW entry \in Ledger!Entry,
             ledger' = [ledger EXCEPT ![Pair(j)] = entry], gone' = gone
      PROVE  Ledger!TypeOK' /\ \A i \in Items : Accounted(i) => Accounted(i)'
  <2>1. Ledger!TypeOK'
    BY <1>2 DEF Ledger!TypeOK
  <2>2. \A i \in Items : ledger'[Pair(i)] = ledger[Pair(i)] \/ ledger'[Pair(i)] = entry
    BY <1>0, <1>2 DEF Ledger!TypeOK, Ledger!Pairs
  <2>3. entry # Nothing
    BY <1>2, DeliveryAssumption
  <2> QED BY <1>2, <2>1, <2>2, <2>3 DEF Accounted, Present, Deleted, Ledger!Open
<1>3. ASSUME NEW j \in Items, Ledger!CheckIn(Pair(j))
      PROVE  Ledger!TypeOK' /\ \A i \in Items : Accounted(i) => Accounted(i)'
  <2>1. [source |-> "qr", timedOut |-> FALSE] \in Ledger!Entry
    BY DEF Ledger!Entry
  <2> QED BY <1>2, <1>3, <2>1 DEF Ledger!CheckIn
<1>4. ASSUME NEW j \in Items, Ledger!TimeOut(Pair(j))
      PROVE  Ledger!TypeOK' /\ \A i \in Items : Accounted(i) => Accounted(i)'
  <2> DEFINE entry == [ledger[Pair(j)] EXCEPT !.timedOut = TRUE]
  <2>1. ledger[Pair(j)] \in Ledger!Entry
    BY <1>0, <1>4 DEF Ledger!TimeOut, Ledger!TypeOK, Ledger!Pairs
  <2>2. entry \in Ledger!Entry
    BY <2>1 DEF Ledger!Entry
  <2>3. ledger' = [ledger EXCEPT ![Pair(j)] = entry] /\ gone' = gone
    BY <1>4 DEF Ledger!TimeOut
  <2> QED BY <1>2, <2>2, <2>3
<1>5. ASSUME NEW j \in Items, Ledger!Override(Pair(j))
      PROVE  Ledger!TypeOK' /\ \A i \in Items : Accounted(i) => Accounted(i)'
  <2> DEFINE entry == [source |-> "override",
                       timedOut |-> ledger[Pair(j)] # Nothing /\ ledger[Pair(j)].timedOut]
  <2>1. ledger[Pair(j)] # Nothing => ledger[Pair(j)].timedOut \in BOOLEAN
    BY <1>0 DEF Ledger!TypeOK, Ledger!Pairs, Ledger!Entry
  <2>2. entry \in Ledger!Entry
    BY <2>1 DEF Ledger!Entry
  <2>3. ledger' = [ledger EXCEPT ![Pair(j)] = entry] /\ gone' = gone
    BY <1>5 DEF Ledger!Override
  <2> QED BY <1>2, <2>2, <2>3
<1>6. ASSUME NEW x \in Occasions \cup {Student}, Ledger!Delete(x)
      PROVE  Ledger!TypeOK' /\ \A i \in Items : Accounted(i) => Accounted(i)'
  <2>1. Ledger!TypeOK'
    BY <1>6 DEF Ledger!Delete, Ledger!TypeOK, Ledger!Pairs
  <2>2. \A i \in Items : x \in {Pair(i)[1], Pair(i)[2]} => Deleted(i)'
    BY <1>6 DEF Ledger!Delete, Deleted, Ledger!Open
  <2>3. \A i \in Items : x \notin {Pair(i)[1], Pair(i)[2]} => ledger'[Pair(i)] = ledger[Pair(i)]
    BY <1>0, <1>6 DEF Ledger!Delete, Ledger!Pairs
  <2>4. gone \subseteq gone'
    BY <1>6 DEF Ledger!Delete
  <2> QED BY <2>1, <2>2, <2>3, <2>4 DEF Accounted, Present, Deleted, Ledger!Open
<1> QED BY <1>1, <1>3, <1>4, <1>5, <1>6

(* What a request does to the table; the answer ok is true. *)
LEMMA Served ==
  ASSUME Ledger!TypeOK, NEW i \in Items, NEW reply, Serve(i, reply)
  PROVE  /\ Ledger!TypeOK'
         /\ \A j \in Items : Accounted(j) => Accounted(j)'
         /\ reply = "ok" => Accounted(i)'
         /\ reply = "unregistered" => deviceKey # "active"
<1>1. \/ UNCHANGED table
      \/ Ledger!CheckIn(Pair(i)) \/ Ledger!TimeOut(Pair(i))
  BY DEF Serve
<1>2. Ledger!TypeOK' /\ \A j \in Items : Accounted(j) => Accounted(j)'
  BY <1>1, TableKeeps
<1>3. reply = "ok" => Present(i)'
  <2>0. Pair(i) \in Occasions \X {Student}
    BY DEF Pair, Occasions
  <2>1. CASE Present(i) /\ UNCHANGED table
    BY <2>1 DEF Present, table
  <2>2. CASE Ledger!CheckIn(Pair(i))
    <3>1. ledger'[Pair(i)] = [source |-> "qr", timedOut |-> FALSE]
      BY <2>0, <2>2 DEF Ledger!CheckIn, Ledger!TypeOK, Ledger!Pairs
    <3>2. ledger'[Pair(i)] \in Ledger!Entry
      BY <3>1 DEF Ledger!Entry
    <3> QED BY <3>2, DeliveryAssumption DEF Present
  <2>3. CASE Ledger!TimeOut(Pair(i))
    <3>1. Present(i)
      BY <2>3 DEF Ledger!TimeOut, Present
    <3>2. /\ ledger'[Pair(i)] = [ledger[Pair(i)] EXCEPT !.timedOut = TRUE]
          /\ ledger[Pair(i)] \in Ledger!Entry
      BY <2>0, <2>3, <3>1 DEF Ledger!TimeOut, Ledger!TypeOK, Ledger!Pairs, Present
    <3>3. ledger'[Pair(i)] \in Ledger!Entry
      BY <3>2 DEF Ledger!Entry
    <3> QED BY <3>3, DeliveryAssumption DEF Present
  <2> QED BY <2>1, <2>2, <2>3 DEF Serve
<1>4. reply = "unregistered" => deviceKey # "active"
  BY DEF Serve
<1> QED BY <1>2, <1>3, <1>4 DEF Accounted

-----------------------------------------------------------------------------
(* The invariant. *)

(* What the queue counts as saved is in the table. *)
SavedInv == \A i \in Items : i \in saved => Accounted(i)

(* An answer is about the scan that the drain waits for, and true: of the  *)
(* table, and of the key if the phone held it for registered.              *)
RepliesInv ==
    \A d \in Drains :
        LET i == drains[d].at
        IN  /\ replies[d] # "none" => i \in Items
            /\ replies[d] = "ok" => Accounted(i)
            /\ replies[d] = "unregistered" /\ i \in marking => deviceKey = "revoked"

KeyIsKnown == deviceKey \in {"active", "revoked"}

(* The phone marks its key only when the server has it. *)
KeyInv ==
    /\ marked => KeyIsKnown
    /\ marking # {} => KeyIsKnown
    /\ \A i \in Items : calls[i] = "granted" => KeyIsKnown

(* A scan has no history before it is signed. *)
FreshInv == \A i \in Items : status[i] = "new" => i \notin marking /\ answers[i] = {}

DeliveryInv ==
    /\ ScanInv
    /\ HeldInv
    /\ DeliveryTypeOK
    /\ SavedInv
    /\ RepliesInv
    /\ KeyInv
    /\ FreshInv
    /\ MarkedIsKnown

(* The phone's steps are steps of the scan queue, and the server's leave   *)
(* it alone.                                                               *)
LEMMA DeliveryIsScan ==
  ASSUME [DeliveryNext]_deliveryVars PROVE [ScanNext]_vars
<1>1. CASE ServerStep
  BY <1>1 DEF ServerStep, Handle, HandleLate, Register, RevokeKey, TableStep
<1>2. ASSUME NEW i \in Items, Mark(i) \/ Unanswered(i) PROVE UNCHANGED vars
  BY <1>2 DEF Mark, Unanswered
<1>3. ASSUME NEW v \in Views, NEW i \in Items, Capture(v, i) PROVE ScanNext
  BY <1>3 DEF Capture, ScanNext, UserStep
<1>4. ASSUME NEW d \in Drains, Begins(d) PROVE ScanNext
  BY <1>4 DEF Begins, ScanNext, UserStep
<1>5. ASSUME NEW d \in Drains, Accept(d) \/ Refuse(d) \/ NoAnswer(d) PROVE ScanNext
  BY <1>5 DEF Accept, Refuse, NoAnswer, ComesBack, ScanNext, ScanAnswered
<1>6. CASE Close \/ QueueStep
  BY <1>6 DEF Close, QueueStep, ScanNext, UserStep
<1>7. CASE UNCHANGED deliveryVars
  BY <1>7 DEF deliveryVars
<1> QED BY <1>1, <1>2, <1>3, <1>4, <1>5, <1>6, <1>7 DEF DeliveryNext, PhoneStep

(* A step that asks no drain to send, and neither gets nor makes answers.  *)
LEMMA QuietKeeps ==
  ASSUME DeliveryInv, ScanInv', DeliveryTypeOK', StaysSigned,
         UNCHANGED <<drains, saved, replies, table, answers>>,
         deviceKey = "revoked" => deviceKey' = "revoked",
         KeyIsKnown => KeyIsKnown',
         marked' => marked \/ KeyIsKnown',
         marking' = marking,
         \A i \in Items : calls'[i] = "granted" => calls[i] = "granted" \/ KeyIsKnown'
  PROVE  DeliveryInv'
<1> USE DEF DeliveryInv
<1>1. HeldInv'
  BY LeftHeld
<1>2. \A i \in Items : Accounted(i)' <=> Accounted(i)
  BY DEF table, Accounted, Present, Deleted, Ledger!Open
<1>3. SavedInv'
  BY <1>2 DEF SavedInv
<1>4. RepliesInv'
  BY <1>2 DEF RepliesInv
<1>5. KeyInv'
  BY DEF KeyInv
<1>6. FreshInv'
  BY DEF FreshInv, StaysSigned
<1>7. MarkedIsKnown'
  BY DEF MarkedIsKnown
<1> QED BY <1>1, <1>3, <1>4, <1>5, <1>6, <1>7

(* The types. *)

LEMMA ServerTypes ==
  ASSUME DeliveryInv, ServerStep PROVE DeliveryTypeOK'
<1> USE DEF DeliveryInv, DeliveryTypeOK
<1>1. ASSUME NEW d \in Drains, Handle(d) PROVE DeliveryTypeOK'
  <2>1. PICK reply \in {"ok", "unregistered", "rejected"} :
           Serve(drains[d].at, reply) /\ replies' = [replies EXCEPT ![d] = reply]
    BY <1>1 DEF Handle
  <2>2. drains[d].at \in Items
    BY <1>1 DEF Handle, RepliesInv
  <2>3. Ledger!TypeOK'
    BY <2>1, <2>2, Served
  <2>4. replies' \in [Drains -> Replies]
    BY <2>1 DEF Replies
  <2> QED BY <1>1, <2>3, <2>4 DEF Handle, keys, history
<1>2. ASSUME NEW i \in Items, HandleLate(i) PROVE DeliveryTypeOK'
  <2>1. Ledger!TypeOK'
    BY <1>2, Served DEF HandleLate
  <2> QED BY <1>2, <2>1 DEF HandleLate, keys, history
<1>3. ASSUME UNCHANGED table PROVE Ledger!TypeOK'
  BY <1>3, TableKeeps
<1>4. ASSUME NEW i \in Items, Register(i) PROVE DeliveryTypeOK'
  <2>1. \A call \in Calls : AfterGrant(call) \in Calls /\ AfterRefusal(call) \in Calls
    BY DEF AfterGrant, AfterRefusal, Calls
  <2>2. calls' \in [Items -> Calls]
    BY <1>4, <2>1 DEF Register
  <2>3. deviceKey' \in {"unknown", "refused", "active", "revoked"}
    BY <1>4 DEF Register, Registered, TurnedAway
  <2> QED BY <1>3, <1>4, <2>2, <2>3 DEF Register, history
<1>5. CASE RevokeKey
  BY <1>3, <1>5 DEF RevokeKey, history
<1>6. CASE TableStep
  <2>1. Ledger!TypeOK'
    BY <1>6, TableKeeps DEF TableStep
  <2> QED BY <1>6, <2>1 DEF TableStep, keys, history
<1> QED BY <1>1, <1>2, <1>4, <1>5, <1>6 DEF ServerStep

LEMMA PhoneTypes ==
  ASSUME DeliveryInv, PhoneStep PROVE DeliveryTypeOK'
<1> USE DEF DeliveryInv, DeliveryTypeOK
<1>0. UNCHANGED table
  BY DEF PhoneStep, Mark, Unanswered, Capture, Begins, Accept, Refuse, NoAnswer, ComesBack,
         Close, QueueStep
<1>1. Ledger!TypeOK'
  BY <1>0, TableKeeps
<1>2. ASSUME NEW d \in Drains, Sends(d) PROVE replies' \in [Drains -> Replies]
  BY <1>2 DEF Sends, Replies
<1>3. ASSUME NEW i \in Items, Mark(i) \/ Unanswered(i) PROVE DeliveryTypeOK'
  <2>1. calls' \in [Items -> Calls]
    BY <1>3 DEF Mark, Unanswered, Calls
  <2> QED BY <1>1, <1>3, <2>1 DEF Mark, Unanswered, history
<1>4. ASSUME NEW v \in Views, NEW i \in Items, Capture(v, i) PROVE DeliveryTypeOK'
  <2>1. calls' \in [Items -> Calls]
    BY <1>4 DEF Capture, Calls
  <2> QED BY <1>1, <1>4, <2>1 DEF Capture
<1>5. ASSUME NEW d \in Drains, Begins(d) \/ Accept(d) PROVE DeliveryTypeOK'
  BY <1>1, <1>2, <1>5 DEF Begins, Accept, keys, history
<1>6. ASSUME NEW d \in Drains, Refuse(d) \/ NoAnswer(d) PROVE DeliveryTypeOK'
  <2>1. PICK reason \in {"network", "unregistered", "rejected"} : ComesBack(d, reason)
    BY <1>6 DEF Refuse, NoAnswer
  <2>2. answers' \in [Items -> SUBSET {"network", "unregistered", "rejected"}]
    BY <2>1 DEF ComesBack
  <2>3. late' \subseteq Items
    BY <1>6 DEF Refuse, NoAnswer, StillSent, RepliesInv
  <2> QED BY <1>1, <1>2, <2>1, <2>2, <2>3 DEF ComesBack, keys
<1>7. CASE Close
  <2>1. calls' \in [Items -> Calls]
    BY <1>7 DEF Close, Calls
  <2>2. replies' \in [Drains -> Replies]
    BY <1>7 DEF Close, Replies
  <2>3. late' \subseteq Items
    BY <1>7 DEF Close, StillSent, RepliesInv
  <2> QED BY <1>1, <1>7, <2>1, <2>2, <2>3 DEF Close, history
<1>8. CASE QueueStep
  BY <1>1, <1>8 DEF QueueStep, keys, history
<1> QED BY <1>3, <1>4, <1>5, <1>6, <1>7, <1>8 DEF PhoneStep

-----------------------------------------------------------------------------
(* The server's steps. *)

LEMMA ServerKeeps ==
  ASSUME DeliveryInv, ServerStep PROVE DeliveryInv'
<1> USE DEF DeliveryInv
<1>1. DeliveryTypeOK'
  BY ServerTypes
<1>2. UNCHANGED vars
  BY DEF ServerStep, Handle, HandleLate, Register, RevokeKey, TableStep
<1>3. ScanInv'
  BY <1>2, ScanStep
<1>4. StaysSigned /\ UNCHANGED <<status, drains, saved>>
  BY <1>2 DEF vars, stored, StaysSigned
<1>5. HeldInv'
  BY <1>4, LeftHeld
<1>6. ASSUME UNCHANGED <<keys, history>>,
             \A i \in Items : Accounted(i) => Accounted(i)',
             \A d \in Drains :
                \/ replies'[d] = replies[d]
                \/ /\ replies[d] # "none"
                   /\ replies'[d] = "ok" => Accounted(drains[d].at)'
                   /\ replies'[d] = "unregistered" => deviceKey # "active"
      PROVE  DeliveryInv'
  <2>1. SavedInv'
    BY <1>4, <1>6 DEF SavedInv
  <2>2. KeyInv'
    BY <1>6 DEF KeyInv, keys, history, KeyIsKnown
  <2>3. FreshInv' /\ MarkedIsKnown'
    BY <1>4, <1>6 DEF FreshInv, MarkedIsKnown, keys, history
  <2>4. RepliesInv'
    <3> SUFFICES ASSUME NEW d \in Drains
                 PROVE  LET i == drains[d].at
                        IN  /\ replies'[d] # "none" => i \in Items
                            /\ replies'[d] = "ok" => Accounted(i)'
                            /\ replies'[d] = "unregistered" /\ i \in marking =>
                                  deviceKey = "revoked"
      BY <1>4, <1>6 DEF RepliesInv, keys, history
    <3>1. CASE replies'[d] = replies[d]
      <4>1. /\ replies[d] # "none" => drains[d].at \in Items
            /\ replies[d] = "ok" => Accounted(drains[d].at)
            /\ replies[d] = "unregistered" /\ drains[d].at \in marking =>
                  deviceKey = "revoked"
        BY DEF RepliesInv
      <4>2. CASE replies[d] = "none"
        BY <3>1, <4>2
      <4>3. CASE replies[d] # "none"
        <5> DEFINE i == drains[d].at
        <5>1. i \in Items /\ i' = i
          BY <1>4, <4>1, <4>3
        <5>2. replies[d] = "ok" => Accounted(i)
          BY <4>1
        <5> HIDE DEF i
        <5>3. replies[d] = "ok" => Accounted(i)'
          BY <1>6, <5>1, <5>2
        <5> QED BY <3>1, <4>1, <5>1, <5>3 DEF i
      <4> QED BY <4>2, <4>3
    <3>2. CASE replies'[d] # replies[d]
      <4>1. drains[d].at \in Items
        BY <1>6, <3>2 DEF RepliesInv
      <4>2. replies'[d] = "unregistered" /\ drains[d].at \in marking => deviceKey = "revoked"
        BY <1>6, <3>2 DEF KeyInv, KeyIsKnown
      <4> QED BY <1>6, <3>2, <4>1, <4>2
    <3> QED BY <3>1, <3>2
  <2> QED BY <1>1, <1>3, <1>5, <2>1, <2>2, <2>3, <2>4
<1>7. ASSUME NEW d \in Drains, Handle(d) PROVE DeliveryInv'
  <2>1. PICK reply \in {"ok", "unregistered", "rejected"} :
           Serve(drains[d].at, reply) /\ replies' = [replies EXCEPT ![d] = reply]
    BY <1>7 DEF Handle
  <2>2. drains[d].at \in Items /\ replies[d] # "none"
    BY <1>7 DEF Handle, RepliesInv
  <2>3. /\ \A i \in Items : Accounted(i) => Accounted(i)'
        /\ reply = "ok" => Accounted(drains[d].at)'
        /\ reply = "unregistered" => deviceKey # "active"
    <3> DEFINE i == drains[d].at
    <3>1. i \in Items /\ Serve(i, reply) /\ i' = i
      BY <1>4, <2>1, <2>2
    <3> HIDE DEF i
    <3>2. /\ \A j \in Items : Accounted(j) => Accounted(j)'
          /\ reply = "ok" => ledger'[Pair(i)] # Nothing \/ Accounted(i)'
          /\ reply = "unregistered" => deviceKey # "active"
      BY <3>1, Served DEF DeliveryTypeOK
    <3> QED BY <3>1, <3>2, Served DEF DeliveryTypeOK, i
  <2>4. \A e \in Drains : replies'[e] = IF e = d THEN reply ELSE replies[e]
    BY <2>1 DEF DeliveryTypeOK
  <2>5. UNCHANGED <<keys, history>>
    BY <1>7 DEF Handle
  <2> QED BY <1>6, <2>2, <2>3, <2>4, <2>5
<1>8. ASSUME NEW i \in Items, HandleLate(i) PROVE DeliveryInv'
  <2>1. \A j \in Items : Accounted(j) => Accounted(j)'
    BY <1>8, Served DEF HandleLate, DeliveryTypeOK
  <2> QED BY <1>6, <1>8, <2>1 DEF HandleLate
<1>9. CASE TableStep
  <2>1. \A j \in Items : Accounted(j) => Accounted(j)'
    BY <1>9, TableKeeps DEF TableStep, DeliveryTypeOK
  <2> QED BY <1>6, <1>9, <2>1 DEF TableStep
<1>10. ASSUME NEW i \in Items, Register(i) PROVE DeliveryInv'
  <2>1. \/ deviceKey' = Registered
        \/ deviceKey' \in TurnedAway /\ calls' = [calls EXCEPT ![i] = "none"]
    BY <1>10 DEF Register, AfterRefusal
  <2>2. \A j \in Items : calls'[j] = "granted" => calls[j] = "granted" \/ KeyIsKnown'
    BY <1>10, <2>1 DEF Register, DeliveryTypeOK, Registered, KeyIsKnown, AfterRefusal
  <2>3. KeyIsKnown => KeyIsKnown'
    BY <2>1 DEF Registered, TurnedAway, KeyIsKnown
  <2>4. deviceKey = "revoked" => deviceKey' = "revoked"
    BY <2>1 DEF Registered, TurnedAway
  <2> QED BY <1>1, <1>3, <1>4, <1>10, <2>2, <2>3, <2>4, QuietKeeps DEF Register, history
<1>11. CASE RevokeKey
  BY <1>1, <1>3, <1>4, <1>11, QuietKeeps DEF RevokeKey, history, KeyIsKnown
<1> QED BY <1>7, <1>8, <1>9, <1>10, <1>11 DEF ServerStep

-----------------------------------------------------------------------------
(* The phone's steps. *)

(* A drain sends, or is over: its reply is one that says nothing yet.      *)
LEMMA SendKeeps ==
  ASSUME DeliveryInv, ScanInv', DeliveryTypeOK', HeldInv', StaysSigned,
         NEW d \in Drains, Sends(d),
         \A e \in Drains \ {d} : drains'[e] = drains[e],
         UNCHANGED <<table, keys, marking>>,
         \A i \in Items : i \in saved' => i \in saved \/ Accounted(i),
         \A i \in Items : answers'[i] = answers[i] \/ status[i] # "new",
         \A i \in marking : "unregistered" \in answers'[i] =>
                               "unregistered" \in answers[i] \/ deviceKey = "revoked"
  PROVE  DeliveryInv'
<1> USE DEF DeliveryInv
<1>1. \A i \in Items : Accounted(i)' <=> Accounted(i)
  BY DEF table, Accounted, Present, Deleted, Ledger!Open
<1>2. SavedInv'
  BY <1>1 DEF SavedInv
<1>3. RepliesInv'
  <2>1. /\ replies'[d] \in {"none", "sent", "lost"}
        /\ replies'[d] # "none" => drains'[d].at # Nothing
        /\ \A e \in Drains \ {d} : replies'[e] = replies[e]
    BY DEF Sends, DeliveryTypeOK
  <2>2. drains'[d].at \in Items \cup {Nothing}
    BY DEF HeldInv
  <2> SUFFICES ASSUME NEW e \in Drains
               PROVE  /\ replies'[e] # "none" => drains'[e].at \in Items
                      /\ replies'[e] = "ok" => Accounted(drains[e].at)'
                      /\ replies'[e] = "unregistered" /\ drains'[e].at \in marking' =>
                            deviceKey' = "revoked"
    BY DEF RepliesInv
  <2>3. CASE e = d
    BY <2>1, <2>2, <2>3
  <2>4. CASE e # d
    <3>1. /\ replies[e] # "none" => drains[e].at \in Items
          /\ replies[e] = "ok" => Accounted(drains[e].at)
          /\ replies[e] = "unregistered" /\ drains[e].at \in marking => deviceKey = "revoked"
      BY DEF RepliesInv
    <3>2. replies'[e] = replies[e] /\ drains'[e] = drains[e]
      BY <2>1, <2>4
    <3>3. UNCHANGED <<marking, deviceKey>>
      BY DEF keys
    <3>4. replies[e] = "ok" => Accounted(drains[e].at)'
      <4> DEFINE at == drains[e].at
      <4>1. at' = at /\ (replies[e] = "ok" => at \in Items /\ Accounted(at))
        BY <3>1, <3>2
      <4> HIDE DEF at
      <4>2. replies[e] = "ok" => Accounted(at)'
        BY <1>1, <4>1
      <4> QED BY <4>2 DEF at
    <3> QED BY <3>1, <3>2, <3>3, <3>4
  <2> QED BY <2>3, <2>4
<1>4. KeyInv'
  BY DEF KeyInv, KeyIsKnown, keys
<1>5. FreshInv'
  BY DEF FreshInv, StaysSigned
<1>6. MarkedIsKnown'
  BY DEF MarkedIsKnown, keys, DeliveryTypeOK
<1> QED BY <1>2, <1>3, <1>4, <1>5, <1>6

LEMMA AnswerIsNoted ==
  ASSUME DeliveryInv, ScanInv', DeliveryTypeOK', NEW d \in Drains, NEW reason,
         ComesBack(d, reason), reason # "unregistered" \/ replies[d] = reason
  PROVE  DeliveryInv'
<1> USE DEF DeliveryInv
<1> DEFINE i == drains[d].at
<1>1. /\ HeldInv' /\ StaysSigned
      /\ \A e \in Drains \ {d} : drains'[e] = drains[e]
  BY RetriedHolds DEF ComesBack, ScanInv, QueueInv
<1>2. i \in Items /\ saved' = saved
  BY DEF ComesBack, Retried, HeldInv
<1>3. status[i] # "new"
  BY <1>2 DEF HeldInv, Holds
<1>4. \A j \in Items : answers'[j] = IF j = i THEN answers[i] \cup {reason} ELSE answers[j]
  BY <1>2 DEF ComesBack, DeliveryTypeOK
<1>5. reason = "unregistered" /\ i \in marking => deviceKey = "revoked"
  BY DEF RepliesInv
<1>6. Sends(d) /\ UNCHANGED <<table, keys, marking>>
  BY DEF ComesBack
<1>7. \A j \in Items : answers'[j] = answers[j] \/ status[j] # "new"
  BY <1>3, <1>4
<1>8. \A j \in marking : "unregistered" \in answers'[j] =>
                            "unregistered" \in answers[j] \/ deviceKey = "revoked"
  BY <1>4, <1>5 DEF DeliveryTypeOK
<1> QED BY <1>1, <1>2, <1>6, <1>7, <1>8, SendKeeps

LEMMA PhoneKeeps ==
  ASSUME DeliveryInv, PhoneStep PROVE DeliveryInv'
<1> USE DEF DeliveryInv
<1>1. DeliveryTypeOK'
  BY PhoneTypes
<1>2. ScanInv'
  BY DeliveryIsScan, ScanStep DEF DeliveryNext
<1>3. QueueTypes
  BY DEF ScanInv, QueueInv
<1>4. ASSUME NEW i \in Items, Mark(i) \/ Unanswered(i) PROVE DeliveryInv'
  <2>1. StaysSigned /\ UNCHANGED <<drains, saved, replies, table, answers, marking, deviceKey>>
    BY <1>4 DEF Mark, Unanswered, vars, stored, history, StaysSigned
  <2>2. \A j \in Items : calls'[j] = "granted" => calls[j] = "granted"
    BY <1>4 DEF Mark, Unanswered, DeliveryTypeOK
  <2>3. marked' => marked \/ KeyIsKnown
    BY <1>4 DEF Mark, Unanswered, KeyInv
  <2> QED BY <1>1, <1>2, <2>1, <2>2, <2>3, QuietKeeps DEF KeyIsKnown
<1>5. ASSUME NEW v \in Views, NEW i \in Items, Capture(v, i) PROVE DeliveryInv'
  <2>1. UNCHANGED <<drains, saved, replies, table, answers, deviceKey, marked>>
    BY <1>5 DEF Capture, Enqueue
  <2>2. status[i] = "new" /\ status' = [status EXCEPT ![i] = "pending"]
    BY <1>5 DEF Capture, Enqueue, Persist
  <2>3. StaysSigned
    BY <1>3, <2>2 DEF StaysSigned, QueueTypes
  <2>4. HeldInv'
    BY <2>1, <2>3, LeftHeld
  <2>5. \A j \in Items : Accounted(j)' <=> Accounted(j)
    BY <2>1 DEF table, Accounted, Present, Deleted, Ledger!Open
  <2>6. /\ marking' \subseteq marking \cup {i}
        /\ marking' # {} => KeyIsKnown
        /\ i \in marking' => KeyIsKnown
    BY <1>5 DEF Capture, KeyInv
  <2>7. RepliesInv'
    <3> SUFFICES ASSUME NEW d \in Drains
                 PROVE  /\ replies[d] # "none" => drains[d].at \in Items
                        /\ replies[d] = "ok" => Accounted(drains[d].at)'
                        /\ replies[d] = "unregistered" /\ drains[d].at \in marking' =>
                              deviceKey = "revoked"
      BY <2>1 DEF RepliesInv
    <3>1. /\ replies[d] # "none" => drains[d].at \in Items
          /\ replies[d] = "ok" => Accounted(drains[d].at)
          /\ replies[d] = "unregistered" /\ drains[d].at \in marking => deviceKey = "revoked"
      BY DEF RepliesInv
    <3>2. drains[d].at # i
      BY <2>2 DEF HeldInv, Holds
    <3>3. \A j \in Items : Accounted(j) => Accounted(j)'
      BY <2>5
    <3>4. drains[d].at \in marking' => drains[d].at \in marking
      BY <2>6, <3>2
    <3>5. replies[d] = "ok" => Accounted(drains[d].at)'
      <4> DEFINE at == drains[d].at
      <4>1. at' = at
        BY <2>1
      <4>2. replies[d] = "ok" => at \in Items /\ Accounted(at)
        BY <3>1
      <4> HIDE DEF at
      <4>3. replies[d] = "ok" => Accounted(at)'
        BY <3>3, <4>1, <4>2
      <4> QED BY <4>3 DEF at
    <3> QED BY <3>1, <3>4, <3>5
  <2>8. KeyInv'
    <3>1. \A j \in Items : calls'[j] = "granted" => calls[j] = "granted"
      BY <1>5 DEF Capture, DeliveryTypeOK
    <3> QED BY <2>1, <2>6, <3>1 DEF KeyInv, KeyIsKnown
  <2>9. FreshInv'
    <3>1. status'[i] = "pending"
      BY <1>3, <2>2 DEF QueueTypes
    <3> QED BY <2>1, <2>3, <2>6, <3>1 DEF FreshInv, StaysSigned
  <2>10. MarkedIsKnown'
    BY <2>1, <2>2, <2>6 DEF MarkedIsKnown, FreshInv
  <2>11. SavedInv'
    BY <2>1, <2>5 DEF SavedInv
  <2> QED BY <1>1, <1>2, <2>4, <2>7, <2>8, <2>9, <2>10, <2>11
<1>6. ASSUME NEW d \in Drains, Begins(d) PROVE DeliveryInv'
  <2>1. PICK v : StartDrain(d, v)
    BY <1>6 DEF Begins, SendNow, Fire
  <2>2. /\ HeldInv' /\ StaysSigned
        /\ \A e \in Drains \ {d} : drains'[e] = drains[e]
    BY <1>3, <2>1, StartHolds
  <2>3. saved' = saved /\ Sends(d) /\ UNCHANGED <<table, keys, marking, answers>>
    BY <1>6 DEF Begins, SendNow, Fire, history
  <2> QED BY <1>1, <1>2, <2>2, <2>3, SendKeeps
<1>7. ASSUME NEW d \in Drains, Accept(d) PROVE DeliveryInv'
  <2>1. /\ HeldInv' /\ StaysSigned
        /\ \A e \in Drains \ {d} : drains'[e] = drains[e]
    BY <1>3, <1>7, AcceptedHolds DEF Accept
  <2>2. saved' = saved \cup {drains[d].at} /\ Accounted(drains[d].at)
    BY <1>7 DEF Accept, Accepted, RepliesInv
  <2>3. Sends(d) /\ UNCHANGED <<table, keys, marking, answers>>
    BY <1>7 DEF Accept, history
  <2>4. \A i \in Items : i \in saved' => i \in saved \/ Accounted(i)
    BY <2>2
  <2> QED BY <1>1, <1>2, <2>1, <2>3, <2>4, SendKeeps
<1>8. ASSUME NEW d \in Drains, Refuse(d) \/ NoAnswer(d) PROVE DeliveryInv'
  BY <1>1, <1>2, <1>8, AnswerIsNoted DEF Refuse, NoAnswer
<1>9. CASE Close
  <2>1. /\ \A d \in Drains : drains'[d] = Idle /\ replies'[d] = "none"
        /\ UNCHANGED <<status, saved, table, deviceKey, marked, answers, marking>>
    BY <1>9 DEF Close, Crash, stored, history
  <2>2. HeldInv'
    BY <2>1, SyncQueueAssumption DEF HeldInv, Holds, Idle
  <2>3. RepliesInv'
    BY <2>1 DEF RepliesInv
  <2>4. \A i \in Items : calls'[i] = "granted" => calls[i] = "granted"
    BY <1>9 DEF Close, DeliveryTypeOK
  <2>5. KeyInv'
    BY <2>1, <2>4 DEF KeyInv, KeyIsKnown
  <2>6. SavedInv'
    BY <2>1 DEF SavedInv, table, Accounted, Present, Deleted, Ledger!Open
  <2>7. FreshInv' /\ MarkedIsKnown'
    BY <2>1 DEF FreshInv, MarkedIsKnown
  <2> QED BY <1>1, <1>2, <2>2, <2>3, <2>5, <2>6, <2>7
<1>10. CASE QueueStep
  <2>1. UNCHANGED <<drains, saved>>
    BY <1>10 DEF QueueStep, Mount, Unmount, Effect, LinkDown, LinkUp, ClearSynced, RemoveScan,
                 TakeOut
  <2>2. StaysSigned
    BY <1>3, <1>10 DEF QueueStep, Mount, Unmount, Effect, LinkDown, LinkUp, ClearSynced,
       RemoveScan, TakeOut, StaysSigned, Persist, Recovered, stored, QueueTypes
  <2> QED BY <1>1, <1>2, <1>10, <2>1, <2>2, QuietKeeps DEF QueueStep, keys, history, KeyIsKnown
<1> QED BY <1>4, <1>5, <1>6, <1>7, <1>8, <1>9, <1>10 DEF PhoneStep

-----------------------------------------------------------------------------
LEMMA DeliveryInductive == DeliverySpec => []DeliveryInv
<1>1. DeliveryInit => DeliveryInv
  <2> SUFFICES ASSUME DeliveryInit PROVE DeliveryInv
    OBVIOUS
  <2>1. ScanInv
    BY QueueInit DEF DeliveryInit, Init, ScanInv, RemovedWasSaved
  <2>2. HeldInv
    BY SyncQueueAssumption DEF DeliveryInit, Init, HeldInv, Holds, Idle
  <2>3. DeliveryTypeOK
    BY DEF DeliveryInit, DeliveryTypeOK, Ledger!Init, Ledger!TypeOK, Calls, Replies
  <2>4. SavedInv /\ RepliesInv /\ KeyInv /\ FreshInv /\ MarkedIsKnown
    BY DEF DeliveryInit, Init, SavedInv, RepliesInv, KeyInv, FreshInv, MarkedIsKnown
  <2> QED BY <2>1, <2>2, <2>3, <2>4 DEF DeliveryInv
<1>2. DeliveryInv /\ [DeliveryNext]_deliveryVars => DeliveryInv'
  <2> SUFFICES ASSUME DeliveryInv, UNCHANGED deliveryVars PROVE DeliveryInv'
    BY PhoneKeeps, ServerKeeps DEF DeliveryNext
  <2>1. ScanInv'
    BY DeliveryIsScan, ScanStep DEF DeliveryInv, DeliveryNext
  <2>2. UNCHANGED <<status, drains, saved, table, deviceKey, marked, calls, replies, late,
                    answers, marking>>
    BY DEF deliveryVars, vars, stored, table, keys, history
  <2>3. DeliveryTypeOK'
    BY <2>2, TableKeeps DEF DeliveryInv, DeliveryTypeOK
  <2>4. StaysSigned
    BY <2>2 DEF StaysSigned
  <2>5. KeyIsKnown => KeyIsKnown'
    BY <2>2 DEF KeyIsKnown
  <2> QED BY <2>1, <2>2, <2>3, <2>4, <2>5, QuietKeeps
<1> QED BY <1>1, <1>2, PTL DEF DeliverySpec

(* The queue, the requests on their way, the key, the table and what is    *)
(* remembered of them have the types that Delivery gives them.             *)
THEOREM DeliveryTypeCorrect == DeliverySpec => []DeliveryTypeOK
<1>1. DeliveryInv => DeliveryTypeOK
  BY DEF DeliveryInv
<1> QED BY <1>1, DeliveryInductive, PTL

(* A scan shown as sent, or cleared away as sent, is in the table of       *)
(* attendance unless its event or its account was deleted: whatever        *)
(* requests were lost, repeated, given up or answered to a drain whose     *)
(* view is gone, and however often the page was closed.                    *)
THEOREM SentReachesTheTable == DeliverySpec => []SentIsPresent
<1>1. DeliveryInv => SentIsPresent
  BY DEF DeliveryInv, ScanInv, QueueInv, SentInv, RemovedWasSaved, SavedInv, Accounted,
         SentIsPresent
<1> QED BY <1>1, DeliveryInductive, PTL

(* What a phone signed while it held its key for registered is not turned  *)
(* away for the key unless the key was revoked: the phone marks the key on *)
(* the server's word alone, and the server forgets no key.                 *)
THEOREM MarkedKeysAreKnown == DeliverySpec => []MarkedIsKnown
<1>1. DeliveryInv => MarkedIsKnown
  BY DEF DeliveryInv
<1> QED BY <1>1, DeliveryInductive, PTL

(* With the server and the registration about it, the phone still does     *)
(* what the scan queue by itself may do, and nothing else.                 *)
THEOREM QueueImplemented == DeliverySpec => Init /\ [][ScanNext]_vars
<1>1. DeliveryInit => Init
  BY DEF DeliveryInit
<1> QED BY <1>1, DeliveryIsScan, PTL DEF DeliverySpec
=============================================================================
