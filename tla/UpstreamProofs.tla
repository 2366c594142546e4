--------------------------- MODULE UpstreamProofs ---------------------------
(***************************************************************************)
(* Round robin is fair, and the failover of an undisturbed call complete,  *)
(* for every list of endpoints, set of callers and width of the counter.   *)
(***************************************************************************)
EXTENDS Upstream, Integers, FiniteSetTheorems, TLAPS

N == Len(urls)

LEMMA LengthIsPositive == N \in Nat \ {0} /\ urls \in [Slots -> STRING]
BY UrlsAssumption DEF N, Slots

LEMMA CounterIsWide == CounterMod \in Nat \ {0} /\ CounterMod >= N
BY CounterAssumption, LengthIsPositive DEF N

-----------------------------------------------------------------------------
(* Arithmetic of the rotation *)

\* A remainder is determined by its range.
LEMMA RemainderUnique ==
  ASSUME NEW n \in Nat \ {0}, NEW q \in Nat, NEW r \in 0 .. n - 1
  PROVE  (n * q + r) % n = r
BY SMT

\* The remainder of the successor is the next one around the ring (the index
\* arithmetic of roundRobin.Next).
LEMMA RemainderOfSuccessor ==
  ASSUME NEW n \in Nat \ {0}, NEW x \in Nat
  PROVE  (x + 1) % n = IF x % n = n - 1 THEN 0 ELSE (x % n) + 1
<1>1. /\ x = n * (x \div n) + (x % n)
      /\ (x % n) \in 0 .. n - 1
      /\ (x \div n) \in Nat
  BY SMT
<1>2. CASE x % n = n - 1
  <2>1. x + 1 = n * ((x \div n) + 1) + 0
    BY <1>1, <1>2
  <2>2. (n * ((x \div n) + 1) + 0) % n = 0
    BY <1>1, RemainderUnique
  <2> QED BY <2>1, <2>2, <1>2
<1>3. CASE x % n # n - 1
  <2>1. x + 1 = n * (x \div n) + ((x % n) + 1) /\ (x % n) + 1 \in 0 .. n - 1
    BY <1>1, <1>3
  <2>2. (n * (x \div n) + ((x % n) + 1)) % n = (x % n) + 1
    BY <2>1, <1>1, RemainderUnique
  <2> QED BY <2>1, <2>2, <1>3
<1> QED BY <1>2, <1>3

\* The counter after AddUint64, the index Next returns, and the rotation.
LEMMA Rotation ==
  ASSUME NEW v \in 0 .. CounterMod - 1
  PROVE  LET n == (v + 1) % CounterMod IN
         /\ n \in 0 .. CounterMod - 1
         /\ NextIndex(n) = (v % N) + 1
         /\ NextIndex(n) \in Slots
         /\ (n # 0 \/ CounterMod % N = 0) =>
              n % N = IF v % N = N - 1 THEN 0 ELSE (v % N) + 1
<1> DEFINE n == (v + 1) % CounterMod
<1> v \in Nat /\ v < CounterMod
  BY CounterIsWide
<1> N \in Nat \ {0}
  BY LengthIsPositive
<1> CounterMod \in Nat \ {0}
  BY CounterIsWide
<1>1. v % N \in 0 .. N - 1
  OBVIOUS
<1>2. (v + 1) % N = IF v % N = N - 1 THEN 0 ELSE (v % N) + 1
  BY RemainderOfSuccessor
<1>3. n = IF v = CounterMod - 1 THEN 0 ELSE v + 1
  <2>1. v % CounterMod = v
    BY CounterIsWide
  <2> QED BY <2>1, CounterIsWide, RemainderOfSuccessor
<1>4. (n + CounterMod - 1) % CounterMod = v
  <2>1. CASE v = CounterMod - 1
    <3>1. n + CounterMod - 1 = CounterMod * 0 + v
      BY <2>1, <1>3, CounterIsWide
    <3> QED BY <3>1, CounterIsWide, RemainderUnique
  <2>2. CASE v # CounterMod - 1
    <3>1. n + CounterMod - 1 = CounterMod * 1 + v
      BY <2>2, <1>3, CounterIsWide
    <3> QED BY <3>1, CounterIsWide, RemainderUnique
  <2> QED BY <2>1, <2>2
<1>5. NextIndex(n) = (v % N) + 1 /\ NextIndex(n) \in Slots
  BY <1>1, <1>4, LengthIsPositive DEF NextIndex, N, Slots
<1>6. ASSUME n # 0 \/ CounterMod % N = 0
      PROVE  n % N = IF v % N = N - 1 THEN 0 ELSE (v % N) + 1
  <2>1. CASE n # 0
    BY <2>1, <1>2, <1>3
  <2>2. CASE n = 0 /\ CounterMod % N = 0
    <3>1. v + 1 = CounterMod
      BY <2>2, <1>3, CounterIsWide
    <3>2. n % N = 0
      BY <2>2, LengthIsPositive
    <3> QED BY <3>1, <3>2, <2>2, <1>2
  <2> QED BY <2>1, <2>2, <1>6
<1>7. n \in 0 .. CounterMod - 1
  BY <1>3, CounterIsWide
<1> QED BY <1>5, <1>6, <1>7
-----------------------------------------------------------------------------
(* The inductive invariant *)

\* attempts of a call that is still in the loop
Sent(c) == a[c] + (IF pc[c] = "sent" THEN 1 ELSE 0)

\* how many answers ago the rotation handed out index s
Behind(s) ==
  (i % N) + 1 - s + (IF s <= i % N THEN 0 ELSE N)

\* a call in the loop is within its budget, has posted when its instance may
\* answer, and never used more hosts than it made attempts, so that the early
\* exit cannot fire
Counted ==
  \A c \in Callers :
    /\ pc[c] = "draw" => Random
    /\ pc[c] \in {"draw", "sent"} => a[c] < MaxAttempts
    /\ pc[c] = "sent" /\ base[c] \notin Unusable => posts[c] > 0
    /\ pc[c] \in {"next", "draw", "sent"} =>
         /\ reply[c] = "none"
         /\ IsFiniteSet(tried[c])
         /\ Cardinality(tried[c]) <= Sent(c)

\* the hits of an index follow from the position of the rotation
Balanced ==
  ~Random /\ Steady =>
    \E k \in Nat : \A s \in Slots :
      hits[s] = k + (IF s <= i % N THEN 1 ELSE 0)

\* an undisturbed call was handed the last Sent(c) answers of the rotation
Covers(c) ==
  /\ pc[c] \in {"next", "sent"} =>
       \A s \in Slots : s \in picked[c] <=> Behind(s) <= Sent(c)
  /\ pc[c] = "done" /\ reply[c] = "failed" => picked[c] = Slots

Covered ==
  ~Random /\ Steady => \A c \in Callers : c \notin shared => Covers(c)

IInv == TypeOK /\ Counted /\ Balanced /\ Covered

-----------------------------------------------------------------------------
(* Types and budgets *)

LEMMA InitCounted == Init => TypeOK /\ Counted
<1> SUFFICES ASSUME Init PROVE TypeOK /\ Counted
  OBVIOUS
<1>1. 0 \in 0 .. CounterMod - 1 /\ 0 \in 0 .. MaxAttempts /\ 0 \in 0 .. MaxCalls
  BY CounterIsWide, LengthIsPositive, BoundAssumption DEF MaxAttempts, N
<1>2. /\ reply \in [Callers -> Replies]
      /\ base \in [Callers -> Instances \cup {"none"}]
      /\ posts \in [Callers -> Nat] /\ hits \in [Slots -> Nat]
  BY DEF Init, Replies
<1>3. TypeOK
  BY <1>1, <1>2 DEF Init, TypeOK
<1>4. Counted
  BY DEF Init, Counted
<1> QED BY <1>3, <1>4

\* The early exit of the loop never fires: a call that has attempts left has
\* used fewer hosts than there are endpoints (httpcall.go:116).
LEMMA NeverExhausted ==
  ASSUME TypeOK, Counted, NEW c \in Callers, NEW url,
         pc[c] \in {"next", "draw"}, a[c] < MaxAttempts
  PROVE  ~Exhausted(c, url)
<1>1. Cardinality(tried[c]) <= a[c] /\ IsFiniteSet(tried[c])
  BY DEF Counted, Sent, TypeOK
<1>2. Cardinality(tried[c]) \in Nat /\ a[c] \in Nat
  BY <1>1, FS_CardinalityType, LengthIsPositive DEF TypeOK, MaxAttempts, N
<1> QED BY <1>1, <1>2, LengthIsPositive DEF Exhausted, MaxAttempts, N

\* Taking an answer of the balancer keeps the budget, and posts to it when a
\* request can be made.
LEMMA TakeCounts ==
  ASSUME TypeOK, Counted, NEW c \in Callers, NEW s \in Slots,
         pc[c] \in {"next", "draw"}, a[c] < MaxAttempts, Take(c, s),
         i' \in 0 .. CounterMod - 1, wrapped' \in BOOLEAN,
         clash' \subseteq Callers
  PROVE  /\ TypeOK' /\ Counted'
         /\ pc' = [pc EXCEPT ![c] = "sent"]
         /\ reply' = reply
<1>1. ~Exhausted(c, urls[s])
  BY NeverExhausted
<1>2. /\ pc' = [pc EXCEPT ![c] = "sent"]
      /\ tried' = [tried EXCEPT ![c] = @ \cup {urls[s]}]
      /\ reply' = reply
  BY <1>1 DEF Take
<1>3. urls[s] \in STRING
  BY LengthIsPositive
<1>3a. posts' = IF urls[s] \in Unusable THEN posts ELSE [posts EXCEPT ![c] = @ + 1]
  BY <1>1 DEF Take
<1>3b. base' \in [Callers -> Instances \cup {"none"}] /\ posts' \in [Callers -> Nat]
  BY <1>3a DEF Take, TypeOK, Instances
<1>4. TypeOK'
  BY <1>2, <1>3, <1>3b DEF TypeOK, Take
<1>5. ASSUME NEW d \in Callers PROVE Counted!(d)'
  <2>1. CASE d = c
    <3>1. IsFiniteSet(tried[c]) /\ Cardinality(tried[c]) <= a[c]
      BY DEF Counted, Sent, TypeOK
    <3> DEFINE T == tried[c]
    <3>2. /\ IsFiniteSet(tried'[c])
          /\ Cardinality(tried'[c]) <= Cardinality(tried[c]) + 1
      <4>1. tried'[c] = T \cup {urls[s]}
        BY <1>2 DEF TypeOK
      <4>2. /\ IsFiniteSet(T \cup {urls[s]})
            /\ Cardinality(T \cup {urls[s]}) = 
                 IF urls[s] \in T THEN Cardinality(T) ELSE Cardinality(T) + 1
        BY <3>1, FS_AddElement
      <4>3. Cardinality(T) \in Nat
        BY <3>1, FS_CardinalityType
      <4> QED BY <4>1, <4>2, <4>3
    <3>3. Cardinality(tried'[c]) <= a[c] + 1
      BY <3>1, <3>2, FS_CardinalityType, LengthIsPositive
         DEF TypeOK, MaxAttempts, N
    <3>4. a' = a /\ pc'[c] = "sent" /\ reply'[c] = "none"
      BY <1>2 DEF Take, TypeOK, Counted
    <3>5. base'[c] \notin Unusable => posts'[c] > 0
      BY <1>3, <1>3a DEF Take, TypeOK
    <3> QED BY <2>1, <3>2, <3>3, <3>4, <3>5 DEF Sent
  <2>2. CASE d # c
    <3>1. base'[d] = base[d] /\ posts'[d] = posts[d]
      BY <2>2, <1>3a DEF Take, TypeOK
    <3> QED BY <2>2, <1>2, <3>1 DEF Counted, Sent, Take, TypeOK
  <2> QED BY <2>1, <2>2
<1> QED BY <1>2, <1>4, <1>5 DEF Counted

\* Every step keeps the types and the budgets.
LEMMA NextCounted == TypeOK /\ Counted /\ [Next]_vars => TypeOK' /\ Counted'
<1> SUFFICES ASSUME TypeOK, Counted, [Next]_vars PROVE TypeOK' /\ Counted'
  OBVIOUS
<1> MaxAttempts \in Nat \ {0}
  BY LengthIsPositive DEF MaxAttempts, N
<1>1. ASSUME NEW c \in Callers, Call(c) PROVE TypeOK' /\ Counted'
  <2>1. TypeOK'
    BY <1>1, BoundAssumption DEF Call, TypeOK, Replies
  <2>2. tried'[c] = {} /\ IsFiniteSet({}) /\ Cardinality({}) = 0
    BY <1>1, FS_EmptySet DEF Call, TypeOK
  <2>3. Counted'
    BY <1>1, <2>2 DEF Call, TypeOK, Counted, Sent
  <2> QED BY <2>1, <2>3
<1>2. ASSUME NEW c \in Callers, PickRoundRobin(c) PROVE TypeOK' /\ Counted'
  <2>1. i' \in 0 .. CounterMod - 1 /\ NextIndex(i') \in Slots
    BY <1>2, Rotation DEF PickRoundRobin, TypeOK
  <2>2. wrapped' \in BOOLEAN /\ clash' \subseteq Callers
    BY <1>2 DEF PickRoundRobin, TypeOK
  <2> QED BY <1>2, <2>1, <2>2, TakeCounts DEF PickRoundRobin
<1>3. ASSUME NEW c \in Callers, DrawBegin(c) PROVE TypeOK' /\ Counted'
  <2>1. TypeOK'
    BY <1>3 DEF DrawBegin, TypeOK, history
  <2>2. Counted'
    BY <1>3 DEF DrawBegin, TypeOK, Counted, Sent, Random, history
  <2> QED BY <2>1, <2>2
<1>4. ASSUME NEW c \in Callers, DrawEnd(c) PROVE TypeOK' /\ Counted'
  <2>1. PICK s \in Slots : Take(c, s)
    BY <1>4 DEF DrawEnd
  <2>2. /\ i' \in 0 .. CounterMod - 1 /\ wrapped' \in BOOLEAN
        /\ clash' \subseteq Callers
    BY <1>4 DEF DrawEnd, TypeOK
  <2>3. pc[c] = "draw" /\ a[c] < MaxAttempts
    BY <1>4 DEF DrawEnd, Counted
  <2> QED BY <2>1, <2>2, <2>3, TakeCounts
<1>5. ASSUME NEW c \in Callers, DrawPanic(c) PROVE TypeOK' /\ Counted'
  <2>1. TypeOK'
    BY <1>5 DEF DrawPanic, TypeOK, history, Replies
  <2>2. Counted'
    BY <1>5 DEF DrawPanic, TypeOK, Counted, Sent, Random, history
  <2> QED BY <2>1, <2>2
<1>6. ASSUME NEW c \in Callers, AttemptFails(c) PROVE TypeOK' /\ Counted'
  <2>1. a[c] < MaxAttempts
    BY <1>6 DEF AttemptFails, Counted
  <2>2. TypeOK'
    BY <1>6, <2>1 DEF AttemptFails, TypeOK, history
  <2>3. Counted'
    BY <1>6, <2>1 DEF AttemptFails, TypeOK, Counted, Sent, Random, history
  <2> QED BY <2>2, <2>3
<1>7. ASSUME NEW c \in Callers, AttemptSettles(c) PROVE TypeOK' /\ Counted'
  <2>1. TypeOK'
    BY <1>7 DEF AttemptSettles, TypeOK, history, Replies
  <2>2. Counted'
    BY <1>7 DEF AttemptSettles, TypeOK, Counted, Sent, Random, history
  <2> QED BY <2>1, <2>2
<1>8. ASSUME NEW c \in Callers, GiveUp(c) PROVE TypeOK' /\ Counted'
  <2>1. TypeOK'
    BY <1>8 DEF GiveUp, TypeOK, history, Replies
  <2>2. Counted'
    BY <1>8 DEF GiveUp, TypeOK, Counted, Sent, Random, history
  <2> QED BY <2>1, <2>2
<1>9. ASSUME NEW c \in Callers, Return(c) PROVE TypeOK' /\ Counted'
  <2>1. TypeOK'
    BY <1>9 DEF Return, TypeOK, history
  <2>2. Counted'
    BY <1>9 DEF Return, TypeOK, Counted, Sent, Random, history
  <2> QED BY <2>1, <2>2
<1>10. CASE UNCHANGED vars
  <2>1. TypeOK'
    BY <1>10 DEF vars, code, history, TypeOK
  <2>2. Counted'
    BY <1>10 DEF vars, code, history, Counted, Sent, Random
  <2> QED BY <2>1, <2>2
<1> QED
  BY <1>1, <1>2, <1>3, <1>4, <1>5, <1>6, <1>7, <1>8, <1>9, <1>10
     DEF Next, Step, Rest

\* Every variable of pkg/upstream keeps its type.
THEOREM TypeCorrect == Spec => []TypeOK
<1>1. Spec => [](TypeOK /\ Counted)
  BY InitCounted, NextCounted, PTL DEF Spec
<1> QED BY <1>1, PTL

-----------------------------------------------------------------------------
(* The rotation *)

LEMMA InitRotation == Init => Balanced /\ Covered
<1> SUFFICES ASSUME Init PROVE Balanced /\ Covered
  OBVIOUS
<1>1. i % N = 0
  BY LengthIsPositive DEF Init
<1>2. \A s \in Slots : hits[s] = 0 + (IF s <= i % N THEN 1 ELSE 0)
  BY <1>1 DEF Init, Slots
<1>3. Balanced
  BY <1>2 DEF Balanced
<1>4. Covered
  BY DEF Init, Covered, Covers
<1> QED BY <1>3, <1>4

\* What one answer of the balancer does to every index's distance.
LEMMA Advance ==
  ASSUME i % N \in 0 .. N - 1, NEW s \in Slots,
         (i % N)' = IF i % N = N - 1 THEN 0 ELSE (i % N) + 1
  PROVE  /\ Behind(s) \in 1 .. N
         /\ s = (i % N) + 1 => Behind(s) = N /\ Behind(s)' = 1
         /\ s # (i % N) + 1 => Behind(s)' = Behind(s) + 1
<1> N \in Nat \ {0} /\ s \in 1 .. N
  BY LengthIsPositive DEF Slots, N
<1> DEFINE r == i % N
<1>1. CASE r = N - 1
  BY <1>1 DEF Behind
<1>2. CASE r # N - 1
  BY <1>2 DEF Behind
<1> QED BY <1>1, <1>2

\* The index handed out last is one answer behind.
LEMMA SomeIsLast ==
  ASSUME i % N \in 0 .. N - 1
  PROVE  \E s \in Slots : Behind(s) = 1
<1> N \in Nat \ {0}
  BY LengthIsPositive
<1>1. CASE i % N = 0
  <2>1. N \in Slots /\ Behind(N) = 1
    BY <1>1 DEF Behind, Slots, N
  <2> QED BY <2>1
<1>2. CASE i % N # 0
  <2>1. (i % N) \in Slots /\ Behind(i % N) = 1
    BY <1>2 DEF Behind, Slots, N
  <2> QED BY <2>1
<1> QED BY <1>1, <1>2

\* One answer of roundRobin keeps the rotation.
LEMMA PickRotates ==
  ASSUME TypeOK, Counted, Balanced, Covered, NEW c \in Callers, PickRoundRobin(c)
  PROVE  Balanced' /\ Covered'
<1> DEFINE r == i % N
<1> N \in Nat \ {0}
  BY LengthIsPositive
<1>1. /\ r \in 0 .. N - 1
      /\ NextIndex(i') = r + 1 /\ r + 1 \in Slots
      /\ i' # 0 \/ CounterMod % N = 0 =>
           i' % N = IF r = N - 1 THEN 0 ELSE r + 1
  BY Rotation DEF PickRoundRobin, TypeOK
<1>2. Take(c, r + 1)
  BY <1>1 DEF PickRoundRobin
<1>3. /\ pc' = [pc EXCEPT ![c] = "sent"] /\ reply' = reply
      /\ pc[c] = "next" /\ a[c] < MaxAttempts
      /\ a' = a
  <2>1. i' \in 0 .. CounterMod - 1
    BY Rotation DEF PickRoundRobin, TypeOK
  <2>2. wrapped' \in BOOLEAN /\ clash' \subseteq Callers
    BY DEF PickRoundRobin, TypeOK
  <2> QED BY <1>1, <1>2, <2>1, <2>2, TakeCounts DEF PickRoundRobin, Take
<1>4. SUFFICES ASSUME ~Random, Steady'
               PROVE  /\ (\E k \in Nat : \A s \in Slots :
                             hits[s] = k + (IF s <= i % N THEN 1 ELSE 0))'
                      /\ \A d \in Callers : d \notin shared' => Covers(d)'
  BY DEF Balanced, Covered, Random
<1>5. Steady /\ (i' # 0 \/ CounterMod % N = 0)
  BY <1>4 DEF PickRoundRobin, Steady, N, TypeOK
<1>6. (i % N)' = IF r = N - 1 THEN 0 ELSE r + 1
  BY <1>1, <1>5
<1>7. \E k \in Nat : \A s \in Slots : hits'[s] = k + (IF s <= i' % N THEN 1 ELSE 0)
  <2>1. PICK k \in Nat : \A s \in Slots : hits[s] = k + (IF s <= r THEN 1 ELSE 0)
    BY <1>4, <1>5 DEF Balanced
  <2>2. \A s \in Slots : hits'[s] = IF s = r + 1 THEN hits[s] + 1 ELSE hits[s]
    BY <1>1, <1>2 DEF Take, TypeOK
  <2>3. CASE r = N - 1
    <3>1. \A s \in Slots : hits'[s] = (k + 1) + (IF s <= i' % N THEN 1 ELSE 0)
      BY <2>1, <2>2, <2>3, <1>6 DEF Slots, N
    <3> QED BY <3>1
  <2>4. CASE r # N - 1
    <3>1. \A s \in Slots : hits'[s] = k + (IF s <= i' % N THEN 1 ELSE 0)
      BY <2>1, <2>2, <2>4, <1>1, <1>6 DEF Slots, N
    <3> QED BY <3>1
  <2> QED BY <2>3, <2>4
<1>8. ASSUME NEW d \in Callers, d \notin shared'
      PROVE  Covers(d)'
  <2>1. d \notin shared
    BY <1>2, <1>8 DEF Take
  <2>2. a[d] \in 0 .. N
    BY DEF TypeOK, MaxAttempts, N
  <2>3. CASE d = c
    <3>1. Sent(d) = a[d] /\ Sent(d)' = a[d] + 1 /\ pc'[d] = "sent"
      BY <2>2, <2>3, <1>3 DEF Sent, TypeOK
    <3>2. \A s \in Slots : s \in picked[d] <=> Behind(s) <= a[d]
      BY <2>1, <2>3, <3>1, <1>3, <1>4, <1>5 DEF Covered, Covers
    <3>3. picked'[d] = picked[d] \cup {r + 1}
      BY <2>3, <1>2 DEF Take, TypeOK
    <3>4. a[d] < N
      BY <2>3, <1>3 DEF MaxAttempts, N
    <3>5. ASSUME NEW s \in Slots
          PROVE  s \in picked'[d] <=> Behind(s)' <= a[d] + 1
      <4>1. /\ Behind(s) \in 1 .. N
            /\ s = r + 1 => Behind(s) = N /\ Behind(s)' = 1
            /\ s # r + 1 => Behind(s)' = Behind(s) + 1
        BY <1>1, <1>6, Advance
      <4> QED BY <4>1, <3>2, <3>3, <3>4, <2>2
    <3> QED BY <3>1, <3>5 DEF Covers
  <2>4. CASE d # c
    <3>1. pc'[d] = pc[d] /\ reply'[d] = reply[d] /\ picked'[d] = picked[d]
      BY <2>4, <1>2, <1>3 DEF Take, TypeOK
    <3>2. pc[d] # "idle" => picked[d] = {}
      BY <2>4, <1>2, <1>8 DEF Take
    <3>3. ASSUME pc[d] \in {"next", "sent"}, NEW s \in Slots
          PROVE  s \in picked'[d] <=> Behind(s)' <= Sent(d)'
      <4>1. PICK last \in Slots : Behind(last) = 1
        BY <1>1, SomeIsLast
      <4>2. ~(1 <= Sent(d))
        BY <4>1, <3>2, <3>3, <2>1, <1>4, <1>5 DEF Covered, Covers
      <4>3. Sent(d)' = Sent(d) /\ Sent(d) \in Nat
        BY <2>2, <3>1, <1>3 DEF Sent
      <4>4. Behind(s)' >= 1 /\ Behind(s)' \in Nat
        BY <1>1, <1>6, Advance
      <4> QED BY <4>2, <4>3, <4>4, <3>1, <3>2, <3>3
    <3>4. ~(pc[d] = "done" /\ reply[d] = "failed")
      <4>1. Slots # {}
        BY DEF Slots, N
      <4> QED BY <4>1, <3>2, <2>1, <1>4, <1>5 DEF Covered, Covers
    <3> QED BY <3>1, <3>3, <3>4 DEF Covers
  <2> QED BY <2>3, <2>4
<1> QED BY <1>7, <1>8

\* A step of a caller outside the balancer leaves the rotation alone.
LEMMA OthersKeepRotation ==
  ASSUME TypeOK, Counted, Balanced, Covered,
         UNCHANGED <<i, hits, wrapped>>,
         \A d \in Callers : d \notin shared' => Random \/ Covers(d)' \/
           /\ d \notin shared
           /\ pc'[d] = pc[d] /\ a'[d] = a[d]
           /\ picked'[d] = picked[d] /\ reply'[d] = reply[d]
  PROVE  Balanced' /\ Covered'
<1>1. Balanced'
  BY DEF Balanced, Steady, Random
<1>2. \A s \in Slots : Behind(s)' = Behind(s)
  BY DEF Behind
<1>3. Covered'
  BY <1>2 DEF Covered, Covers, Steady, Random, Sent
<1> QED BY <1>1, <1>3

LEMMA NextRotation ==
  TypeOK /\ Counted /\ Balanced /\ Covered /\ [Next]_vars => Balanced' /\ Covered'
<1> SUFFICES ASSUME TypeOK, Counted, Balanced, Covered, [Next]_vars
             PROVE  Balanced' /\ Covered'
  OBVIOUS
<1> N \in Nat \ {0} /\ MaxAttempts = N
  BY LengthIsPositive DEF MaxAttempts, N
<1>1. ASSUME NEW c \in Callers, Call(c) PROVE Balanced' /\ Covered'
  <2>1. i % N \in 0 .. N - 1
    BY CounterIsWide DEF TypeOK
  <2>2. \A s \in Slots : Behind(s)' \in Int /\ Behind(s)' >= 1
    BY <1>1, <2>1 DEF Behind, Slots, N, Call
  <2>3. pc'[c] = "next" /\ picked'[c] = {} /\ Sent(c)' = 0
    BY <1>1 DEF Call, TypeOK, Sent
  <2>4. Covers(c)'
    BY <2>2, <2>3 DEF Covers
  <2> QED BY <1>1, <2>4, OthersKeepRotation DEF Call, TypeOK
<1>2. ASSUME NEW c \in Callers, PickRoundRobin(c) PROVE Balanced' /\ Covered'
  BY <1>2, PickRotates
<1>3. ASSUME NEW c \in Callers, DrawBegin(c) PROVE Balanced' /\ Covered'
  BY <1>3, OthersKeepRotation DEF DrawBegin, history
<1>4. ASSUME NEW c \in Callers, DrawEnd(c) PROVE Balanced' /\ Covered'
  <2>1. Random
    BY <1>4 DEF DrawEnd, Counted
  <2> QED BY <2>1 DEF Balanced, Covered, Random
<1>5. ASSUME NEW c \in Callers, DrawPanic(c) PROVE Balanced' /\ Covered'
  <2>1. Random
    BY <1>5 DEF DrawPanic, Counted
  <2> QED BY <2>1 DEF Balanced, Covered, Random
<1>6. ASSUME NEW c \in Callers, AttemptFails(c) PROVE Balanced' /\ Covered'
  <2>1. /\ Sent(c)' = Sent(c) /\ pc[c] = "sent" /\ pc'[c] = "next"
        /\ \A s \in Slots : Behind(s)' = Behind(s)
    BY <1>6 DEF AttemptFails, TypeOK, Sent, Behind
  <2>2. c \notin shared' => Random \/ ~Steady \/ Covers(c)'
    BY <1>6, <2>1 DEF AttemptFails, Covered, Covers, history
  <2>3. CASE Random \/ ~Steady
    BY <2>3, <1>6 DEF AttemptFails, history, Balanced, Covered, Random, Steady
  <2>4. CASE ~Random /\ Steady
    BY <2>2, <2>4, <1>6, OthersKeepRotation DEF AttemptFails, TypeOK, history
  <2> QED BY <2>3, <2>4
<1>7. ASSUME NEW c \in Callers, AttemptSettles(c) PROVE Balanced' /\ Covered'
  <2>1. Covers(c)'
    BY <1>7 DEF AttemptSettles, TypeOK, Covers
  <2> QED BY <2>1, <1>7, OthersKeepRotation DEF AttemptSettles, TypeOK, history
<1>8. ASSUME NEW c \in Callers, GiveUp(c) PROVE Balanced' /\ Covered'
  <2>1. CASE Random \/ ~Steady
    BY <2>1, <1>8 DEF GiveUp, history, Balanced, Covered, Random, Steady
  <2>2. CASE ~Random /\ Steady
    <3>1. i % N \in 0 .. N - 1
      BY CounterIsWide DEF TypeOK
    <3>2. \A s \in Slots : Behind(s) <= N
      BY <3>1 DEF Behind, Slots, N
    <3>3. Sent(c) = N
      BY <1>8 DEF GiveUp, TypeOK, Sent
    <3>4. c \notin shared => \A s \in Slots : s \in picked[c]
      BY <1>8, <2>2, <3>2, <3>3 DEF GiveUp, Covered, Covers
    <3>5. c \notin shared => picked[c] = Slots
      BY <3>4 DEF TypeOK
    <3>6. c \notin shared' => Covers(c)'
      BY <1>8, <3>5 DEF GiveUp, Covers, TypeOK, history, Slots
    <3> QED BY <3>6, <1>8, OthersKeepRotation DEF GiveUp, TypeOK, history
  <2> QED BY <2>1, <2>2
<1>9. ASSUME NEW c \in Callers, Return(c) PROVE Balanced' /\ Covered'
  <2>1. Covers(c)'
    BY <1>9 DEF Return, TypeOK, Covers
  <2> QED BY <2>1, <1>9, OthersKeepRotation DEF Return, TypeOK, history
<1>10. CASE UNCHANGED vars
  BY <1>10, OthersKeepRotation DEF vars, code, history
<1> QED
  BY <1>1, <1>2, <1>3, <1>4, <1>5, <1>6, <1>7, <1>8, <1>9, <1>10
     DEF Next, Step, Rest

LEMMA Inductive == Spec => []IInv
<1>1. Init => IInv
  BY InitCounted, InitRotation DEF IInv
<1>2. IInv /\ [Next]_vars => IInv'
  BY NextCounted, NextRotation DEF IInv
<1> QED BY <1>1, <1>2, PTL DEF Spec

\* Round robin is fair: for any number of endpoints and of concurrent callers
\* no index is two answers ahead of another.
THEOREM RoundRobinIsFair == Spec => []FairShare
<1>1. IInv => FairShare
  <2> SUFFICES ASSUME IInv, ~Random, Steady, NEW s \in Slots, NEW t \in Slots
               PROVE  hits[s] <= hits[t] + 1
    BY DEF FairShare
  <2>1. PICK k \in Nat : \A x \in Slots : hits[x] = k + (IF x <= i % N THEN 1 ELSE 0)
    BY DEF IInv, Balanced
  <2> QED BY <2>1
<1> QED BY <1>1, Inductive, PTL

\* A failed call no other caller interleaved with has tried every endpoint.
THEOREM SoloFailoverIsComplete == Spec => []SoloCoversAll
<1>1. IInv => SoloCoversAll
  BY DEF IInv, Covered, Covers, SoloCoversAll
<1> QED BY <1>1, Inductive, PTL

-----------------------------------------------------------------------------
(* PostBytes implements the contract of FailoverCall *)

\* What a step of caller c does to its own phase and attempts is what the
\* contract sees of it.
LEMMA SeenAs ==
  ASSUME TypeOK, NEW c \in Callers,
         pc' = [pc EXCEPT ![c] = pc'[c]],
         a' = [a EXCEPT ![c] = a'[c]],
         reply' = [reply EXCEPT ![c] = reply'[c]]
  PROVE  /\ [d \in Callers |-> Phase(d)]' =
              [[d \in Callers |-> Phase(d)] EXCEPT ![c] = Phase(c)']
         /\ [d \in Callers |-> Tries(d)]' =
              [[d \in Callers |-> Tries(d)] EXCEPT ![c] = Tries(c)']
BY ZenonT(60) DEF Phase, Tries, TypeOK

LEMMA StepKeepsContract ==
  TypeOK /\ Counted /\ [Next]_vars => [Contract!Next]_Contract!vars
<1> SUFFICES ASSUME TypeOK, Counted, [Next]_vars
             PROVE  [Contract!Next]_Contract!vars
  OBVIOUS
<1> DEFINE stage == [d \in Callers |-> Phase(d)]
           tries == [d \in Callers |-> Tries(d)]
<1> MaxAttempts \in Nat \ {0}
  BY LengthIsPositive DEF MaxAttempts, N
<1>0. ASSUME NEW c \in Callers PROVE stage[c] = Phase(c) /\ tries[c] = Tries(c)
  OBVIOUS
<1>1. ASSUME NEW c \in Callers, Call(c) PROVE Contract!Open(c)
  <2>1. Phase(c) = "idle" /\ Phase(c)' = "open" /\ Tries(c)' = 0
    BY <1>1 DEF Call, TypeOK, Phase, Tries
  <2>2. /\ stage' = [stage EXCEPT ![c] = Phase(c)']
        /\ tries' = [tries EXCEPT ![c] = Tries(c)']
    BY <1>1, SeenAs DEF Call, TypeOK
  <2> QED BY <1>1, <2>1, <2>2 DEF Call, Contract!Open
<1>2. ASSUME NEW c \in Callers, NEW s \in Slots, Take(c, s),
             pc[c] \in {"next", "draw"}, a[c] < MaxAttempts
      PROVE  Contract!Attempt(c)
  <2>1. /\ pc' = [pc EXCEPT ![c] = "sent"] /\ reply' = reply /\ a' = a
    BY <1>2, NeverExhausted DEF Take
  <2>2. /\ Phase(c) = "open" /\ Phase(c)' = "open" /\ reply[c] = "none"
    BY <1>2, <2>1 DEF TypeOK, Phase, Counted
  <2>3. Tries(c) = a[c] /\ Tries(c)' = a[c] + 1
    BY <1>2, <2>1, <2>2 DEF TypeOK, Tries
  <2>4. /\ stage' = [stage EXCEPT ![c] = Phase(c)']
        /\ tries' = [tries EXCEPT ![c] = Tries(c)']
    BY <2>1, SeenAs DEF TypeOK
  <2>5. posts' \in {posts, [posts EXCEPT ![c] = @ + 1]}
    BY <1>2, NeverExhausted DEF Take
  <2> QED BY <1>2, <2>1, <2>2, <2>3, <2>4, <2>5 DEF Contract!Attempt
<1>3. ASSUME NEW c \in Callers, DrawBegin(c) PROVE UNCHANGED Contract!vars
  <2>1. Phase(c)' = Phase(c) /\ Tries(c)' = Tries(c)
    BY <1>3 DEF DrawBegin, TypeOK, Phase, Tries
  <2>2. /\ stage' = [stage EXCEPT ![c] = Phase(c)']
        /\ tries' = [tries EXCEPT ![c] = Tries(c)']
    BY <1>3, SeenAs DEF DrawBegin, TypeOK
  <2> QED BY <1>3, <2>1, <2>2 DEF DrawBegin, history, Contract!vars
<1>4. ASSUME NEW c \in Callers, DrawPanic(c) PROVE Contract!Abort(c)
  <2>1. /\ Phase(c) = "open" /\ Phase(c)' = "closed"
        /\ Tries(c) = a[c] /\ Tries(c)' = a[c] /\ a[c] < MaxAttempts
    BY <1>4 DEF DrawPanic, TypeOK, Phase, Tries, Counted
  <2>2. /\ stage' = [stage EXCEPT ![c] = Phase(c)']
        /\ tries' = [tries EXCEPT ![c] = Tries(c)']
    BY <1>4, SeenAs DEF DrawPanic, TypeOK
  <2> QED BY <1>4, <2>1, <2>2
     DEF DrawPanic, history, Contract!Abort, Contract!Close
<1>5. ASSUME NEW c \in Callers, AttemptFails(c) PROVE UNCHANGED Contract!vars
  <2>1. Phase(c)' = Phase(c) /\ Tries(c)' = Tries(c)
    BY <1>5 DEF AttemptFails, TypeOK, Phase, Tries, Counted
  <2>2. /\ stage' = [stage EXCEPT ![c] = Phase(c)']
        /\ tries' = [tries EXCEPT ![c] = Tries(c)']
    BY <1>5, SeenAs DEF AttemptFails, TypeOK
  <2> QED BY <1>5, <2>1, <2>2 DEF AttemptFails, history, Contract!vars
<1>6. ASSUME NEW c \in Callers, AttemptSettles(c) PROVE Contract!Settle(c)
  <2>0. PICK r \in {"ok", "rejected"} : reply' = [reply EXCEPT ![c] = r]
    BY <1>6 DEF AttemptSettles
  <2>1. /\ Phase(c) = "open" /\ Phase(c)' = "closed"
        /\ Tries(c) = a[c] + 1 /\ Tries(c)' = Tries(c) /\ a[c] \in Nat
    BY <1>6, <2>0 DEF AttemptSettles, TypeOK, Phase, Tries
  <2>2. /\ stage' = [stage EXCEPT ![c] = Phase(c)']
        /\ tries' = [tries EXCEPT ![c] = Tries(c)']
    BY <1>6, <2>0, SeenAs, ZenonT(60) DEF AttemptSettles, TypeOK
  <2>3. Contract!Close(c, r)
    BY <1>6, <2>0, <2>1, <2>2 DEF AttemptSettles, history, Contract!Close
  <2>4. posts[c] > 0
    BY <1>6 DEF AttemptSettles, Counted
  <2> QED BY <2>0, <2>3, <2>4 DEF Contract!Settle
<1>7. ASSUME NEW c \in Callers, GiveUp(c) PROVE Contract!Fail(c)
  <2>1. /\ Phase(c) = "open" /\ Phase(c)' = "closed"
        /\ Tries(c) = MaxAttempts /\ Tries(c)' = MaxAttempts
    BY <1>7 DEF GiveUp, TypeOK, Phase, Tries, Counted
  <2>2. /\ stage' = [stage EXCEPT ![c] = Phase(c)']
        /\ tries' = [tries EXCEPT ![c] = Tries(c)']
    BY <1>7, SeenAs DEF GiveUp, TypeOK
  <2> QED BY <1>7, <2>1, <2>2 DEF GiveUp, history, Contract!Fail, Contract!Close
<1>8. ASSUME NEW c \in Callers, Return(c) PROVE Contract!Hand(c)
  <2>1. /\ Phase(c) = "closed" /\ Phase(c)' = "idle" /\ Tries(c)' = Tries(c)
    BY <1>8 DEF Return, TypeOK, Phase, Tries
  <2>2. /\ stage' = [stage EXCEPT ![c] = Phase(c)']
        /\ tries' = [tries EXCEPT ![c] = Tries(c)']
    BY <1>8, SeenAs DEF Return, TypeOK
  <2> QED BY <1>8, <2>1, <2>2 DEF Return, history, Contract!Hand
<1>9. ASSUME NEW c \in Callers, PickRoundRobin(c) PROVE Contract!Attempt(c)
  <2>1. NextIndex(i') \in Slots
    BY <1>9, Rotation DEF PickRoundRobin, TypeOK
  <2> QED BY <1>2, <1>9, <2>1 DEF PickRoundRobin
<1>10. ASSUME NEW c \in Callers, DrawEnd(c) PROVE Contract!Attempt(c)
  BY <1>2, <1>10 DEF DrawEnd, Counted
<1>11. CASE UNCHANGED vars
  BY <1>11 DEF vars, code, history, Contract!vars, Phase, Tries
<1> QED
  BY <1>1, <1>3, <1>4, <1>5, <1>6, <1>7, <1>8, <1>9, <1>10, <1>11
     DEF Next, Step, Rest, Contract!Next

\* PostBytes implements the contract of FailoverCall under either policy: at
\* most one attempt per endpoint, none after the call is settled, a settling
\* answer only to a post, failure only with the whole budget spent.
THEOREM ContractKept == Spec => KeepsContract
<1>1. Init => Contract!Init
  BY DEF Init, Contract!Init, Phase, Tries
<1>2. Spec => [](TypeOK /\ Counted)
  BY InitCounted, NextCounted, PTL DEF Spec
<1> QED BY <1>1, <1>2, StepKeepsContract, PTL DEF Spec, KeepsContract, Contract!Spec
=============================================================================
