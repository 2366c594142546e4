----------------------------- MODULE ListProofs -----------------------------
(***************************************************************************)
(* What the operators on lists of items do, for every list.  The recursive *)
(* ones are taken apart by induction on a set of numbers: a set that holds *)
(* 0 and with every number below n the next one holds all of 0 .. n.       *)
(***************************************************************************)
EXTENDS ShowControl, ResolutionProofs, FiniteSetTheorems

-----------------------------------------------------------------------------
(* Numbers *)

\* What holds of 0 and goes from each number to the next holds up to n.
LEMMA Induction ==
  ASSUME NEW n \in Nat, NEW H, 0 \in H, \A m \in 0 .. n - 1 : m \in H => m + 1 \in H
  PROVE  \A m \in 0 .. n : m \in H
<1> DEFINE Out == {m \in 0 .. n : m \notin H}
<1> SUFFICES ASSUME Out # {} PROVE FALSE
  OBVIOUS
<1> Out \in SUBSET Nat
  OBVIOUS
<1> DEFINE x == Min(Out)
<1>1. x \in Out /\ \A y \in Out : x <= y
  BY MinIsMember
<1> HIDE DEF x
<1>2. x # 0
  BY <1>1
<1>3. x - 1 \in 0 .. n - 1 /\ x - 1 \notin Out
  BY <1>1, <1>2
<1> QED BY <1>1, <1>3

\* What division gives, and that it gives nothing else.
LEMMA DivMod ==
  ASSUME NEW a \in Int, NEW b \in Nat \ {0}
  PROVE  a \div b \in Int /\ a % b \in 0 .. b - 1 /\ a = ((a \div b) * b) + (a % b)
BY Z3

LEMMA DivModIs ==
  ASSUME NEW b \in Nat \ {0}, NEW q \in Int, NEW r \in 0 .. b - 1
  PROVE  ((q * b) + r) \div b = q /\ ((q * b) + r) % b = r
<1> DEFINE a == (q * b) + r
           p == a \div b
           s == a % b
<1>1. a \in Int
  BY Z3
<1>2. p \in Int /\ s \in 0 .. b - 1 /\ a = (p * b) + s
  BY <1>1, DivMod
<1>3. (p * b) + s = (q * b) + r
  BY <1>2
<1> HIDE DEF p, s
<1>4. CASE p >= q + 1
  <2>1. p * b >= (q + 1) * b
    BY <1>2, <1>4, Z3
  <2>2. (q + 1) * b = (q * b) + b
    BY Z3
  <2>3. q * b \in Int /\ p * b \in Int
    BY <1>2, Z3
  <2> QED BY <1>2, <1>3, <2>1, <2>2, <2>3
<1>5. CASE q >= p + 1
  <2>1. q * b >= (p + 1) * b
    BY <1>2, <1>5, Z3
  <2>2. (p + 1) * b = (p * b) + b
    BY <1>2, Z3
  <2>3. q * b \in Int /\ p * b \in Int
    BY <1>2, Z3
  <2> QED BY <1>2, <1>3, <2>1, <2>2, <2>3
<1>6. p = q
  BY <1>2, <1>4, <1>5
<1>7. s = r
  <2>1. p * b \in Int
    BY <1>2, Z3
  <2> QED BY <1>2, <1>3, <1>6, <2>1
<1> QED BY <1>6, <1>7 DEF p, s

\* A set of numbers up to n has a greatest member.
LEMMA MaxIsMember ==
  ASSUME NEW n \in Nat, NEW S \in SUBSET (1 .. n), S # {}
  PROVE  Max(S) \in S /\ \A y \in S : y <= Max(S)
<1> DEFINE Up == {b \in Nat : \A y \in S : y <= b}
           b == Min(Up)
<1>1. b \in Up /\ \A c \in Up : b <= c
  <2>1. n \in Up
    OBVIOUS
  <2> QED BY <2>1, MinIsMember
<1> HIDE DEF b
<1>2. b \in S
  <2>1. CASE b = 0
    <3>1. PICK y \in S : TRUE
      OBVIOUS
    <3>2. y \in 1 .. n /\ y <= 0
      BY <1>1, <2>1
    <3> QED BY <3>2
  <2>2. CASE b # 0 /\ b \notin S
    <3>1. b - 1 \in Nat /\ \A y \in S : y <= b - 1
      BY <1>1, <2>2
    <3>2. b - 1 \in Up
      BY <3>1
    <3> QED BY <1>1, <3>1, <3>2
  <2> QED BY <2>1, <2>2
<1>3. \E x \in S : \A y \in S : x >= y
  BY <1>1, <1>2
<1>4. Max(S) \in S /\ \A y \in S : Max(S) >= y
  BY <1>3 DEF Max
<1> QED BY <1>4

\* The greater and the lesser of two numbers.
LEMMA ExtremeOfTwo ==
  ASSUME NEW a \in Int, NEW b \in Int
  PROVE  Max({a, b}) \in Int /\ Min({a, b}) \in Int
<1>1. CASE a >= b
  <2>1. \E x \in {a, b} : \A y \in {a, b} : x >= y
    BY <1>1
  <2>2. \E x \in {a, b} : \A y \in {a, b} : x <= y
    BY <1>1
  <2> QED BY <2>1, <2>2 DEF Max, Min
<1>2. CASE b >= a
  <2>1. \E x \in {a, b} : \A y \in {a, b} : x >= y
    BY <1>2
  <2>2. \E x \in {a, b} : \A y \in {a, b} : x <= y
    BY <1>2
  <2> QED BY <2>1, <2>2 DEF Max, Min
<1> QED BY <1>1, <1>2

-----------------------------------------------------------------------------
(* Lists *)

\* A sequence is one over its own elements.
LEMMA OverItself ==
  ASSUME NEW T, NEW s \in Seq(T)
  PROVE  s \in Seq(ToSet(s))
BY DEF ToSet

CapLen(len, n) == IF n > 0 /\ len > n THEN n ELSE len

\* A capped list is the front of the list.
LEMMA CapKeepsFront ==
  ASSUME NEW T, NEW s \in Seq(T), NEW n \in Int
  PROVE  /\ Cap(s, n) \in Seq(T)
         /\ Len(Cap(s, n)) = CapLen(Len(s), n)
         /\ \A p \in DOMAIN Cap(s, n) : p \in DOMAIN s /\ Cap(s, n)[p] = s[p]
<1>1. CASE n > 0 /\ Len(s) > n
  <2>1. Cap(s, n) = SubSeq(s, 1, n)
    BY <1>1 DEF Cap
  <2>2. /\ SubSeq(s, 1, n) \in Seq(T) /\ Len(SubSeq(s, 1, n)) = n
        /\ \A p \in 1 .. n : SubSeq(s, 1, n)[p] = s[p]
    BY <1>1
  <2> QED BY <1>1, <2>1, <2>2 DEF CapLen
<1>2. CASE ~(n > 0 /\ Len(s) > n)
  BY <1>2 DEF Cap, CapLen
<1> QED BY <1>1, <1>2

\* A cut neither repeats an item nor adds one.
LEMMA CapKeepsDistinct ==
  ASSUME NEW T, NEW s \in Seq(T), NEW n \in Int, UniqueIds(s)
  PROVE  UniqueIds(Cap(s, n)) /\ Ids(Cap(s, n)) \subseteq Ids(s)
<1>1. \A p \in DOMAIN Cap(s, n) : p \in DOMAIN s /\ Cap(s, n)[p] = s[p]
  BY CapKeepsFront
<1>2. UniqueIds(Cap(s, n))
  BY <1>1 DEF UniqueIds
<1>3. Ids(Cap(s, n)) \subseteq Ids(s)
  BY <1>1 DEF Ids
<1> QED BY <1>2, <1>3

\* A list of distinct items has as many ids as places.
LEMMA IdsAreCounted ==
  ASSUME NEW T, NEW w \in Seq(T), UniqueIds(w)
  PROVE  Cardinality(Ids(w)) = Len(w)
<1> DEFINE f == [p \in 1 .. Len(w) |-> w[p].id]
<1>1. DOMAIN w = 1 .. Len(w) /\ Len(w) \in Nat
  OBVIOUS
<1>2. f \in Bijection(1 .. Len(w), Ids(w))
  BY <1>1 DEF Bijection, Injection, Surjection, IsInjective, UniqueIds, Ids
<1>3. IsFiniteSet(1 .. Len(w)) /\ Cardinality(1 .. Len(w)) = Len(w)
  BY <1>1, FS_Interval
<1> QED BY <1>2, <1>3, FS_Bijection DEF ExistsBijection

\* A permutation of a list has its items and its length.
LEMMA PermutedList ==
  ASSUME NEW T, NEW w \in Seq(T), NEW f \in Bijection(DOMAIN w, DOMAIN w), NEW t,
         t = [p \in DOMAIN w |-> w[f[p]]]
  PROVE  /\ t \in Seq(T) /\ Len(t) = Len(w) /\ DOMAIN t = DOMAIN w
         /\ Ids(t) = Ids(w)
         /\ UniqueIds(w) => UniqueIds(t)
<1>1. /\ f \in [DOMAIN w -> DOMAIN w]
      /\ \A p, q \in DOMAIN w : f[p] = f[q] => p = q
      /\ \A q \in DOMAIN w : \E p \in DOMAIN w : f[p] = q
  BY DEF Bijection, Injection, Surjection, IsInjective
<1>2. /\ t \in Seq(T) /\ Len(t) = Len(w) /\ DOMAIN t = DOMAIN w
  <2>1. DOMAIN w = 1 .. Len(w) /\ Len(w) \in Nat
    OBVIOUS
  <2>2. \A p \in 1 .. Len(w) : w[f[p]] \in T
    BY <1>1, <2>1
  <2>3. t = [p \in 1 .. Len(w) |-> w[f[p]]]
    BY <2>1
  <2>4. t \in Seq(T) /\ Len(t) = Len(w)
    BY <2>1, <2>2, <2>3
  <2> QED BY <2>1, <2>3, <2>4
<1>3. Ids(t) = Ids(w)
  <2>1. ASSUME NEW p \in DOMAIN t PROVE t[p].id \in Ids(w)
    BY <1>1, <1>2, <2>1 DEF Ids
  <2>2. ASSUME NEW q \in DOMAIN w PROVE w[q].id \in Ids(t)
    <3>1. PICK p \in DOMAIN w : f[p] = q
      BY <1>1
    <3>2. t[p].id = w[q].id
      BY <3>1
    <3> QED BY <1>2, <3>2 DEF Ids
  <2> QED BY <2>1, <2>2 DEF Ids
<1>4. UniqueIds(w) => UniqueIds(t)
  BY <1>1, <1>2 DEF UniqueIds
<1> QED BY <1>2, <1>3, <1>4

\* A function on the first numbers is a sequence.
LEMMA FunctionIsSequence ==
  ASSUME NEW n \in Nat, NEW w, w = [p \in 1 .. n |-> w[p]]
  PROVE  w \in Seq(ToSet(w)) /\ Len(w) = n
<1>1. DOMAIN w = 1 .. n
  OBVIOUS
<1>2. \A p \in 1 .. n : w[p] \in ToSet(w)
  BY <1>1 DEF ToSet
<1> HIDE DEF ToSet
<1> DEFINE S == ToSet(w)
<1> HIDE DEF S
<1>3. [p \in 1 .. n |-> w[p]] \in Seq(S) /\ Len([p \in 1 .. n |-> w[p]]) = n
  BY <1>2 DEF S
<1> QED BY <1>3 DEF S

\* Where Keep finds what it keeps: at the places it is given, in their order.
IsPlaces(place, t, s, I) ==
  /\ place \in [1 .. Len(t) -> I]
  /\ \A n \in 1 .. Len(t) : t[n] = s[place[n]]
  /\ \A m, n \in 1 .. Len(t) : m < n => place[m] < place[n]
  /\ \A i \in I : \E n \in 1 .. Len(t) : place[n] = i

\* the function Keep is defined by
KeepStep(f, s, J) == IF J = {} THEN <<>> ELSE Append(f[J \ {Max(J)}], s[Max(J)])

LEMMA KeepExists ==
  ASSUME NEW T, NEW s \in Seq(T)
  PROVE  \E f : f = [J \in SUBSET DOMAIN s |-> KeepStep(f, s, J)]
<1> DEFINE H == {m \in 0 .. Len(s) : \E f : f = [J \in SUBSET (1 .. m) |-> KeepStep(f, s, J)]}
<1>1. 0 \in H
  <2> DEFINE f == [J \in SUBSET (1 .. 0) |-> <<>>]
  <2>1. \A J \in SUBSET (1 .. 0) : KeepStep(f, s, J) = <<>>
    BY DEF KeepStep
  <2>2. f = [J \in SUBSET (1 .. 0) |-> KeepStep(f, s, J)]
    BY <2>1
  <2> HIDE DEF f
  <2> QED BY <2>2
<1>2. ASSUME NEW m \in 0 .. Len(s) - 1, m \in H PROVE m + 1 \in H
  <2>1. PICK f : f = [J \in SUBSET (1 .. m) |-> KeepStep(f, s, J)]
    BY <1>2
  <2> DEFINE g == [J \in SUBSET (1 .. m + 1) |->
                     IF m + 1 \in J THEN Append(f[J \ {m + 1}], s[m + 1]) ELSE f[J]]
  <2>2. ASSUME NEW J \in SUBSET (1 .. m + 1) PROVE g[J] = KeepStep(g, s, J)
    <3>1. CASE m + 1 \in J
      <4>1. Max(J) = m + 1
        <5>1. m + 1 \in Nat /\ J # {}
          BY <3>1
        <5>2. Max(J) \in J /\ \A y \in J : y <= Max(J)
          BY <5>1, MaxIsMember
        <5>3. Max(J) \in 1 .. m + 1 /\ m + 1 <= Max(J)
          BY <3>1, <5>2
        <5> QED BY <5>3
      <4>2. J \ {m + 1} \in SUBSET (1 .. m)
        OBVIOUS
      <4>3. g[J \ {m + 1}] = f[J \ {m + 1}]
        BY <4>2
      <4>4. g[J] = Append(g[J \ {m + 1}], s[m + 1])
        BY <3>1, <4>3
      <4> HIDE DEF g
      <4> QED BY <3>1, <4>1, <4>4 DEF KeepStep
    <3>2. CASE m + 1 \notin J
      <4>1. J \in SUBSET (1 .. m)
        BY <3>2
      <4>2. g[J] = f[J] /\ f[J] = KeepStep(f, s, J)
        BY <2>1, <3>2, <4>1
      <4>3. ASSUME J # {} PROVE g[J \ {Max(J)}] = f[J \ {Max(J)}]
        BY <4>1
      <4> HIDE DEF g
      <4> QED BY <4>2, <4>3 DEF KeepStep
    <3> QED BY <3>1, <3>2
  <2>3. g = [J \in SUBSET (1 .. m + 1) |-> KeepStep(g, s, J)]
    <3>1. g = [J \in SUBSET (1 .. m + 1) |-> g[J]]
      OBVIOUS
    <3> HIDE DEF g
    <3> QED BY <2>2, <3>1
  <2> HIDE DEF g
  <2> QED BY <2>3
<1> HIDE DEF H
<1>3. \A m \in 0 .. Len(s) : m \in H
  BY <1>1, <1>2, Induction
<1>4. Len(s) \in H /\ DOMAIN s = 1 .. Len(s)
  BY <1>3
<1> QED BY <1>4 DEF H

LEMMA KeepPlaces ==
  ASSUME NEW T, NEW s \in Seq(T), NEW I \in SUBSET DOMAIN s
  PROVE  Keep(s, I) \in Seq(T) /\ \E place : IsPlaces(place, Keep(s, I), s, I)
<1> DEFINE kept == CHOOSE f : f = [J \in SUBSET DOMAIN s |-> KeepStep(f, s, J)]
<1>1. kept = [J \in SUBSET DOMAIN s |-> KeepStep(kept, s, J)]
  BY KeepExists
<1>2. Keep(s, I) = kept[I]
  BY DEF Keep, KeepStep
<1> HIDE DEF kept
<1> DEFINE Good(J) == kept[J] \in Seq(T) /\ \E place : IsPlaces(place, kept[J], s, J)
           H == {m \in 0 .. Len(s) : \A J \in SUBSET (1 .. m) : Good(J)}
<1>3. 0 \in H
  <2>1. kept[{}] = <<>>
    BY <1>1 DEF KeepStep
  <2>2. IsPlaces(<<>>, <<>>, s, {})
    BY DEF IsPlaces
  <2>3. Good({})
    BY <2>1, <2>2
  <2>4. SUBSET (1 .. 0) = {{}}
    OBVIOUS
  <2>5. \A J \in SUBSET (1 .. 0) : Good(J)
    BY <2>3, <2>4
  <2>6. 0 \in 0 .. Len(s)
    OBVIOUS
  <2> HIDE DEF Good
  <2> QED BY <2>5, <2>6
<1>4. ASSUME NEW m \in 0 .. Len(s) - 1, m \in H PROVE m + 1 \in H
  <2> SUFFICES ASSUME NEW J \in SUBSET (1 .. m + 1), m + 1 \in J PROVE Good(J)
    <3>1. ASSUME NEW J \in SUBSET (1 .. m + 1), m + 1 \notin J PROVE Good(J)
      <4>1. J \in SUBSET (1 .. m)
        BY <3>1
      <4> QED BY <1>4, <4>1
    <3> QED BY <3>1
  <2> DEFINE K == J \ {m + 1}
  <2>1. Max(J) = m + 1
    <3>1. m + 1 \in Nat /\ J # {}
      OBVIOUS
    <3>2. Max(J) \in J /\ \A y \in J : y <= Max(J)
      BY <3>1, MaxIsMember
    <3>3. Max(J) \in 1 .. m + 1 /\ m + 1 <= Max(J)
      BY <3>2
    <3> QED BY <3>3
  <2>2. /\ J \in SUBSET DOMAIN s /\ J # {} /\ m + 1 \in DOMAIN s
        /\ K \in SUBSET (1 .. m) /\ J = K \cup {m + 1}
    OBVIOUS
  <2>3. kept[J] = Append(kept[K], s[m + 1])
    BY <1>1, <2>1, <2>2 DEF KeepStep
  <2> HIDE DEF K
  <2>4. kept[K] \in Seq(T) /\ s[m + 1] \in T
    BY <1>4, <2>2
  <2>5. PICK place : IsPlaces(place, kept[K], s, K)
    BY <1>4, <2>2
  <2> DEFINE n == Len(kept[K])
             more == [i \in 1 .. n + 1 |-> IF i = n + 1 THEN m + 1 ELSE place[i]]
  <2>6. /\ kept[J] \in Seq(T) /\ Len(kept[J]) = n + 1 /\ n \in Nat
        /\ \A i \in 1 .. n : kept[J][i] = kept[K][i]
        /\ kept[J][n + 1] = s[m + 1]
    BY <2>3, <2>4
  <2> HIDE DEF n
  <2>7. /\ place \in [1 .. n -> K]
        /\ \A i \in 1 .. n : kept[K][i] = s[place[i]]
        /\ \A i, j \in 1 .. n : i < j => place[i] < place[j]
        /\ \A i \in K : \E k \in 1 .. n : place[k] = i
    BY <2>5 DEF IsPlaces, n
  <2>8. /\ \A i \in 1 .. n : i \in 1 .. n + 1 /\ i # n + 1
        /\ n + 1 \in 1 .. n + 1
        /\ \A i \in 1 .. n + 1 : i \in 1 .. n \/ i = n + 1
    BY <2>6
  <2>9. /\ \A i \in 1 .. n : more[i] = place[i]
        /\ more[n + 1] = m + 1
    BY <2>8
  <2>10. more \in [1 .. n + 1 -> J] /\ \A i \in 1 .. n : more[i] \in 1 .. m
    BY <2>2, <2>7, <2>8, <2>9
  <2> HIDE DEF more
  <2>11. IsPlaces(more, kept[J], s, J)
    <3>1. \A i \in 1 .. n + 1 : kept[J][i] = s[more[i]]
      BY <2>6, <2>7, <2>8, <2>9
    <3>2. ASSUME NEW i \in 1 .. n + 1, NEW j \in 1 .. n + 1, i < j PROVE more[i] < more[j]
      <4>1. i \in 1 .. n
        BY <2>6, <3>2
      <4>2. CASE j \in 1 .. n
        BY <2>7, <2>9, <3>2, <4>1, <4>2
      <4>3. CASE j = n + 1
        BY <2>9, <2>10, <4>1, <4>3
      <4> QED BY <2>8, <4>2, <4>3
    <3>3. \A j \in J : \E i \in 1 .. n + 1 : more[i] = j
      BY <2>2, <2>7, <2>8, <2>9
    <3> QED BY <2>6, <2>10, <3>1, <3>2, <3>3 DEF IsPlaces
  <2> QED BY <2>6, <2>11
<1> HIDE DEF H
<1>5. \A m \in 0 .. Len(s) : m \in H
  BY <1>3, <1>4, Induction
<1>6. Len(s) \in H /\ DOMAIN s = 1 .. Len(s)
  BY <1>5
<1>7. Good(I)
  BY <1>6 DEF H
<1> QED BY <1>2, <1>7

\* f goes through the places I in order, in a steps
GoesThrough(f, a, I) ==
  /\ f \in [1 .. a -> I]
  /\ \A m, n \in 1 .. a : m < n => f[m] < f[n]
  /\ \A i \in I : \E n \in 1 .. a : f[n] = i

\* There is but one way to do that.
LEMMA PlacesAgree ==
  ASSUME NEW a \in Nat, NEW b \in Nat, NEW I \in SUBSET Nat, NEW f, NEW g,
         GoesThrough(f, a, I), GoesThrough(g, b, I)
  PROVE  a = b /\ \A n \in 1 .. a : f[n] = g[n]
<1> USE DEF GoesThrough
<1>1. /\ \A m \in 1 .. a : f[m] \in I /\ f[m] \in Int
      /\ \A m \in 1 .. b : g[m] \in I /\ g[m] \in Int
  <2>1. /\ \A m \in 1 .. a : f[m] \in I
        /\ \A m \in 1 .. b : g[m] \in I
    OBVIOUS
  <2>2. \A i \in I : i \in Int
    OBVIOUS
  <2> QED BY <2>1, <2>2
<1>2. \A n \in Nat : n \in 1 .. a /\ n \in 1 .. b => f[n] = g[n]
  <2> DEFINE Bad == {n \in Nat : n \in 1 .. a /\ n \in 1 .. b /\ f[n] # g[n]}
  <2> SUFFICES ASSUME Bad # {} PROVE FALSE
    OBVIOUS
  <2>1. PICK n \in Bad : \A m \in Bad : n <= m
    <3>1. Bad \in SUBSET Nat
      OBVIOUS
    <3> HIDE DEF Bad
    <3> QED BY <3>1, MinIsMember
  <2>2. /\ n \in 1 .. a /\ n \in 1 .. b /\ f[n] # g[n]
        /\ \A m \in 1 .. n - 1 : m \in 1 .. a /\ m \in 1 .. b /\ m \notin Bad
    BY <2>1
  <2>3. \A m \in 1 .. n - 1 : f[m] = g[m]
    BY <2>2
  <2>4. CASE f[n] < g[n]
    <3>1. PICK j \in 1 .. b : g[j] = f[n]
      BY <1>1, <2>2
    <3>2. j < n
      <4>1. ~(j = n) /\ ~(n < j)
        BY <1>1, <2>2, <2>4, <3>1
      <4> QED BY <2>2, <4>1
    <3>3. j \in 1 .. n - 1 /\ f[j] = f[n] /\ f[j] < f[n]
      BY <2>2, <2>3, <3>1, <3>2
    <3> QED BY <1>1, <2>2, <3>3
  <2>5. CASE g[n] < f[n]
    <3>1. PICK j \in 1 .. a : f[j] = g[n]
      BY <1>1, <2>2
    <3>2. j < n
      <4>1. ~(j = n) /\ ~(n < j)
        BY <1>1, <2>2, <2>5, <3>1
      <4> QED BY <2>2, <4>1
    <3>3. j \in 1 .. n - 1 /\ g[j] = g[n] /\ g[j] < g[n]
      BY <2>2, <2>3, <3>1, <3>2
    <3> QED BY <1>1, <2>2, <3>3
  <2> QED BY <1>1, <2>2, <2>4, <2>5
<1>3. a = b
  <2>1. CASE a < b
    <3>1. a + 1 \in 1 .. b
      BY <2>1
    <3>2. PICK n \in 1 .. a : f[n] = g[a + 1]
      BY <1>1, <3>1
    <3>3. n \in 1 .. b /\ n < a + 1 /\ g[n] = g[a + 1]
      BY <1>2, <2>1, <3>2
    <3> QED BY <1>1, <3>1, <3>3
  <2>2. CASE b < a
    <3>1. b + 1 \in 1 .. a
      BY <2>2
    <3>2. PICK n \in 1 .. b : g[n] = f[b + 1]
      BY <1>1, <3>1
    <3>3. n \in 1 .. a /\ n < b + 1 /\ f[n] = f[b + 1]
      BY <1>2, <2>2, <3>2
    <3> QED BY <1>1, <3>1, <3>3
  <2> QED BY <2>1, <2>2
<1> QED BY <1>2, <1>3

\* A sequence of what is at the places, in order, is what Keep makes of them.
LEMMA KeepIsUnique ==
  ASSUME NEW T, NEW s \in Seq(T), NEW I \in SUBSET DOMAIN s, NEW t \in Seq(T),
         NEW place, IsPlaces(place, t, s, I)
  PROVE  t = Keep(s, I)
<1> DEFINE u == Keep(s, I)
<1>1. PICK there : u \in Seq(T) /\ IsPlaces(there, u, s, I)
  BY KeepPlaces
<1> HIDE DEF u
<1>2. /\ Len(t) \in Nat /\ Len(u) \in Nat /\ DOMAIN t = 1 .. Len(t) /\ DOMAIN u = 1 .. Len(u)
      /\ I \in SUBSET Nat
  BY <1>1
<1>3. /\ place \in [1 .. Len(t) -> I] /\ there \in [1 .. Len(u) -> I]
      /\ \A n \in 1 .. Len(t) : t[n] = s[place[n]]
      /\ \A n \in 1 .. Len(u) : u[n] = s[there[n]]
      /\ \A m, n \in 1 .. Len(t) : m < n => place[m] < place[n]
      /\ \A m, n \in 1 .. Len(u) : m < n => there[m] < there[n]
      /\ \A i \in I : \E n \in 1 .. Len(t) : place[n] = i
      /\ \A i \in I : \E n \in 1 .. Len(u) : there[n] = i
  BY <1>1 DEF IsPlaces
<1>4. Len(t) = Len(u) /\ \A n \in 1 .. Len(t) : place[n] = there[n]
  <2>1. GoesThrough(place, Len(t), I) /\ GoesThrough(there, Len(u), I)
    BY <1>3 DEF GoesThrough
  <2> QED BY <1>2, <2>1, PlacesAgree
<1>5. \A n \in 1 .. Len(t) : t[n] = u[n]
  BY <1>3, <1>4
<1> QED BY <1>1, <1>2, <1>4, <1>5 DEF u

\* An increasing row of numbers has a place up to which they are at most b.
LEMMA CutAt ==
  ASSUME NEW a \in Nat, NEW J \in SUBSET Nat, NEW place \in [1 .. a -> J], NEW b \in Nat,
         \A m, n \in 1 .. a : m < n => place[m] < place[n]
  PROVE  \E n \in 0 .. a : \A m \in 1 .. a : m <= n <=> place[m] <= b
<1> DEFINE A == {m \in 1 .. a : place[m] <= b}
<1>1. \A m \in 1 .. a : place[m] \in Int
  <2>1. \A m \in 1 .. a : place[m] \in J
    OBVIOUS
  <2>2. \A i \in J : i \in Int
    OBVIOUS
  <2> QED BY <2>1, <2>2
<1>2. CASE A = {}
  <2>1. \A m \in 1 .. a : ~(m <= 0) /\ ~(place[m] <= b)
    BY <1>2
  <2> QED BY <2>1
<1>3. CASE A # {}
  <2>1. PICK n \in A : \A m \in A : m <= n
    <3>1. A \in SUBSET (1 .. a)
      OBVIOUS
    <3> HIDE DEF A
    <3> QED BY <1>3, <3>1, MaxIsMember
  <2>2. n \in 1 .. a /\ n \in 0 .. a /\ place[n] <= b
    BY <2>1
  <2>3. ASSUME NEW m \in 1 .. a PROVE m <= n <=> place[m] <= b
    <3>1. place[m] <= b => m <= n
      BY <2>1
    <3>2. m < n => place[m] < place[n]
      BY <2>2
    <3>3. m <= n => m < n \/ m = n
      BY <2>2
    <3> QED BY <1>1, <2>2, <3>1, <3>2, <3>3
  <2> QED BY <2>2, <2>3
<1> QED BY <1>2, <1>3

\* What is kept of a list is in the list, in its order.
InOrder(t, s) ==
  \A m, n \in DOMAIN t : m < n => \E i, j \in DOMAIN s : i < j /\ t[m] = s[i] /\ t[n] = s[j]

LEMMA KeptItems ==
  ASSUME NEW T, NEW s \in Seq(T), NEW I \in SUBSET DOMAIN s
  PROVE  /\ Keep(s, I) \in Seq(T)
         /\ \A n \in DOMAIN Keep(s, I) : \E i \in I : Keep(s, I)[n] = s[i]
         /\ \A i \in I : \E n \in DOMAIN Keep(s, I) : Keep(s, I)[n] = s[i]
         /\ InOrder(Keep(s, I), s)
<1> DEFINE t == Keep(s, I)
<1>1. PICK place : t \in Seq(T) /\ IsPlaces(place, t, s, I)
  BY KeepPlaces
<1> HIDE DEF t
<1>2. DOMAIN t = 1 .. Len(t) /\ Len(t) \in Nat
  BY <1>1
<1>3. /\ place \in [1 .. Len(t) -> I]
      /\ \A n \in 1 .. Len(t) : t[n] = s[place[n]]
      /\ \A m, n \in 1 .. Len(t) : m < n => place[m] < place[n]
      /\ \A i \in I : \E n \in 1 .. Len(t) : place[n] = i
  BY <1>1 DEF IsPlaces
<1>4. \A n \in DOMAIN t : place[n] \in I /\ t[n] = s[place[n]]
  BY <1>2, <1>3
<1>5. \A i \in I : \E n \in DOMAIN t : t[n] = s[i]
  BY <1>2, <1>3
<1>6. InOrder(t, s)
  BY <1>2, <1>3, <1>4 DEF InOrder
<1> QED BY <1>1, <1>4, <1>5, <1>6 DEF t

\* It begins with the first place that is kept.
LEMMA KeptHead ==
  ASSUME NEW T, NEW s \in Seq(T), NEW I \in SUBSET DOMAIN s, NEW i \in I, \A j \in I : i <= j
  PROVE  Keep(s, I) # <<>> /\ Keep(s, I)[1] = s[i]
<1> DEFINE t == Keep(s, I)
<1>1. PICK place : t \in Seq(T) /\ IsPlaces(place, t, s, I)
  BY KeepPlaces
<1> HIDE DEF t
<1>2. PICK n \in 1 .. Len(t) : place[n] = i
  BY <1>1 DEF IsPlaces
<1>3. 1 \in 1 .. Len(t) /\ t # <<>>
  BY <1>1, <1>2
<1>4. n = 1
  <2>1. ASSUME n # 1 PROVE FALSE
    <3>1. 1 < n
      BY <1>2, <2>1
    <3>2. place[1] < place[n] /\ place[1] \in I
      BY <1>1, <1>3, <3>1 DEF IsPlaces
    <3>3. i <= place[1] /\ place[1] \in Nat /\ i \in Nat
      BY <3>2
    <3> QED BY <1>2, <3>2, <3>3
  <2> QED BY <2>1
<1> QED BY <1>1, <1>2, <1>3, <1>4 DEF IsPlaces, t

\* Of distinct items Keep makes distinct items.
LEMMA KeepsDistinct ==
  ASSUME NEW T, NEW s \in Seq(T), NEW I \in SUBSET DOMAIN s,
         \A i, j \in I : s[i].id = s[j].id => i = j
  PROVE  UniqueIds(Keep(s, I))
<1> DEFINE t == Keep(s, I)
<1>1. PICK place : t \in Seq(T) /\ IsPlaces(place, t, s, I)
  BY KeepPlaces
<1> HIDE DEF t
<1>2. DOMAIN t = 1 .. Len(t) /\ Len(t) \in Nat
  BY <1>1
<1>3. ASSUME NEW m \in 1 .. Len(t), NEW n \in 1 .. Len(t), m # n PROVE t[m].id # t[n].id
  <2>1. place[m] \in I /\ place[n] \in I /\ t[m] = s[place[m]] /\ t[n] = s[place[n]]
    BY <1>1 DEF IsPlaces
  <2>2. (m < n => place[m] < place[n]) /\ (n < m => place[n] < place[m])
    BY <1>1 DEF IsPlaces
  <2>3. place[m] \in Int /\ place[n] \in Int
    BY <2>1
  <2>4. place[m] # place[n]
    BY <1>3, <2>2, <2>3
  <2> QED BY <2>1, <2>4
<1> QED BY <1>2, <1>3 DEF UniqueIds, t

\* A list without repetitions has every id of the list it is made of, once, and
\* begins like it.
LEMMA DedupedItems ==
  ASSUME NEW T, NEW s \in Seq(T)
  PROVE  LET t == DedupeKeepFirst(s)
         IN  /\ t \in Seq(T) /\ UniqueIds(t) /\ Ids(t) = Ids(s)
             /\ \A n \in DOMAIN t : \E i \in DOMAIN s : t[n] = s[i]
             /\ InOrder(t, s)
             /\ s # <<>> => t # <<>> /\ t[1] = s[1]
<1> DEFINE I == {p \in DOMAIN s : \A q \in 1 .. p - 1 : s[q].id # s[p].id}
           t == Keep(s, I)
<1>1. DedupeKeepFirst(s) = t /\ I \in SUBSET DOMAIN s
  BY DEF DedupeKeepFirst
<1>8. s # <<>> => 1 \in I /\ \A j \in I : 1 <= j
  OBVIOUS
<1>2. \A i, j \in I : s[i].id = s[j].id => i = j
  <2>1. ASSUME NEW i \in I, NEW j \in I, i < j PROVE s[i].id # s[j].id
    BY <2>1
  <2> QED BY <2>1
<1>3. ASSUME NEW p \in DOMAIN s PROVE \E i \in I : s[i].id = s[p].id
  <2> DEFINE A == {q \in DOMAIN s : s[q].id = s[p].id}
  <2>1. A \in SUBSET Nat /\ A # {}
    OBVIOUS
  <2>2. PICK i \in A : \A q \in A : i <= q
    BY <2>1, MinIsMember
  <2>3. i \in I
    BY <2>2
  <2> QED BY <2>2, <2>3
<1> HIDE DEF I
<1>4. /\ t \in Seq(T)
      /\ \A n \in DOMAIN t : \E i \in I : t[n] = s[i]
      /\ \A i \in I : \E n \in DOMAIN t : t[n] = s[i]
      /\ InOrder(t, s)
  BY <1>1, KeptItems
<1>5. UniqueIds(t)
  BY <1>1, <1>2, KeepsDistinct
<1>9. s # <<>> => t # <<>> /\ t[1] = s[1]
  BY <1>1, <1>8, KeptHead
<1> HIDE DEF t
<1>6. \A n \in DOMAIN t : \E i \in DOMAIN s : t[n] = s[i]
  BY <1>1, <1>4
<1>7. Ids(t) = Ids(s)
  <2>1. \A n \in DOMAIN t : t[n].id \in Ids(s)
    BY <1>6 DEF Ids
  <2>2. \A p \in DOMAIN s : s[p].id \in Ids(t)
    BY <1>3, <1>4 DEF Ids
  <2> QED BY <2>1, <2>2 DEF Ids
<1> QED BY <1>1, <1>4, <1>5, <1>6, <1>7, <1>9

-----------------------------------------------------------------------------
(* Loops *)

\* A loop of n rounds with its accumulator in S: f[m] is what round m leaves.
Runs(f, n, S, start, step) ==
  /\ f \in [0 .. n -> S] /\ f[0] = start
  /\ \A m \in 1 .. n : f[m] = step[<<m, f[m - 1]>>]

LEMMA LoopExists ==
  ASSUME NEW n \in Nat, NEW S, NEW b \in S, NEW step \in [(1 .. n) \X S -> S]
  PROVE  \E f : Runs(f, n, S, b, step)
<1> DEFINE H == {k \in 0 .. n : \E f : Runs(f, k, S, b, step)}
<1>1. 0 \in H
  <2>1. Runs([m \in 0 .. 0 |-> b], 0, S, b, step)
    BY DEF Runs
  <2>2. 0 \in 0 .. n
    OBVIOUS
  <2> QED BY <2>1, <2>2
<1>2. ASSUME NEW k \in 0 .. n - 1, k \in H PROVE k + 1 \in H
  <2>1. PICK f : Runs(f, k, S, b, step)
    BY <1>2
  <2> DEFINE last == step[<<k + 1, f[k]>>]
             g == [m \in 0 .. k + 1 |-> IF m = k + 1 THEN last ELSE f[m]]
  <2>2. f[k] \in S /\ k + 1 \in 1 .. n
    BY <2>1 DEF Runs
  <2>3. last \in S
    BY <2>2
  <2>4. /\ \A m \in 0 .. k : m \in 0 .. k + 1 /\ m # k + 1
        /\ \A m \in 0 .. k + 1 : m \in 0 .. k \/ m = k + 1
        /\ k + 1 \in 0 .. k + 1 /\ 0 \in 0 .. k
        /\ \A m \in 1 .. k + 1 : m \in 1 .. k \/ m = k + 1
        /\ \A m \in 1 .. k : m \in 0 .. k /\ m - 1 \in 0 .. k
        /\ k + 1 - 1 = k /\ k \in 0 .. k
    OBVIOUS
  <2> HIDE DEF last
  <2>5. /\ \A m \in 0 .. k : g[m] = f[m]
        /\ g[k + 1] = last
    BY <2>4
  <2>6. g \in [0 .. k + 1 -> S]
    BY <2>1, <2>3, <2>4 DEF Runs
  <2> HIDE DEF g
  <2>7. \A m \in 1 .. k + 1 : g[m] = step[<<m, g[m - 1]>>]
    <3>1. ASSUME NEW m \in 1 .. k PROVE g[m] = step[<<m, g[m - 1]>>]
      BY <2>1, <2>4, <2>5 DEF Runs
    <3>2. g[k + 1] = step[<<k + 1, g[k + 1 - 1]>>]
      BY <2>4, <2>5 DEF last
    <3> QED BY <2>4, <3>1, <3>2
  <2>8. Runs(g, k + 1, S, b, step)
    BY <2>1, <2>4, <2>5, <2>6, <2>7 DEF Runs
  <2>9. k + 1 \in 0 .. n
    OBVIOUS
  <2> QED BY <2>8, <2>9
<1> HIDE DEF H
<1>3. \A k \in 0 .. n : k \in H
  BY <1>1, <1>2, Induction
<1> QED BY <1>3 DEF H

\* The same loop as the recursive function that TLA+ writes it as: it exists,
\* and has its values in S.
IsLoop(f, n, start, step) ==
  f = [m \in 0 .. n |-> IF m = 0 THEN start ELSE step[<<m, f[m - 1]>>]]

LEMMA LoopFunction ==
  ASSUME NEW n \in Nat, NEW S, NEW b \in S, NEW step \in [(1 .. n) \X S -> S]
  PROVE  \E f : IsLoop(f, n, b, step)
<1>1. PICK g : Runs(g, n, S, b, step)
  BY LoopExists
<1>2. /\ g \in [0 .. n -> S] /\ g[0] = b
      /\ \A m \in 1 .. n : g[m] = step[<<m, g[m - 1]>>]
  BY <1>1 DEF Runs
<1>3. \A m \in 0 .. n : g[m] = IF m = 0 THEN b ELSE step[<<m, g[m - 1]>>]
  BY <1>2
<1>4. g = [m \in 0 .. n |-> g[m]]
  BY <1>2
<1> QED BY <1>3, <1>4 DEF IsLoop

LEMMA LoopStays ==
  ASSUME NEW n \in Nat, NEW S, NEW b \in S, NEW step \in [(1 .. n) \X S -> S],
         NEW f, IsLoop(f, n, b, step)
  PROVE  Runs(f, n, S, b, step)
<1> DEFINE H == {m \in 0 .. n : f[m] \in S}
<1>1. /\ DOMAIN f = 0 .. n /\ f = [m \in 0 .. n |-> f[m]]
      /\ \A m \in 0 .. n : f[m] = IF m = 0 THEN b ELSE step[<<m, f[m - 1]>>]
  BY DEF IsLoop
<1>7. 0 \in 0 .. n /\ \A m \in 1 .. n : m \in 0 .. n /\ m # 0
  OBVIOUS
<1>2. f[0] = b /\ \A m \in 1 .. n : f[m] = step[<<m, f[m - 1]>>]
  BY <1>1, <1>7
<1>3. 0 \in H
  BY <1>2
<1>4. ASSUME NEW m \in 0 .. n - 1, m \in H PROVE m + 1 \in H
  <2> DEFINE j == m + 1
  <2>1. j \in 1 .. n /\ j \in 0 .. n /\ j - 1 = m
    OBVIOUS
  <2> HIDE DEF j
  <2>2. f[j] \in S
    BY <1>2, <1>4, <2>1
  <2> QED BY <2>1, <2>2 DEF j
<1> HIDE DEF H
<1>5. \A m \in 0 .. n : m \in H
  BY <1>3, <1>4, Induction
<1>6. f \in [0 .. n -> S]
  BY <1>1, <1>5 DEF H
<1> QED BY <1>2, <1>6 DEF Runs

\* Where the items of the first m lists of ls are in t: row after row, each
\* from its front.
IsLaid(row, col, t, ls, m) ==
  /\ \A n \in 1 .. Len(t) : /\ row[n] \in 1 .. m /\ col[n] \in DOMAIN ls[row[n]]
                            /\ t[n] = ls[row[n]][col[n]]
  /\ \A i, n \in 1 .. Len(t) :
       i < n => row[i] < row[n] \/ (row[i] = row[n] /\ col[i] < col[n])
  /\ \A r \in 1 .. m : \A c \in DOMAIN ls[r] :
       \E n \in 1 .. Len(t) : row[n] = r /\ col[n] = c

LEMMA FlattenLoop ==
  ASSUME NEW T, NEW ls \in Seq(Seq(T)), Len(ls) > 0
  PROVE  \E f \in [1 .. Len(ls) -> Seq(T)] :
           /\ f = [i \in 1 .. Len(ls) |-> IF i = 1 THEN ls[i] ELSE f[i - 1] \o ls[i]]
           /\ FlattenSeq(ls) = f[Len(ls)]
<1> DEFINE L == Len(ls)
           step == [p \in (1 .. L) \X Seq(T) |-> p[2] \o ls[p[1]]]
<1>1. L \in Nat /\ L > 0 /\ DOMAIN ls = 1 .. L
  OBVIOUS
<1>2. \A i \in 1 .. L : ls[i] \in Seq(T)
  OBVIOUS
<1> HIDE DEF L
<1>3. step \in [(1 .. L) \X Seq(T) -> Seq(T)]
  <2>1. \A i \in 1 .. L, x \in Seq(T) : x \o ls[i] \in Seq(T)
    BY <1>2
  <2>2. \A p \in (1 .. L) \X Seq(T) : p[1] \in 1 .. L /\ p[2] \in Seq(T)
    OBVIOUS
  <2> QED BY <2>1, <2>2
<1>4. \A i \in 1 .. L, x \in Seq(T) : step[<<i, x>>] = x \o ls[i]
  OBVIOUS
<1> HIDE DEF step
<1>5. PICK g : Runs(g, L, Seq(T), <<>>, step)
  <2> DEFINE S == Seq(T)
             none == <<>>
  <2>1. none \in S /\ step \in [(1 .. L) \X S -> S]
    BY <1>3
  <2> HIDE DEF S, none
  <2>2. \E g : Runs(g, L, S, none, step)
    BY <1>1, <2>1, LoopExists
  <2> QED BY <2>2 DEF S, none
<1>6. /\ g \in [0 .. L -> Seq(T)] /\ g[0] = <<>>
      /\ \A m \in 1 .. L : g[m] = step[<<m, g[m - 1]>>]
  BY <1>5 DEF Runs
<1> DEFINE h == [i \in 1 .. L |-> g[i]]
<1>7. \A i \in 1 .. L : i \in 0 .. L /\ i # 0 /\ i - 1 \in 0 .. L /\ (i # 1 => i - 1 \in 1 .. L)
  BY <1>1
<1>8. \A i \in 1 .. L : g[i] = g[i - 1] \o ls[i]
  <2> TAKE i \in 1 .. L
  <2>1. g[i] = step[<<i, g[i - 1]>>] /\ g[i - 1] \in Seq(T)
    BY <1>6, <1>7
  <2> QED BY <1>4, <2>1
<1>9. \A i \in 1 .. L : h[i] = IF i = 1 THEN ls[i] ELSE h[i - 1] \o ls[i]
  <2> TAKE i \in 1 .. L
  <2>1. CASE i = 1
    <3>1. g[0] = <<>> /\ i - 1 = 0
      BY <1>1, <1>6, <2>1
    <3>2. <<>> \o ls[i] = ls[i]
      BY <1>2
    <3> QED BY <1>8, <2>1, <3>1, <3>2
  <2>2. CASE i # 1
    BY <1>7, <1>8, <2>2
  <2> QED BY <2>1, <2>2
<1>10. h \in [1 .. L -> Seq(T)] /\ h = [i \in 1 .. L |-> h[i]]
  BY <1>6, <1>7
<1> HIDE DEF h
<1>11. h = [i \in 1 .. L |-> IF i = 1 THEN ls[i] ELSE h[i - 1] \o ls[i]]
  BY <1>9, <1>10
<1> DEFINE f == CHOOSE f : f = [i \in 1 .. L |-> IF i = 1 THEN ls[i] ELSE f[i - 1] \o ls[i]]
<1>12. f = [i \in 1 .. L |-> IF i = 1 THEN ls[i] ELSE f[i - 1] \o ls[i]]
  BY <1>11
<1>13. FlattenSeq(ls) = f[L]
  BY <1>1 DEF FlattenSeq, L
<1> HIDE DEF f
<1>14. \A i \in 1 .. L : f[i] \in Seq(T)
  <2> DEFINE H == {i \in 0 .. L : i # 0 => f[i] \in Seq(T)}
  <2>1. 0 \in H
    BY <1>1
  <2>2. ASSUME NEW i \in 0 .. L - 1, i \in H PROVE i + 1 \in H
    <3>1. i + 1 \in 1 .. L /\ i + 1 - 1 = i /\ i + 1 \in 0 .. L
      BY <1>1
    <3>2. f[i + 1] = IF i + 1 = 1 THEN ls[i + 1] ELSE f[i] \o ls[i + 1]
      <4> DEFINE j == i + 1
      <4>1. j \in 1 .. L /\ j - 1 = i
        BY <3>1
      <4> HIDE DEF j
      <4>2. f[j] = IF j = 1 THEN ls[j] ELSE f[j - 1] \o ls[j]
        BY <1>12, <4>1
      <4> QED BY <4>1, <4>2 DEF j
    <3>3. i + 1 # 1 => f[i] \in Seq(T)
      BY <2>2
    <3>4. f[i + 1] \in Seq(T)
      BY <1>2, <3>1, <3>2, <3>3
    <3> QED BY <3>1, <3>4
  <2> HIDE DEF H
  <2>3. \A i \in 0 .. L : i \in H
    BY <1>1, <2>1, <2>2, Induction
  <2> QED BY <1>7, <2>3 DEF H
<1>15. f \in [1 .. L -> Seq(T)]
  BY <1>12, <1>14
<1> QED BY <1>12, <1>13, <1>15 DEF L

\* One more list is laid behind what is there.
LEMMA LaidBehind ==
  ASSUME NEW T, NEW ls \in Seq(Seq(T)), NEW m \in 0 .. Len(ls) - 1,
         NEW t \in Seq(T), NEW row, NEW col, IsLaid(row, col, t, ls, m)
  PROVE  \E r, c : IsLaid(r, c, t \o ls[m + 1], ls, m + 1)
<1> DEFINE s == ls[m + 1]
           w == t \o s
           a == Len(t)
           b == Len(s)
           r == [n \in 1 .. a + b |-> IF n <= a THEN row[n] ELSE m + 1]
           c == [n \in 1 .. a + b |-> IF n <= a THEN col[n] ELSE n - a]
<1>1. /\ s \in Seq(T) /\ m + 1 \in 1 .. Len(ls) /\ m \in Nat
      /\ \A q \in 1 .. m : q \in 1 .. m + 1 /\ q < m + 1
      /\ \A q \in 1 .. m + 1 : q \in 1 .. m \/ q = m + 1
  OBVIOUS
<1>2. a \in Nat /\ b \in Nat /\ DOMAIN s = 1 .. b
  BY <1>1
<1>3. /\ Len(w) = a + b
      /\ \A n \in 1 .. a : w[n] = t[n]
      /\ \A n \in 1 .. b : w[a + n] = s[n]
  BY <1>1
<1>4. /\ \A n \in 1 .. a : n \in 1 .. a + b /\ n <= a
      /\ \A n \in 1 .. b : a + n \in 1 .. a + b /\ ~(a + n <= a) /\ a + n - a = n
      /\ \A n \in 1 .. a + b : n \in 1 .. a \/ (n > a /\ n - a \in 1 .. b /\ n = a + (n - a))
  BY <1>2
<1>5. /\ \A n \in 1 .. a : r[n] = row[n] /\ c[n] = col[n]
      /\ \A n \in 1 .. b : r[a + n] = m + 1 /\ c[a + n] = n
  BY <1>4
<1>6. /\ \A n \in 1 .. a : row[n] \in 1 .. m /\ col[n] \in DOMAIN ls[row[n]] /\ t[n] = ls[row[n]][col[n]]
      /\ \A i, n \in 1 .. a : i < n => row[i] < row[n] \/ (row[i] = row[n] /\ col[i] < col[n])
      /\ \A q \in 1 .. m : \A p \in DOMAIN ls[q] : \E n \in 1 .. a : row[n] = q /\ col[n] = p
  BY DEF IsLaid
<1> HIDE DEF r, c, w, a, b
<1>7. ASSUME NEW n \in 1 .. a + b
      PROVE  r[n] \in 1 .. m + 1 /\ c[n] \in DOMAIN ls[r[n]] /\ w[n] = ls[r[n]][c[n]]
  <2>1. CASE n \in 1 .. a
    <3>1. r[n] = row[n] /\ c[n] = col[n] /\ w[n] = t[n]
      BY <1>3, <1>5, <2>1
    <3>2. row[n] \in 1 .. m + 1
      BY <1>1, <1>6, <2>1
    <3> QED BY <1>6, <2>1, <3>1, <3>2
  <2>2. CASE n \notin 1 .. a
    <3>1. PICK p \in 1 .. b : n = a + p
      BY <1>4, <2>2
    <3>2. r[n] = m + 1 /\ c[n] = p /\ w[n] = s[p]
      BY <1>3, <1>5, <3>1
    <3> QED BY <1>2, <3>2
  <2> QED BY <1>4, <2>1, <2>2
<1>8. ASSUME NEW i \in 1 .. a + b, NEW n \in 1 .. a + b, i < n
      PROVE  r[i] < r[n] \/ (r[i] = r[n] /\ c[i] < c[n])
  <2>1. CASE n \in 1 .. a
    <3>1. i \in 1 .. a
      BY <1>2, <1>8, <2>1
    <3> QED BY <1>5, <1>6, <1>8, <2>1, <3>1
  <2>2. CASE n \notin 1 .. a
    <3>1. PICK p \in 1 .. b : n = a + p
      BY <1>4, <2>2
    <3>2. r[n] = m + 1 /\ c[n] = p
      BY <1>5, <3>1
    <3>3. CASE i \in 1 .. a
      <4>1. r[i] = row[i] /\ row[i] \in 1 .. m
        BY <1>5, <1>6, <3>3
      <4> QED BY <1>1, <3>2, <4>1
    <3>4. CASE i \notin 1 .. a
      <4>1. PICK q \in 1 .. b : i = a + q
        BY <1>4, <3>4
      <4>2. r[i] = m + 1 /\ c[i] = q
        BY <1>5, <4>1
      <4> QED BY <1>2, <1>8, <3>1, <3>2, <4>1, <4>2
    <3> QED BY <1>4, <3>3, <3>4
  <2> QED BY <1>4, <2>1, <2>2
<1>9. ASSUME NEW q \in 1 .. m + 1, NEW p \in DOMAIN ls[q]
      PROVE  \E n \in 1 .. a + b : r[n] = q /\ c[n] = p
  <2>1. CASE q \in 1 .. m
    <3>1. PICK n \in 1 .. a : row[n] = q /\ col[n] = p
      BY <1>6, <2>1
    <3>2. n \in 1 .. a + b /\ r[n] = q /\ c[n] = p
      BY <1>4, <1>5, <3>1
    <3> QED BY <3>2
  <2>2. CASE q = m + 1
    BY <1>2, <1>4, <1>5, <2>2
  <2> QED BY <1>1, <2>1, <2>2
<1>10. IsLaid(r, c, w, ls, m + 1)
  BY <1>3, <1>7, <1>8, <1>9 DEF IsLaid
<1> QED BY <1>10 DEF w

\* FlattenSeq lays the lists one behind the other.
LEMMA Flattened ==
  ASSUME NEW T, NEW ls \in Seq(Seq(T))
  PROVE  /\ FlattenSeq(ls) \in Seq(T)
         /\ \E row, col : IsLaid(row, col, FlattenSeq(ls), ls, Len(ls))
<1>1. CASE Len(ls) = 0
  <2>1. FlattenSeq(ls) = ls
    BY <1>1 DEF FlattenSeq
  <2>2. ls = <<>> /\ ls \in Seq(T)
    BY <1>1
  <2>3. IsLaid(ls, ls, ls, ls, 0)
    BY <1>1 DEF IsLaid
  <2> QED BY <1>1, <2>1, <2>2, <2>3
<1>2. CASE Len(ls) > 0
  <2> DEFINE L == Len(ls)
  <2>1. PICK f \in [1 .. L -> Seq(T)] :
          /\ f = [i \in 1 .. L |-> IF i = 1 THEN ls[i] ELSE f[i - 1] \o ls[i]]
          /\ FlattenSeq(ls) = f[L]
    BY <1>2, FlattenLoop
  <2>6. L \in Nat /\ L > 0 /\ DOMAIN ls = 1 .. L
    BY <1>2
  <2>7. \A i \in 1 .. L : ls[i] \in Seq(T)
    OBVIOUS
  <2>8. \A m \in 0 .. L - 1, t \in Seq(T) : \A row, col :
          IsLaid(row, col, t, ls, m) => \E r, c : IsLaid(r, c, t \o ls[m + 1], ls, m + 1)
    BY LaidBehind
  <2> HIDE DEF L
  <2> DEFINE H == {m \in 0 .. L : m # 0 => \E row, col : IsLaid(row, col, f[m], ls, m)}
  <2>2. 0 \in H
    BY <2>6
  <2>3. ASSUME NEW m \in 0 .. L - 1, m \in H PROVE m + 1 \in H
    <3>1. /\ m + 1 \in 0 .. L /\ m + 1 \in 1 .. L /\ m + 1 - 1 = m
          /\ m = 0 \/ (m \in 1 .. L /\ m + 1 # 1)
      BY <2>6
    <3>2. CASE m = 0
      <4>1. IsLaid(<<>>, <<>>, <<>>, ls, m)
        BY <3>2 DEF IsLaid
      <4> DEFINE none == <<>>
      <4>5. none \in Seq(T) /\ IsLaid(none, none, none, ls, m)
        BY <4>1
      <4> HIDE DEF none
      <4>2. PICK row, col : IsLaid(row, col, none \o ls[m + 1], ls, m + 1)
        BY <2>8, <4>5
      <4>3. f[m + 1] = ls[m + 1]
        BY <2>1, <3>1, <3>2
      <4>4. none \o ls[m + 1] = ls[m + 1]
        BY <2>7, <3>1 DEF none
      <4> QED BY <3>1, <4>2, <4>3, <4>4
    <3>3. CASE m # 0
      <4>1. PICK row, col : IsLaid(row, col, f[m], ls, m)
        BY <2>3, <3>3
      <4>2. m \in 1 .. L /\ f[m] \in Seq(T)
        BY <2>1, <3>1, <3>3
      <4>3. f[m + 1] = f[m] \o ls[m + 1]
        <5> DEFINE j == m + 1
        <5>1. j \in 1 .. L /\ j # 1 /\ j - 1 = m
          BY <3>1, <3>3
        <5> HIDE DEF j
        <5>2. f[j] = f[j - 1] \o ls[j]
          BY <2>1, <5>1
        <5> QED BY <5>1, <5>2 DEF j
      <4>4. \E r, c : IsLaid(r, c, f[m] \o ls[m + 1], ls, m + 1)
        BY <2>8, <4>1, <4>2
      <4> QED BY <3>1, <4>3, <4>4
    <3> QED BY <3>2, <3>3
  <2> HIDE DEF H
  <2>4. \A m \in 0 .. L : m \in H
    BY <2>2, <2>3, <2>6, Induction
  <2>5. L \in H /\ L # 0 /\ L \in 1 .. L
    BY <2>4, <2>6
  <2> QED BY <2>1, <2>5, ZenonT(60) DEF H, L
<1> QED BY <1>1, <1>2

-----------------------------------------------------------------------------
(* Lists into which others are woven *)

\* t is made of others and of items of the list, these in their order: from[n]
\* is the place of t[n] in items, 0 when it is one of the others.
IsWoven(from, t, items, others) ==
  /\ \A n \in DOMAIN t : /\ from[n] \in 0 .. Len(items)
                         /\ from[n] = 0 => t[n] \in others
                         /\ from[n] # 0 => t[n] = items[from[n]]
  /\ \A m, n \in DOMAIN t : m < n /\ from[m] # 0 /\ from[n] # 0 => from[m] < from[n]
Woven(t, items, others) == \E from : IsWoven(from, t, items, others)

\* and of items only the first d
WovenOf(t, items, others, d) ==
  \E from : IsWoven(from, t, items, others) /\ \A n \in DOMAIN t : from[n] <= d

\* What is kept of it is woven.
LEMMA KeptIsWoven ==
  ASSUME NEW T, NEW items, NEW others, NEW t \in Seq(T), Woven(t, items, others),
         NEW J \in SUBSET DOMAIN t
  PROVE  Woven(Keep(t, J), items, others)
<1> DEFINE u == Keep(t, J)
<1>1. PICK from : IsWoven(from, t, items, others)
  BY DEF Woven
<1>2. PICK place : u \in Seq(T) /\ IsPlaces(place, u, t, J)
  BY KeepPlaces
<1> HIDE DEF u
<1> DEFINE there == [n \in DOMAIN u |-> from[place[n]]]
<1>3. DOMAIN u = 1 .. Len(u)
  BY <1>2
<1>4. /\ \A n \in DOMAIN u : place[n] \in DOMAIN t /\ u[n] = t[place[n]]
      /\ \A m, n \in DOMAIN u : m < n => place[m] < place[n]
  BY <1>2, <1>3 DEF IsPlaces
<1>5. IsWoven(there, u, items, others)
  BY <1>1, <1>4 DEF IsWoven
<1> QED BY <1>5 DEF u, Woven

\* A list behind others is woven with them.
LEMMA BehindIsWoven ==
  ASSUME NEW T, NEW items \in Seq(T), NEW queue \in Seq(T)
  PROVE  queue \o items \in Seq(T) /\ Woven(queue \o items, items, ToSet(queue))
<1> DEFINE a == Len(queue)
           b == Len(items)
           u == queue \o items
           from == [n \in 1 .. a + b |-> IF n <= a THEN 0 ELSE n - a]
<1>1. /\ u \in Seq(T) /\ DOMAIN u = 1 .. a + b /\ a \in Nat /\ b \in Nat
      /\ \A n \in 1 .. a : u[n] = queue[n]
      /\ \A n \in 1 .. b : u[a + n] = items[n]
  OBVIOUS
<1>2. \A n \in 1 .. a : queue[n] \in ToSet(queue)
  BY DEF ToSet
<1> HIDE DEF u, a, b
<1>3. ASSUME NEW n \in 1 .. a + b
      PROVE  /\ from[n] \in 0 .. b
             /\ from[n] = 0 => u[n] \in ToSet(queue)
             /\ from[n] # 0 => u[n] = items[from[n]]
  <2>1. CASE n <= a
    BY <1>1, <1>2, <2>1
  <2>2. CASE n > a
    <3>1. n - a \in 1 .. b /\ n = a + (n - a) /\ ~(n <= a)
      BY <1>1, <2>2
    <3>2. from[n] = n - a /\ u[n] = items[n - a]
      BY <1>1, <3>1
    <3> QED BY <1>1, <3>1, <3>2
  <2> QED BY <1>1, <2>1, <2>2
<1>4. \A m, n \in 1 .. a + b : m < n /\ from[m] # 0 /\ from[n] # 0 => from[m] < from[n]
  BY <1>1
<1> HIDE DEF from
<1>5. IsWoven(from, u, items, ToSet(queue))
  BY <1>1, <1>3, <1>4 DEF IsWoven, b
<1> QED BY <1>1, <1>5 DEF u, Woven

\* A front of a woven list and what of the list comes after it.
LEMMA FollowedIsWoven ==
  ASSUME NEW T, NEW items \in Seq(T), NEW others, NEW front \in Seq(T), NEW d \in Nat,
         WovenOf(front, items, others, d)
  PROVE  LET u == front \o SubSeq(items, d + 1, Len(items))
         IN  u \in Seq(T) /\ Woven(u, items, others)
<1> DEFINE rest == SubSeq(items, d + 1, Len(items))
           u == front \o rest
           a == Len(front)
           b == Len(rest)
<1>1. PICK from : /\ IsWoven(from, front, items, others)
                  /\ \A n \in DOMAIN front : from[n] <= d
  BY DEF WovenOf
<1>2. /\ rest \in Seq(T) /\ b \in Nat
      /\ \A j \in 1 .. b : d + j \in 1 .. Len(items) /\ rest[j] = items[d + j]
  <2>1. CASE d + 1 <= Len(items)
    <3>1. rest \in Seq(T) /\ b = Len(items) - d
      BY <2>1
    <3>2. \A j \in 1 .. Len(items) - d : rest[j] = items[d + j] /\ d + j \in 1 .. Len(items)
      BY <2>1
    <3> QED BY <2>1, <3>1, <3>2
  <2>2. CASE ~(d + 1 <= Len(items))
    <3>1. rest = <<>>
      BY <2>2
    <3> QED BY <3>1
  <2> QED BY <2>1, <2>2
<1> HIDE DEF rest
<1>3. /\ u \in Seq(T) /\ DOMAIN u = 1 .. a + b /\ a \in Nat /\ DOMAIN front = 1 .. a
      /\ \A n \in 1 .. a : u[n] = front[n]
      /\ \A n \in 1 .. b : u[a + n] = rest[n]
  BY <1>2
<1> DEFINE there == [n \in 1 .. a + b |-> IF n <= a THEN from[n] ELSE d + (n - a)]
<1> HIDE DEF u, a, b
<1>4. /\ \A n \in 1 .. a : n \in 1 .. a + b /\ there[n] = from[n]
      /\ \A j \in 1 .. b : a + j \in 1 .. a + b /\ there[a + j] = d + j
      /\ \A n \in 1 .. a + b : n \in 1 .. a \/ \E j \in 1 .. b : n = a + j
  <2>1. \A n \in 1 .. a : n \in 1 .. a + b /\ n <= a
    BY <1>2, <1>3
  <2>2. \A j \in 1 .. b : a + j \in 1 .. a + b /\ ~(a + j <= a) /\ a + j - a = j
    BY <1>2, <1>3
  <2>3. ASSUME NEW n \in 1 .. a + b, n \notin 1 .. a PROVE \E j \in 1 .. b : n = a + j
    <3>1. n - a \in 1 .. b /\ n = a + (n - a)
      BY <1>2, <1>3, <2>3
    <3> QED BY <3>1
  <2>4. \A n \in 1 .. a : there[n] = from[n]
    BY <2>1
  <2>5. ASSUME NEW j \in 1 .. b PROVE there[a + j] = d + j
    <3> DEFINE x == a + j
    <3>1. x \in 1 .. a + b /\ ~(x <= a) /\ x - a = j
      BY <1>2, <1>3
    <3> HIDE DEF x
    <3>2. there[x] = d + (x - a)
      BY <3>1
    <3> QED BY <3>1, <3>2 DEF x
  <2> HIDE DEF there
  <2> QED BY <2>1, <2>2, <2>3, <2>4, <2>5
<1> HIDE DEF there
<1>5. /\ \A n \in 1 .. a : /\ from[n] \in 0 .. Len(items)
                           /\ from[n] = 0 => front[n] \in others
                           /\ from[n] # 0 => front[n] = items[from[n]]
                           /\ from[n] <= d
      /\ \A m, n \in 1 .. a : m < n /\ from[m] # 0 /\ from[n] # 0 => from[m] < from[n]
  BY <1>1, <1>3 DEF IsWoven
<1>6. ASSUME NEW n \in 1 .. a + b
      PROVE  /\ there[n] \in 0 .. Len(items)
             /\ there[n] = 0 => u[n] \in others
             /\ there[n] # 0 => u[n] = items[there[n]]
  <2>1. CASE n \in 1 .. a
    BY <1>3, <1>4, <1>5, <2>1
  <2>2. ASSUME NEW j \in 1 .. b, n = a + j
        PROVE  there[n] \in 1 .. Len(items) /\ u[n] = items[there[n]]
    BY <1>2, <1>3, <1>4, <2>2
  <2> QED BY <1>4, <2>1, <2>2
<1>7. ASSUME NEW m \in 1 .. a + b, NEW n \in 1 .. a + b, m < n, there[m] # 0, there[n] # 0
      PROVE  there[m] < there[n]
  <2>1. CASE n \in 1 .. a
    <3>1. m \in 1 .. a
      BY <1>3, <1>7, <2>1
    <3> QED BY <1>4, <1>5, <1>7, <2>1, <3>1
  <2>2. ASSUME NEW j \in 1 .. b, n = a + j PROVE there[m] < there[n]
    <3>1. there[n] = d + j
      BY <1>4, <2>2
    <3>2. CASE m \in 1 .. a
      <4>1. from[m] \in Int /\ from[m] <= d /\ there[m] = from[m]
        BY <1>4, <1>5, <3>2
      <4> QED BY <3>1, <4>1
    <3>3. ASSUME NEW i \in 1 .. b, m = a + i PROVE there[m] < there[n]
      <4>1. there[m] = d + i /\ i < j
        BY <1>3, <1>4, <1>7, <2>2, <3>3
      <4> QED BY <3>1, <4>1
    <3> QED BY <1>4, <3>2, <3>3
  <2> QED BY <1>4, <2>1, <2>2
<1>8. IsWoven(there, u, items, others)
  BY <1>3, <1>6, <1>7 DEF IsWoven
<1> QED BY <1>3, <1>8 DEF u, rest, Woven

\* PrependUnique puts the queue on top.
LEMMA Prepended ==
  ASSUME NEW T, NEW items \in Seq(T), NEW queue \in Seq(T)
  PROVE  LET t == PrependUnique(items, queue)
         IN  /\ t \in Seq(T) /\ UniqueIds(t)
             /\ Woven(t, items, ToSet(queue))
             /\ queue # <<>> => t # <<>> /\ t[1] = queue[1]
<1> DEFINE s == queue \o items
           I == {p \in DOMAIN s : \A q \in 1 .. p - 1 : s[q].id # s[p].id}
           t == DedupeKeepFirst(s)
<1>1. s \in Seq(T) /\ Woven(s, items, ToSet(queue))
  BY BehindIsWoven
<1>2. queue # <<>> => s # <<>> /\ s[1] = queue[1]
  OBVIOUS
<1>3. t = Keep(s, I) /\ I \in SUBSET DOMAIN s
  BY DEF DedupeKeepFirst
<1>4. PrependUnique(items, queue) = t
  BY DEF PrependUnique
<1> HIDE DEF s
<1>5. t \in Seq(T) /\ UniqueIds(t) /\ (s # <<>> => t # <<>> /\ t[1] = s[1])
  BY <1>1, DedupedItems
<1> HIDE DEF t, I
<1>6. Woven(t, items, ToSet(queue))
  BY <1>1, <1>3, KeptIsWoven
<1> QED BY <1>2, <1>4, <1>5, <1>6

\* t has what was inserted on top, and below that the other items of the list
OnTop(t, queue, items) ==
  \E n \in 0 .. Len(t) :
    /\ queue # <<>> => n > 0
    /\ Ids(SubSeq(t, 1, n)) = Ids(queue)
    /\ SubSeq(t, n + 1, Len(t)) = OfIds(items, Ids(items) \ Ids(queue))

\* Inserts go on top of the list and every other item stays, in its order.
LEMMA PrependedOnTop ==
  ASSUME NEW T, NEW items \in Seq(T), NEW queue \in Seq(T), UniqueIds(items)
  PROVE  OnTop(PrependUnique(items, queue), queue, items)
<1> DEFINE s == queue \o items
           J == {p \in DOMAIN s : \A q \in 1 .. p - 1 : s[q].id # s[p].id}
           t == Keep(s, J)
           N == Len(queue)
           L == Len(t)
<1>1. PrependUnique(items, queue) = t
  BY DEF PrependUnique, DedupeKeepFirst
<1>2. /\ s \in Seq(T) /\ J \in SUBSET DOMAIN s /\ DOMAIN s = 1 .. N + Len(items)
      /\ N \in Nat /\ Len(items) \in Nat /\ DOMAIN queue = 1 .. N /\ DOMAIN items = 1 .. Len(items)
      /\ \A i \in 1 .. N : s[i] = queue[i]
      /\ \A i \in 1 .. Len(items) : s[N + i] = items[i]
  OBVIOUS
<1>3. \A p \in J : p \in DOMAIN s /\ \A q \in 1 .. p - 1 : s[q].id # s[p].id
  OBVIOUS
<1>4. \A p \in DOMAIN s : (\A q \in 1 .. p - 1 : s[q].id # s[p].id) => p \in J
  OBVIOUS
<1> HIDE DEF J, s
<1>5. PICK place : t \in Seq(T) /\ IsPlaces(place, t, s, J)
  BY <1>2, KeepPlaces
<1> HIDE DEF t
<1>6. L \in Nat /\ DOMAIN t = 1 .. L
  BY <1>5
<1>7. /\ place \in [1 .. L -> J]
      /\ \A n \in 1 .. L : t[n] = s[place[n]]
      /\ \A m, n \in 1 .. L : m < n => place[m] < place[n]
      /\ \A i \in J : \E n \in 1 .. L : place[n] = i
  BY <1>5 DEF IsPlaces
<1>8. J \in SUBSET Nat
  BY <1>2
<1> HIDE DEF N, L
<1>9. PICK n \in 0 .. L : \A m \in 1 .. L : m <= n <=> place[m] <= N
  BY <1>2, <1>6, <1>7, <1>8, CutAt
<1>10. \A m \in 1 .. L : place[m] \in J /\ place[m] \in Int
  <2>1. \A m \in 1 .. L : place[m] \in J
    BY <1>7
  <2>2. \A i \in J : i \in Int
    BY <1>8
  <2> QED BY <2>1, <2>2
<1> DEFINE top == SubSeq(t, 1, n)
           rest == SubSeq(t, n + 1, L)
           there == [j \in 1 .. L - n |-> place[n + j] - N]
           I == {p \in DOMAIN items : items[p].id \in Ids(items) \ Ids(queue)}
<1>11. /\ DOMAIN top = 1 .. n /\ \A m \in 1 .. n : top[m] = t[m] /\ m \in 1 .. L
       /\ rest \in Seq(T) /\ Len(rest) = L - n /\ L - n \in Nat
       /\ \A j \in 1 .. L - n : rest[j] = t[n + j] /\ n + j \in 1 .. L /\ ~(n + j <= n)
  <2>1. n \in Nat /\ n <= L /\ t \in Seq(T) /\ Len(t) = L /\ L \in Nat
    BY <1>5, <1>6, <1>9 DEF L
  <2> HIDE DEF L
  <2>2. DOMAIN top = 1 .. n /\ \A m \in 1 .. n : top[m] = t[m] /\ m \in 1 .. L
    BY <2>1
  <2>3. \A j \in 1 .. L - n : n + j \in 1 .. L /\ ~(n + j <= n) /\ (n + 1) + j - 1 = n + j
    BY <2>1
  <2>4. rest \in Seq(T) /\ Len(rest) = L - n /\ L - n \in Nat
    BY <2>1
  <2>5. \A j \in 1 .. L - n : rest[j] = t[n + j]
    BY <2>1, <2>3, <2>4
  <2> QED BY <2>2, <2>3, <2>4, <2>5
<1> HIDE DEF top, rest
<1>12. Ids(top) = Ids(queue)
  <2>1. ASSUME NEW m \in 1 .. n PROVE top[m].id \in Ids(queue)
    <3>1. place[m] \in 1 .. N + Len(items) /\ place[m] <= N
      BY <1>2, <1>3, <1>9, <1>10, <1>11
    <3>2. place[m] \in 1 .. N
      BY <1>2, <3>1
    <3>3. top[m] = queue[place[m]]
      BY <1>2, <1>7, <1>11, <3>2
    <3> QED BY <1>2, <3>2, <3>3 DEF Ids
  <2>2. ASSUME NEW i \in 1 .. N PROVE \E m \in 1 .. n : top[m].id = queue[i].id
    <3> DEFINE A == {q \in DOMAIN s : s[q].id = s[i].id}
    <3>1. A \in SUBSET Nat /\ i \in A
      BY <1>2
    <3>2. PICK p \in A : \A q \in A : p <= q
      BY <3>1, MinIsMember
    <3>3. p <= i /\ p \in DOMAIN s /\ s[p].id = s[i].id
      BY <3>1, <3>2
    <3>4. \A q \in 1 .. p - 1 : q \in DOMAIN s /\ ~(p <= q)
      BY <1>2, <3>3
    <3>5. p \in J
      BY <1>4, <3>2, <3>3, <3>4
    <3> HIDE DEF A
    <3>6. PICK m \in 1 .. L : place[m] = p
      BY <1>7, <3>5
    <3>7. p <= N
      BY <1>2, <3>3
    <3>8. m \in 1 .. n
      BY <1>9, <3>6, <3>7
    <3>9. top[m].id = s[i].id
      BY <1>7, <1>11, <3>3, <3>6, <3>8
    <3> QED BY <1>2, <3>8, <3>9
  <2>3. Ids(top) = {top[m].id : m \in 1 .. n} /\ Ids(queue) = {queue[i].id : i \in 1 .. N}
    BY <1>2, <1>11 DEF Ids
  <2> QED BY <2>1, <2>2, <2>3, SMTT(30)
<1>13. IsPlaces(there, rest, items, I)
  <2>1. ASSUME NEW j \in 1 .. L - n
        PROVE  /\ place[n + j] \in Int /\ place[n + j] > N
               /\ there[j] \in I /\ rest[j] = items[there[j]]
    <3>1. /\ place[n + j] \in J /\ place[n + j] \in Int /\ ~(place[n + j] <= N)
      BY <1>9, <1>10, <1>11
    <3> DEFINE p == place[n + j] - N
    <3>2. there[j] = p
      OBVIOUS
    <3>3. p \in 1 .. Len(items) /\ N + p = place[n + j]
      BY <1>2, <1>3, <3>1
    <3> HIDE DEF there, p
    <3>4. N + p \in J /\ s[N + p] = items[p]
      BY <1>2, <3>1, <3>3
    <3>5. items[p].id \notin Ids(queue)
      <4>1. ASSUME NEW i \in 1 .. N PROVE queue[i].id # items[p].id
        <5>1. i \in 1 .. (N + p) - 1
          BY <1>2, <3>3
        <5> QED BY <1>2, <1>3, <3>4, <5>1
      <4> QED BY <1>2, <4>1 DEF Ids
    <3>6. p \in I
      BY <1>2, <3>3, <3>5 DEF Ids
    <3>7. rest[j] = items[p]
      BY <1>7, <1>11, <3>3, <3>4
    <3> QED BY <3>1, <1>2, <3>2, <3>6, <3>7
  <2>2. there \in [1 .. Len(rest) -> I]
    BY <1>11, <2>1
  <2>3. ASSUME NEW i \in 1 .. L - n, NEW j \in 1 .. L - n, i < j PROVE there[i] < there[j]
    <3>1. n + i < n + j /\ n + i \in 1 .. L /\ n + j \in 1 .. L
      BY <1>9, <1>11, <2>3
    <3>2. place[n + i] < place[n + j]
      BY <1>7, <3>1
    <3> QED BY <1>2, <2>1, <3>2, SMTT(30)
  <2>4. ASSUME NEW p \in I PROVE \E j \in 1 .. L - n : there[j] = p
    <3>1. /\ p \in 1 .. Len(items) /\ N + p \in DOMAIN s /\ s[N + p] = items[p]
          /\ items[p].id \notin Ids(queue)
      BY <1>2
    <3>2. \A q \in 1 .. (N + p) - 1 : s[q].id # s[N + p].id
      <4> TAKE q \in 1 .. (N + p) - 1
      <4>1. CASE q \in 1 .. N
        <5>1. s[q] = queue[q] /\ queue[q].id \in Ids(queue)
          BY <1>2, <4>1 DEF Ids
        <5> QED BY <3>1, <5>1
      <4>2. CASE q \notin 1 .. N
        <5> DEFINE i == q - N
        <5>1. i \in 1 .. Len(items) /\ N + i = q /\ i # p
          BY <1>2, <3>1, <4>2
        <5> HIDE DEF i
        <5>2. s[q] = items[i]
          BY <1>2, <5>1
        <5> QED BY <1>2, <3>1, <5>1, <5>2 DEF UniqueIds
      <4> QED BY <4>1, <4>2
    <3>3. N + p \in J
      <4> DEFINE i == N + p
      <4>1. i \in DOMAIN s /\ \A q \in 1 .. i - 1 : s[q].id # s[i].id
        BY <3>1, <3>2
      <4> HIDE DEF i
      <4>2. i \in J
        BY <1>4, <4>1
      <4> QED BY <4>2 DEF i
    <3>4. PICK m \in 1 .. L : place[m] = N + p
      BY <1>7, <3>3
    <3>5. ~(place[m] <= N)
      BY <1>2, <3>1, <3>4
    <3>6. m - n \in 1 .. L - n /\ n + (m - n) = m
      BY <1>6, <1>9, <3>5
    <3>7. there[m - n] = p
      BY <1>2, <3>1, <3>4, <3>6
    <3> QED BY <3>6, <3>7
  <2> HIDE DEF there, I
  <2> QED BY <1>11, <2>1, <2>2, <2>3, <2>4 DEF IsPlaces
<1> HIDE DEF there
<1>14. rest = Keep(items, I)
  <2>1. I \in SUBSET DOMAIN items
    OBVIOUS
  <2> HIDE DEF I
  <2> QED BY <1>11, <1>13, <2>1, KeepIsUnique
<1>15. queue # <<>> => n > 0
  <2>1. queue # <<>> => Ids(queue) # {}
    BY <1>2 DEF Ids
  <2>2. n = 0 => Ids(top) = {}
    BY <1>11 DEF Ids
  <2> QED BY <1>12, <2>1, <2>2, <1>9
<1> QED BY <1>1, <1>9, <1>12, <1>14, <1>15 DEF OnTop, OfIds, top, rest, L

\* Without inserts all the list stays.
LEMMA NothingOnTop ==
  ASSUME NEW T, NEW items \in Seq(T)
  PROVE  OnTop(items, <<>>, items)
<1> DEFINE I == {p \in DOMAIN items : items[p].id \in Ids(items) \ Ids(<<>>)}
           there == [p \in 1 .. Len(items) |-> p]
<1>1. Ids(<<>>) = {} /\ \A p \in DOMAIN items : items[p].id \in Ids(items)
  BY DEF Ids
<1>2. I = DOMAIN items /\ DOMAIN items = 1 .. Len(items) /\ Len(items) \in Nat
  <2>1. \A p \in DOMAIN items : items[p].id \in Ids(items) \ Ids(<<>>)
    BY <1>1
  <2>2. I = DOMAIN items
    BY <2>1
  <2> QED BY <2>2
<1> HIDE DEF I
<1>3. IsPlaces(there, items, items, I)
  BY <1>2 DEF IsPlaces
<1>4. items = Keep(items, I)
  <2>1. I \in SUBSET DOMAIN items
    BY <1>2
  <2> HIDE DEF there
  <2> QED BY <1>3, <2>1, KeepIsUnique
<1>5. SubSeq(items, 1, 0) = <<>> /\ SubSeq(items, 0 + 1, Len(items)) = items
  <2>1. SubSeq(items, 0 + 1, Len(items)) \in Seq(T)
    BY <1>2
  <2>2. /\ Len(SubSeq(items, 0 + 1, Len(items))) = Len(items)
        /\ \A p \in 1 .. Len(items) : SubSeq(items, 0 + 1, Len(items))[p] = items[p]
    BY <1>2
  <2> QED BY <2>1, <2>2
<1>6. 0 \in 0 .. Len(items)
  BY <1>2
<1> QED BY <1>1, <1>4, <1>5, <1>6 DEF OnTop, OfIds, I

\* One more item at the end of what is woven from the first m items: the next
\* of them, or another.
LEMMA WovenGrows ==
  ASSUME NEW T, NEW items \in Seq(T), NEW others, NEW m \in 0 .. Len(items) - 1, NEW h \in Seq(T),
         NEW x \in T, x = items[m + 1] \/ x \in others,
         WovenOf(h, items, others, m)
  PROVE  WovenOf(Append(h, x), items, others, m + 1)
<1> DEFINE u == Append(h, x)
           a == Len(h)
<1>1. PICK from : IsWoven(from, h, items, others) /\ \A n \in DOMAIN h : from[n] <= m
  BY DEF WovenOf
<1> DEFINE last == IF x = items[m + 1] THEN m + 1 ELSE 0
           there == [n \in 1 .. a + 1 |-> IF n = a + 1 THEN last ELSE from[n]]
<1>2. /\ DOMAIN u = 1 .. a + 1 /\ DOMAIN h = 1 .. a /\ a \in Nat /\ u[a + 1] = x
      /\ \A n \in 1 .. a : u[n] = h[n] /\ n \in 1 .. a + 1 /\ n # a + 1
      /\ a + 1 \in 1 .. a + 1
      /\ \A n \in 1 .. a + 1 : n = a + 1 \/ n \in 1 .. a
  OBVIOUS
<1>3. /\ last \in 0 .. Len(items) /\ last <= m + 1 /\ (last # 0 => last = m + 1)
      /\ (last = 0 => x \in others) /\ (last # 0 => x = items[last])
  OBVIOUS
<1> HIDE DEF u, a, last
<1>4. there[a + 1] = last /\ \A n \in 1 .. a : there[n] = from[n]
  BY <1>2
<1> HIDE DEF there
<1>5. /\ \A n \in 1 .. a : /\ from[n] \in 0 .. Len(items) /\ from[n] <= m
                           /\ from[n] = 0 => h[n] \in others
                           /\ from[n] # 0 => h[n] = items[from[n]]
      /\ \A i, n \in 1 .. a : i < n /\ from[i] # 0 /\ from[n] # 0 => from[i] < from[n]
  BY <1>1, <1>2 DEF IsWoven
<1>6. \A n \in 1 .. a + 1 : /\ there[n] \in 0 .. Len(items) /\ there[n] <= m + 1
                            /\ there[n] = 0 => u[n] \in others
                            /\ there[n] # 0 => u[n] = items[there[n]]
  <2>1. ASSUME NEW n \in 1 .. a
        PROVE  /\ there[n] \in 0 .. Len(items) /\ there[n] <= m + 1
               /\ there[n] = 0 => u[n] \in others
               /\ there[n] # 0 => u[n] = items[there[n]]
    BY <1>2, <1>4, <1>5
  <2> QED BY <1>2, <1>3, <1>4, <2>1
<1>7. ASSUME NEW i \in 1 .. a + 1, NEW n \in 1 .. a + 1, i < n, there[i] # 0, there[n] # 0
      PROVE  there[i] < there[n]
  <2>1. i \in 1 .. a
    BY <1>2, <1>7
  <2>2. CASE n \in 1 .. a
    BY <1>4, <1>5, <1>7, <2>1, <2>2
  <2>3. CASE n = a + 1
    <3>1. there[n] = m + 1 /\ there[i] <= m /\ there[i] \in Int
      BY <1>3, <1>4, <1>5, <1>7, <2>1, <2>3
    <3> QED BY <3>1
  <2> QED BY <1>2, <2>2, <2>3
<1>8. IsWoven(there, u, items, others) /\ \A n \in DOMAIN u : there[n] <= m + 1
  BY <1>2, <1>6, <1>7 DEF IsWoven
<1> QED BY <1>8 DEF u, WovenOf

-----------------------------------------------------------------------------
(* HomogenContent *)

Alternatives == {x \in ItemInfo : x.recall = "HomogeneityContent"}

\* An item of the head gives way to its alternative, is kept, or goes because it
\* is there already.
LEMMA SwappedIn ==
  ASSUME NEW kept \in Seq(ItemInfo), NEW it \in ItemInfo, NEW exchange,
         IsExchange(exchange)
  PROVE  LET new == SwapIn(kept, it, exchange)
             seen == Ids(kept)
         IN  \/ /\ new = kept /\ it.id \in seen
             \/ /\ new = Append(kept, it)
                /\ it.id \in DOMAIN exchange => exchange[it.id] = it.id \/ exchange[it.id] \in seen
             \/ \E x \in Alternatives :
                  /\ new = Append(kept, x) /\ x.id = exchange[it.id]
                  /\ it.id \in DOMAIN exchange /\ x.id \notin seen
<1> DEFINE x == [id |-> exchange[it.id], recall |-> "HomogeneityContent", score |-> it.score]
           swap == it.id \in DOMAIN exchange /\ exchange[it.id] # it.id /\ exchange[it.id] \notin Ids(kept)
<1>1. CASE swap
  <2>1. x \in Alternatives /\ x.id = exchange[it.id]
    <3> DEFINE e == exchange[it.id]
               score == it.score
    <3>1. e \in ItemIds /\ score \in Int
      BY <1>1 DEF ItemInfo, IsExchange
    <3> HIDE DEF e, score
    <3>2. /\ [id |-> e, recall |-> "HomogeneityContent", score |-> score] \in ItemInfo
          /\ [id |-> e, recall |-> "HomogeneityContent", score |-> score].recall = "HomogeneityContent"
          /\ [id |-> e, recall |-> "HomogeneityContent", score |-> score].id = e
      BY <3>1, RecallTypesAssumption DEF ItemInfo
    <3> QED BY <3>2 DEF e, score, Alternatives
  <2>2. SwapIn(kept, it, exchange) = Append(kept, x)
    BY <1>1 DEF SwapIn
  <2> QED BY <1>1, <2>1, <2>2
<1>2. CASE ~swap /\ it.id \notin Ids(kept)
  BY <1>2 DEF SwapIn
<1>3. CASE ~swap /\ it.id \in Ids(kept)
  BY <1>3 DEF SwapIn
<1> QED BY <1>1, <1>2, <1>3

\* the ids the first m items have given way to are there, and no two items gave
\* way to one
Replaced(h, items, exchange, m) ==
  LET gone == {i \in 1 .. m : items[i].id \notin Ids(h)}
  IN  /\ \A i \in gone : items[i].id \in DOMAIN exchange /\ exchange[items[i].id] \in Ids(h)
      /\ \A i, j \in gone : items[i].id # items[j].id => exchange[items[i].id] # exchange[items[j].id]

LEMMA AppendedIds ==
  ASSUME NEW T, NEW h \in Seq(T), NEW x \in T
  PROVE  Ids(Append(h, x)) = Ids(h) \cup {x.id}
<1>1. /\ DOMAIN Append(h, x) = DOMAIN h \cup {Len(h) + 1}
      /\ \A n \in DOMAIN h : Append(h, x)[n] = h[n]
      /\ Append(h, x)[Len(h) + 1] = x
  OBVIOUS
<1> QED BY <1>1 DEF Ids

LEMMA SwapReplaces ==
  ASSUME NEW items \in Seq(ItemInfo), NEW exchange, IsExchange(exchange),
         NEW m \in 0 .. Len(items) - 1, NEW h \in Seq(ItemInfo), Replaced(h, items, exchange, m)
  PROVE  Replaced(SwapIn(h, items[m + 1], exchange), items, exchange, m + 1)
<1> DEFINE it == items[m + 1]
           u == SwapIn(h, it, exchange)
           Gone(g, n) == {i \in 1 .. n : items[i].id \notin Ids(g)}
<1>1. it \in ItemInfo /\ \A i \in 1 .. m + 1 : i \in 1 .. m \/ i = m + 1
  OBVIOUS
<1>2. /\ \A i \in Gone(h, m) : items[i].id \in DOMAIN exchange /\ exchange[items[i].id] \in Ids(h)
      /\ \A i, j \in Gone(h, m) :
           items[i].id # items[j].id => exchange[items[i].id] # exchange[items[j].id]
  BY DEF Replaced
<1>3. \/ u = h /\ it.id \in Ids(h)
      \/ u = Append(h, it)
      \/ \E x \in Alternatives : /\ u = Append(h, x) /\ x.id = exchange[it.id]
                                 /\ it.id \in DOMAIN exchange /\ x.id \notin Ids(h)
  BY <1>1, SwappedIn
<1> SUFFICES Replaced(u, items, exchange, m + 1)
  OBVIOUS
<1> HIDE DEF u
<1>4. CASE u = h /\ it.id \in Ids(h)
  <2>1. Gone(u, m + 1) = Gone(h, m)
    BY <1>1, <1>4
  <2> QED BY <1>2, <1>4, <2>1 DEF Replaced
<1>5. CASE u = Append(h, it)
  <2>1. Ids(u) = Ids(h) \cup {it.id}
    BY <1>1, <1>5, AppendedIds
  <2>2. Gone(u, m + 1) \subseteq Gone(h, m)
    BY <1>1, <2>1
  <2> QED BY <1>2, <2>1, <2>2 DEF Replaced
<1>6. ASSUME NEW x \in Alternatives, u = Append(h, x), x.id = exchange[it.id],
             it.id \in DOMAIN exchange, x.id \notin Ids(h)
      PROVE  Replaced(u, items, exchange, m + 1)
  <2>1. x \in ItemInfo
    BY DEF Alternatives
  <2>2. Ids(u) = Ids(h) \cup {exchange[it.id]}
    BY <1>6, <2>1, AppendedIds
  <2>3. Gone(u, m + 1) \subseteq Gone(h, m) \cup {m + 1}
    BY <1>1, <2>2
  <2>4. \A i \in Gone(u, m + 1) : items[i].id \in DOMAIN exchange /\ exchange[items[i].id] \in Ids(u)
    BY <1>2, <1>6, <2>2, <2>3
  <2>5. \A i \in Gone(h, m) : exchange[items[i].id] # exchange[it.id]
    BY <1>2, <1>6
  <2>6. \A i, j \in Gone(u, m + 1) :
          items[i].id # items[j].id => exchange[items[i].id] # exchange[items[j].id]
    BY <1>2, <2>3, <2>5
  <2> QED BY <2>4, <2>6 DEF Replaced
<1> QED BY <1>3, <1>4, <1>5, <1>6

\* The head of HomogenContent is woven from the first n items, and what is gone
\* of them was replaced.
LEMMA SwappedHead ==
  ASSUME NEW items \in Seq(ItemInfo), NEW exchange, IsExchange(exchange),
         NEW n \in 0 .. Len(items)
  PROVE  LET head == SwapHead(items, exchange, n)
         IN  /\ head \in Seq(ItemInfo)
             /\ WovenOf(head, items, Alternatives, n)
             /\ Replaced(head, items, exchange, n)
<1> DEFINE S == Seq(ItemInfo)
           none == <<>>
           step == [p \in (1 .. n) \X S |-> SwapIn(p[2], items[p[1]], exchange)]
           f == CHOOSE f : f = [m \in 0 .. n |-> IF m = 0 THEN none
                                                 ELSE SwapIn(f[m - 1], items[m], exchange)]
<1>1. SwapHead(items, exchange, n) = f[n]
  BY DEF SwapHead
<1>2. n \in Nat /\ n <= Len(items) /\ \A m \in 1 .. n : items[m] \in ItemInfo
  OBVIOUS
<1>3. none \in S
  OBVIOUS
<1>4. ASSUME NEW h \in S, NEW it \in ItemInfo PROVE SwapIn(h, it, exchange) \in S
  <2>1. \A x \in Alternatives : x \in ItemInfo
    BY DEF Alternatives
  <2>2. \A x \in ItemInfo : Append(h, x) \in S
    OBVIOUS
  <2>3. SwapIn(h, it, exchange) = h \/ \E x \in ItemInfo : SwapIn(h, it, exchange) = Append(h, x)
    BY <2>1, SwappedIn
  <2> QED BY <2>2, <2>3
<1> HIDE DEF S, none
<1>5. step \in [(1 .. n) \X S -> S]
  <2>1. \A p \in (1 .. n) \X S : p[1] \in 1 .. n /\ p[2] \in S
    OBVIOUS
  <2> QED BY <1>2, <1>4, <2>1
<1>6. \A m \in 1 .. n, h \in S : step[<<m, h>>] = SwapIn(h, items[m], exchange)
  OBVIOUS
<1> HIDE DEF step
<1>7. PICK g : IsLoop(g, n, none, step)
  BY <1>2, <1>3, <1>5, LoopFunction
<1>8. Runs(g, n, S, none, step)
  BY <1>2, <1>3, <1>5, <1>7, LoopStays
<1>9. /\ g \in [0 .. n -> S] /\ g[0] = none
      /\ \A m \in 1 .. n : m - 1 \in 0 .. n /\ g[m] = SwapIn(g[m - 1], items[m], exchange)
  <2>1. g \in [0 .. n -> S] /\ g[0] = none /\ \A m \in 1 .. n : g[m] = step[<<m, g[m - 1]>>]
    BY <1>8 DEF Runs
  <2>2. \A m \in 1 .. n : m - 1 \in 0 .. n
    BY <1>2
  <2> QED BY <1>6, <2>1, <2>2
<1>10. g = [m \in 0 .. n |-> IF m = 0 THEN none ELSE SwapIn(g[m - 1], items[m], exchange)]
  <2>1. \A m \in 0 .. n : g[m] = IF m = 0 THEN none ELSE SwapIn(g[m - 1], items[m], exchange)
    BY <1>2, <1>9
  <2>2. g = [m \in 0 .. n |-> g[m]]
    BY <1>9
  <2> QED BY <2>1, <2>2
<1>11. f = [m \in 0 .. n |-> IF m = 0 THEN none ELSE SwapIn(f[m - 1], items[m], exchange)]
  BY <1>10
<1> HIDE DEF f
<1>12. /\ f[0] = none /\ n \in 0 .. n
       /\ \A m \in 0 .. n - 1 : f[m + 1] = SwapIn(f[m], items[m + 1], exchange)
  <2>1. ASSUME NEW m \in 0 .. n - 1 PROVE f[m + 1] = SwapIn(f[m], items[m + 1], exchange)
    <3> DEFINE j == m + 1
    <3>1. j \in 0 .. n /\ j # 0 /\ j - 1 = m
      BY <1>2
    <3> HIDE DEF j
    <3>2. f[j] = SwapIn(f[j - 1], items[j], exchange)
      BY <1>11, <3>1
    <3> QED BY <3>1, <3>2 DEF j
  <2>2. f[0] = none /\ n \in 0 .. n
    BY <1>2, <1>11
  <2> QED BY <2>1, <2>2
<1> DEFINE Good(m) == /\ f[m] \in S
                      /\ WovenOf(f[m], items, Alternatives, m)
                      /\ Replaced(f[m], items, exchange, m)
           H == {m \in 0 .. n : Good(m)}
<1>13. 0 \in H
  <2>1. IsWoven(none, none, items, Alternatives) /\ \A i \in DOMAIN none : none[i] <= 0
    BY DEF IsWoven, none
  <2>2. Replaced(none, items, exchange, 0)
    BY DEF Replaced
  <2>3. WovenOf(none, items, Alternatives, 0)
    BY <2>1 DEF WovenOf
  <2> QED BY <1>2, <1>3, <1>12, <2>2, <2>3
<1>14. ASSUME NEW m \in 0 .. n - 1, m \in H PROVE m + 1 \in H
  <2> DEFINE h == f[m]
             it == items[m + 1]
             u == SwapIn(h, it, exchange)
  <2>1. m \in 0 .. Len(items) - 1 /\ m + 1 \in 0 .. n /\ it \in ItemInfo /\ f[m + 1] = u /\ m \in Nat
    BY <1>2, <1>12
  <2>2. /\ h \in S
        /\ WovenOf(h, items, Alternatives, m)
        /\ Replaced(h, items, exchange, m)
    BY <1>14
  <2> HIDE DEF h
  <2>3. u \in S /\ Replaced(u, items, exchange, m + 1)
    BY <1>4, <2>1, <2>2, SwapReplaces DEF S
  <2>4. u = h \/ \E x \in ItemInfo : u = Append(h, x) /\ (x = it \/ x \in Alternatives)
    <3>1. \A x \in Alternatives : x \in ItemInfo
      BY DEF Alternatives
    <3>2. h \in Seq(ItemInfo)
      BY <2>2 DEF S
    <3> QED BY <2>1, <3>1, <3>2, SwappedIn
  <2> HIDE DEF u
  <2>5. WovenOf(u, items, Alternatives, m + 1)
    <3>1. CASE u = h
      <4>1. PICK from : IsWoven(from, h, items, Alternatives) /\ \A i \in DOMAIN h : from[i] <= m
        BY <2>2 DEF WovenOf
      <4>2. \A i \in DOMAIN h : from[i] \in 0 .. Len(items)
        BY <4>1 DEF IsWoven
      <4>3. \A i \in DOMAIN h : from[i] <= m + 1
        BY <2>1, <4>1, <4>2
      <4> QED BY <3>1, <4>1, <4>3 DEF WovenOf
    <3>2. ASSUME NEW x \in ItemInfo, u = Append(h, x), x = it \/ x \in Alternatives
          PROVE  WovenOf(u, items, Alternatives, m + 1)
      BY <2>1, <2>2, <3>2, WovenGrows DEF S
    <3> QED BY <2>4, <3>1, <3>2
  <2>6. Good(m + 1)
    BY <2>1, <2>3, <2>5
  <2> QED BY <2>1, <2>6
<1> HIDE DEF H
<1>15. \A m \in 0 .. n : m \in H
  BY <1>2, <1>13, <1>14, Induction
<1>16. Good(n)
  BY <1>12, <1>15 DEF H
<1> QED BY <1>1, <1>16 DEF S

LEMMA CappedIsWoven ==
  ASSUME NEW T, NEW items \in Seq(T), NEW n \in Int, NEW others
  PROVE  Woven(Cap(items, n), items, others)
<1> DEFINE t == Cap(items, n)
           from == [p \in DOMAIN t |-> p]
<1>1. \A p \in DOMAIN t : p \in DOMAIN items /\ t[p] = items[p]
  BY CapKeepsFront
<1>2. DOMAIN items = 1 .. Len(items)
  OBVIOUS
<1> HIDE DEF t
<1>3. IsWoven(from, t, items, others)
  BY <1>1, <1>2 DEF IsWoven
<1> QED BY <1>3 DEF t, Woven

\* what is gone was replaced by its alternative
OnlyReplaced(items, t, exchange) ==
  LET gone == Ids(items) \ Ids(t)
  IN  /\ gone \subseteq DOMAIN exchange
      /\ \A x \in gone : exchange[x] \in Ids(t)
      /\ \A x, y \in gone : x # y => exchange[x] # exchange[y]

\* HomogenContent keeps the order of what it does not swap, shows nothing twice,
\* and with a map loses only what it replaces.
LEMMA Homogenized ==
  ASSUME NEW items \in Seq(ItemInfo), NEW exchange, IsExchange(exchange),
         NEW topN \in Int
  PROVE  LET t == ApplyHomogenContent(items, topN, exchange)
         IN  /\ t \in Seq(ItemInfo) /\ Woven(t, items, Alternatives)
             /\ UniqueIds(items) => UniqueIds(t)
             /\ DOMAIN exchange # {} => OnlyReplaced(items, t, exchange)
<1> DEFINE n == IF topN > Len(items) THEN Len(items) ELSE topN
           head == SwapHead(items, exchange, n)
           rest == SubSeq(items, n + 1, Len(items))
           u == head \o rest
           t == DedupeKeepFirst(u)
<1>1. CASE topN <= 0 \/ items = <<>> \/ DOMAIN exchange = {}
  <2> DEFINE c == Cap(items, topN)
  <2>1. ApplyHomogenContent(items, topN, exchange) = c
    BY <1>1 DEF ApplyHomogenContent
  <2>2. c \in Seq(ItemInfo) /\ Woven(c, items, Alternatives)
    BY CapKeepsFront, CappedIsWoven
  <2>3. UniqueIds(items) => UniqueIds(c)
    BY CapKeepsDistinct
  <2>4. items = <<>> \/ topN <= 0 => c = items
    BY DEF Cap
  <2> HIDE DEF c
  <2>5. DOMAIN exchange # {} => OnlyReplaced(items, c, exchange)
    BY <1>1, <2>4 DEF OnlyReplaced
  <2> QED BY <2>1, <2>2, <2>3, <2>5
<1>2. CASE ~(topN <= 0 \/ items = <<>> \/ DOMAIN exchange = {})
  <2>1. n \in 0 .. Len(items) /\ n \in Nat
    BY <1>2
  <2>2. ApplyHomogenContent(items, topN, exchange) = t
    BY <1>2 DEF ApplyHomogenContent
  <2> HIDE DEF n
  <2>3. /\ head \in Seq(ItemInfo)
        /\ WovenOf(head, items, Alternatives, n)
        /\ Replaced(head, items, exchange, n)
    BY <2>1, SwappedHead
  <2> HIDE DEF head
  <2>4. u \in Seq(ItemInfo) /\ Woven(u, items, Alternatives)
    BY <2>1, <2>3, FollowedIsWoven
  <2>5. /\ Ids(head) \subseteq Ids(u)
        /\ \A i \in n + 1 .. Len(items) : items[i].id \in Ids(u)
    <3>1. rest \in Seq(ItemInfo) /\ \A i \in n + 1 .. Len(items) : i - n \in DOMAIN rest /\ rest[i - n] = items[i]
      <4>1. CASE n + 1 <= Len(items)
        <5>1. rest \in Seq(ItemInfo) /\ Len(rest) = Len(items) - n
          BY <2>1, <4>1
        <5>2. \A j \in 1 .. Len(items) - n : rest[j] = items[n + j]
          BY <2>1, <4>1
        <5>3. \A i \in n + 1 .. Len(items) : i - n \in 1 .. Len(items) - n /\ n + (i - n) = i
          BY <2>1
        <5> HIDE DEF rest
        <5> QED BY <5>1, <5>2, <5>3
      <4>2. CASE ~(n + 1 <= Len(items))
        <5>1. n + 1 .. Len(items) = {} /\ rest = <<>>
          BY <2>1, <4>2
        <5> HIDE DEF rest
        <5> QED BY <5>1
      <4> QED BY <4>1, <4>2
    <3> HIDE DEF rest
    <3>2. /\ DOMAIN u = 1 .. Len(head) + Len(rest) /\ DOMAIN head = 1 .. Len(head)
          /\ DOMAIN rest = 1 .. Len(rest) /\ Len(head) \in Nat /\ Len(rest) \in Nat
          /\ \A k \in 1 .. Len(head) : u[k] = head[k]
          /\ \A k \in 1 .. Len(rest) : u[Len(head) + k] = rest[k]
      BY <2>3, <3>1
    <3> HIDE DEF u
    <3>3. \A k \in DOMAIN head : k \in DOMAIN u /\ u[k] = head[k]
      BY <3>2
    <3>4. \A k \in DOMAIN rest : Len(head) + k \in DOMAIN u /\ u[Len(head) + k] = rest[k]
      BY <3>2
    <3> QED BY <3>1, <3>3, <3>4 DEF Ids
  <2>6. t \in Seq(ItemInfo) /\ UniqueIds(t) /\ Ids(t) = Ids(u)
    BY <2>4, DedupedItems
  <2>7. Woven(t, items, Alternatives)
    <3> DEFINE I == {p \in DOMAIN u : \A q \in 1 .. p - 1 : u[q].id # u[p].id}
    <3>1. t = Keep(u, I) /\ I \in SUBSET DOMAIN u
      BY DEF DedupeKeepFirst
    <3> HIDE DEF u, t, I
    <3> QED BY <2>4, <3>1, KeptIsWoven
  <2> HIDE DEF t, u
  <2> DEFINE gone == Ids(items) \ Ids(t)
  <2>8. \A x \in gone : \E i \in 1 .. n : items[i].id = x /\ items[i].id \notin Ids(head)
    <3> SUFFICES ASSUME NEW p \in DOMAIN items, items[p].id \notin Ids(t)
                 PROVE  p \in 1 .. n /\ items[p].id \notin Ids(head)
      BY DEF Ids
    <3>1. p \in 1 .. n \/ p \in n + 1 .. Len(items)
      BY <2>1
    <3> QED BY <2>5, <2>6, <3>1
  <2>9. /\ gone \subseteq DOMAIN exchange
        /\ \A x \in gone : exchange[x] \in Ids(t)
        /\ \A x, y \in gone : x # y => exchange[x] # exchange[y]
    BY <2>3, <2>5, <2>6, <2>8 DEF Replaced
  <2>10. OnlyReplaced(items, t, exchange)
    BY <2>9 DEF OnlyReplaced
  <2> QED BY <2>2, <2>6, <2>7, <2>10
<1> QED BY <1>1, <1>2

-----------------------------------------------------------------------------
(* ScoreControl and MMRRearrange *)

Same(x, y) == x.id = y.id /\ x.recall = y.recall

\* ScoreControl boosts what has this recall type
Boosts(st, recall) ==
  /\ st.type = "ScoreControl" /\ st.method = "RecallType" /\ st.factor > 0
  /\ recall \in st.recalls
\* x is y, with the score the strategy gives it
IsAfter(x, y, st) ==
  /\ Same(x, y)
  /\ x.score = IF Boosts(st, y.recall) THEN y.score * st.factor ELSE y.score

\* ScoreControl changes scores only.
LEMMA ScoreControlled ==
  ASSUME NEW items \in Seq(ItemInfo), NEW st, st.factor \in Int, st.type = "ScoreControl"
  PROVE  LET t == ApplyScoreControl(items, st)
         IN  /\ t \in Seq(ItemInfo) /\ DOMAIN t = DOMAIN items
             /\ \A n \in DOMAIN t : IsAfter(t[n], items[n], st)
<1>1. CASE st.method # "RecallType" \/ st.factor <= 0
  BY <1>1 DEF ApplyScoreControl, IsAfter, Same, Boosts
<1>2. CASE ~(st.method # "RecallType" \/ st.factor <= 0)
  <2> DEFINE After(n) == IF items[n].recall \in st.recalls
                           THEN [items[n] EXCEPT !.score = items[n].score * st.factor] ELSE items[n]
             t == [n \in DOMAIN items |-> After(n)]
  <2>1. ApplyScoreControl(items, st) = t
    BY <1>2 DEF ApplyScoreControl
  <2>2. ASSUME NEW n \in DOMAIN items
        PROVE  After(n) \in ItemInfo /\ IsAfter(After(n), items[n], st)
    <3> DEFINE score == items[n].score * st.factor
    <3>1. items[n] \in ItemInfo
      OBVIOUS
    <3>2. score \in Int
      BY <3>1 DEF ItemInfo
    <3>4. Boosts(st, items[n].recall) <=> items[n].recall \in st.recalls
      BY <1>2 DEF Boosts
    <3>5. After(n) = IF items[n].recall \in st.recalls THEN [items[n] EXCEPT !.score = score] ELSE items[n]
      OBVIOUS
    <3>6. IsAfter(After(n), items[n], st) <=>
            /\ Same(After(n), items[n])
            /\ After(n).score = IF items[n].recall \in st.recalls THEN score ELSE items[n].score
      BY <3>4 DEF IsAfter
    <3> HIDE DEF score, After
    <3>3. /\ [items[n] EXCEPT !.score = score] \in ItemInfo
          /\ [items[n] EXCEPT !.score = score].id = items[n].id
          /\ [items[n] EXCEPT !.score = score].recall = items[n].recall
          /\ [items[n] EXCEPT !.score = score].score = score
      BY <3>1, <3>2 DEF ItemInfo
    <3> QED BY <3>1, <3>3, <3>5, <3>6 DEF Same
  <2> HIDE DEF After
  <2>3. DOMAIN items = 1 .. Len(items) /\ Len(items) \in Nat
    OBVIOUS
  <2>4. t \in Seq(ItemInfo)
    BY <2>2, <2>3
  <2> QED BY <2>1, <2>2, <2>4
<1> QED BY <1>1, <1>2

\* Of numbered values one is the greatest, and the first of its kind.
LEMMA BestExists ==
  ASSUME NEW n \in Nat, NEW v, \A k \in 1 .. n : v[k] \in Int,
         NEW S \in SUBSET (1 .. n), S # {}
  PROVE  \E k \in S : \A j \in S : v[k] > v[j] \/ (v[k] = v[j] /\ k <= j)
<1> DEFINE Best(k, O) == \A j \in O : v[k] > v[j] \/ (v[k] = v[j] /\ k <= j)
           H == {m \in 0 .. n : \A O \in SUBSET (1 .. m) : O # {} => \E k \in O : Best(k, O)}
<1>1. 0 \in H
  <2>1. SUBSET (1 .. 0) = {{}}
    OBVIOUS
  <2>2. \A O \in SUBSET (1 .. 0) : O = {}
    BY <2>1
  <2>3. 0 \in 0 .. n
    OBVIOUS
  <2> QED BY <2>2, <2>3
<1>2. ASSUME NEW m \in 0 .. n - 1, m \in H PROVE m + 1 \in H
  <2>1. m + 1 \in 1 .. n /\ m \in Nat /\ m + 1 \in 0 .. n
    OBVIOUS
  <2> SUFFICES ASSUME NEW O \in SUBSET (1 .. m + 1), O # {} PROVE \E k \in O : Best(k, O)
    BY <2>1
  <2> DEFINE P == O \ {m + 1}
  <2>2. P \in SUBSET (1 .. m) /\ P \subseteq O /\ \A j \in O : j \in P \/ j = m + 1
    OBVIOUS
  <2> HIDE DEF P
  <2>3. CASE P = {}
    <3>1. O = {m + 1}
      BY <2>2, <2>3
    <3> QED BY <2>1, <3>1
  <2>4. CASE P # {}
    <3>1. PICK k \in P : Best(k, P)
      BY <1>2, <2>2, <2>4
    <3>2. k \in 1 .. m /\ v[k] \in Int /\ v[m + 1] \in Int
      BY <2>1, <2>2
    <3>3. CASE m + 1 \in O /\ v[m + 1] > v[k]
      <4>1. ASSUME NEW j \in P PROVE v[m + 1] > v[j]
        <5>1. v[j] \in Int /\ v[j] <= v[k]
          BY <2>1, <2>2, <3>1, <3>2
        <5> QED BY <3>2, <3>3, <5>1
      <4>2. Best(m + 1, O)
        BY <2>1, <2>2, <4>1
      <4> QED BY <3>3, <4>2
    <3>4. CASE m + 1 \notin O \/ ~(v[m + 1] > v[k])
      <4>1. Best(k, O)
        BY <2>2, <3>1, <3>2, <3>4
      <4> QED BY <2>2, <4>1
    <3> QED BY <3>3, <3>4
  <2> QED BY <2>3, <2>4
<1> HIDE DEF H
<1>3. \A m \in 0 .. n : m \in H
  BY <1>1, <1>2, Induction
<1>4. n \in H
  BY <1>3
<1> QED BY <1>4 DEF H

\* If something may be picked next, MMRBest picks one of these.
LEMMA BestIsOpen ==
  ASSUME NEW items \in Seq(ItemInfo), NEW order, NEW lambda \in Int, NEW maxScore \in Int,
         MMROpen(items, order, lambda, maxScore) # {}
  PROVE  MMRBest(items, order, lambda, maxScore) \in MMROpen(items, order, lambda, maxScore)
<1> DEFINE open == MMROpen(items, order, lambda, maxScore)
           v == [k \in 1 .. Len(items) |-> MMRValue(items, ToSet(order), lambda, maxScore, k)]
<1>1. open \in SUBSET (1 .. Len(items)) /\ Len(items) \in Nat
  BY DEF MMROpen
<1>2. \A k \in 1 .. Len(items) : v[k] \in Int
  <2> SUFFICES ASSUME NEW k \in 1 .. Len(items)
               PROVE  MMRValue(items, ToSet(order), lambda, maxScore, k) \in Int
    OBVIOUS
  <2>3. items[k] \in ItemInfo
    OBVIOUS
  <2>1. items[k].score \in Int
    BY <2>3 DEF ItemInfo
  <2>2. lambda * items[k].score \in Int /\ (10 - lambda) * maxScore \in Int
    BY <2>1
  <2> QED BY <2>2 DEF MMRValue
<1>3. PICK k \in open : \A j \in open : v[k] > v[j] \/ (v[k] = v[j] /\ k <= j)
  <2> HIDE DEF open, v
  <2> QED BY <1>1, <1>2, BestExists DEF open
<1>4. \A j \in open : v[j] = MMRValue(items, ToSet(order), lambda, maxScore, j)
  BY <1>1
<1> HIDE DEF v
<1>5. \E b \in open : \A j \in open :
        \/ MMRValue(items, ToSet(order), lambda, maxScore, b) > MMRValue(items, ToSet(order), lambda, maxScore, j)
        \/ /\ MMRValue(items, ToSet(order), lambda, maxScore, b) = MMRValue(items, ToSet(order), lambda, maxScore, j)
           /\ b <= j
  BY <1>3, <1>4
<1> HIDE DEF open
<1> QED BY <1>5 DEF MMRBest, open

Orders(items) == {o \in Seq(DOMAIN items) : IsInjective(o)}

\* It picks places of the list, none twice, as many as there are rounds unless
\* nothing is left that may be picked.
LEMMA MMROrdered ==
  ASSUME NEW items \in Seq(ItemInfo), NEW lambda \in Int, NEW maxScore \in Int, NEW rounds \in Nat
  PROVE  LET order == MMROrder(items, lambda, maxScore, rounds)
         IN  /\ order \in Orders(items)
             /\ Len(order) = rounds \/ MMROpen(items, order, lambda, maxScore) = {}
<1> DEFINE D == DOMAIN items
           none == <<>>
           Open(o) == MMROpen(items, o, lambda, maxScore)
           Best(o) == MMRBest(items, o, lambda, maxScore)
           Pick == [o \in Seq(D) |-> IF Open(o) = {} THEN o ELSE Append(o, Best(o))]
           f == CHOOSE f : f = [r \in 0 .. rounds |-> IF r = 0 THEN none ELSE Pick[f[r - 1]]]
<1>1. MMROrder(items, lambda, maxScore, rounds) = f[rounds]
  BY DEF MMROrder
<1>2. ASSUME NEW o \in Seq(D), Open(o) # {}
      PROVE  Best(o) \in D /\ \A p \in DOMAIN o : o[p] # Best(o)
  <2>1. Best(o) \in Open(o)
    BY <1>2, BestIsOpen
  <2> QED BY <2>1 DEF MMROpen, ToSet
<1>3. \A o \in Orders(items) : o \in Seq(D) /\ \A p, q \in DOMAIN o : o[p] = o[q] => p = q
  BY DEF Orders, IsInjective
<1> HIDE DEF D, Best, Open
<1>4. /\ none \in Seq(D) /\ none \in Orders(items) /\ Len(none) = 0
  BY DEF Orders, IsInjective, D
<1>5. ASSUME NEW o \in Seq(D)
      PROVE  /\ Pick[o] \in Seq(D)
             /\ Open(o) = {} => Pick[o] = o
             /\ Open(o) # {} => Pick[o] = Append(o, Best(o))
  BY <1>2
<1> HIDE DEF Pick, none
<1> DEFINE Q == Seq(D)
           step == [p \in (1 .. rounds) \X Q |-> Pick[p[2]]]
<1>6. none \in Q /\ \A o \in Q : Pick[o] \in Q
  BY <1>4, <1>5
<1> HIDE DEF Q
<1>7. step \in [(1 .. rounds) \X Q -> Q]
  <2>1. \A p \in (1 .. rounds) \X Q : p[2] \in Q
    OBVIOUS
  <2> QED BY <1>6, <2>1
<1>8. \A m \in 1 .. rounds, h \in Q : step[<<m, h>>] = Pick[h]
  OBVIOUS
<1> HIDE DEF step
<1>9. PICK g : IsLoop(g, rounds, none, step)
  BY <1>6, <1>7, LoopFunction
<1>10. Runs(g, rounds, Q, none, step)
  BY <1>6, <1>7, <1>9, LoopStays
<1>11. /\ g \in [0 .. rounds -> Q] /\ g[0] = none
       /\ \A m \in 1 .. rounds : g[m] = Pick[g[m - 1]]
  <2>1. g \in [0 .. rounds -> Q] /\ g[0] = none /\ \A m \in 1 .. rounds : g[m] = step[<<m, g[m - 1]>>]
    BY <1>10 DEF Runs
  <2>2. \A m \in 1 .. rounds : m - 1 \in 0 .. rounds
    OBVIOUS
  <2> QED BY <1>8, <2>1, <2>2
<1>12. g = [r \in 0 .. rounds |-> IF r = 0 THEN none ELSE Pick[g[r - 1]]]
  <2>1. \A m \in 0 .. rounds : g[m] = IF m = 0 THEN none ELSE Pick[g[m - 1]]
    BY <1>11
  <2>2. g = [m \in 0 .. rounds |-> g[m]]
    BY <1>11
  <2> QED BY <2>1, <2>2
<1>13. f = [r \in 0 .. rounds |-> IF r = 0 THEN none ELSE Pick[f[r - 1]]]
  BY <1>12
<1> HIDE DEF f
<1>14. f[0] = none /\ \A m \in 0 .. rounds - 1 : f[m + 1] = Pick[f[m]]
  <2>1. ASSUME NEW m \in 0 .. rounds - 1 PROVE f[m + 1] = Pick[f[m]]
    <3> DEFINE j == m + 1
    <3>1. j \in 0 .. rounds /\ j # 0 /\ j - 1 = m
      OBVIOUS
    <3> HIDE DEF j
    <3>2. f[j] = Pick[f[j - 1]]
      BY <1>13, <3>1
    <3> QED BY <3>1, <3>2 DEF j
  <2>2. f[0] = none
    BY <1>13
  <2> QED BY <2>1, <2>2
<1> DEFINE Good(m) == f[m] \in Orders(items) /\ (Len(f[m]) = m \/ Open(f[m]) = {})
           H == {m \in 0 .. rounds : Good(m)}
<1>15. 0 \in H
  BY <1>4, <1>14
<1>16. ASSUME NEW m \in 0 .. rounds - 1, m \in H PROVE m + 1 \in H
  <2> DEFINE o == f[m]
             b == Best(o)
             a == Append(o, b)
  <2>1. o \in Orders(items) /\ o \in Seq(D) /\ (Len(o) = m \/ Open(o) = {}) /\ f[m + 1] = Pick[o]
    BY <1>3, <1>14, <1>16
  <2>2. m \in Nat /\ m < rounds /\ m + 1 \in 0 .. rounds
    OBVIOUS
  <2> HIDE DEF o
  <2>3. CASE Open(o) = {}
    <3>1. f[m + 1] = o
      BY <1>5, <2>1, <2>3
    <3> QED BY <2>1, <2>2, <2>3, <3>1
  <2>4. CASE Open(o) # {}
    <3>1. b \in D /\ \A p \in DOMAIN o : o[p] # b
      BY <1>2, <2>1, <2>4
    <3>2. f[m + 1] = a
      BY <1>5, <2>1, <2>4
    <3> HIDE DEF b
    <3>3. /\ a \in Seq(D) /\ Len(a) = Len(o) + 1 /\ DOMAIN a = DOMAIN o \cup {Len(o) + 1}
          /\ a[Len(o) + 1] = b /\ \A p \in DOMAIN o : a[p] = o[p]
      BY <2>1, <3>1
    <3> HIDE DEF a
    <3>4. \A p, q \in DOMAIN a : a[p] = a[q] => p = q
      BY <1>3, <2>1, <3>1, <3>3
    <3>5. a \in Orders(items)
      BY <3>3, <3>4 DEF Orders, IsInjective, D
    <3> QED BY <2>1, <2>2, <2>4, <3>2, <3>3, <3>5
  <2> QED BY <2>3, <2>4
<1> HIDE DEF H
<1>17. \A m \in 0 .. rounds : m \in H
  BY <1>15, <1>16, Induction
<1>18. Good(rounds)
  <2>1. rounds \in H
    BY <1>17
  <2> HIDE DEF Good
  <2> QED BY <2>1 DEF H
<1> QED BY <1>1, <1>18 DEF Open

\* When nothing may be picked next, what is left has a score that is as far
\* below zero as the highest one is above it.
LEMMA LeftOut ==
  ASSUME NEW items \in Seq(ItemInfo), NEW lambda \in 1 .. 10, NEW maxScore \in Nat \ {0},
         NEW o, MMROpen(items, o, lambda, maxScore) = {},
         NEW k \in DOMAIN items, k \notin ToSet(o)
  PROVE  items[k].score <= -maxScore
<1> DEFINE s == items[k].score
           x == lambda * s
           y == (10 - lambda) * maxScore
           z == 10 * maxScore
<1>1. items[k] \in ItemInfo
  OBVIOUS
<1>2. s \in Int
  BY <1>1 DEF ItemInfo
<1>3. ~(MMRValue(items, ToSet(o), lambda, maxScore, k) > MMRFloor(maxScore))
  BY DEF MMROpen
<1>4. ~(x - y > -z) \/ ~(x - 0 > -z)
  BY <1>3 DEF MMRValue, MMRFloor
<1> HIDE DEF s
<1>5. \/ lambda = 1 \/ lambda = 2 \/ lambda = 3 \/ lambda = 4 \/ lambda = 5
      \/ lambda = 6 \/ lambda = 7 \/ lambda = 8 \/ lambda = 9 \/ lambda = 10
  OBVIOUS
<1>6. s <= -maxScore
  BY <1>2, <1>4, <1>5
<1> QED BY <1>6 DEF s

\* MMRRearrange shows items of the list, none twice, and as many as it should
\* unless those it leaves out are as far below zero as any item is above it.
TooLow(it, items) == it.score < 0 /\ \A other \in ToSet(items) : it.score <= -other.score

LEMMA Rearranged ==
  ASSUME NEW items \in Seq(ItemInfo), NEW st, st.lambda \in Int, st.dimension \in Int
  PROVE  LET t == ApplyMMRRearrange(items, st)
         IN  /\ t \in Seq(ItemInfo) /\ ToSet(t) \subseteq ToSet(items)
             /\ UniqueIds(items) => UniqueIds(t)
             /\ \/ Len(t) = IF Len(items) < 2 THEN Len(items) ELSE Len(Cap(items, st.dimension))
                \/ \A it \in ToSet(items) \ ToSet(t) : TooLow(it, items)
<1> DEFINE lambda == IF st.lambda <= 0 \/ st.lambda > 10 THEN 5 ELSE st.lambda
           rounds == Len(Cap(items, st.dimension))
           positive == {s \in {items[k].score : k \in DOMAIN items} : s > 0}
           maxScore == IF positive = {} THEN 1 ELSE Max(positive)
           order == MMROrder(items, lambda, maxScore, rounds)
           t == [k \in DOMAIN order |-> items[order[k]]]
<1>1. CASE Len(items) < 2
  BY <1>1 DEF ApplyMMRRearrange
<1>2. CASE ~(Len(items) < 2)
  <2>1. ApplyMMRRearrange(items, st) = t
    BY <1>2 DEF ApplyMMRRearrange
  <2>2. lambda \in 1 .. 10
    BY SMTT(30)
  <2>3. /\ DOMAIN items = 1 .. Len(items) /\ Len(items) \in Nat
        /\ \A k \in DOMAIN items : items[k] \in ItemInfo
    OBVIOUS
  <2>4. \A k \in DOMAIN items : items[k].score \in Int
    BY <2>3 DEF ItemInfo
  <2>5. maxScore \in Nat \ {0} /\ \A j \in DOMAIN items : items[j].score <= maxScore
    <3>1. CASE positive # {}
      <4> DEFINE S == {k \in 1 .. Len(items) : items[k].score > 0}
                 v == [k \in 1 .. Len(items) |-> items[k].score]
      <4>1. S \in SUBSET (1 .. Len(items)) /\ S # {} /\ \A k \in 1 .. Len(items) : v[k] \in Int
        BY <2>3, <2>4, <3>1
      <4>2. PICK k \in S : \A j \in S : v[k] > v[j] \/ (v[k] = v[j] /\ k <= j)
        <5> HIDE DEF S, v
        <5> QED BY <2>3, <4>1, BestExists
      <4>3. \A s \in positive : s \in Int /\ s > 0 /\ items[k].score >= s
        BY <2>3, <2>4, <4>2
      <4>4. items[k].score \in positive
        BY <2>3, <4>2
      <4>6. \A j \in DOMAIN items : items[j].score \in positive \/ items[j].score <= 0
        BY <2>4
      <4> HIDE DEF positive
      <4>5. Max(positive) \in positive
        BY <4>3, <4>4 DEF Max
      <4>7. Max(positive) \in Int /\ Max(positive) > 0 /\ \A s \in positive : Max(positive) >= s
        BY <4>3, <4>4 DEF Max
      <4> QED BY <2>4, <3>1, <4>3, <4>6, <4>7
    <3>2. CASE positive = {}
      <4>0. \A j \in DOMAIN items : items[j].score \in positive \/ items[j].score <= 0
        BY <2>4
      <4>1. \A j \in DOMAIN items : items[j].score <= 0
        <5> HIDE DEF positive
        <5> QED BY <3>2, <4>0
      <4>2. maxScore = 1
        BY <3>2
      <4> QED BY <2>4, <4>1, <4>2
    <3> QED BY <3>1, <3>2
  <2>6. rounds \in Nat /\ rounds <= Len(items)
    BY CapKeepsFront DEF CapLen
  <2>7. lambda \in Int /\ maxScore \in Int
    BY <2>2, <2>5
  <2> HIDE DEF lambda, maxScore, rounds
  <2>8. /\ order \in Orders(items)
        /\ Len(order) = rounds \/ MMROpen(items, order, lambda, maxScore) = {}
    BY <2>6, <2>7, MMROrdered
  <2> HIDE DEF order
  <2>9. /\ order \in Seq(DOMAIN items) /\ \A p, q \in DOMAIN order : order[p] = order[q] => p = q
        /\ DOMAIN order = 1 .. Len(order) /\ Len(order) \in Nat
    BY <2>8 DEF Orders, IsInjective
  <2>10. /\ t \in Seq(ItemInfo) /\ Len(t) = Len(order) /\ DOMAIN t = DOMAIN order
         /\ \A p \in DOMAIN order : order[p] \in DOMAIN items /\ t[p] = items[order[p]]
    BY <2>3, <2>9
  <2> HIDE DEF t
  <2>11. ToSet(t) \subseteq ToSet(items)
    BY <2>10 DEF ToSet
  <2>12. UniqueIds(items) => UniqueIds(t)
    BY <2>9, <2>10 DEF UniqueIds
  <2>13. ASSUME MMROpen(items, order, lambda, maxScore) = {},
                NEW it \in ToSet(items) \ ToSet(t)
         PROVE  TooLow(it, items)
    <3>1. PICK k \in DOMAIN items : it = items[k]
      BY DEF ToSet
    <3>2. k \notin ToSet(order)
      BY <2>9, <2>10, <2>13, <3>1 DEF ToSet
    <3>3. it.score <= -maxScore /\ it.score \in Int
      BY <2>2, <2>4, <2>5, <2>13, <3>1, <3>2, LeftOut
    <3>4. ASSUME NEW other \in ToSet(items) PROVE other.score \in Int /\ other.score <= maxScore
      BY <2>4, <2>5 DEF ToSet
    <3> QED BY <2>5, <3>3, <3>4 DEF TooLow
  <2>14. \/ Len(t) = Len(Cap(items, st.dimension))
         \/ \A it \in ToSet(items) \ ToSet(t) : TooLow(it, items)
    BY <2>8, <2>10, <2>13 DEF rounds
  <2> QED BY <1>2, <2>1, <2>10, <2>11, <2>12, <2>14
<1> QED BY <1>1, <1>2

-----------------------------------------------------------------------------
(* ForcedInsert *)

\* of the pool, or of the list and with the recall type of the rule
FromSource(x, items, exclusive, rule) ==
  \/ rule.recall \in DOMAIN exclusive /\ x \in ToSet(exclusive[rule.recall])
  \/ x \in ToSet(items) /\ x.recall = rule.recall

\* A rule takes items of the pool or, without any there, items of the list that
\* have its recall type.
LEMMA Sources ==
  ASSUME NEW items \in Seq(ItemInfo), NEW exclusive, IsPool(exclusive), NEW rule
  PROVE  LET src == InsertSource(items, exclusive, rule)
         IN  /\ src \in Seq(ItemInfo)
             /\ \A x \in ToSet(src) : FromSource(x, items, exclusive, rule)
             /\ rule.recall \in DOMAIN exclusive /\ exclusive[rule.recall] # <<>>
                  => src = exclusive[rule.recall]
<1>1. CASE rule.recall \in DOMAIN exclusive /\ exclusive[rule.recall] # <<>>
  BY <1>1 DEF InsertSource, IsPool, FromSource
<1>2. CASE ~(rule.recall \in DOMAIN exclusive /\ exclusive[rule.recall] # <<>>)
  <2> DEFINE I == {p \in DOMAIN items : items[p].recall = rule.recall}
             src == Keep(items, I)
  <2>1. InsertSource(items, exclusive, rule) = src
    BY <1>2 DEF InsertSource
  <2>2. I \in SUBSET DOMAIN items
    OBVIOUS
  <2>3. src \in Seq(ItemInfo) /\ \A n \in DOMAIN src : \E i \in I : src[n] = items[i]
    <3> HIDE DEF I
    <3> QED BY <2>2, KeptItems
  <2> HIDE DEF src
  <2>4. \A x \in ToSet(src) : FromSource(x, items, exclusive, rule)
    BY <2>3 DEF ToSet, FromSource
  <2> QED BY <1>2, <2>1, <2>3, <2>4
<1> QED BY <1>1, <1>2

\* What is picked comes from the source, and is something when it can be.
LEMMA Picked ==
  ASSUME NEW T, NEW src \in Seq(T), NEW rule, rule.count \in Int, NEW p \in PickForcedInsert(src, rule)
  PROVE  /\ p \in Seq(T) /\ ToSet(p) \subseteq ToSet(src)
         /\ src # <<>> /\ rule.count > 0 => p # <<>>
<1> DEFINE n == IF rule.count > Len(src) THEN Len(src) ELSE rule.count
<1>1. CASE src = <<>> \/ rule.count <= 0
  <2>1. p = <<>>
    BY <1>1 DEF PickForcedInsert
  <2> QED BY <1>1, <2>1 DEF ToSet
<1>2. CASE ~(src = <<>> \/ rule.count <= 0)
  <2>1. n \in 1 .. Len(src) /\ DOMAIN src = 1 .. Len(src)
    BY <1>2
  <2>2. \/ \E f \in Injection(1 .. n, 1 .. Len(src)) : p = [k \in 1 .. n |-> src[f[k]]]
        \/ p = SubSeq(src, 1, n)
    BY <1>2 DEF PickForcedInsert
  <2> HIDE DEF n
  <2>3. ASSUME NEW f \in Injection(1 .. n, 1 .. Len(src)), p = [k \in 1 .. n |-> src[f[k]]]
        PROVE  p \in Seq(T) /\ Len(p) = n /\ \A k \in 1 .. n : f[k] \in DOMAIN src /\ p[k] = src[f[k]]
    <3>1. f \in [1 .. n -> 1 .. Len(src)]
      BY DEF Injection
    <3> QED BY <2>1, <2>3, <3>1
  <2>4. ASSUME p = SubSeq(src, 1, n)
        PROVE  p \in Seq(T) /\ Len(p) = n /\ \A k \in 1 .. n : k \in DOMAIN src /\ p[k] = src[k]
    BY <2>1, <2>4
  <2>5. p \in Seq(T) /\ Len(p) = n /\ \A k \in 1 .. n : \E i \in DOMAIN src : p[k] = src[i]
    BY <2>2, <2>3, <2>4
  <2>6. p # <<>> /\ DOMAIN p = 1 .. n
    BY <2>1, <2>5
  <2>7. ToSet(p) \subseteq ToSet(src)
    BY <2>5, <2>6 DEF ToSet
  <2> QED BY <2>5, <2>6, <2>7
<1> QED BY <1>1, <1>2

\* How a queue relates to its sources, after m rules: src[r] is the source of
\* rule r, and the rules Some can take something.
Queued(q, src, Some, m) ==
  /\ \A n \in DOMAIN q : \E r \in 1 .. m : q[n] \in ToSet(src[r])
  /\ Some \cap (1 .. m) # {} => q # <<>>
  /\ 1 \in Some /\ 1 <= m => q # <<>> /\ q[1] \in ToSet(src[1])

LEMMA QueueGrows ==
  ASSUME NEW T, NEW m \in Nat, NEW src, NEW Some, NEW q \in Seq(T), NEW p \in Seq(T),
         Queued(q, src, Some, m), ToSet(p) \subseteq ToSet(src[m + 1]), m + 1 \in Some => p # <<>>
  PROVE  Queued(q \o p, src, Some, m + 1)
<1> DEFINE u == q \o p
<1>1. /\ DOMAIN q = 1 .. Len(q) /\ DOMAIN p = 1 .. Len(p) /\ DOMAIN u = 1 .. Len(q) + Len(p)
      /\ Len(q) \in Nat /\ Len(p) \in Nat
      /\ \A n \in 1 .. Len(q) : u[n] = q[n]
      /\ \A n \in 1 .. Len(p) : u[Len(q) + n] = p[n]
  OBVIOUS
<1>2. /\ q # <<>> => u # <<>> /\ u[1] = q[1]
      /\ p # <<>> => u # <<>>
      /\ q = <<>> /\ p # <<>> => u[1] = p[1] /\ 1 \in DOMAIN p
  OBVIOUS
<1> HIDE DEF u
<1>3. /\ \A n \in DOMAIN p : p[n] \in ToSet(src[m + 1])
      /\ \A r \in 1 .. m : r \in 1 .. m + 1
      /\ m + 1 \in 1 .. m + 1 /\ \A r \in 1 .. m + 1 : r \in 1 .. m \/ r = m + 1
      /\ (1 <= m + 1 => 1 <= m \/ m = 0)
  BY DEF ToSet
<1>4. ASSUME NEW n \in DOMAIN u PROVE \E r \in 1 .. m + 1 : u[n] \in ToSet(src[r])
  <2>1. CASE n \in 1 .. Len(q)
    BY <1>1, <1>3, <2>1 DEF Queued
  <2>2. CASE n \notin 1 .. Len(q)
    <3>1. n - Len(q) \in 1 .. Len(p) /\ n = Len(q) + (n - Len(q))
      BY <1>1, <2>2
    <3>2. u[n] = p[n - Len(q)]
      BY <1>1, <3>1
    <3> QED BY <1>1, <1>3, <3>1, <3>2
  <2> QED BY <2>1, <2>2
<1>5. ASSUME Some \cap (1 .. m + 1) # {} PROVE u # <<>>
  <2>1. PICK r \in Some : r \in 1 .. m \/ r = m + 1
    BY <1>3, <1>5
  <2> QED BY <1>2, <2>1 DEF Queued
<1>6. ASSUME 1 \in Some PROVE u # <<>> /\ u[1] \in ToSet(src[1])
  <2>1. CASE 1 <= m
    BY <1>2, <1>6, <2>1 DEF Queued
  <2>2. CASE m = 0
    <3>1. q = <<>>
      <4>1. \A r \in 1 .. 0 : FALSE
        OBVIOUS
      <4>2. DOMAIN q = {}
        BY <2>2, <4>1 DEF Queued
      <4> QED BY <1>1, <4>2
    <3>2. p # <<>> /\ 1 \in DOMAIN p /\ u[1] = p[1] /\ p[1] \in ToSet(src[0 + 1])
      BY <1>2, <1>3, <1>6, <2>2, <3>1
    <3> QED BY <1>2, <3>2
  <2> QED BY <2>1, <2>2
<1>7. Queued(u, src, Some, m + 1)
  BY <1>4, <1>5, <1>6 DEF Queued
<1> QED BY <1>7 DEF u

LEMMA BehindIsPair ==
  ASSUME NEW Q, NEW P, NEW u \in Behind(Q, P)
  PROVE  \E q \in Q, p \in P : u = q \o p
BY DEF Behind

\* An insert queue takes its items from the sources of the rules, the first rule
\* first.
LEMMA QueuesFilled ==
  ASSUME NEW items \in Seq(ItemInfo), NEW exclusive, IsPool(exclusive), NEW R, NEW rules \in Seq(R),
         \A r \in DOMAIN rules : rules[r].count \in Int,
         NEW q \in InsertQueues(items, exclusive, rules)
  PROVE  LET src == [r \in DOMAIN rules |-> InsertSource(items, exclusive, rules[r])]
         IN  /\ q \in Seq(ItemInfo)
             /\ Queued(q, src, {r \in DOMAIN rules : src[r] # <<>> /\ rules[r].count > 0}, Len(rules))
<1> DEFINE L == Len(rules)
           S == SUBSET Seq(ItemInfo)
           start == {<<>>}
           src == [r \in DOMAIN rules |-> InsertSource(items, exclusive, rules[r])]
           P(m) == PickForcedInsert(InsertSource(items, exclusive, rules[m]), rules[m])
           step == [x \in (1 .. L) \X S |-> Behind(x[2], P(x[1]))]
           f == CHOOSE f : f = [m \in 0 .. L |-> IF m = 0 THEN start
                                                 ELSE Behind(f[m - 1], P(m))]
           Some == {r \in DOMAIN rules : src[r] # <<>> /\ rules[r].count > 0}
<1>1. InsertQueues(items, exclusive, rules) = f[L]
  BY DEF InsertQueues
<1>2. L \in Nat /\ DOMAIN rules = 1 .. L
  OBVIOUS
<1>3. \A m \in 1 .. L : src[m] = InsertSource(items, exclusive, rules[m]) /\ src[m] \in Seq(ItemInfo)
  BY <1>2, Sources
<1> HIDE DEF L, src
<1>4. ASSUME NEW m \in 1 .. L, NEW p \in P(m)
      PROVE  p \in Seq(ItemInfo) /\ ToSet(p) \subseteq ToSet(src[m]) /\ (m \in Some => p # <<>>)
  <2>1. rules[m].count \in Int /\ p \in PickForcedInsert(src[m], rules[m]) /\ src[m] \in Seq(ItemInfo)
    BY <1>2, <1>3
  <2>2. /\ p \in Seq(ItemInfo) /\ ToSet(p) \subseteq ToSet(src[m])
        /\ src[m] # <<>> /\ rules[m].count > 0 => p # <<>>
    BY <2>1, Picked
  <2> QED BY <2>2
<1> HIDE DEF P, Some
<1>5. start \in S /\ \A Q \in S, m \in 1 .. L : Behind(Q, P(m)) \in S
  <2>1. start \in S
    OBVIOUS
  <2>2. ASSUME NEW Q \in S, NEW m \in 1 .. L PROVE Behind(Q, P(m)) \in S
    <3>1. \A o \in Q, p \in P(m) : o \o p \in Seq(ItemInfo)
      BY <1>4
    <3>2. ASSUME NEW u \in Behind(Q, P(m)) PROVE u \in Seq(ItemInfo)
      <4>1. PICK o \in Q, p \in P(m) : u = o \o p
        BY BehindIsPair
      <4> QED BY <3>1, <4>1
    <3> QED BY <3>2
  <2> QED BY <2>1, <2>2
<1> HIDE DEF start, S
<1>7. step \in [(1 .. L) \X S -> S]
  <2>1. \A x \in (1 .. L) \X S : x[1] \in 1 .. L /\ x[2] \in S
    OBVIOUS
  <2> QED BY <1>5, <2>1
<1>8. \A m \in 1 .. L, Q \in S : step[<<m, Q>>] = Behind(Q, P(m))
  OBVIOUS
<1> HIDE DEF step
<1>9. PICK g : IsLoop(g, L, start, step)
  BY <1>2, <1>5, <1>7, LoopFunction
<1>10. Runs(g, L, S, start, step)
  BY <1>2, <1>5, <1>7, <1>9, LoopStays
<1>11. /\ g \in [0 .. L -> S] /\ g[0] = start
       /\ \A m \in 1 .. L : g[m] = Behind(g[m - 1], P(m))
  <2>1. g \in [0 .. L -> S] /\ g[0] = start /\ \A m \in 1 .. L : g[m] = step[<<m, g[m - 1]>>]
    BY <1>10 DEF Runs
  <2>2. \A m \in 1 .. L : m - 1 \in 0 .. L
    BY <1>2
  <2> QED BY <1>8, <2>1, <2>2
<1>12. g = [m \in 0 .. L |-> IF m = 0 THEN start ELSE Behind(g[m - 1], P(m))]
  <2>1. \A m \in 0 .. L : g[m] = IF m = 0 THEN start ELSE Behind(g[m - 1], P(m))
    BY <1>2, <1>11
  <2>2. g = [m \in 0 .. L |-> g[m]]
    BY <1>11
  <2> QED BY <2>1, <2>2
<1>13. f = [m \in 0 .. L |-> IF m = 0 THEN start ELSE Behind(f[m - 1], P(m))]
  BY <1>12
<1> HIDE DEF f
<1>14. f[0] = start /\ \A m \in 0 .. L - 1 : f[m + 1] = Behind(f[m], P(m + 1))
  <2>1. ASSUME NEW m \in 0 .. L - 1 PROVE f[m + 1] = Behind(f[m], P(m + 1))
    <3> DEFINE j == m + 1
    <3>1. j \in 0 .. L /\ j # 0 /\ j - 1 = m
      BY <1>2
    <3> HIDE DEF j
    <3>2. f[j] = Behind(f[j - 1], P(j))
      BY <1>13, <3>1
    <3> QED BY <3>1, <3>2 DEF j
  <2>2. f[0] = start
    BY <1>2, <1>13
  <2> QED BY <2>1, <2>2
<1> DEFINE H == {m \in 0 .. L : \A o \in f[m] : o \in Seq(ItemInfo) /\ Queued(o, src, Some, m)}
<1>15. 0 \in H
  <2>1. Queued(<<>>, src, Some, 0)
    BY DEF Queued
  <2>2. <<>> \in Seq(ItemInfo) /\ 0 \in 0 .. L
    BY <1>2
  <2>3. \A o \in start : o = <<>>
    BY DEF start
  <2> QED BY <1>14, <2>1, <2>2, <2>3
<1>16. ASSUME NEW m \in 0 .. L - 1, m \in H PROVE m + 1 \in H
  <2>1. m \in Nat /\ m + 1 \in 1 .. L /\ m + 1 \in 0 .. L
    BY <1>2
  <2> SUFFICES ASSUME NEW u \in f[m + 1] PROVE u \in Seq(ItemInfo) /\ Queued(u, src, Some, m + 1)
    BY <2>1
  <2>4. u \in Behind(f[m], P(m + 1))
    BY <1>14
  <2>5. PICK o \in f[m], p \in P(m + 1) : u = o \o p
    BY <2>4, BehindIsPair, SMTT(30)
  <2>2. o \in Seq(ItemInfo) /\ Queued(o, src, Some, m)
    BY <1>16
  <2>3. p \in Seq(ItemInfo) /\ ToSet(p) \subseteq ToSet(src[m + 1]) /\ (m + 1 \in Some => p # <<>>)
    BY <1>4, <2>1
  <2>6. u \in Seq(ItemInfo)
    BY <2>2, <2>3, <2>5
  <2> QED BY <2>1, <2>2, <2>3, <2>5, <2>6, QueueGrows
<1> HIDE DEF H
<1>17. \A m \in 0 .. L : m \in H
  BY <1>2, <1>15, <1>16, Induction
<1>18. L \in H
  BY <1>2, <1>17
<1> QED BY <1>1, <1>18 DEF H, Some, src, L

\* The places of page r end before those of a later page begin.
LEMMA PagesApart ==
  ASSUME NEW r \in Nat, NEW q \in Nat, NEW n \in Nat, r < q
  PROVE  r * n \in Nat /\ q * n \in Nat /\ r * n + n <= q * n
<1>1. PICK d \in Nat : q = r + 1 + d
  <2>1. q - r - 1 \in Nat /\ q = r + 1 + (q - r - 1)
    OBVIOUS
  <2> QED BY <2>1
<1>2. q * n = r * n + n + d * n
  BY <1>1
<1>3. r * n \in Nat /\ d * n \in Nat /\ q * n \in Nat
  BY <1>1
<1> QED BY <1>2, <1>3

LEMMA Sliced ==
  ASSUME NEW T, NEW s \in Seq(T), NEW from \in Nat, NEW n \in Nat
  PROVE  LET t == Slice(s, from, n)
         IN  /\ t \in Seq(T) /\ Len(t) <= n
             /\ \A j \in DOMAIN t : from + j \in DOMAIN s /\ t[j] = s[from + j]
<1> DEFINE to == IF from + n < Len(s) THEN from + n ELSE Len(s)
<1>1. Slice(s, from, n) = SubSeq(s, from + 1, to)
  BY DEF Slice
<1>2. CASE from + 1 <= to
  <2>1. to \in Nat /\ to <= Len(s) /\ to - from <= n /\ to - from \in Nat
    BY <1>2
  <2> HIDE DEF to
  <2>2. /\ SubSeq(s, from + 1, to) \in Seq(T) /\ Len(SubSeq(s, from + 1, to)) = to - from
        /\ \A j \in 1 .. to - from : SubSeq(s, from + 1, to)[j] = s[from + j] /\ from + j \in DOMAIN s
    BY <1>2, <2>1
  <2> QED BY <1>1, <2>1, <2>2
<1>3. CASE ~(from + 1 <= to)
  <2>1. SubSeq(s, from + 1, to) = <<>>
    BY <1>3
  <2> QED BY <1>1, <2>1
<1> QED BY <1>2, <1>3

\* A page has at most pageOri items of the list, in order, and then inserts.
LEMMA PageLaid ==
  ASSUME NEW T, NEW ori \in Seq(T), NEW inserts \in Seq(T), NEW pageOri \in Nat,
         NEW st, st.PageInsertCount \in Nat, NEW k \in Nat \ {0}
  PROVE  LET page == Page(ori, inserts, pageOri, st, k)
             head == Len(Slice(ori, (k - 1) * pageOri, pageOri))
         IN  /\ page \in Seq(T)
             /\ \A j \in DOMAIN page :
                  IF j <= head
                    THEN /\ j <= pageOri /\ (k - 1) * pageOri + j \in DOMAIN ori
                         /\ page[j] = ori[(k - 1) * pageOri + j]
                    ELSE page[j] \in ToSet(inserts)
<1> DEFINE a == (k - 1) * pageOri
           b == (k - 1) * st.PageInsertCount
           x == Slice(ori, a, pageOri)
           y == Slice(inserts, b, st.PageInsertCount)
           page == x \o y
<1>1. a \in Nat /\ b \in Nat
  OBVIOUS
<1> HIDE DEF a, b
<1>2. /\ x \in Seq(T) /\ Len(x) <= pageOri
      /\ \A j \in DOMAIN x : a + j \in DOMAIN ori /\ x[j] = ori[a + j]
  BY <1>1, Sliced
<1>3. /\ y \in Seq(T)
      /\ \A j \in DOMAIN y : b + j \in DOMAIN inserts /\ y[j] = inserts[b + j]
  BY <1>1, Sliced
<1> HIDE DEF x, y
<1>4. \A j \in DOMAIN y : y[j] \in ToSet(inserts)
  BY <1>3 DEF ToSet
<1>5. /\ page \in Seq(T) /\ DOMAIN page = 1 .. Len(x) + Len(y)
      /\ DOMAIN x = 1 .. Len(x) /\ DOMAIN y = 1 .. Len(y) /\ Len(x) \in Nat /\ Len(y) \in Nat
      /\ \A j \in 1 .. Len(x) : page[j] = x[j]
      /\ \A j \in 1 .. Len(y) : page[Len(x) + j] = y[j]
  BY <1>2, <1>3
<1> HIDE DEF page
<1>6. ASSUME NEW j \in DOMAIN page
      PROVE  IF j <= Len(x)
               THEN j <= pageOri /\ a + j \in DOMAIN ori /\ page[j] = ori[a + j]
               ELSE page[j] \in ToSet(inserts)
  <2>1. CASE j <= Len(x)
    <3>1. j \in 1 .. Len(x)
      BY <1>5, <2>1
    <3> QED BY <1>2, <1>5, <2>1, <3>1
  <2>2. CASE ~(j <= Len(x))
    <3>1. j - Len(x) \in 1 .. Len(y) /\ j = Len(x) + (j - Len(x))
      BY <1>5, <2>2
    <3>2. page[j] = y[j - Len(x)]
      BY <1>5, <3>1
    <3> QED BY <1>4, <1>5, <2>2, <3>1, <3>2
  <2> QED BY <2>1, <2>2
<1>7. Page(ori, inserts, pageOri, st, k) = page
  BY DEF Page, page, x, y, a, b
<1> QED BY <1>5, <1>6, <1>7 DEF x, a

\* The pages, one behind the other, are woven from the list and the inserts, and
\* of the list they take nothing after the last page.
LEMMA PagesWoven ==
  ASSUME NEW T, NEW ori \in Seq(T), NEW inserts \in Seq(T), NEW pageOri \in Nat,
         NEW st, st.PageInsertCount \in Nat, NEW m \in Nat, NEW most \in Nat, m <= most,
         NEW pages, pages = [k \in 1 .. m |-> Page(ori, inserts, pageOri, st, k)]
  PROVE  LET t == FlattenSeq(pages)
         IN  /\ t \in Seq(T)
             /\ WovenOf(t, ori, ToSet(inserts), most * pageOri)
<1> DEFINE t == FlattenSeq(pages)
           head == [k \in 1 .. m |-> Len(Slice(ori, (k - 1) * pageOri, pageOri))]
           base == [k \in 1 .. m |-> (k - 1) * pageOri]
<1>1. ASSUME NEW k \in 1 .. m
      PROVE  /\ pages[k] \in Seq(T)
             /\ \A j \in DOMAIN pages[k] :
                  IF j <= head[k]
                    THEN j <= pageOri /\ base[k] + j \in DOMAIN ori /\ pages[k][j] = ori[base[k] + j]
                    ELSE pages[k][j] \in ToSet(inserts)
  <2> DEFINE page == Page(ori, inserts, pageOri, st, k)
             first == Len(Slice(ori, (k - 1) * pageOri, pageOri))
  <2>1. k \in Nat \ {0}
    OBVIOUS
  <2>2. /\ page \in Seq(T)
        /\ \A j \in DOMAIN page :
             IF j <= first
               THEN /\ j <= pageOri /\ (k - 1) * pageOri + j \in DOMAIN ori
                    /\ page[j] = ori[(k - 1) * pageOri + j]
               ELSE page[j] \in ToSet(inserts)
    BY <2>1, PageLaid
  <2>3. pages[k] = page /\ head[k] = first /\ base[k] = (k - 1) * pageOri
    OBVIOUS
  <2> HIDE DEF page, first, head, base
  <2> QED BY <2>2, <2>3
<1>2. \A k \in 1 .. m : base[k] \in Nat /\ base[k] + pageOri <= most * pageOri
  <2> SUFFICES ASSUME NEW k \in 1 .. m
               PROVE  (k - 1) * pageOri \in Nat /\ (k - 1) * pageOri + pageOri <= most * pageOri
    OBVIOUS
  <2>1. k - 1 \in Nat /\ k - 1 < most
    OBVIOUS
  <2> QED BY <2>1, PagesApart
<1>3. \A k, q \in 1 .. m : k < q => base[k] + pageOri <= base[q]
  <2> SUFFICES ASSUME NEW k \in 1 .. m, NEW q \in 1 .. m, k < q
               PROVE  (k - 1) * pageOri + pageOri <= (q - 1) * pageOri
    OBVIOUS
  <2>1. k - 1 \in Nat /\ q - 1 \in Nat /\ k - 1 < q - 1
    OBVIOUS
  <2> QED BY <2>1, PagesApart
<1>4. \A k \in 1 .. m : head[k] \in Nat
  <2> SUFFICES ASSUME NEW k \in 1 .. m PROVE Len(Slice(ori, (k - 1) * pageOri, pageOri)) \in Nat
    OBVIOUS
  <2>1. (k - 1) * pageOri \in Nat
    OBVIOUS
  <2>2. Slice(ori, (k - 1) * pageOri, pageOri) \in Seq(T)
    BY <2>1, Sliced
  <2> QED BY <2>2
<1>5. pages \in Seq(Seq(T)) /\ Len(pages) = m
  <2>1. \A k \in 1 .. m : Page(ori, inserts, pageOri, st, k) \in Seq(T)
    BY <1>1
  <2> QED BY <2>1
<1> HIDE DEF head, base
<1>6. t \in Seq(T)
  BY <1>5, Flattened
<1>7. PICK row, col : IsLaid(row, col, t, pages, m)
  BY <1>5, Flattened
<1> HIDE DEF t
<1>8. /\ DOMAIN t = 1 .. Len(t)
      /\ \A n \in DOMAIN t : row[n] \in 1 .. m /\ col[n] \in DOMAIN pages[row[n]]
                             /\ t[n] = pages[row[n]][col[n]]
      /\ \A i, n \in DOMAIN t :
           i < n => row[i] < row[n] \/ (row[i] = row[n] /\ col[i] < col[n])
  <2>1. DOMAIN t = 1 .. Len(t)
    BY <1>6
  <2> QED BY <1>7, <2>1 DEF IsLaid
<1> DEFINE from == [n \in DOMAIN t |-> IF col[n] <= head[row[n]] THEN base[row[n]] + col[n] ELSE 0]
<1>9. ASSUME NEW n \in DOMAIN t
      PROVE  /\ from[n] \in 0 .. Len(ori)
             /\ from[n] = 0 => t[n] \in ToSet(inserts)
             /\ from[n] # 0 => /\ t[n] = ori[from[n]]
                               /\ from[n] = base[row[n]] + col[n] /\ col[n] <= pageOri
             /\ from[n] <= most * pageOri
             /\ col[n] \in Nat \ {0}
  <2> DEFINE r == row[n]
             c == col[n]
  <2>1. r \in 1 .. m /\ c \in DOMAIN pages[r] /\ t[n] = pages[r][c] /\ pages[r] \in Seq(T)
    BY <1>1, <1>8
  <2>2. c \in Nat \ {0}
    BY <2>1
  <2>3. base[r] \in Nat /\ base[r] + pageOri <= most * pageOri /\ head[r] \in Nat /\ most * pageOri \in Nat
    BY <1>2, <1>4, <2>1
  <2>4. CASE c <= head[r]
    <3>1. c <= pageOri /\ base[r] + c \in DOMAIN ori /\ pages[r][c] = ori[base[r] + c]
      BY <1>1, <2>1, <2>4
    <3>2. from[n] = base[r] + c
      BY <2>4
    <3> HIDE DEF r, c, from
    <3>3. from[n] \in 1 .. Len(ori) /\ from[n] <= most * pageOri /\ from[n] # 0
      BY <2>2, <2>3, <3>1, <3>2
    <3>4. t[n] = ori[from[n]]
      BY <2>1, <3>1, <3>2
    <3> QED BY <2>2, <3>1, <3>2, <3>3, <3>4 DEF r, c
  <2>5. CASE ~(c <= head[r])
    <3>1. pages[r][c] \in ToSet(inserts) /\ from[n] = 0
      BY <1>1, <2>1, <2>5
    <3> HIDE DEF from, r, c
    <3> QED BY <2>1, <2>2, <2>3, <3>1 DEF r, c
  <2> QED BY <2>4, <2>5
<1> HIDE DEF from
<1>10. ASSUME NEW i \in DOMAIN t, NEW n \in DOMAIN t, i < n, from[i] # 0, from[n] # 0
       PROVE  from[i] < from[n]
  <2>1. /\ row[i] \in 1 .. m /\ row[n] \in 1 .. m
        /\ from[i] = base[row[i]] + col[i] /\ col[i] <= pageOri /\ col[i] \in Nat
        /\ from[n] = base[row[n]] + col[n] /\ col[n] \in Nat \ {0}
        /\ base[row[i]] \in Nat /\ base[row[n]] \in Nat
    BY <1>2, <1>8, <1>9, <1>10
  <2>2. CASE row[i] < row[n]
    <3> DEFINE p == base[row[i]]
               q == base[row[n]]
    <3>1. p + pageOri <= q
      BY <1>3, <2>1, <2>2
    <3>2. /\ from[i] = p + col[i] /\ col[i] <= pageOri /\ col[i] \in Nat /\ p \in Nat
          /\ from[n] = q + col[n] /\ col[n] \in Nat \ {0} /\ q \in Nat
      BY <2>1
    <3> HIDE DEF p, q
    <3> QED BY <3>1, <3>2
  <2>3. CASE row[i] = row[n] /\ col[i] < col[n]
    BY <2>1, <2>3
  <2> QED BY <1>8, <1>10, <2>2, <2>3
<1>11. IsWoven(from, t, ori, ToSet(inserts)) /\ \A n \in DOMAIN t : from[n] <= most * pageOri
  BY <1>9, <1>10 DEF IsWoven
<1> QED BY <1>6, <1>11 DEF t, WovenOf

\* There are no more pages than there may be.
LEMMA BuiltPages ==
  ASSUME NEW a \in Nat, NEW built \in SUBSET (0 .. a - 1)
  PROVE  Cardinality(built) \in 0 .. a /\ (built # {} => Cardinality(built) # 0)
<1>1. IsFiniteSet(0 .. a - 1) /\ Cardinality(0 .. a - 1) \in 0 .. a
  <2> DEFINE b == a - 1
  <2>1. b \in Int /\ 0 \in Int
    OBVIOUS
  <2> HIDE DEF b
  <2>2. IsFiniteSet(0 .. b) /\ Cardinality(0 .. b) = IF 0 > b THEN 0 ELSE b - 0 + 1
    BY <2>1, FS_Interval
  <2> QED BY <2>2 DEF b
<1>2. IsFiniteSet(built) /\ Cardinality(built) <= Cardinality(0 .. a - 1)
  BY <1>1, FS_Subset
<1>3. Cardinality(built) \in Nat
  BY <1>2, FS_CardinalityType
<1>4. built # {} => Cardinality(built) # 0
  BY <1>2, FS_EmptySet
<1> QED BY <1>1, <1>2, <1>3, <1>4

LEMMA Paged ==
  ASSUME NEW T, NEW ori \in Seq(T), NEW inserts \in Seq(T), NEW st,
         st.PageNum \in Nat \ {0}, st.PageSize \in Nat \ {0}, st.PageInsertCount \in Nat \ {0}
  PROVE  LET t == ForcedInsertPaged(ori, inserts, st)
         IN  t \in Seq(T) /\ UniqueIds(t) /\ Woven(t, ori, ToSet(inserts))
<1> DEFINE pageOri == st.PageSize - st.PageInsertCount
           full == Len(ori) \div st.PageSize
           actualPages == IF full < st.PageNum THEN full ELSE st.PageNum
           built == {p \in 0 .. actualPages - 1 : p * st.PageInsertCount < Len(inserts)}
           m == Cardinality(built)
           pages == [k \in 1 .. m |-> Page(ori, inserts, pageOri, st, k)]
           front == FlattenSeq(pages)
           u == front \o SubSeq(ori, (actualPages * pageOri) + 1, Len(ori))
           I == {p \in DOMAIN u : \A q \in 1 .. p - 1 : u[q].id # u[p].id}
           t == Keep(u, I)
<1>1. CASE pageOri <= 0
  <2>1. ForcedInsertPaged(ori, inserts, st) = PrependUnique(ori, inserts)
    BY <1>1 DEF ForcedInsertPaged
  <2> QED BY <2>1, Prepended
<1>2. CASE ~(pageOri <= 0)
  <2>1. ForcedInsertPaged(ori, inserts, st) = DedupeKeepFirst(u)
    BY <1>2 DEF ForcedInsertPaged
  <2>2. DedupeKeepFirst(u) = t /\ I \in SUBSET DOMAIN u
    BY DEF DedupeKeepFirst
  <2>3. pageOri \in Nat /\ st.PageInsertCount \in Nat
    BY <1>2
  <2>4. full \in Nat
    <3>1. Len(ori) \in Nat
      OBVIOUS
    <3> QED BY <3>1
  <2>5. actualPages \in Nat
    BY <2>4
  <2> HIDE DEF pageOri, full, actualPages
  <2>6. m \in Nat /\ m <= actualPages
    <3>1. built \in SUBSET (0 .. actualPages - 1)
      OBVIOUS
    <3> HIDE DEF built
    <3>2. m \in 0 .. actualPages
      BY <2>5, <3>1, BuiltPages
    <3> QED BY <2>5, <3>2
  <2> HIDE DEF m
  <2>7. /\ front \in Seq(T)
        /\ WovenOf(front, ori, ToSet(inserts), actualPages * pageOri)
    <3>1. pages = [k \in 1 .. m |-> Page(ori, inserts, pageOri, st, k)]
      OBVIOUS
    <3> HIDE DEF pages
    <3> QED BY <2>3, <2>5, <2>6, <3>1, PagesWoven
  <2> HIDE DEF front
  <2>8. actualPages * pageOri \in Nat
    BY <2>3, <2>5
  <2>9. u \in Seq(T) /\ Woven(u, ori, ToSet(inserts))
    BY <2>7, <2>8, FollowedIsWoven
  <2> HIDE DEF u, I
  <2>10. t \in Seq(T) /\ UniqueIds(t)
    BY <2>2, <2>9, DedupedItems
  <2>11. Woven(t, ori, ToSet(inserts))
    BY <2>2, <2>9, KeptIsWoven
  <2> QED BY <2>1, <2>2, <2>10, <2>11
<1> QED BY <1>1, <1>2

\* A list is woven from itself.
LEMMA SameIsWoven ==
  ASSUME NEW T, NEW items \in Seq(T), NEW others
  PROVE  Woven(items, items, others)
<1>1. DOMAIN items = 1 .. Len(items) /\ Len(items) \in Nat
  OBVIOUS
<1>2. IsWoven([n \in DOMAIN items |-> n], items, items, others)
  BY <1>1 DEF IsWoven
<1> QED BY <1>2 DEF Woven

\* ForcedInsert keeps the order of the list, shows nothing twice, and without
\* pages begins with the queue.
LEMMA ForcedInserted ==
  ASSUME NEW T, NEW items \in Seq(T), NEW queue \in Seq(T), NEW st,
         {st.PageNum, st.PageSize, st.PageInsertCount} \subseteq Int
  PROVE  LET t == ApplyForcedInsert(items, queue, st)
         IN  /\ t \in Seq(T) /\ Woven(t, items, ToSet(queue))
             /\ UniqueIds(items) => UniqueIds(t)
             /\ queue # <<>> /\ st.PageSize <= 0 => t # <<>> /\ t[1] = queue[1]
<1> DEFINE t == ApplyForcedInsert(items, queue, st)
<1>1. CASE queue = <<>>
  <2>1. t = items
    BY <1>1 DEF ApplyForcedInsert
  <2> QED BY <1>1, <2>1, SameIsWoven
<1>2. CASE queue # <<>> /\ t = PrependUnique(items, queue)
  <2> HIDE DEF t
  <2>1. /\ t \in Seq(T) /\ UniqueIds(t) /\ Woven(t, items, ToSet(queue))
        /\ t # <<>> /\ t[1] = queue[1]
    BY <1>2, Prepended
  <2> QED BY <2>1 DEF t
<1>3. CASE queue # <<>> /\ t # PrependUnique(items, queue)
  <2>1. /\ t = ForcedInsertPaged(items, queue, st)
        /\ st.PageSize > 0 /\ st.PageInsertCount > 0 /\ st.PageNum > 0
    BY <1>3 DEF ApplyForcedInsert
  <2>2. st.PageNum \in Nat \ {0} /\ st.PageSize \in Nat \ {0} /\ st.PageInsertCount \in Nat \ {0}
    BY <2>1
  <2> HIDE DEF t
  <2>3. t \in Seq(T) /\ UniqueIds(t) /\ Woven(t, items, ToSet(queue))
    BY <2>1, <2>2, Paged
  <2> QED BY <2>1, <2>2, <2>3 DEF t
<1> QED BY <1>1, <1>2, <1>3

-----------------------------------------------------------------------------
(* Pages *)

\* What is woven keeps the order of the list.
LEMMA WovenOrder ==
  ASSUME NEW T, NEW items \in Seq(T), UniqueIds(items), NEW t \in Seq(T), NEW others,
         Woven(t, items, others), NEW ids, \A x \in others : x.id \notin ids, ids \subseteq Ids(t)
  PROVE  OfIds(t, ids) = OfIds(items, ids)
<1> DEFINE J == {p \in DOMAIN t : t[p].id \in ids}
           I == {p \in DOMAIN items : items[p].id \in ids}
           v == Keep(t, J)
<1>1. OfIds(t, ids) = v /\ OfIds(items, ids) = Keep(items, I)
  BY DEF OfIds
<1>2. J \in SUBSET DOMAIN t /\ I \in SUBSET DOMAIN items
  OBVIOUS
<1>3. PICK place : v \in Seq(T) /\ IsPlaces(place, v, t, J)
  BY <1>2, KeepPlaces
<1>4. PICK from : IsWoven(from, t, items, others)
  BY DEF Woven
<1>5. ASSUME NEW p \in J
      PROVE  from[p] \in I /\ t[p] = items[from[p]]
  <2>1. from[p] \in 0 .. Len(items) /\ from[p] # 0 /\ t[p] = items[from[p]]
    BY <1>4 DEF IsWoven
  <2>2. from[p] \in DOMAIN items
    BY <2>1
  <2> QED BY <2>1, <2>2
<1>6. ASSUME NEW i \in I PROVE \E p \in J : from[p] = i
  <2>1. PICK p \in DOMAIN t : t[p].id = items[i].id
    BY DEF Ids
  <2>2. p \in J
    BY <2>1
  <2>3. items[from[p]].id = items[i].id /\ from[p] \in DOMAIN items
    BY <1>5, <2>1, <2>2
  <2> QED BY <2>2, <2>3 DEF UniqueIds
<1>7. ASSUME NEW p \in J, NEW q \in J, p < q PROVE from[p] < from[q]
  <2>1. from[p] # 0 /\ from[q] # 0
    BY <1>5
  <2> QED BY <1>4, <1>7, <2>1 DEF IsWoven
<1> HIDE DEF J, I, v
<1> DEFINE there == [n \in 1 .. Len(v) |-> from[place[n]]]
<1>8. /\ place \in [1 .. Len(v) -> J]
      /\ \A n \in 1 .. Len(v) : v[n] = t[place[n]]
      /\ \A m, n \in 1 .. Len(v) : m < n => place[m] < place[n]
      /\ \A i \in J : \E n \in 1 .. Len(v) : place[n] = i
  BY <1>3 DEF IsPlaces
<1>9. IsPlaces(there, v, items, I)
  <2>1. there \in [1 .. Len(v) -> I] /\ \A n \in 1 .. Len(v) : v[n] = items[there[n]]
    BY <1>5, <1>8
  <2>2. \A m, n \in 1 .. Len(v) : m < n => there[m] < there[n]
    BY <1>7, <1>8
  <2>3. \A i \in I : \E n \in 1 .. Len(v) : there[n] = i
    BY <1>6, <1>8
  <2> QED BY <2>1, <2>2, <2>3 DEF IsPlaces
<1>10. v = Keep(items, I)
  BY <1>2, <1>3, <1>9, KeepIsUnique
<1> QED BY <1>1, <1>10

\* A slice that the list is long enough for is full.
LEMMA SliceIsFull ==
  ASSUME NEW T, NEW s \in Seq(T), NEW from \in Nat, NEW n \in Nat, from + n <= Len(s)
  PROVE  Len(Slice(s, from, n)) = n
<1>1. Slice(s, from, n) = SubSeq(s, from + 1, from + n)
  <2>1. from + n < Len(s) \/ from + n = Len(s)
    OBVIOUS
  <2> QED BY <2>1 DEF Slice
<1>2. CASE n = 0
  BY <1>1, <1>2
<1>3. CASE n # 0
  <2>1. from + 1 <= from + n /\ (from + n) - (from + 1) + 1 = n
    BY <1>3
  <2> DEFINE a == from + 1
             b == from + n
  <2>2. a \in Nat \ {0} /\ b \in Nat /\ b <= Len(s) /\ a <= b /\ b - a + 1 = n
    BY <2>1
  <2> HIDE DEF a, b
  <2>3. Len(SubSeq(s, a, b)) = b - a + 1
    BY <2>2
  <2> QED BY <1>1, <2>2, <2>3 DEF a, b
<1> QED BY <1>2, <1>3

\* A page the list is long enough for is pageOri items of it, and then inserts.
LEMMA PageFilled ==
  ASSUME NEW T, NEW ori \in Seq(T), NEW inserts \in Seq(T), NEW pageOri \in Nat,
         NEW st, st.PageInsertCount \in Nat, NEW k \in Nat \ {0},
         NEW a, a = (k - 1) * pageOri, a + pageOri <= Len(ori),
         NEW to, to = (k - 1) * st.PageInsertCount + st.PageInsertCount
  PROVE  LET page == Page(ori, inserts, pageOri, st, k)
         IN  /\ page \in Seq(T) /\ pageOri <= Len(page)
             /\ \A j \in DOMAIN page :
                  IF j <= pageOri
                    THEN a + j \in DOMAIN ori /\ page[j] = ori[a + j]
                    ELSE \E i \in DOMAIN inserts : i <= to /\ page[j] = inserts[i]
<1> DEFINE n == st.PageInsertCount
           b == (k - 1) * n
           x == Slice(ori, a, pageOri)
           y == Slice(inserts, b, n)
           page == x \o y
<1>1. a \in Nat /\ b \in Nat /\ a + pageOri <= Len(ori) /\ n \in Nat /\ to = b + n
  OBVIOUS
<1>2. Page(ori, inserts, pageOri, st, k) = page
  BY DEF Page
<1> HIDE DEF b, n
<1>3. /\ x \in Seq(T) /\ Len(x) = pageOri
      /\ \A j \in DOMAIN x : a + j \in DOMAIN ori /\ x[j] = ori[a + j]
  <2>1. Len(x) = pageOri
    BY <1>1, SliceIsFull
  <2>2. x \in Seq(T) /\ \A j \in DOMAIN x : a + j \in DOMAIN ori /\ x[j] = ori[a + j]
    BY <1>1, Sliced
  <2> QED BY <2>1, <2>2
<1>4. /\ y \in Seq(T) /\ Len(y) <= n
      /\ \A j \in DOMAIN y : b + j \in DOMAIN inserts /\ y[j] = inserts[b + j]
  BY <1>1, Sliced
<1> HIDE DEF x, y
<1>5. x \in Seq(T) /\ y \in Seq(T)
  BY <1>3, <1>4
<1>6. Len(page) = Len(x) + Len(y)
  BY <1>5
<1>7. /\ page \in Seq(T) /\ DOMAIN page = 1 .. Len(x) + Len(y)
      /\ DOMAIN x = 1 .. Len(x) /\ DOMAIN y = 1 .. Len(y) /\ Len(x) \in Nat /\ Len(y) \in Nat
      /\ \A j \in 1 .. Len(x) : page[j] = x[j]
      /\ \A j \in 1 .. Len(y) : page[Len(x) + j] = y[j]
  BY <1>5
<1> HIDE DEF page
<1>8. ASSUME NEW j \in DOMAIN page
      PROVE  IF j <= pageOri
               THEN a + j \in DOMAIN ori /\ page[j] = ori[a + j]
               ELSE \E i \in DOMAIN inserts : i <= to /\ page[j] = inserts[i]
  <2>1. CASE j <= pageOri
    <3>1. j \in 1 .. Len(x)
      BY <1>3, <1>7, <2>1
    <3> QED BY <1>3, <1>7, <2>1, <3>1
  <2>2. CASE ~(j <= pageOri)
    <3>1. j - Len(x) \in 1 .. Len(y) /\ j = Len(x) + (j - Len(x))
      BY <1>3, <1>7, <2>2
    <3>2. page[j] = y[j - Len(x)]
      BY <1>7, <3>1
    <3> DEFINE i == b + (j - Len(x))
    <3>3. i \in DOMAIN inserts /\ y[j - Len(x)] = inserts[i]
      BY <1>4, <1>7, <3>1
    <3>4. i <= to
      BY <1>1, <1>4, <1>7, <3>1
    <3> HIDE DEF i
    <3> QED BY <2>2, <3>2, <3>3, <3>4
  <2> QED BY <2>1, <2>2
<1>9. pageOri <= Len(page)
  BY <1>3, <1>6, <1>7
<1> QED BY <1>7, <1>8, <1>2, <1>9

\* t is made of the list and the inserts page by page: what is inserted is no
\* further in the queue than the pages so far, and behind their items of the list.
InPages(t, ori, inserts, pageOri, count) ==
  \A n \in DOMAIN t :
    \/ \E i \in DOMAIN ori : t[n] = ori[i]
    \/ \E k \in Nat \ {0} : \E q \in DOMAIN inserts :
         /\ t[n] = inserts[q] /\ q <= k * count /\ k * pageOri <= Len(ori)
         /\ \A i \in 1 .. k * pageOri : \E p \in 1 .. n - 1 : t[p] = ori[i]

LEMMA PagesLaid ==
  ASSUME NEW T, NEW ori \in Seq(T), NEW inserts \in Seq(T), NEW pageOri \in Nat \ {0},
         NEW st, st.PageInsertCount \in Nat, NEW m \in Nat, m * pageOri <= Len(ori),
         NEW pages, pages = [k \in 1 .. m |-> Page(ori, inserts, pageOri, st, k)]
  PROVE  LET t == FlattenSeq(pages)
         IN  /\ t \in Seq(T) /\ InPages(t, ori, inserts, pageOri, st.PageInsertCount)
             /\ m # 0 => t # <<>>
<1> DEFINE t == FlattenSeq(pages)
           count == st.PageInsertCount
           base == [k \in 1 .. m |-> (k - 1) * pageOri]
           end == [k \in 1 .. m |-> k * pageOri]
           last == [k \in 1 .. m |-> k * count]
<1>1. ASSUME NEW k \in 1 .. m
      PROVE  /\ base[k] \in Nat /\ base[k] + pageOri = end[k] /\ end[k] <= Len(ori) /\ end[k] \in Nat
             /\ pages[k] \in Seq(T) /\ pageOri <= Len(pages[k])
             /\ \A j \in DOMAIN pages[k] :
                  IF j <= pageOri
                    THEN base[k] + j \in DOMAIN ori /\ pages[k][j] = ori[base[k] + j]
                    ELSE \E i \in DOMAIN inserts : i <= last[k] /\ pages[k][j] = inserts[i]
  <2> DEFINE page == Page(ori, inserts, pageOri, st, k)
             a == (k - 1) * pageOri
             to == (k - 1) * count + count
  <2>1. k \in Nat \ {0} /\ k - 1 \in Nat /\ k - 1 < m
    OBVIOUS
  <2>2. a \in Nat /\ a + pageOri <= m * pageOri /\ m * pageOri \in Nat
    BY <2>1, PagesApart
  <2>3. a + pageOri = k * pageOri /\ to = k * count
    <3> SUFFICES ASSUME NEW n \in Nat PROVE (k - 1) * n + n = k * n
      OBVIOUS
    <3> QED BY <2>1, Z3
  <2>4. a + pageOri <= Len(ori)
    <3> DEFINE all == m * pageOri
               len == Len(ori)
    <3>1. a \in Nat /\ a + pageOri <= all /\ all \in Nat /\ all <= len /\ len \in Nat
      BY <2>2
    <3> HIDE DEF all, len, a
    <3>2. a + pageOri <= len
      BY <3>1
    <3> QED BY <3>2 DEF len
  <2> HIDE DEF base, end, last
  <2>5. /\ page \in Seq(T) /\ pageOri <= Len(page)
        /\ \A j \in DOMAIN page :
             IF j <= pageOri
               THEN a + j \in DOMAIN ori /\ page[j] = ori[a + j]
               ELSE \E i \in DOMAIN inserts : i <= to /\ page[j] = inserts[i]
    <3>1. a = (k - 1) * pageOri /\ to = (k - 1) * st.PageInsertCount + st.PageInsertCount
      OBVIOUS
    <3> HIDE DEF a, to
    <3> QED BY <2>1, <2>4, <3>1, PageFilled
  <2>6. pages[k] = page /\ base[k] = a /\ end[k] = k * pageOri /\ last[k] = k * count
    BY DEF base, end, last
  <2>7. base[k] \in Nat /\ base[k] + pageOri = end[k] /\ end[k] <= Len(ori) /\ end[k] \in Nat
    BY <2>2, <2>3, <2>4, <2>6
  <2>8. last[k] = to
    BY <2>3, <2>6
  <2> HIDE DEF page, a, to, base, end, last
  <2> QED BY <2>5, <2>6, <2>7, <2>8
<1>2. \A k \in 1 .. m : end[k] = k * pageOri /\ last[k] = k * count /\ base[k] = (k - 1) * pageOri
  OBVIOUS
<1>3. \A k, q \in 1 .. m : k < q => end[k] <= base[q]
  <2> SUFFICES ASSUME NEW k \in 1 .. m, NEW q \in 1 .. m, k < q
               PROVE  base[k] + pageOri <= base[q]
    BY <1>1
  <2>1. k - 1 \in Nat /\ q - 1 \in Nat /\ k - 1 < q - 1
    OBVIOUS
  <2> QED BY <2>1, PagesApart
<1>4. ASSUME NEW k \in 1 .. m, NEW i \in 1 .. end[k]
      PROVE  \E r \in 1 .. k, c \in 1 .. pageOri : i = base[r] + c
  <2> DEFINE d == (i - 1) \div pageOri
             r == d + 1
             c == i - d * pageOri
  <2>1. i \in Nat \ {0} /\ i <= k * pageOri /\ i - 1 \in Nat
    BY <1>1, <1>2
  <2>2. d \in Nat /\ d * pageOri <= i - 1 /\ i - 1 < d * pageOri + pageOri /\ d * pageOri \in Nat
    <3> DEFINE e == i - 1
               f == e % pageOri
    <3>1. e \in Nat /\ e \in Int
      BY <2>1
    <3>2. e \div pageOri \in Int /\ f \in 0 .. pageOri - 1 /\ e = ((e \div pageOri) * pageOri) + f
      BY <3>1, DivMod
    <3> HIDE DEF f, e
    <3>3. e \div pageOri \in Nat
      BY <3>1
    <3> DEFINE g == e \div pageOri
    <3> HIDE DEF g
    <3>4. g * pageOri \in Nat
      BY <3>3 DEF g
    <3>5. g * pageOri <= e /\ e < g * pageOri + pageOri
      BY <3>1, <3>2, <3>4 DEF g
    <3>6. d = g /\ e = i - 1
      BY DEF g, e
    <3> QED BY <3>3, <3>4, <3>5, <3>6 DEF g
  <2> HIDE DEF d
  <2>3. c \in 1 .. pageOri
    BY <2>1, <2>2
  <2>4. d < k
    <3>1. ASSUME k <= d PROVE FALSE
      <4>1. k * pageOri <= d * pageOri
        <5>1. CASE k = d
          BY <5>1, <2>2
        <5>2. CASE k < d
          <6>1. k \in Nat
            OBVIOUS
          <6>2. k * pageOri \in Nat /\ k * pageOri + pageOri <= d * pageOri
            BY <2>2, <5>2, <6>1, PagesApart
          <6> QED BY <2>2, <6>2
        <5> QED BY <2>2, <3>1, <5>1, <5>2
      <4>2. k * pageOri \in Nat
        OBVIOUS
      <4> QED BY <2>1, <2>2, <4>1, <4>2
    <3> QED BY <2>2, <3>1
  <2>5. r \in 1 .. k /\ r \in 1 .. m /\ r - 1 = d
    BY <2>2, <2>4
  <2>6. base[r] = d * pageOri
    BY <1>2, <2>5
  <2>7. i = base[r] + c
    BY <2>1, <2>2, <2>6
  <2> QED BY <2>3, <2>5, <2>7
<1> HIDE DEF base, end, last
<1>5. pages \in Seq(Seq(T)) /\ Len(pages) = m
  <2>1. \A k \in 1 .. m : Page(ori, inserts, pageOri, st, k) \in Seq(T)
    BY <1>1
  <2> QED BY <2>1
<1>6. t \in Seq(T)
  BY <1>5, Flattened
<1>7. PICK row, col : IsLaid(row, col, t, pages, m)
  BY <1>5, Flattened
<1> HIDE DEF t
<1>8. /\ DOMAIN t = 1 .. Len(t)
      /\ \A n \in DOMAIN t : row[n] \in 1 .. m /\ col[n] \in DOMAIN pages[row[n]]
                             /\ t[n] = pages[row[n]][col[n]]
      /\ \A i, n \in DOMAIN t :
           i < n => row[i] < row[n] \/ (row[i] = row[n] /\ col[i] < col[n])
      /\ \A r \in 1 .. m : \A c \in DOMAIN pages[r] : \E n \in DOMAIN t : row[n] = r /\ col[n] = c
  <2>1. DOMAIN t = 1 .. Len(t)
    BY <1>6
  <2> QED BY <1>7, <2>1 DEF IsLaid
<1>9. ASSUME NEW r \in 1 .. m, NEW c \in 1 .. pageOri
      PROVE  c \in DOMAIN pages[r] /\ base[r] + c \in DOMAIN ori /\ pages[r][c] = ori[base[r] + c]
  <2>1. c \in DOMAIN pages[r] /\ c <= pageOri
    BY <1>1
  <2> QED BY <1>1, <2>1
<1>10. ASSUME NEW n \in DOMAIN t
       PROVE  \/ \E i \in DOMAIN ori : t[n] = ori[i]
              \/ \E k \in Nat \ {0} : \E q \in DOMAIN inserts :
                   /\ t[n] = inserts[q] /\ q <= k * count /\ k * pageOri <= Len(ori)
                   /\ \A i \in 1 .. k * pageOri : \E p \in 1 .. n - 1 : t[p] = ori[i]
  <2> DEFINE k == row[n]
             j == col[n]
  <2>1. k \in 1 .. m /\ j \in DOMAIN pages[k] /\ t[n] = pages[k][j] /\ pages[k] \in Seq(T)
    BY <1>1, <1>8
  <2>2. j \in Nat
    BY <2>1
  <2> HIDE DEF k, j
  <2>3. IF j <= pageOri
          THEN base[k] + j \in DOMAIN ori /\ t[n] = ori[base[k] + j]
          ELSE \E i \in DOMAIN inserts : i <= last[k] /\ t[n] = inserts[i]
    <3>1. \A c \in DOMAIN pages[k] :
            IF c <= pageOri
              THEN base[k] + c \in DOMAIN ori /\ pages[k][c] = ori[base[k] + c]
              ELSE \E i \in DOMAIN inserts : i <= last[k] /\ pages[k][c] = inserts[i]
      BY <1>1, <2>1
    <3> QED BY <2>1, <3>1
  <2>4. CASE j <= pageOri
    BY <2>4, <2>3
  <2>5. CASE ~(j <= pageOri)
    <3>1. PICK q \in DOMAIN inserts : q <= last[k] /\ t[n] = inserts[q]
      BY <2>5, <2>3
    <3>2. k \in Nat \ {0} /\ q <= k * count /\ k * pageOri <= Len(ori)
      <4>1. last[k] = k * count /\ end[k] = k * pageOri /\ end[k] <= Len(ori)
        BY <1>1, <1>2, <2>1
      <4>2. k \in Nat \ {0}
        BY <2>1
      <4> QED BY <3>1, <4>1, <4>2
    <3>3. ASSUME NEW i \in 1 .. k * pageOri PROVE \E p \in 1 .. n - 1 : t[p] = ori[i]
      <4>1. i \in 1 .. end[k]
        BY <1>2, <2>1
      <4>2. PICK r \in 1 .. k, c \in 1 .. pageOri : i = base[r] + c
        BY <1>4, <2>1, <4>1
      <4>3. r \in 1 .. m
        BY <2>1
      <4>4. c \in DOMAIN pages[r] /\ pages[r][c] = ori[base[r] + c]
        BY <1>9, <4>3
      <4>5. PICK p \in DOMAIN t : row[p] = r /\ col[p] = c
        BY <1>8, <4>3, <4>4
      <4>6. t[p] = ori[i]
        BY <1>8, <4>2, <4>5, <4>4
      <4>7. p < n
        <5>1. r < k \/ (r = k /\ c < j)
          BY <2>1, <2>2, <2>5
        <5>2. ~(n < p)
          <6>1. n < p => k < r \/ (k = r /\ j < c)
            BY <1>8, <4>5 DEF k, j
          <6> QED BY <2>1, <2>2, <5>1, <6>1
        <5>3. n # p
          BY <2>1, <2>2, <4>5, <5>1 DEF k, j
        <5> QED BY <1>8, <5>2, <5>3
      <4> QED BY <1>8, <4>6, <4>7
    <3> QED BY <3>1, <3>2, <3>3
  <2> QED BY <2>4, <2>5
<1>11. m # 0 => t # <<>>
  <2> SUFFICES ASSUME m # 0 PROVE t # <<>>
    OBVIOUS
  <2>1. 1 \in 1 .. m /\ 1 \in 1 .. pageOri
    OBVIOUS
  <2>2. \E n \in DOMAIN t : TRUE
    BY <1>8, <1>9, <2>1
  <2> QED BY <2>2
<1> HIDE DEF count
<1>12. InPages(t, ori, inserts, pageOri, count)
  BY <1>10 DEF InPages
<1> QED BY <1>6, <1>11, <1>12 DEF t, count

\* What follows the pages is of the list.
LEMMA PagesFollowed ==
  ASSUME NEW T, NEW ori \in Seq(T), NEW inserts, NEW pageOri \in Nat, NEW count \in Nat,
         NEW front \in Seq(T), InPages(front, ori, inserts, pageOri, count), NEW d \in Nat
  PROVE  LET u == front \o SubSeq(ori, d + 1, Len(ori))
         IN  /\ u \in Seq(T) /\ InPages(u, ori, inserts, pageOri, count)
             /\ front # <<>> \/ d < Len(ori) => u # <<>>
<1> DEFINE rest == SubSeq(ori, d + 1, Len(ori))
           u == front \o rest
           a == Len(front)
           b == Len(rest)
<1>1. /\ rest \in Seq(T) /\ b \in Nat /\ (d < Len(ori) => b > 0)
      /\ \A j \in 1 .. b : \E i \in DOMAIN ori : rest[j] = ori[i]
  <2>1. CASE d + 1 <= Len(ori)
    <3>1. rest \in Seq(T) /\ b = Len(ori) - d
      BY <2>1
    <3>2. \A j \in 1 .. Len(ori) - d : rest[j] = ori[d + j] /\ d + j \in DOMAIN ori
      BY <2>1
    <3> QED BY <2>1, <3>1, <3>2
  <2>2. CASE ~(d + 1 <= Len(ori))
    <3>1. rest = <<>>
      BY <2>2
    <3> QED BY <2>2, <3>1
  <2> QED BY <2>1, <2>2
<1> HIDE DEF rest
<1>2. /\ u \in Seq(T) /\ DOMAIN u = 1 .. a + b /\ a \in Nat /\ DOMAIN front = 1 .. a
      /\ \A n \in 1 .. a : u[n] = front[n]
      /\ \A n \in 1 .. b : u[a + n] = rest[n]
  BY <1>1
<1>3. Len(u) = a + b
  BY <1>1
<1>4. front # <<>> \/ d < Len(ori) => u # <<>>
  <2>1. front # <<>> => a > 0
    BY <1>2
  <2> QED BY <1>1, <1>2, <1>3, <2>1
<1> HIDE DEF u, a, b
<1>5. ASSUME NEW n \in DOMAIN u
      PROVE  \/ \E i \in DOMAIN ori : u[n] = ori[i]
             \/ \E k \in Nat \ {0} : \E q \in DOMAIN inserts :
                  /\ u[n] = inserts[q] /\ q <= k * count /\ k * pageOri <= Len(ori)
                  /\ \A i \in 1 .. k * pageOri : \E p \in 1 .. n - 1 : u[p] = ori[i]
  <2>1. CASE n \in 1 .. a
    <3>1. u[n] = front[n] /\ \A p \in 1 .. n - 1 : u[p] = front[p]
      BY <1>2, <2>1
    <3>2. \/ \E i \in DOMAIN ori : front[n] = ori[i]
          \/ \E k \in Nat \ {0} : \E q \in DOMAIN inserts :
               /\ front[n] = inserts[q] /\ q <= k * count /\ k * pageOri <= Len(ori)
               /\ \A i \in 1 .. k * pageOri : \E p \in 1 .. n - 1 : front[p] = ori[i]
      BY <1>2, <2>1 DEF InPages
    <3> QED BY <3>1, <3>2
  <2>2. CASE n \notin 1 .. a
    <3>1. n - a \in 1 .. b /\ n = a + (n - a)
      BY <1>1, <1>2, <2>2
    <3>2. u[n] = rest[n - a]
      BY <1>2, <3>1
    <3> QED BY <1>1, <3>1, <3>2
  <2> QED BY <2>1, <2>2
<1>6. InPages(u, ori, inserts, pageOri, count)
  BY <1>5 DEF InPages
<1> QED BY <1>2, <1>4, <1>6 DEF u, rest

\* Inserts that are new to the list stay where their pages put them when the
\* duplicates are removed: nothing of the list is.
LEMMA PagesDeduped ==
  ASSUME NEW T, NEW ori \in Seq(T), NEW inserts \in Seq(T), NEW pageOri \in Nat, NEW count \in Nat,
         UniqueIds(ori), Ids(inserts) \cap Ids(ori) = {},
         NEW u \in Seq(T), InPages(u, ori, inserts, pageOri, count)
  PROVE  InPages(DedupeKeepFirst(u), ori, inserts, pageOri, count)
<1> DEFINE I == {p \in DOMAIN u : \A q \in 1 .. p - 1 : u[q].id # u[p].id}
           t == Keep(u, I)
<1>1. DedupeKeepFirst(u) = t /\ I \in SUBSET DOMAIN u
  BY DEF DedupeKeepFirst
<1>2. PICK place : t \in Seq(T) /\ IsPlaces(place, t, u, I)
  BY KeepPlaces
<1>3. DOMAIN u = 1 .. Len(u) /\ Len(u) \in Nat
  OBVIOUS
<1>4. ASSUME NEW p \in DOMAIN u PROVE \E i \in I : i <= p /\ u[i].id = u[p].id
  <2> DEFINE A == {q \in DOMAIN u : u[q].id = u[p].id}
  <2>1. A \in SUBSET Nat /\ A # {} /\ p \in A
    OBVIOUS
  <2>2. PICK i \in A : \A q \in A : i <= q
    BY <2>1, MinIsMember
  <2>3. i \in I
    BY <2>2
  <2> QED BY <2>1, <2>2, <2>3
<1> HIDE DEF I, t
<1>5. /\ DOMAIN t = 1 .. Len(t) /\ Len(t) \in Nat
      /\ place \in [1 .. Len(t) -> I]
      /\ \A n \in 1 .. Len(t) : t[n] = u[place[n]]
      /\ \A m, n \in 1 .. Len(t) : m < n => place[m] < place[n]
      /\ \A i \in I : \E n \in 1 .. Len(t) : place[n] = i
  BY <1>2 DEF IsPlaces
<1>6. ASSUME NEW p \in DOMAIN u, NEW i \in DOMAIN ori, u[p].id = ori[i].id PROVE u[p] = ori[i]
  <2>1. ~(\E q \in DOMAIN inserts : u[p] = inserts[q])
    BY <1>6 DEF Ids
  <2>2. PICK j \in DOMAIN ori : u[p] = ori[j]
    BY <2>1 DEF InPages
  <2> QED BY <1>6, <2>2 DEF UniqueIds
<1>7. ASSUME NEW n \in 1 .. Len(t)
      PROVE  \/ \E i \in DOMAIN ori : t[n] = ori[i]
             \/ \E k \in Nat \ {0} : \E q \in DOMAIN inserts :
                  /\ t[n] = inserts[q] /\ q <= k * count /\ k * pageOri <= Len(ori)
                  /\ \A i \in 1 .. k * pageOri : \E p \in 1 .. n - 1 : t[p] = ori[i]
  <2> DEFINE x == place[n]
  <2>1. x \in DOMAIN u /\ x \in Nat /\ t[n] = u[x] /\ place[n] = x
    BY <1>1, <1>3, <1>5
  <2> HIDE DEF x
  <2>2. ASSUME ~\E i \in DOMAIN ori : t[n] = ori[i]
        PROVE  \E k \in Nat \ {0} : \E q \in DOMAIN inserts :
                 /\ t[n] = inserts[q] /\ q <= k * count /\ k * pageOri <= Len(ori)
                 /\ \A i \in 1 .. k * pageOri : \E p \in 1 .. n - 1 : t[p] = ori[i]
    <3>1. PICK k \in Nat \ {0}, q \in DOMAIN inserts :
            /\ u[x] = inserts[q] /\ q <= k * count /\ k * pageOri <= Len(ori)
            /\ \A i \in 1 .. k * pageOri : \E p \in 1 .. x - 1 : u[p] = ori[i]
      BY <2>1, <2>2 DEF InPages
    <3>2. ASSUME NEW i \in 1 .. k * pageOri PROVE \E p \in 1 .. n - 1 : t[p] = ori[i]
      <4>1. PICK p \in 1 .. x - 1 : u[p] = ori[i]
        BY <3>1
      <4>2. p \in DOMAIN u /\ p < x /\ p \in Nat
        BY <1>3, <2>1
      <4>3. PICK j \in I : j <= p /\ u[j].id = u[p].id
        BY <1>4, <4>2
      <4>4. i \in DOMAIN ori
        <5>1. k * pageOri \in Nat
          OBVIOUS
        <5> QED BY <3>1, <5>1
      <4>5. j \in DOMAIN u /\ u[j] = ori[i]
        BY <1>1, <1>6, <4>1, <4>3, <4>4
      <4>6. PICK m \in 1 .. Len(t) : place[m] = j
        BY <1>5
      <4>7. t[m] = ori[i]
        BY <1>5, <4>5, <4>6
      <4>8. m < n
        <5>1. j < x /\ j \in Nat
          BY <1>3, <2>1, <4>2, <4>3, <4>5
        <5>2. ~(n < m) /\ n # m
          BY <1>5, <2>1, <4>6, <5>1
        <5> QED BY <1>5, <5>2
      <4> QED BY <1>5, <4>7, <4>8
    <3> QED BY <2>1, <3>1, <3>2
  <2> QED BY <2>2
<1>8. InPages(t, ori, inserts, pageOri, count)
  BY <1>5, <1>7 DEF InPages
<1> QED BY <1>1, <1>8

\* Of n places that hold k full pages of the list, s are left for inserts.
LEMMA PageRoom ==
  ASSUME NEW pageOri \in Nat \ {0}, NEW count \in Nat \ {0}, NEW size, size = pageOri + count,
         NEW n \in Nat \ {0}, NEW k \in Nat, NEW s \in Nat,
         s <= k * count, s + (k * pageOri) <= n
  PROVE  s <= count * (((n - 1) \div size) + 1)
<1> DEFINE e == n - 1
           d == e \div size
           r == e % size
           c == d + 1
<1>1. e \in Nat /\ size \in Nat \ {0} /\ n = e + 1
  OBVIOUS
<1> HIDE DEF e
<1>2. d \in Nat
  BY <1>1
<1>3. r \in 0 .. size - 1 /\ e = (d * size) + r
  <2>1. e \in Int
    BY <1>1
  <2> QED BY <1>1, <2>1, DivMod
<1> HIDE DEF d, r
<1>4. c \in Nat /\ c * pageOri \in Nat /\ c * count \in Nat /\ c * count = count * c
      /\ c * size = c * pageOri + c * count /\ c * size = d * size + size /\ d * size \in Nat
      /\ k * count \in Nat /\ k * pageOri \in Nat
  BY <1>1, <1>2, Z3
<1>5. n <= c * pageOri + c * count
  BY <1>1, <1>3, <1>4
<1> HIDE DEF c
<1>6. CASE k <= c
  <2>1. k * count <= c * count
    BY <1>4, <1>6, Z3
  <2>2. s <= count * c
    BY <1>4, <2>1
  <2> QED BY <2>2 DEF c, d, e
<1>7. CASE c <= k
  <2>1. c * pageOri <= k * pageOri
    BY <1>4, <1>7, Z3
  <2>2. s <= count * c
    BY <1>4, <1>5, <2>1
  <2> QED BY <2>2 DEF c, d, e
<1> QED BY <1>4, <1>6, <1>7

\* No page is crowded.
LEMMA PagesCounted ==
  ASSUME NEW T, NEW ori \in Seq(T), NEW inserts \in Seq(T),
         NEW pageOri \in Nat \ {0}, NEW count \in Nat \ {0}, NEW size, size = pageOri + count,
         UniqueIds(ori), NEW t \in Seq(T), UniqueIds(t),
         InPages(t, ori, inserts, pageOri, count), NEW n \in DOMAIN t,
         NEW S, S = {j \in 1 .. n : t[j].id \notin Ids(ori)}
  PROVE  Cardinality(S) <= count * (((n - 1) \div size) + 1)
<1>1. DOMAIN t = 1 .. Len(t) /\ Len(t) \in Nat /\ n \in Nat \ {0} /\ 1 .. n \subseteq DOMAIN t
  OBVIOUS
<1> DEFINE R == (1 .. n) \ S
<1>2. /\ IsFiniteSet(S) /\ Cardinality(S) \in Nat
      /\ IsFiniteSet(R) /\ Cardinality(R) \in Nat
      /\ Cardinality(S) + Cardinality(R) = n
  <2>1. IsFiniteSet(1 .. n) /\ Cardinality(1 .. n) = n
    BY <1>1, FS_Interval
  <2>2. S \subseteq 1 .. n /\ R \subseteq 1 .. n /\ S \cup R = 1 .. n /\ S \cap R = {}
    OBVIOUS
  <2> HIDE DEF R
  <2>3. IsFiniteSet(S) /\ IsFiniteSet(R)
    BY <2>1, <2>2, FS_Subset
  <2>4. Cardinality(S) \in Nat /\ Cardinality(R) \in Nat
    BY <2>3, FS_CardinalityType
  <2>5. Cardinality(S \cup R) = Cardinality(S) + Cardinality(R) - Cardinality(S \cap R)
    BY <2>3, FS_Union
  <2>6. Cardinality(S \cap R) = 0
    BY <2>2, FS_EmptySet
  <2>7. Cardinality(S \cup R) = n
    BY <2>1, <2>2
  <2> DEFINE a == Cardinality(S)
             b == Cardinality(R)
  <2>8. a \in Nat /\ b \in Nat /\ n = a + b - 0
    BY <2>4, <2>5, <2>6, <2>7
  <2> HIDE DEF a, b
  <2>9. a + b = n
    BY <2>8
  <2> QED BY <2>3, <2>4, <2>9 DEF a, b
<1>3. CASE S = {}
  <2> DEFINE zero == 0
  <2>1. Cardinality(S) = zero
    BY <1>3, FS_EmptySet
  <2>2. zero <= zero * count /\ zero + (zero * pageOri) <= n /\ zero \in Nat
    BY <1>1
  <2> HIDE DEF zero
  <2>3. zero <= count * (((n - 1) \div size) + 1)
    BY <1>1, <2>2, PageRoom
  <2> QED BY <2>1, <2>3
<1>4. CASE S # {}
  <2> DEFINE Fits(j, q) == /\ t[j] = inserts[q]
                           /\ \E k \in Nat \ {0} :
                                /\ q <= k * count /\ k * pageOri <= Len(ori)
                                /\ \A i \in 1 .. k * pageOri : \E p \in 1 .. j - 1 : t[p] = ori[i]
             at == [j \in S |-> CHOOSE q \in DOMAIN inserts : Fits(j, q)]
             A == {at[j] : j \in S}
             last == Max(A)
  <2>1. ASSUME NEW j \in S PROVE at[j] \in DOMAIN inserts /\ Fits(j, at[j])
    <3>1. j \in DOMAIN t /\ ~\E i \in DOMAIN ori : t[j] = ori[i]
      BY <1>1 DEF Ids
    <3>2. \E q \in DOMAIN inserts : Fits(j, q)
      BY <3>1 DEF InPages
    <3> HIDE DEF Fits
    <3> QED BY <3>2
  <2> HIDE DEF Fits, at
  <2>2. A \in SUBSET (1 .. Len(inserts)) /\ A # {} /\ Len(inserts) \in Nat
    <3>1. DOMAIN inserts = 1 .. Len(inserts) /\ Len(inserts) \in Nat
      OBVIOUS
    <3> QED BY <1>4, <2>1, <3>1
  <2>3. last \in A /\ \A q \in A : q <= last
    <3> HIDE DEF A
    <3> QED BY <2>2, MaxIsMember
  <2> HIDE DEF last
  <2>4. PICK j \in S : at[j] = last
    BY <2>3
  <2>5. PICK k \in Nat \ {0} :
          /\ last <= k * count /\ k * pageOri <= Len(ori)
          /\ \A i \in 1 .. k * pageOri : \E p \in 1 .. j - 1 : t[p] = ori[i]
    BY <2>1, <2>4 DEF Fits
  <2>6. last \in Nat /\ k * count \in Nat /\ k * pageOri \in Nat
    <3>1. last \in 1 .. Len(inserts)
      <4> HIDE DEF A
      <4> QED BY <2>2, <2>3
    <3>2. k * count \in Nat /\ k * pageOri \in Nat
      OBVIOUS
    <3> QED BY <2>2, <3>1, <3>2
  <2>7. Cardinality(S) <= last
    <3>1. \A m \in S : at[m] \in 1 .. last
      <4>1. \A m \in S : at[m] \in A /\ at[m] \in DOMAIN inserts
        BY <2>1
      <4>2. \A m \in S : at[m] <= last
        BY <2>3, <4>1
      <4>3. \A m \in S : at[m] \in Nat \ {0}
        BY <4>1
      <4> QED BY <2>6, <4>2, <4>3
    <3>2. \A m, p \in S : at[m] = at[p] => m = p
      <4>1. \A m \in S : m \in DOMAIN t /\ t[m] = inserts[at[m]]
        BY <1>1, <2>1 DEF Fits
      <4> QED BY <4>1 DEF UniqueIds
    <3>3. at \in Injection(S, 1 .. last)
      BY <3>1, <3>2 DEF Injection, IsInjective, at
    <3> HIDE DEF at
    <3>4. IsFiniteSet(1 .. last) /\ Cardinality(1 .. last) = last
      <4>1. last \in Int /\ 1 \in Int /\ last \in Nat
        BY <2>6
      <4>2. IsFiniteSet(1 .. last) /\ Cardinality(1 .. last) = IF 1 > last THEN 0 ELSE last - 1 + 1
        BY <4>1, FS_Interval
      <4> QED BY <4>1, <4>2
    <3> QED BY <3>3, <3>4, FS_Injection
  <2>8. k * pageOri <= Cardinality(R)
    <3> DEFINE e == k * pageOri
               there == [i \in 1 .. e |-> CHOOSE p \in 1 .. j - 1 : t[p] = ori[i]]
    <3>1. e \in Nat /\ e <= Len(ori)
      BY <2>5, <2>6
    <3>2. \A i \in 1 .. e : there[i] \in 1 .. j - 1 /\ t[there[i]] = ori[i] /\ i \in DOMAIN ori
      <4> SUFFICES ASSUME NEW i \in 1 .. e
                   PROVE  there[i] \in 1 .. j - 1 /\ t[there[i]] = ori[i] /\ i \in DOMAIN ori
        OBVIOUS
      <4>1. \E p \in 1 .. j - 1 : t[p] = ori[i]
        BY <2>5
      <4>2. there[i] = CHOOSE p \in 1 .. j - 1 : t[p] = ori[i]
        OBVIOUS
      <4> HIDE DEF there, e
      <4>3. there[i] \in 1 .. j - 1 /\ t[there[i]] = ori[i]
        BY <4>1, <4>2
      <4>4. i \in DOMAIN ori
        BY <3>1
      <4> QED BY <4>3, <4>4
    <3> HIDE DEF e, there
    <3>3. \A i \in 1 .. e : there[i] \in R
      <4>1. j \in 1 .. n
        OBVIOUS
      <4>2. \A i \in 1 .. e : there[i] \in 1 .. n /\ t[there[i]].id \in Ids(ori)
        BY <1>1, <3>2, <4>1 DEF Ids
      <4> QED BY <4>2
    <3>4. \A i, m \in 1 .. e : there[i] = there[m] => i = m
      BY <3>2 DEF UniqueIds
    <3>5. there \in Injection(1 .. e, R)
      BY <3>3, <3>4 DEF Injection, IsInjective, there
    <3>6. IsFiniteSet(1 .. e) /\ Cardinality(1 .. e) = e
      BY <3>1, FS_Interval
    <3> HIDE DEF R
    <3>7. Cardinality(1 .. e) <= Cardinality(R)
      BY <1>2, <3>5, FS_Injection
    <3> QED BY <3>6, <3>7 DEF e
  <2> HIDE DEF R, at, A
  <2> DEFINE s == Cardinality(S)
  <2>9. s \in Nat /\ s <= k * count /\ s + (k * pageOri) <= n
    BY <1>2, <2>5, <2>6, <2>7, <2>8
  <2> HIDE DEF s
  <2>10. s <= count * (((n - 1) \div size) + 1)
    <3>1. k \in Nat
      OBVIOUS
    <3> QED BY <1>1, <2>9, <3>1, PageRoom
  <2> QED BY <2>10 DEF s
<1> QED BY <1>3, <1>4

\* A list without repetitions stays as it is.
LEMMA DedupedSame ==
  ASSUME NEW T, NEW s \in Seq(T), UniqueIds(s)
  PROVE  DedupeKeepFirst(s) = s
<1> DEFINE I == {p \in DOMAIN s : \A q \in 1 .. p - 1 : s[q].id # s[p].id}
           place == [n \in 1 .. Len(s) |-> n]
<1>1. DOMAIN s = 1 .. Len(s) /\ Len(s) \in Nat
  OBVIOUS
<1>2. I = DOMAIN s
  <2>1. ASSUME NEW p \in DOMAIN s, NEW q \in 1 .. p - 1 PROVE s[q].id # s[p].id
    <3>1. q \in DOMAIN s /\ q # p
      BY <1>1
    <3> QED BY <3>1 DEF UniqueIds
  <2> QED BY <2>1
<1>3. IsPlaces(place, s, s, DOMAIN s)
  BY <1>1 DEF IsPlaces
<1>4. s = Keep(s, DOMAIN s)
  BY <1>3, KeepIsUnique
<1> QED BY <1>2, <1>4 DEF DedupeKeepFirst

\* ForcedInsert with pages that leave room for the list.
LEMMA PagedEvenly ==
  ASSUME NEW T, NEW ori \in Seq(T), ori # <<>>, UniqueIds(ori),
         NEW inserts \in Seq(T), inserts # <<>>, NEW st, st.PageNum \in Nat \ {0},
         st.PageInsertCount \in Nat \ {0}, st.PageSize \in Nat, st.PageInsertCount < st.PageSize
  PROVE  LET t == ForcedInsertPaged(ori, inserts, st)
         IN  /\ t # <<>>
             /\ Len(ori) < st.PageSize => t = ori
             /\ Ids(inserts) \cap Ids(ori) = {} =>
                  InPages(t, ori, inserts, st.PageSize - st.PageInsertCount, st.PageInsertCount)
<1> DEFINE size == st.PageSize
           count == st.PageInsertCount
           pageOri == size - count
           full == Len(ori) \div size
           actualPages == IF full < st.PageNum THEN full ELSE st.PageNum
           built == {p \in 0 .. actualPages - 1 : p * count < Len(inserts)}
           m == Cardinality(built)
           pages == [k \in 1 .. m |-> Page(ori, inserts, pageOri, st, k)]
           front == FlattenSeq(pages)
           d == actualPages * pageOri
           u == front \o SubSeq(ori, d + 1, Len(ori))
           t == DedupeKeepFirst(u)
<1>1. pageOri \in Nat \ {0} /\ count \in Nat \ {0} /\ size \in Nat \ {0} /\ Len(ori) \in Nat \ {0}
      /\ Len(inserts) \in Nat \ {0}
  OBVIOUS
<1>2. ForcedInsertPaged(ori, inserts, st) = t
  <2>1. ~(st.PageSize - st.PageInsertCount <= 0)
    OBVIOUS
  <2> QED BY <2>1 DEF ForcedInsertPaged
<1>3. size = pageOri + count
  BY <1>1
<1> HIDE DEF pageOri, size
<1>4. full \in Nat /\ full * size <= Len(ori) /\ full * size \in Nat
  <2> DEFINE e == Len(ori)
  <2>1. e \in Nat /\ e \in Int
    BY <1>1
  <2> HIDE DEF e
  <2> DEFINE g == e \div size
             r == e % size
  <2>2. g \in Nat
    BY <1>1, <2>1
  <2>3. r \in 0 .. size - 1 /\ e = (g * size) + r
    BY <1>1, <2>1, DivMod
  <2> HIDE DEF g, r
  <2>4. g * size \in Nat
    BY <1>1, <2>2
  <2>5. g * size <= e
    BY <1>1, <2>1, <2>3, <2>4
  <2> QED BY <2>2, <2>4, <2>5 DEF g, e
<1>5. Len(ori) < size => full = 0
  <2> SUFFICES ASSUME Len(ori) < size PROVE full = 0
    OBVIOUS
  <2> HIDE DEF full
  <2>1. CASE full # 0
    <3>1. size <= full * size
      BY <1>1, <1>4, <2>1, Z3
    <3> QED BY <1>1, <1>4, <3>1
  <2> QED BY <2>1
<1> HIDE DEF full
<1>6. actualPages \in Nat /\ actualPages <= full /\ (full = 0 => actualPages = 0)
  BY <1>4
<1> HIDE DEF actualPages
<1>7. m \in 0 .. actualPages /\ (built # {} => m # 0)
  <2>1. built \in SUBSET (0 .. actualPages - 1)
    OBVIOUS
  <2> HIDE DEF built
  <2> QED BY <1>6, <2>1, BuiltPages
<1>8. actualPages # 0 => m # 0
  <2> SUFFICES ASSUME actualPages # 0 PROVE built # {}
    BY <1>7
  <2>1. 0 \in 0 .. actualPages - 1 /\ 0 * count < Len(inserts)
    BY <1>1, <1>6
  <2> QED BY <2>1
<1> HIDE DEF m, built
<1>9. m \in Nat /\ m * pageOri <= Len(ori) /\ d \in Nat
  <2>1. m * pageOri <= full * size
    <3>1. m \in Nat /\ m <= full
      BY <1>4, <1>6, <1>7
    <3>2. m * pageOri <= full * pageOri
      BY <1>1, <1>4, <3>1, Z3
    <3>3. full * size = full * pageOri + full * count
      BY <1>1, <1>3, <1>4, Z3
    <3>4. m * pageOri \in Nat /\ full * pageOri \in Nat /\ full * count \in Nat
      BY <1>1, <1>4, <3>1
    <3> QED BY <1>4, <3>2, <3>3, <3>4
  <2>2. m * pageOri \in Nat /\ actualPages * pageOri \in Nat
    BY <1>1, <1>6, <1>7
  <2> QED BY <1>1, <1>4, <1>7, <2>1, <2>2
<1>10. /\ front \in Seq(T) /\ InPages(front, ori, inserts, pageOri, count)
       /\ m # 0 => front # <<>>
  <2>1. pages = [k \in 1 .. m |-> Page(ori, inserts, pageOri, st, k)] /\ st.PageInsertCount \in Nat
    OBVIOUS
  <2> HIDE DEF pages
  <2> QED BY <1>1, <1>9, <2>1, PagesLaid
<1>11. m = 0 => front = <<>>
  <2>1. m = 0 => pages = <<>>
    OBVIOUS
  <2> HIDE DEF pages
  <2> QED BY <2>1 DEF FlattenSeq
<1> HIDE DEF front, pages
<1>12. /\ u \in Seq(T) /\ InPages(u, ori, inserts, pageOri, count)
       /\ front # <<>> \/ d < Len(ori) => u # <<>>
  <2> HIDE DEF d, count
  <2>1. count \in Nat /\ pageOri \in Nat
    BY <1>1
  <2> QED BY <1>9, <1>10, <2>1, PagesFollowed
<1>13. actualPages = 0 => d = 0
  BY <1>1
<1>14. u # <<>>
  BY <1>1, <1>8, <1>10, <1>12, <1>13
<1>15. Len(ori) < size => u = ori
  <2> SUFFICES ASSUME Len(ori) < size PROVE u = ori
    OBVIOUS
  <2>1. d = 0 /\ front = <<>>
    BY <1>5, <1>6, <1>7, <1>11, <1>13
  <2>2. SubSeq(ori, 1, Len(ori)) = ori
    OBVIOUS
  <2> HIDE DEF d
  <2>3. u = <<>> \o ori
    BY <2>1, <2>2
  <2>4. <<>> \o ori = ori
    OBVIOUS
  <2> QED BY <2>3, <2>4
<1> HIDE DEF u
<1>16. t # <<>>
  BY <1>12, <1>14, DedupedItems
<1>17. Len(ori) < size => t = ori
  BY <1>15, DedupedSame
<1>18. Ids(inserts) \cap Ids(ori) = {} => InPages(t, ori, inserts, pageOri, count)
  <2>1. count \in Nat /\ pageOri \in Nat
    BY <1>1
  <2> HIDE DEF count
  <2> QED BY <1>12, <2>1, PagesDeduped
<1> QED BY <1>2, <1>16, <1>17, <1>18 DEF pageOri, size

-----------------------------------------------------------------------------
(* Any strategy *)

\* the recall types the rules of a strategy name
Named(st) == IF st.type = "ForcedInsert" THEN {st.rules[r].recall : r \in DOMAIN st.rules} ELSE {}

\* what a strategy may put between the items of the list
Strange(x, items, exclusive, st) ==
  \/ x \in Alternatives
  \/ \E r \in DOMAIN exclusive : r \in Named(st) /\ x \in ToSet(exclusive[r])
  \/ x \in ToSet(items) /\ x.recall \in Named(st)

\* t has items of the list in their order, and strange ones between them
Follows(t, items, exclusive, st) ==
  \E from :
    /\ \A n \in DOMAIN t : /\ from[n] \in 0 .. Len(items)
                           /\ from[n] = 0 => Strange(t[n], items, exclusive, st)
                           /\ from[n] # 0 => IsAfter(t[n], items[from[n]], st)
    /\ \A m, n \in DOMAIN t : m < n /\ from[m] # 0 /\ from[n] # 0 => from[m] < from[n]

LEMMA WovenFollows ==
  ASSUME NEW t, NEW items, NEW others, NEW exclusive, NEW st, Woven(t, items, others),
         st.type # "ScoreControl", \A x \in others : Strange(x, items, exclusive, st)
  PROVE  Follows(t, items, exclusive, st)
<1>1. PICK from : IsWoven(from, t, items, others)
  BY DEF Woven
<1>2. \A n \in DOMAIN t : /\ from[n] \in 0 .. Len(items)
                          /\ from[n] = 0 => Strange(t[n], items, exclusive, st)
                          /\ from[n] # 0 => IsAfter(t[n], items[from[n]], st)
  BY <1>1 DEF IsWoven, IsAfter, Same, Boosts
<1>3. \A m, n \in DOMAIN t : m < n /\ from[m] # 0 /\ from[n] # 0 => from[m] < from[n]
  BY <1>1 DEF IsWoven
<1> QED BY <1>2, <1>3 DEF Follows

\* Every strategy keeps a list of items one, and shows none twice; all but
\* MMRRearrange keep their order too.
LEMMA Strategies ==
  ASSUME NEW items \in Seq(ItemInfo), NEW exclusive, IsPool(exclusive),
         NEW exchange, IsExchange(exchange),
         NEW st, IsStrategy(st), NEW t \in ApplyStrategy(items, exclusive, exchange, st)
  PROVE  /\ t \in Seq(ItemInfo)
         /\ UniqueIds(items) => UniqueIds(t)
         /\ st.type = "MMRRearrange" => ToSet(t) \subseteq ToSet(items)
         /\ st.type # "MMRRearrange" => Follows(t, items, exclusive, st)
<1>1. CASE st.type = "ScoreControl"
  <2>1. t = ApplyScoreControl(items, st) /\ st.factor \in Int
    BY <1>1 DEF ApplyStrategy, IsStrategy
  <2>2. /\ t \in Seq(ItemInfo) /\ DOMAIN t = DOMAIN items
        /\ \A n \in DOMAIN t : IsAfter(t[n], items[n], st)
    BY <1>1, <2>1, ScoreControlled
  <2>3. UniqueIds(items) => UniqueIds(t)
    BY <2>2 DEF UniqueIds, IsAfter, Same
  <2>4. Follows(t, items, exclusive, st)
    <3> DEFINE from == [n \in DOMAIN t |-> n]
    <3>1. DOMAIN items = 1 .. Len(items)
      OBVIOUS
    <3>2. \A n \in DOMAIN t : from[n] \in 1 .. Len(items) /\ IsAfter(t[n], items[from[n]], st)
      BY <2>2, <3>1
    <3>3. \A n \in DOMAIN t : from[n] \in 0 .. Len(items) /\ from[n] # 0
      BY <3>2
    <3>4. \A m, n \in DOMAIN t : m < n => from[m] < from[n]
      OBVIOUS
    <3> HIDE DEF from
    <3> QED BY <3>2, <3>3, <3>4 DEF Follows
  <2> QED BY <1>1, <2>2, <2>3, <2>4
<1>2. CASE st.type = "HomogenContent"
  <2>1. t = ApplyHomogenContent(items, st.topN, exchange) /\ st.topN \in Int
    BY <1>2 DEF ApplyStrategy, IsStrategy
  <2>2. t \in Seq(ItemInfo) /\ Woven(t, items, Alternatives) /\ (UniqueIds(items) => UniqueIds(t))
    BY <2>1, Homogenized
  <2>3. Follows(t, items, exclusive, st)
    BY <1>2, <2>2, WovenFollows DEF Strange
  <2> QED BY <1>2, <2>2, <2>3
<1>3. CASE st.type = "MMRRearrange"
  <2>1. t = ApplyMMRRearrange(items, st) /\ st.lambda \in Int /\ st.dimension \in Int
    BY <1>3 DEF ApplyStrategy, IsStrategy
  <2> QED BY <1>3, <2>1, Rearranged
<1>4. CASE st.type = "ForcedInsert"
  <2>1. /\ {st.PageNum, st.PageSize, st.PageInsertCount} \subseteq Int
        /\ st.rules \in Seq(ToSet(st.rules)) /\ \A r \in DOMAIN st.rules : st.rules[r].count \in Int
    BY <1>4 DEF IsStrategy
  <2>2. PICK q \in InsertQueues(items, exclusive, st.rules) : t = ApplyForcedInsert(items, q, st)
    BY <1>4 DEF ApplyStrategy
  <2>3. PICK R : st.rules \in Seq(R)
    BY <2>1
  <2> DEFINE src == [r \in DOMAIN st.rules |-> InsertSource(items, exclusive, st.rules[r])]
             Some == {r \in DOMAIN st.rules : src[r] # <<>> /\ st.rules[r].count > 0}
  <2>4. q \in Seq(ItemInfo) /\ Queued(q, src, Some, Len(st.rules))
    BY <2>1, <2>3, QueuesFilled
  <2>5. t \in Seq(ItemInfo) /\ Woven(t, items, ToSet(q)) /\ (UniqueIds(items) => UniqueIds(t))
    BY <2>1, <2>2, <2>4, ForcedInserted
  <2>6. \A x \in ToSet(q) : Strange(x, items, exclusive, st)
    <3> SUFFICES ASSUME NEW n \in DOMAIN q PROVE Strange(q[n], items, exclusive, st)
      BY DEF ToSet
    <3>1. PICK r \in 1 .. Len(st.rules) : q[n] \in ToSet(src[r])
      <4> HIDE DEF src, Some
      <4> QED BY <2>4 DEF Queued
    <3>2. r \in DOMAIN st.rules
      BY <2>3
    <3>3. src[r] = InsertSource(items, exclusive, st.rules[r]) /\ st.rules[r].recall \in Named(st)
      BY <1>4, <3>2 DEF Named
    <3>4. q[n] \in ToSet(InsertSource(items, exclusive, st.rules[r]))
      BY <3>1, <3>3
    <3>5. FromSource(q[n], items, exclusive, st.rules[r])
      BY <3>4, Sources
    <3> QED BY <3>3, <3>5 DEF Strange, FromSource
  <2> HIDE DEF src, Some
  <2>7. Follows(t, items, exclusive, st)
    BY <1>4, <2>5, <2>6, WovenFollows
  <2> QED BY <1>4, <2>5, <2>7
<1>5. CASE st.type \notin {"ScoreControl", "HomogenContent", "MMRRearrange", "ForcedInsert"}
  <2>1. t = items
    BY <1>5 DEF ApplyStrategy
  <2>2. Woven(t, items, {}) /\ \A x \in {} : Strange(x, items, exclusive, st)
    BY <2>1, SameIsWoven
  <2>3. Follows(t, items, exclusive, st)
    BY <1>5, <2>2, WovenFollows
  <2> QED BY <1>5, <2>1, <2>3
<1> QED BY <1>1, <1>2, <1>3, <1>4, <1>5

\* Without pages, what the first rule finds in the pool is on top.
LEMMA FirstForced ==
  ASSUME NEW items \in Seq(ItemInfo), NEW exclusive, IsPool(exclusive), NEW exchange,
         NEW st, IsStrategy(st), NEW t \in ApplyStrategy(items, exclusive, exchange, st),
         st.type = "ForcedInsert", st.PageSize = 0, st.rules # <<>>, st.rules[1].count > 0,
         st.rules[1].recall \in DOMAIN exclusive, exclusive[st.rules[1].recall] # <<>>
  PROVE  t # <<>> /\ t[1] \in ToSet(exclusive[st.rules[1].recall])
<1>1. /\ {st.PageNum, st.PageSize, st.PageInsertCount} \subseteq Int
      /\ st.rules \in Seq(ToSet(st.rules)) /\ \A r \in DOMAIN st.rules : st.rules[r].count \in Int
  BY DEF IsStrategy
<1>2. PICK q \in InsertQueues(items, exclusive, st.rules) : t = ApplyForcedInsert(items, q, st)
  BY DEF ApplyStrategy
<1>3. PICK R : st.rules \in Seq(R)
  BY <1>1
<1> DEFINE src == [r \in DOMAIN st.rules |-> InsertSource(items, exclusive, st.rules[r])]
           Some == {r \in DOMAIN st.rules : src[r] # <<>> /\ st.rules[r].count > 0}
<1>4. q \in Seq(ItemInfo) /\ Queued(q, src, Some, Len(st.rules))
  BY <1>1, <1>3, QueuesFilled
<1>5. 1 \in DOMAIN st.rules /\ 1 <= Len(st.rules)
  BY <1>3
<1>6. src[1] = exclusive[st.rules[1].recall]
  <2>1. InsertSource(items, exclusive, st.rules[1]) = exclusive[st.rules[1].recall]
    BY DEF InsertSource
  <2> QED BY <1>5, <2>1
<1>7. 1 \in Some
  BY <1>5, <1>6
<1> HIDE DEF src, Some
<1>8. q # <<>> /\ q[1] \in ToSet(src[1])
  BY <1>4, <1>5, <1>7 DEF Queued
<1>9. t # <<>> /\ t[1] = q[1]
  <2> DEFINE u == ApplyForcedInsert(items, q, st)
  <2>1. q # <<>> /\ st.PageSize <= 0 => u # <<>> /\ u[1] = q[1]
    <3> HIDE DEF u
    <3> QED BY <1>1, <1>4, ForcedInserted DEF u
  <2> QED BY <1>2, <1>8, <2>1
<1> QED BY <1>6, <1>8, <1>9

-----------------------------------------------------------------------------
(* Lanes, the merge and the answer of rank *)

\* What is kept of a list are the items at the places, no two of an id when the
\* list had no two.
LEMMA KeptOf ==
  ASSUME NEW T, NEW s \in Seq(T), NEW I \in SUBSET DOMAIN s
  PROVE  /\ Keep(s, I) \in Seq(T) /\ ToSet(Keep(s, I)) = {s[i] : i \in I}
         /\ UniqueIds(s) => UniqueIds(Keep(s, I))
<1>1. /\ Keep(s, I) \in Seq(T)
      /\ \A n \in DOMAIN Keep(s, I) : \E i \in I : Keep(s, I)[n] = s[i]
      /\ \A i \in I : \E n \in DOMAIN Keep(s, I) : Keep(s, I)[n] = s[i]
  BY KeptItems
<1>2. ToSet(Keep(s, I)) = {s[i] : i \in I}
  BY <1>1 DEF ToSet
<1>3. UniqueIds(s) => UniqueIds(Keep(s, I))
  BY KeepsDistinct DEF UniqueIds
<1> QED BY <1>1, <1>2, <1>3

\* OfIds has the items whose ids are among those.
LEMMA ThoseOfIds ==
  ASSUME NEW T, NEW s \in Seq(T), NEW ids
  PROVE  /\ OfIds(s, ids) \in Seq(T) /\ ToSet(OfIds(s, ids)) = {it \in ToSet(s) : it.id \in ids}
         /\ UniqueIds(s) => UniqueIds(OfIds(s, ids))
<1> DEFINE I == {p \in DOMAIN s : s[p].id \in ids}
           t == OfIds(s, ids)
<1>1. t = Keep(s, I) /\ I \in SUBSET DOMAIN s
  BY DEF OfIds
<1>2. {s[i] : i \in I} = {it \in ToSet(s) : it.id \in ids}
  BY DEF ToSet
<1> HIDE DEF I, t
<1>3. /\ t \in Seq(T) /\ ToSet(t) = {s[i] : i \in I}
      /\ UniqueIds(s) => UniqueIds(t)
  BY <1>1, KeptOf
<1> QED BY <1>2, <1>3 DEF t

\* The ids of a list are those of its items.
LEMMA IdsOfItems ==
  ASSUME NEW s
  PROVE  Ids(s) = {it.id : it \in ToSet(s)}
BY DEF Ids, ToSet

\* A capped list has items of the list.
LEMMA CapHasItems ==
  ASSUME NEW T, NEW s \in Seq(T), NEW n \in Int
  PROVE  Cap(s, n) \in Seq(T) /\ ToSet(Cap(s, n)) \subseteq ToSet(s)
BY CapKeepsFront DEF ToSet

\* The sample takes items of the lane.
LEMMA Sampled ==
  ASSUME NEW T, NEW s \in Seq(T), NEW sampleFold \in Int, NEW mergeMax \in Int
  PROVE  LET t == ApplySampleFoldAndCap(s, sampleFold, mergeMax)
         IN  t \in Seq(T) /\ ToSet(t) \subseteq ToSet(s)
<1> DEFINE fold == IF sampleFold <= 0 THEN 1 ELSE sampleFold
           n == (Len(s) + fold - 1) \div fold
           u == [k \in 1 .. n |-> s[((k - 1) * fold) + 1]]
<1>1. fold \in Nat \ {0} /\ Len(s) \in Nat /\ DOMAIN s = 1 .. Len(s)
  OBVIOUS
<1> HIDE DEF fold
<1>2. n \in Nat /\ n * fold <= Len(s) + fold - 1
  BY <1>1, Z3
<1> HIDE DEF n
<1>3. ASSUME NEW k \in 1 .. n PROVE ((k - 1) * fold) + 1 \in DOMAIN s
  <2>1. k * fold <= n * fold
    BY <1>1, <1>2, <1>3, Z3
  <2>2. (k - 1) * fold = k * fold - fold /\ (k - 1) * fold >= 0 /\ k * fold \in Int /\ n * fold \in Int
    BY <1>1, <1>2, <1>3, Z3
  <2> QED BY <1>1, <1>2, <2>1, <2>2
<1>4. u \in Seq(T) /\ ToSet(u) \subseteq ToSet(s)
  <2>1. \A k \in 1 .. n : u[k] \in T /\ u[k] \in ToSet(s)
    BY <1>1, <1>3 DEF ToSet
  <2>2. DOMAIN u = 1 .. n
    OBVIOUS
  <2>3. u \in [1 .. n -> T]
    BY <2>1
  <2> HIDE DEF u
  <2> QED BY <1>2, <2>1, <2>2, <2>3 DEF ToSet
<1>5. ApplySampleFoldAndCap(s, sampleFold, mergeMax) = Cap(u, mergeMax)
  BY DEF ApplySampleFoldAndCap, fold, n
<1> HIDE DEF u
<1> QED BY <1>4, <1>5, CapHasItems

\* What a lane leaves are items it found that have a portrait.
LEMMA LaneBatched ==
  ASSUME NEW T, NEW raw \in Seq(T), NEW rule, NEW portraits,
         {rule.RecallNum, rule.MergeMaxNum, rule.UseTopKIndex, rule.SampleFold} \subseteq Int
  PROVE  LET t == LaneBatch(raw, rule, portraits)
         IN  /\ t \in Seq(T) /\ ToSet(t) \subseteq ToSet(raw)
             /\ Ids(t) \subseteq Ids(TopOf(raw, rule)) \cap portraits
<1> DEFINE top == TopOf(raw, rule)
           marked == OfIds(top, portraits)
           mergeMax == IF rule.MergeMaxNum <= 0 THEN rule.RecallNum ELSE rule.MergeMaxNum
           t == LaneBatch(raw, rule, portraits)
<1>1. mergeMax \in Int /\ t = ApplySampleFoldAndCap(marked, rule.SampleFold, mergeMax)
  BY DEF LaneBatch
<1> HIDE DEF mergeMax, t
<1>2. top \in Seq(T) /\ ToSet(top) \subseteq ToSet(raw)
  BY CapHasItems DEF TopOf
<1> HIDE DEF top
<1>3. marked \in Seq(T) /\ ToSet(marked) = {it \in ToSet(top) : it.id \in portraits}
  BY <1>2, ThoseOfIds
<1> HIDE DEF marked
<1>4. t \in Seq(T) /\ ToSet(t) \subseteq ToSet(marked)
  BY <1>1, <1>3, Sampled
<1>5. Ids(t) = {it.id : it \in ToSet(t)} /\ Ids(top) = {it.id : it \in ToSet(top)}
  BY IdsOfItems
<1>6. Ids(t) \subseteq Ids(top) \cap portraits
  BY <1>3, <1>4, <1>5
<1> QED BY <1>2, <1>3, <1>4, <1>6 DEF t, top

\* The merge has every id of the batches once, or is full.
LEMMA Merged ==
  ASSUME NEW T, NEW batches \in Seq(Seq(T)), NEW n \in Int
  PROVE  LET t == MergeRecallLanes(batches, n)
         IN  /\ t \in Seq(T) /\ UniqueIds(t)
             /\ \A it \in ToSet(t) : \E b \in DOMAIN batches : it \in ToSet(batches[b])
             /\ \/ Ids(t) = UNION {Ids(batches[b]) : b \in DOMAIN batches}
                \/ Len(t) = n
<1> DEFINE flat == FlattenSeq(batches)
           u == DedupeKeepFirst(flat)
           t == Cap(u, n)
<1>1. MergeRecallLanes(batches, n) = t
  BY DEF MergeRecallLanes
<1>2. PICK row, col : flat \in Seq(T) /\ IsLaid(row, col, flat, batches, Len(batches))
  BY Flattened
<1> HIDE DEF flat
<1>3. /\ u \in Seq(T) /\ UniqueIds(u) /\ Ids(u) = Ids(flat)
      /\ \A p \in DOMAIN u : \E i \in DOMAIN flat : u[p] = flat[i]
  BY <1>2, DedupedItems
<1> HIDE DEF u
<1>4. /\ t \in Seq(T) /\ Len(t) = CapLen(Len(u), n)
      /\ \A p \in DOMAIN t : p \in DOMAIN u /\ t[p] = u[p]
      /\ UniqueIds(t)
  BY <1>3, CapKeepsFront, CapKeepsDistinct, ZenonT(60)
<1>5. t = u \/ Len(t) = n
  BY <1>3, <1>4 DEF CapLen, Cap
<1> HIDE DEF t
<1>6. DOMAIN batches = 1 .. Len(batches) /\ DOMAIN flat = 1 .. Len(flat)
  BY <1>2
<1>7. /\ \A i \in DOMAIN flat : \E b \in DOMAIN batches : \E c \in DOMAIN batches[b] :
            flat[i] = batches[b][c]
      /\ \A b \in DOMAIN batches : \A c \in DOMAIN batches[b] :
            \E i \in DOMAIN flat : flat[i] = batches[b][c]
  <2>1. \A i \in DOMAIN flat : \E b \in DOMAIN batches : \E c \in DOMAIN batches[b] :
            flat[i] = batches[b][c]
    <3> TAKE i \in DOMAIN flat
    <3> DEFINE b == row[i]
               c == col[i]
    <3>1. b \in DOMAIN batches /\ c \in DOMAIN batches[b] /\ flat[i] = batches[b][c]
      BY <1>2, <1>6 DEF IsLaid
    <3> QED BY <3>1
  <2>2. ASSUME NEW b \in DOMAIN batches, NEW c \in DOMAIN batches[b]
        PROVE  \E i \in DOMAIN flat : flat[i] = batches[b][c]
    <3>1. PICK i \in 1 .. Len(flat) : row[i] = b /\ col[i] = c
      BY <1>2, <1>6 DEF IsLaid
    <3>2. flat[i] = batches[row[i]][col[i]]
      BY <1>2 DEF IsLaid
    <3> QED BY <1>6, <3>1, <3>2
  <2> QED BY <2>1, <2>2
<1>8. Ids(flat) = UNION {Ids(batches[b]) : b \in DOMAIN batches}
  <2>1. ASSUME NEW x \in Ids(flat) PROVE \E b \in DOMAIN batches : x \in Ids(batches[b])
    BY <1>7 DEF Ids
  <2>2. ASSUME NEW b \in DOMAIN batches, NEW x \in Ids(batches[b]) PROVE x \in Ids(flat)
    BY <1>7 DEF Ids
  <2> QED BY <2>1, <2>2
<1>9. \A it \in ToSet(t) : \E b \in DOMAIN batches : it \in ToSet(batches[b])
  BY <1>3, <1>4, <1>7 DEF ToSet
<1> QED BY <1>1, <1>3, <1>4, <1>5, <1>8, <1>9

\* it is an item of the list, with its score if it got one
IsScored(it, items, scores) ==
  \E x \in ToSet(items) :
    /\ it.id = x.id /\ it.recall = x.recall
    /\ \/ \E sc \in ToSet(scores) : sc.id = it.id /\ it.score = sc.score
       \/ it.id \notin Ids(scores) /\ it = x

\* What is scored of a list, in the order of the scores, and then the rest of it.
LEMMA Reordered ==
  ASSUME NEW items \in Seq(ItemInfo), UniqueIds(items),
         NEW scores \in Seq([id : ItemIds, score : Int]), UniqueIds(scores)
  PROVE  LET t == ReorderByRank(items, scores)
         IN  /\ t \in Seq(ItemInfo) /\ UniqueIds(t)
             /\ \A it \in ToSet(t) : IsScored(it, items, scores)
             /\ \A m, n \in DOMAIN t : m < n /\ t[n].id \in Ids(scores) => t[m].id \in Ids(scores)
<1> DEFINE known == OfIds(scores, Ids(items))
           front == WithScores(items, known)
           rest == OfIds(items, Ids(items) \ Ids(known))
           t == front \o rest
           S == [id : ItemIds, score : Int]
<1>1. ReorderByRank(items, scores) = t
  BY DEF ReorderByRank
<1>2. /\ known \in Seq(S) /\ ToSet(known) = {sc \in ToSet(scores) : sc.id \in Ids(items)}
      /\ UniqueIds(known)
  BY ThoseOfIds
<1> HIDE DEF known
<1>3. /\ Ids(known) = {it.id : it \in ToSet(known)} /\ Ids(scores) = {it.id : it \in ToSet(scores)}
      /\ Ids(items) = {it.id : it \in ToSet(items)} /\ Ids(rest) = {it.id : it \in ToSet(rest)}
  BY IdsOfItems
<1>4. Ids(known) = Ids(scores) \cap Ids(items)
  BY <1>2, <1>3
<1>5. /\ rest \in Seq(ItemInfo) /\ UniqueIds(rest)
      /\ ToSet(rest) = {it \in ToSet(items) : it.id \in Ids(items) \ Ids(known)}
  BY ThoseOfIds
<1> HIDE DEF rest
<1>6. ASSUME NEW p \in DOMAIN known
      PROVE  /\ front[p] \in ItemInfo /\ front[p].id = known[p].id
             /\ front[p].id \in Ids(scores) /\ IsScored(front[p], items, scores)
  <2> DEFINE it == ItemOf(items, known[p].id)
  <2>1. known[p] \in S /\ known[p] \in ToSet(scores) /\ known[p].id \in Ids(items)
    <3>1. known[p] \in ToSet(known)
      BY <1>6 DEF ToSet
    <3> HIDE DEF S
    <3>2. known[p] \in S
      BY <1>2, <1>6
    <3> QED BY <1>2, <3>1, <3>2
  <2>2. \E x \in ToSet(items) : x.id = known[p].id
    BY <1>3, <2>1
  <2>3. it \in ToSet(items) /\ it.id = known[p].id
    BY <2>2 DEF ItemOf
  <2>4. it \in ItemInfo
    BY <2>3 DEF ToSet
  <2>5. front[p] = [it EXCEPT !.score = known[p].score]
    BY DEF WithScores
  <2> HIDE DEF it
  <2>6. /\ front[p] \in ItemInfo /\ front[p].id = it.id /\ front[p].recall = it.recall
        /\ front[p].score = known[p].score
    BY <2>1, <2>4, <2>5 DEF ItemInfo
  <2>7. known[p].id \in Ids(scores)
    BY <1>3, <2>1
  <2> HIDE DEF front
  <2>8. IsScored(front[p], items, scores)
    BY <2>1, <2>3, <2>6, <2>7 DEF IsScored
  <2> QED BY <2>3, <2>6, <2>7, <2>8
<1>7. DOMAIN front = DOMAIN known /\ DOMAIN known = 1 .. Len(known) /\ Len(known) \in Nat
  BY <1>2 DEF WithScores
<1>8. front \in Seq(ItemInfo) /\ Len(front) = Len(known)
  <2>1. front \in [1 .. Len(known) -> ItemInfo]
    <3>1. front = [p \in DOMAIN known |-> front[p]]
      BY DEF WithScores
    <3> HIDE DEF front
    <3> QED BY <1>6, <1>7, <3>1
  <2> HIDE DEF front
  <2> QED BY <1>7, <2>1, SMTT(30)
<1> HIDE DEF front
<1>9. ASSUME NEW p \in DOMAIN rest
      PROVE  /\ rest[p].id \notin Ids(scores) /\ IsScored(rest[p], items, scores)
             /\ rest[p].id \in Ids(items)
  <2>1. rest[p] \in ToSet(items) /\ rest[p].id \in Ids(items) \ Ids(known)
    BY <1>5 DEF ToSet
  <2> QED BY <1>4, <2>1 DEF IsScored
<1> DEFINE a == Len(known)
           b == Len(rest)
<1>10. /\ t \in Seq(ItemInfo) /\ DOMAIN t = 1 .. a + b /\ DOMAIN front = 1 .. a /\ DOMAIN rest = 1 .. b
       /\ \A p \in 1 .. a : t[p] = front[p]
       /\ \A p \in 1 .. a + b : p \notin 1 .. a => p - a \in 1 .. b /\ t[p] = rest[p - a]
       /\ a \in Nat /\ b \in Nat
  <2>1. front \in Seq(ItemInfo) /\ rest \in Seq(ItemInfo) /\ Len(front) = a
    BY <1>5, <1>8
  <2> DEFINE Items == Seq(ItemInfo)
  <2>2. t \in Seq(ItemInfo) /\ Len(t) = Len(front) + Len(rest) /\ a \in Nat /\ b \in Nat
    <3>1. \A x, y \in Items : x \o y \in Items /\ Len(x \o y) = Len(x) + Len(y)
      OBVIOUS
    <3>2. \A x \in Items : Len(x) \in Nat
      OBVIOUS
    <3>3. front \in Items /\ rest \in Items
      BY <2>1
    <3> HIDE DEF Items
    <3> QED BY <1>7, <3>1, <3>2, <3>3 DEF Items
  <2>3. DOMAIN t = 1 .. a + b /\ DOMAIN front = 1 .. a /\ DOMAIN rest = 1 .. b
    BY <2>1, <2>2
  <2>4. \A p \in 1 .. a : t[p] = front[p]
    BY <2>1, <2>2
  <2>5. \A p \in 1 .. a + b : p \notin 1 .. a => p - a \in 1 .. b /\ t[p] = rest[p - a]
    BY <2>1, <2>2
  <2> QED BY <2>2, <2>3, <2>4, <2>5
<1> HIDE DEF t, a, b
<1>11. \A p \in 1 .. a + b :
         IF p \in 1 .. a THEN t[p].id \in Ids(scores) ELSE t[p].id \notin Ids(scores)
  <2> TAKE p \in 1 .. a + b
  <2>1. CASE p \in 1 .. a
    BY <1>6, <1>7, <1>10, <2>1
  <2>2. CASE p \notin 1 .. a
    BY <1>9, <1>10, <2>2
  <2> QED BY <2>1, <2>2
<1>12. \A m, n \in DOMAIN t : m < n /\ t[n].id \in Ids(scores) => t[m].id \in Ids(scores)
  BY <1>10, <1>11
<1>13. \A it \in ToSet(t) : IsScored(it, items, scores)
  <2> SUFFICES ASSUME NEW p \in 1 .. a + b PROVE IsScored(t[p], items, scores)
    BY <1>10 DEF ToSet
  <2>1. CASE p \in 1 .. a
    BY <1>6, <1>7, <1>10, <2>1
  <2>2. CASE p \notin 1 .. a
    BY <1>9, <1>10, <2>2
  <2> QED BY <2>1, <2>2
<1>14. UniqueIds(t)
  <2> SUFFICES ASSUME NEW m \in 1 .. a + b, NEW n \in 1 .. a + b, t[m].id = t[n].id PROVE m = n
    BY <1>10 DEF UniqueIds
  <2>1. CASE m \in 1 .. a /\ n \in 1 .. a
    <3>1. known[m].id = known[n].id
      BY <1>6, <1>7, <1>10, <2>1
    <3> QED BY <1>2, <1>7, <1>10, <2>1, <3>1 DEF UniqueIds
  <2>2. CASE m \notin 1 .. a /\ n \notin 1 .. a
    <3>1. rest[m - a].id = rest[n - a].id /\ m - a \in DOMAIN rest /\ n - a \in DOMAIN rest
      BY <1>10, <2>2
    <3>2. m - a = n - a
      BY <1>5, <3>1 DEF UniqueIds
    <3> QED BY <1>10, <3>2
  <2> QED BY <1>11, <2>1, <2>2
<1> QED BY <1>1, <1>10, <1>12, <1>13, <1>14 DEF t

-----------------------------------------------------------------------------
(* Sums *)

\* the function Total is defined by
SumOf(s) == CHOOSE f : f = [n \in 0 .. Len(s) |-> IF n = 0 THEN 0 ELSE f[n - 1] + s[n]]

\* It adds the numbers up one by one.
LEMMA SumStep ==
  ASSUME NEW s \in Seq(Int)
  PROVE  /\ SumOf(s) \in [0 .. Len(s) -> Int] /\ SumOf(s)[0] = 0
         /\ \A n \in 1 .. Len(s) : SumOf(s)[n] = SumOf(s)[n - 1] + s[n]
<1> DEFINE L == Len(s)
           step == [p \in (1 .. L) \X Int |-> p[2] + s[p[1]]]
           Round(g) == [n \in 0 .. L |-> IF n = 0 THEN 0 ELSE g[n - 1] + s[n]]
           f == CHOOSE g : g = Round(g)
<1>1. SumOf(s) = f
  BY DEF SumOf
<1>2. L \in Nat /\ DOMAIN s = 1 .. L /\ \A n \in 1 .. L : s[n] \in Int
  OBVIOUS
<1> HIDE DEF L, Round
<1>3. step \in [(1 .. L) \X Int -> Int]
  <2>1. \A p \in (1 .. L) \X Int : p[1] \in 1 .. L /\ p[2] \in Int
    OBVIOUS
  <2> QED BY <1>2, <2>1
<1>4. \A n \in 1 .. L, x \in Int : step[<<n, x>>] = x + s[n]
  OBVIOUS
<1> HIDE DEF step
<1> DEFINE zero == 0
<1>13. zero \in Int
  OBVIOUS
<1> HIDE DEF zero
<1>5. PICK g : IsLoop(g, L, zero, step)
  BY <1>2, <1>3, <1>13, LoopFunction
<1>6. Runs(g, L, Int, zero, step)
  BY <1>2, <1>3, <1>5, <1>13, LoopStays
<1>7. /\ g \in [0 .. L -> Int] /\ g[0] = 0
      /\ \A n \in 1 .. L : g[n] = g[n - 1] + s[n]
  <2>1. g \in [0 .. L -> Int] /\ g[0] = 0 /\ \A n \in 1 .. L : g[n] = step[<<n, g[n - 1]>>]
    BY <1>6 DEF Runs, zero
  <2>2. \A n \in 1 .. L : n - 1 \in 0 .. L
    BY <1>2
  <2>3. \A n \in 1 .. L : g[n - 1] \in Int
    BY <2>1, <2>2
  <2> QED BY <1>4, <2>1, <2>3
<1>8. g = Round(g)
  <2>1. \A n \in 0 .. L : g[n] = IF n = 0 THEN 0 ELSE g[n - 1] + s[n]
    BY <1>2, <1>7
  <2>2. g = [n \in 0 .. L |-> g[n]]
    BY <1>7
  <2> QED BY <2>1, <2>2 DEF Round
<1>9. f = Round(f)
  BY <1>8
<1> HIDE DEF f
<1>10. /\ f = [n \in 0 .. L |-> f[n]] /\ f[0] = 0
       /\ \A n \in 1 .. L : f[n] = f[n - 1] + s[n]
  <2>1. f = [n \in 0 .. L |-> IF n = 0 THEN 0 ELSE f[n - 1] + s[n]]
    BY <1>9 DEF Round
  <2>2. \A n \in 0 .. L : f[n] = IF n = 0 THEN 0 ELSE f[n - 1] + s[n]
    BY <2>1
  <2>3. f = [n \in 0 .. L |-> f[n]]
    BY <2>1
  <2> QED BY <1>2, <2>2, <2>3
<1>11. \A n \in 0 .. L : f[n] \in Int
  <2> DEFINE H == {m \in 0 .. L : f[m] \in Int}
  <2>1. 0 \in H
    BY <1>2, <1>10
  <2>2. ASSUME NEW m \in 0 .. L - 1, m \in H PROVE m + 1 \in H
    <3> DEFINE j == m + 1
    <3>1. j \in 1 .. L /\ j \in 0 .. L /\ j - 1 = m
      BY <1>2
    <3> HIDE DEF j
    <3>2. f[j] = f[m] + s[j]
      BY <1>10, <3>1
    <3>3. j \in H
      BY <1>2, <2>2, <3>1, <3>2
    <3> QED BY <3>3 DEF j
  <2> HIDE DEF H
  <2>3. \A m \in 0 .. L : m \in H
    BY <1>2, <2>1, <2>2, Induction
  <2> QED BY <2>3 DEF H
<1>12. f \in [0 .. L -> Int]
  BY <1>10, <1>11
<1> QED BY <1>1, <1>10, <1>12 DEF L

\* A number more adds to the total.
LEMMA TotalGrows ==
  ASSUME NEW s \in Seq(Int), NEW x \in Int
  PROVE  Total(s) \in Int /\ Total(Append(s, x)) = Total(s) + x
<1> DEFINE t == Append(s, x)
           L == Len(s)
           f == SumOf(s)
           g == SumOf(t)
<1>1. L \in Nat /\ t \in Seq(Int) /\ Len(t) = L + 1 /\ t[L + 1] = x /\ \A n \in 1 .. L : t[n] = s[n]
  OBVIOUS
<1>2. Total(s) = f[L] /\ Total(t) = g[L + 1]
  BY <1>1 DEF Total, SumOf
<1>3. /\ f \in [0 .. L -> Int] /\ f[0] = 0 /\ \A n \in 1 .. L : f[n] = f[n - 1] + s[n]
      /\ g[0] = 0 /\ \A n \in 1 .. L + 1 : g[n] = g[n - 1] + t[n]
  BY <1>1, SumStep
<1> HIDE DEF f, g, t, L
<1> DEFINE H == {m \in 0 .. L : g[m] = f[m]}
<1>4. 0 \in H
  BY <1>1, <1>3
<1>5. ASSUME NEW m \in 0 .. L - 1, m \in H PROVE m + 1 \in H
  <2> DEFINE j == m + 1
  <2>1. j \in 1 .. L /\ j \in 1 .. L + 1 /\ j \in 0 .. L /\ j - 1 = m
    BY <1>1
  <2> HIDE DEF j
  <2>2. f[j] = f[m] + s[j] /\ g[j] = g[m] + t[j] /\ t[j] = s[j]
    BY <1>1, <1>3, <2>1
  <2>3. j \in H
    BY <1>5, <2>1, <2>2
  <2> QED BY <2>3 DEF j
<1> HIDE DEF H
<1>6. \A m \in 0 .. L : m \in H
  BY <1>1, <1>4, <1>5, Induction
<1>7. L \in 0 .. L /\ L + 1 \in 1 .. L + 1 /\ (L + 1) - 1 = L
  BY <1>1
<1>8. g[L] = f[L] /\ f[L] \in Int
  BY <1>3, <1>6, <1>7 DEF H
<1>9. g[L + 1] = g[L] + x
  BY <1>1, <1>3, <1>7
<1> QED BY <1>2, <1>8, <1>9 DEF t

LEMMA TotalOfNone == Total(<<>>) = 0
<1> DEFINE none == <<>>
<1>1. none \in Seq(Int) /\ Len(none) = 0
  OBVIOUS
<1> HIDE DEF none
<1>2. Total(none) = SumOf(none)[0]
  BY <1>1 DEF Total, SumOf
<1>3. SumOf(none)[0] = 0
  BY <1>1, SumStep
<1> QED BY <1>2, <1>3 DEF none

\* The total of positive numbers is positive, and at most as many times the
\* greatest.
LEMMA TotalBounds ==
  ASSUME NEW s \in Seq(Nat \ {0}), s # <<>>, NEW most \in Nat, \A n \in DOMAIN s : s[n] <= most
  PROVE  Total(s) \in Nat \ {0} /\ Total(s) <= Len(s) * most
<1> DEFINE L == Len(s)
           f == SumOf(s)
<1>1. s \in Seq(Int) /\ L \in Nat \ {0} /\ DOMAIN s = 1 .. L /\ \A n \in 1 .. L : s[n] \in Nat \ {0}
  OBVIOUS
<1>2. Total(s) = f[L]
  BY DEF Total, SumOf
<1>3. /\ f \in [0 .. L -> Int] /\ f[0] = 0 /\ \A n \in 1 .. L : f[n] = f[n - 1] + s[n]
  BY <1>1, SumStep
<1> HIDE DEF f, L
<1> DEFINE H == {m \in 0 .. L : m <= f[m] /\ f[m] <= m * most}
<1>4. 0 \in H
  <2>1. 0 * most = 0
    OBVIOUS
  <2> QED BY <1>1, <1>3, <2>1
<1>5. ASSUME NEW m \in 0 .. L - 1, m \in H PROVE m + 1 \in H
  <2> DEFINE j == m + 1
  <2>1. j \in 1 .. L /\ j \in 0 .. L /\ j - 1 = m /\ m \in 0 .. L /\ m \in Nat
    BY <1>1
  <2>2. j * most = m * most + most /\ m * most \in Nat
    BY <2>1, Z3
  <2>3. j = m + 1
    OBVIOUS
  <2> HIDE DEF j
  <2>4. f[j] = f[m] + s[j] /\ f[m] \in Int
    BY <1>3, <2>1
  <2>5. s[j] \in Nat \ {0} /\ s[j] <= most
    BY <1>1, <2>1
  <2>6. m <= f[m] /\ f[m] <= m * most
    BY <1>5
  <2> DEFINE a == m * most
             b == j * most
  <2>7. b = a + most /\ a \in Nat
    BY <2>2
  <2> HIDE DEF a, b
  <2>8. f[m] <= a
    BY <2>6 DEF a
  <2>9. j <= f[j] /\ f[j] <= b
    BY <2>1, <2>3, <2>4, <2>5, <2>6, <2>7, <2>8
  <2>10. j \in H
    BY <2>1, <2>9 DEF b
  <2> QED BY <2>10 DEF j
<1> HIDE DEF H
<1>6. \A m \in 0 .. L : m \in H
  BY <1>1, <1>4, <1>5, Induction
<1>7. L \in 0 .. L
  BY <1>1
<1>8. L <= f[L] /\ f[L] <= L * most /\ f[L] \in Int
  BY <1>3, <1>6, <1>7 DEF H
<1> QED BY <1>1, <1>2, <1>8 DEF L

\* The total is what any function that adds the numbers up comes to.
LEMMA TotalIs ==
  ASSUME NEW s \in Seq(Int), NEW L \in Nat, L = Len(s), NEW g \in [0 .. L -> Int], g[0] = 0,
         \A n \in 1 .. L : g[n] = g[n - 1] + s[n]
  PROVE  Total(s) = g[L]
<1> DEFINE f == SumOf(s)
<1>1. Total(s) = f[L]
  BY DEF Total, SumOf
<1>2. f[0] = 0 /\ \A n \in 1 .. L : f[n] = f[n - 1] + s[n]
  BY SumStep
<1> HIDE DEF f
<1> DEFINE H == {m \in 0 .. L : f[m] = g[m]}
<1>3. 0 \in H
  BY <1>2
<1>4. ASSUME NEW m \in 0 .. L - 1, m \in H PROVE m + 1 \in H
  <2>1. m + 1 \in 1 .. L /\ m + 1 \in 0 .. L /\ (m + 1) - 1 = m
    OBVIOUS
  <2>2. f[m + 1] = f[m] + s[m + 1] /\ g[m + 1] = g[m] + s[m + 1]
    BY <1>2, <2>1
  <2> QED BY <1>4, <2>1, <2>2
<1> HIDE DEF H
<1>5. \A m \in 0 .. L : m \in H
  BY <1>3, <1>4, Induction
<1>6. L \in H
  BY <1>5
<1> QED BY <1>1, <1>6 DEF H

\* A function on the first numbers is a sequence of its values.
LEMMA NumbersListed ==
  ASSUME NEW L \in Nat, NEW u, u = [n \in 1 .. L |-> u[n]], \A n \in 1 .. L : u[n] \in Int
  PROVE  u \in Seq(Int) /\ Len(u) = L /\ DOMAIN u = 1 .. L
OBVIOUS

\* Totals add up place by place.
LEMMA TotalsAdd ==
  ASSUME NEW s \in Seq(Int), NEW t \in Seq(Int), Len(s) = Len(t),
         NEW u, u = [n \in 1 .. Len(s) |-> s[n] + t[n]]
  PROVE  Total(u) = Total(s) + Total(t)
<1> DEFINE L == Len(s)
           f == SumOf(s)
           h == SumOf(t)
           g == [n \in 0 .. L |-> f[n] + h[n]]
<1>1. /\ L \in Nat /\ L = Len(t)
      /\ \A n \in 1 .. L : s[n] \in Int /\ t[n] \in Int /\ u[n] = s[n] + t[n]
  OBVIOUS
<1>2. /\ f \in [0 .. L -> Int] /\ f[0] = 0 /\ \A n \in 1 .. L : f[n] = f[n - 1] + s[n]
      /\ h \in [0 .. L -> Int] /\ h[0] = 0 /\ \A n \in 1 .. L : h[n] = h[n - 1] + t[n]
  BY SumStep
<1>3. Total(s) = f[L] /\ Total(t) = h[L]
  BY DEF Total, SumOf
<1>4. u \in Seq(Int) /\ Len(u) = L
  <2>1. u = [n \in 1 .. L |-> u[n]] /\ \A n \in 1 .. L : u[n] \in Int
    BY <1>1
  <2> QED BY <1>1, <2>1, NumbersListed
<1> HIDE DEF L, f, h
<1>5. g \in [0 .. L -> Int] /\ g[0] = 0 /\ g[L] = f[L] + h[L]
  BY <1>1, <1>2
<1>6. \A n \in 1 .. L : n \in 0 .. L /\ n - 1 \in 0 .. L
  BY <1>1
<1>7. ASSUME NEW n \in 1 .. L PROVE g[n] = g[n - 1] + u[n]
  <2>1. g[n] = f[n] + h[n] /\ g[n - 1] = f[n - 1] + h[n - 1]
    BY <1>6
  <2>2. f[n - 1] \in Int /\ h[n - 1] \in Int
    BY <1>2, <1>6
  <2> QED BY <1>1, <1>2, <2>1, <2>2
<1> HIDE DEF g
<1>8. Total(u) = g[L]
  BY <1>1, <1>4, <1>5, <1>7, TotalIs
<1> QED BY <1>3, <1>5, <1>8

\* A factor of all is one of the total.
LEMMA TotalTimes ==
  ASSUME NEW s \in Seq(Int), NEW a \in Int, NEW u, u = [n \in 1 .. Len(s) |-> a * s[n]]
  PROVE  Total(u) = a * Total(s)
<1> DEFINE L == Len(s)
           f == SumOf(s)
           g == [n \in 0 .. L |-> a * f[n]]
<1>1. L \in Nat /\ \A n \in 1 .. L : s[n] \in Int /\ u[n] = a * s[n]
  OBVIOUS
<1>2. f \in [0 .. L -> Int] /\ f[0] = 0 /\ \A n \in 1 .. L : f[n] = f[n - 1] + s[n]
  BY SumStep
<1>3. Total(s) = f[L]
  BY DEF Total, SumOf
<1>4. u \in Seq(Int) /\ Len(u) = L
  <2>1. u = [n \in 1 .. L |-> u[n]] /\ \A n \in 1 .. L : u[n] \in Int
    BY <1>1
  <2> QED BY <1>1, <2>1, NumbersListed
<1> HIDE DEF L, f
<1>5. g \in [0 .. L -> Int] /\ g[0] = 0 /\ g[L] = a * f[L]
  BY <1>1, <1>2
<1>6. \A n \in 1 .. L : n \in 0 .. L /\ n - 1 \in 0 .. L
  BY <1>1
<1>7. ASSUME NEW n \in 1 .. L PROVE g[n] = g[n - 1] + u[n]
  <2>1. g[n] = a * f[n] /\ g[n - 1] = a * f[n - 1]
    BY <1>6
  <2>2. f[n - 1] \in Int /\ s[n] \in Int /\ f[n] = f[n - 1] + s[n] /\ u[n] = a * s[n]
    BY <1>1, <1>2, <1>6
  <2> DEFINE x == f[n - 1]
             y == s[n]
  <2>3. x \in Int /\ y \in Int /\ f[n] = x + y
    BY <2>2
  <2> HIDE DEF x, y
  <2>4. a * (x + y) = (a * x) + (a * y)
    BY <2>3, Z3
  <2> QED BY <2>1, <2>2, <2>3, <2>4 DEF x, y
<1> HIDE DEF g
<1>8. Total(u) = g[L]
  BY <1>1, <1>4, <1>5, <1>7, TotalIs
<1> QED BY <1>3, <1>5, <1>8

\* A number that is left out is taken off the total.
LEMMA TotalBut ==
  ASSUME NEW s \in Seq(Int), NEW k \in 1 .. Len(s),
         NEW u, u = [n \in 1 .. Len(s) |-> IF k = n THEN 0 ELSE s[n]]
  PROVE  Total(u) = Total(s) - s[k]
<1> DEFINE L == Len(s)
           f == SumOf(s)
           x == s[k]
           g == [n \in 0 .. L |-> IF n < k THEN f[n] ELSE f[n] - x]
<1>1. /\ L \in Nat /\ k \in 1 .. L /\ x \in Int
      /\ \A n \in 1 .. L : s[n] \in Int /\ u[n] = IF k = n THEN 0 ELSE s[n]
  OBVIOUS
<1>2. f \in [0 .. L -> Int] /\ f[0] = 0 /\ \A n \in 1 .. L : f[n] = f[n - 1] + s[n]
  BY SumStep
<1>3. Total(s) = f[L]
  BY DEF Total, SumOf
<1>4. u \in Seq(Int) /\ Len(u) = L
  <2>1. u = [n \in 1 .. L |-> u[n]] /\ \A n \in 1 .. L : u[n] \in Int
    BY <1>1
  <2> QED BY <1>1, <2>1, NumbersListed
<1> HIDE DEF L, f
<1>5. g \in [0 .. L -> Int] /\ g[0] = 0 /\ g[L] = f[L] - x
  BY <1>1, <1>2
<1>6. \A n \in 1 .. L : n \in 0 .. L /\ n - 1 \in 0 .. L
  BY <1>1
<1>7. ASSUME NEW n \in 1 .. L PROVE g[n] = g[n - 1] + u[n]
  <2>1. /\ g[n] = IF n < k THEN f[n] ELSE f[n] - x
        /\ g[n - 1] = IF n - 1 < k THEN f[n - 1] ELSE f[n - 1] - x
    BY <1>6
  <2>2. f[n - 1] \in Int /\ s[n] \in Int /\ f[n] = f[n - 1] + s[n]
    BY <1>1, <1>2, <1>6
  <2>3. u[n] = IF k = n THEN 0 ELSE s[n]
    BY <1>1
  <2>4. n = k => s[n] = x
    OBVIOUS
  <2> HIDE DEF g, x
  <2> QED BY <1>1, <2>1, <2>2, <2>3, <2>4
<1> HIDE DEF g
<1>8. Total(u) = g[L]
  BY <1>1, <1>4, <1>5, <1>7, TotalIs
<1> QED BY <1>3, <1>5, <1>8

\* When a front of numbers that are not negative has all the total, the others
\* are 0.
LEMMA FrontHasTotal ==
  ASSUME NEW s \in Seq(Nat), NEW r \in 0 .. Len(s), Total([n \in 1 .. r |-> s[n]]) = Total(s)
  PROVE  \A n \in DOMAIN s : n > r => s[n] = 0
<1> DEFINE L == Len(s)
           f == SumOf(s)
           t == [n \in 1 .. r |-> s[n]]
           g == [n \in 0 .. r |-> f[n]]
<1>1. /\ s \in Seq(Int) /\ L \in Nat /\ r \in Nat /\ r <= L /\ DOMAIN s = 1 .. L
      /\ \A n \in 1 .. L : s[n] \in Nat
  OBVIOUS
<1>2. f \in [0 .. L -> Int] /\ f[0] = 0 /\ \A n \in 1 .. L : f[n] = f[n - 1] + s[n]
  BY <1>1, SumStep
<1>3. Total(s) = f[L]
  BY DEF Total, SumOf
<1> HIDE DEF L, f
<1>4. t \in Seq(Int) /\ Len(t) = r
  <2>1. t = [n \in 1 .. r |-> t[n]] /\ \A n \in 1 .. r : t[n] \in Int
    BY <1>1
  <2> QED BY <1>1, <2>1, NumbersListed
<1>5. g \in [0 .. r -> Int] /\ g[0] = 0 /\ g[r] = f[r]
  BY <1>1, <1>2
<1>6. \A n \in 1 .. r : g[n] = g[n - 1] + t[n]
  <2>1. \A n \in 1 .. r : n \in 1 .. L /\ n \in 0 .. r /\ n - 1 \in 0 .. r
    BY <1>1
  <2> QED BY <1>2, <2>1
<1> HIDE DEF g
<1>7. f[r] = f[L]
  <2>1. Total(t) = g[r]
    BY <1>1, <1>4, <1>5, <1>6, TotalIs
  <2> QED BY <1>3, <1>5, <2>1
<1> HIDE DEF t
<1>8. ASSUME NEW i \in 0 .. L PROVE \A m \in 0 .. L : i <= m => f[i] <= f[m]
  <2> DEFINE H == {m \in 0 .. L : i <= m => f[i] <= f[m]}
  <2>1. 0 \in H
    <3>1. i <= 0 => i = 0
      OBVIOUS
    <3>2. f[0] <= f[0]
      BY <1>2
    <3> QED BY <1>1, <3>1, <3>2
  <2>2. ASSUME NEW m \in 0 .. L - 1, m \in H PROVE m + 1 \in H
    <3>1. m + 1 \in 1 .. L /\ m + 1 \in 0 .. L /\ (m + 1) - 1 = m /\ m \in 0 .. L
      BY <1>1
    <3>2. f[m + 1] = f[m] + s[m + 1] /\ s[m + 1] \in Nat /\ f[m] \in Int /\ f[i] \in Int
      BY <1>1, <1>2, <3>1
    <3>3. i <= m + 1 => i <= m \/ i = m + 1
      OBVIOUS
    <3>4. i <= m => f[i] <= f[m]
      BY <2>2
    <3>5. i <= m + 1 => f[i] <= f[m + 1]
      <4>1. CASE i <= m
        BY <3>2, <3>4, <4>1
      <4>2. CASE i = m + 1
        BY <3>2, <4>2
      <4> QED BY <3>3, <4>1, <4>2
    <3> QED BY <3>1, <3>5
  <2> HIDE DEF H
  <2>3. \A m \in 0 .. L : m \in H
    BY <1>1, <2>1, <2>2, Induction
  <2> QED BY <2>3 DEF H
<1>9. ASSUME NEW n \in 1 .. L, n > r PROVE s[n] = 0
  <2>1. n - 1 \in 0 .. L /\ n \in 0 .. L /\ r \in 0 .. L /\ L \in 0 .. L /\ r <= n - 1 /\ n <= L
    BY <1>1, <1>9
  <2>2. f[r] <= f[n - 1] /\ f[n] <= f[L] /\ f[n] = f[n - 1] + s[n]
    BY <1>2, <1>8, <2>1
  <2>3. f[n - 1] \in Int /\ s[n] \in Nat /\ f[L] \in Int
    BY <1>1, <1>2, <2>1
  <2> QED BY <1>7, <2>2, <2>3
<1> QED BY <1>1, <1>9

\* The sum over all ordered pairs of places is the square of the sum less the
\* sum of the squares.
LEMMA PairsOf ==
  ASSUME NEW x \in Seq(Int)
  PROVE  Total([p \in DOMAIN x |-> Total([q \in DOMAIN x |-> IF p = q THEN 0 ELSE x[p] * x[q]])])
           = (Total(x) * Total(x)) - Total([p \in DOMAIN x |-> x[p] * x[p]])
<1> DEFINE L == Len(x)
           V == Total(x)
           full(p) == [q \in 1 .. L |-> x[p] * x[q]]
           row(p) == [q \in 1 .. L |-> IF p = q THEN 0 ELSE x[p] * x[q]]
           inner == [p \in 1 .. L |-> Total(row(p))]
           sq == [p \in 1 .. L |-> x[p] * x[p]]
           u == [p \in 1 .. L |-> V * x[p]]
<1>1. L \in Nat /\ DOMAIN x = 1 .. L /\ \A p \in 1 .. L : x[p] \in Int
  OBVIOUS
<1>2. V \in Int
  <2> DEFINE zero == 0
  <2>1. zero \in Int
    OBVIOUS
  <2> HIDE DEF zero
  <2> QED BY <2>1, TotalGrows
<1> HIDE DEF V
<1>3. ASSUME NEW p \in 1 .. L
      PROVE  Total(row(p)) \in Int /\ Total(row(p)) = (x[p] * V) - (x[p] * x[p])
  <2>1. \A q \in 1 .. L : x[p] * x[q] \in Int
    BY <1>1
  <2>2. full(p) \in Seq(Int) /\ Len(full(p)) = L
    <3>1. full(p) = [q \in 1 .. L |-> full(p)[q]] /\ \A q \in 1 .. L : full(p)[q] \in Int
      BY <2>1
    <3> HIDE DEF full
    <3> QED BY <1>1, <3>1, NumbersListed
  <2>3. Total(full(p)) = x[p] * V
    <3> DEFINE a == x[p]
    <3>1. a \in Int
      BY <1>1
    <3> HIDE DEF a
    <3>2. Total([q \in 1 .. Len(x) |-> a * x[q]]) = a * Total(x)
      BY <3>1, TotalTimes
    <3> QED BY <3>2 DEF a, V
  <2>4. row(p) = [q \in 1 .. L |-> IF p = q THEN 0 ELSE full(p)[q]] /\ full(p)[p] = x[p] * x[p]
    BY <1>1
  <2> DEFINE f == full(p)
             r == row(p)
  <2>5. f \in Seq(Int) /\ p \in 1 .. Len(f) /\ r = [q \in 1 .. Len(f) |-> IF p = q THEN 0 ELSE f[q]]
    BY <2>2, <2>4
  <2>6. Total(f) \in Int /\ f[p] \in Int
    BY <1>1, <1>2, <2>1, <2>3, <2>4
  <2> HIDE DEF f, r
  <2>7. Total(r) = Total(f) - f[p]
    BY <2>5, TotalBut
  <2>8. Total(r) \in Int
    BY <2>6, <2>7
  <2> QED BY <2>3, <2>4, <2>7, <2>8 DEF f, r
<1> HIDE DEF row, full
<1>4. /\ inner \in Seq(Int) /\ Len(inner) = L /\ DOMAIN inner = 1 .. L
      /\ \A p \in 1 .. L : inner[p] = (x[p] * V) - (x[p] * x[p])
  <2>1. inner = [p \in 1 .. L |-> inner[p]] /\ \A p \in 1 .. L : inner[p] \in Int
    BY <1>3
  <2>2. \A p \in 1 .. L : inner[p] = (x[p] * V) - (x[p] * x[p])
    BY <1>3
  <2> HIDE DEF inner
  <2> QED BY <1>1, <2>1, <2>2, NumbersListed
<1>5. /\ sq \in Seq(Int) /\ Len(sq) = L
      /\ \A p \in 1 .. L : sq[p] = x[p] * x[p]
  <2>1. sq = [p \in 1 .. L |-> sq[p]] /\ \A p \in 1 .. L : sq[p] \in Int
    BY <1>1
  <2>2. \A p \in 1 .. L : sq[p] = x[p] * x[p]
    OBVIOUS
  <2> HIDE DEF sq
  <2> QED BY <1>1, <2>1, <2>2, NumbersListed
<1>6. Total(u) = V * V
  <2>1. u = [p \in 1 .. Len(x) |-> V * x[p]]
    OBVIOUS
  <2> QED BY <1>2, <2>1, TotalTimes DEF V
<1>7. u = [p \in 1 .. Len(inner) |-> inner[p] + sq[p]]
  <2>1. ASSUME NEW p \in 1 .. L PROVE V * x[p] = inner[p] + sq[p]
    <3> DEFINE y == x[p]
               a == y * V
               b == y * y
    <3>1. y \in Int
      BY <1>1
    <3>2. a \in Int /\ b \in Int /\ V * y = a
      BY <1>2, <3>1, Z3
    <3>3. inner[p] = a - b /\ sq[p] = b
      BY <1>4, <1>5
    <3> HIDE DEF a, b
    <3>4. V * y = inner[p] + sq[p]
      BY <3>2, <3>3
    <3> QED BY <3>4
  <2> HIDE DEF inner, sq
  <2> QED BY <1>4, <2>1
<1> HIDE DEF inner, sq, u, L
<1>8. Total(u) = Total(inner) + Total(sq)
  BY <1>4, <1>5, <1>7, TotalsAdd
<1>9. Total(inner) \in Int /\ Total(sq) \in Int
  <2> DEFINE zero == 0
  <2>1. zero \in Int
    OBVIOUS
  <2> HIDE DEF zero
  <2> QED BY <1>4, <1>5, <2>1, TotalGrows
<1>10. Total(inner) = (V * V) - Total(sq)
  <2> DEFINE w == V * V
  <2>1. w \in Int /\ w = Total(inner) + Total(sq)
    BY <1>2, <1>6, <1>8, Z3
  <2> HIDE DEF w
  <2>2. Total(inner) = w - Total(sq)
    BY <1>9, <2>1
  <2> QED BY <2>2 DEF w
<1> QED BY <1>1, <1>10 DEF inner, sq, row, V

=============================================================================
