-------------------------- MODULE RecallLanesProofs --------------------------
(***************************************************************************)
(* A lane divides its budget among the tags of the user by their weights   *)
(* and begins with the heaviest; a lane of the user shows the newest of    *)
(* what is fresh; no lane answers with more than it may, and Redis never   *)
(* ends a request: for every configuration and whatever Redis says.        *)
(***************************************************************************)
EXTENDS RecallLanes, ListProofs

-----------------------------------------------------------------------------
(* Parts *)

\* A quotient follows what is divided.
LEMMA DivOrder ==
  ASSUME NEW a \in Nat, NEW b \in Nat, NEW d \in Nat \ {0}
  PROVE  /\ a \div d \in Nat
         /\ a <= b => a \div d <= b \div d
         /\ d <= a => 1 <= a \div d
<1> DEFINE q == a \div d
           r == b \div d
<1>1. q \in Int /\ r \in Int /\ d * q <= a /\ a < d * q + d /\ d * r <= b /\ b < d * r + d
  BY Z3
<1> HIDE DEF q, r
<1>2. ASSUME NEW x \in Int, NEW y \in Int, x < y PROVE d * x + d <= d * y
  BY <1>2, Z3
<1>3. d * (-1) + d = 0 /\ d * 0 = 0 /\ d * q \in Int /\ d * r \in Int
  BY <1>1, Z3
<1>4. q >= 0
  <2>1. ASSUME q < 0 PROVE FALSE
    <3>1. d * q + d <= d * 0
      BY <1>1, <1>2, <2>1
    <3> QED BY <1>1, <1>3, <3>1
  <2> QED BY <1>1, <2>1
<1>5. ASSUME a <= b PROVE q <= r
  <2>1. ASSUME r < q PROVE FALSE
    <3>1. d * r + d <= d * q
      BY <1>1, <1>2, <2>1
    <3> QED BY <1>1, <1>3, <1>5, <3>1
  <2> QED BY <1>1, <2>1
<1>6. ASSUME d <= a PROVE 1 <= q
  <2>1. ASSUME q = 0 PROVE FALSE
    BY <1>1, <1>3, <1>6, <2>1
  <2> QED BY <1>1, <1>4, <2>1
<1> QED BY <1>1, <1>4, <1>5, <1>6 DEF q, r
\* Some weights, none of them 0, have a total that is not 0.
LEMMA TotalIsPositive ==
  ASSUME NEW weights \in Seq(Nat \ {0}), NEW n \in 1 .. Len(weights)
  PROVE  Total(weights) \in Nat \ {0}
<1> DEFINE L == Len(weights)
           H == {m \in 0 .. L : \E most \in Nat : \A p \in 1 .. m : weights[p] <= most}
<1>1. /\ weights # <<>> /\ L \in Nat /\ DOMAIN weights = 1 .. L
      /\ \A p \in 1 .. L : weights[p] \in Nat \ {0}
  OBVIOUS
<1> HIDE DEF L
<1>2. 0 \in H
  <2>1. \A p \in 1 .. 0 : weights[p] <= 0
    OBVIOUS
  <2> QED BY <1>1, <2>1
<1>3. ASSUME NEW m \in 0 .. L - 1, m \in H PROVE m + 1 \in H
  <2>1. PICK most \in Nat : \A p \in 1 .. m : weights[p] <= most
    BY <1>3
  <2>2. m + 1 \in 0 .. L /\ m + 1 \in 1 .. L /\ \A p \in 1 .. m : p \in 1 .. L
    BY <1>1
  <2>3. weights[m + 1] \in Nat /\ \A p \in 1 .. m : weights[p] \in Nat
    BY <1>1, <2>2
  <2>4. \A p \in 1 .. m + 1 : weights[p] <= most + weights[m + 1]
    <3>1. \A p \in 1 .. m + 1 : p = m + 1 \/ p \in 1 .. m
      BY <1>1
    <3> QED BY <2>1, <2>3, <3>1
  <2>5. most + weights[m + 1] \in Nat
    BY <2>3
  <2> QED BY <2>2, <2>4, <2>5
<1> HIDE DEF H
<1>4. \A m \in 0 .. L : m \in H
  BY <1>1, <1>2, <1>3, Induction
<1>5. L \in 0 .. L
  BY <1>1
<1>6. PICK most \in Nat : \A p \in 1 .. L : weights[p] <= most
  BY <1>4, <1>5 DEF H
<1>7. \A p \in DOMAIN weights : weights[p] <= most
  BY <1>1, <1>6
<1> QED BY <1>1, <1>7, TotalBounds

\* The least of three numbers.
LEMMA LeastOfThree ==
  ASSUME NEW a \in Int, NEW b \in Int, NEW c \in Int
  PROVE  LET m == Min({a, b, c}) IN m \in {a, b, c} /\ m <= a /\ m <= b /\ m <= c
<1> DEFINE S == {a, b, c}
<1>1. \E x \in S : \A y \in S : x <= y
  <2>1. CASE a <= b /\ a <= c
    BY <2>1
  <2>2. CASE b <= a /\ b <= c
    BY <2>2
  <2>3. CASE c <= a /\ c <= b
    BY <2>3
  <2> QED BY <2>1, <2>2, <2>3
<1>2. Min(S) \in S /\ \A y \in S : Min(S) <= y
  BY <1>1 DEF Min
<1> QED BY <1>2

\* A part is a natural number, larger for a larger weight, and at least 1 when
\* the weight is no less than half of an even share.
LEMMA PartIsFair ==
  ASSUME NEW v \in Nat, NEW w \in Nat, NEW sum \in Nat \ {0}, NEW budget \in Nat
  PROVE  /\ Rounded(w, sum, budget) \in Nat
         /\ v <= w => Rounded(v, sum, budget) <= Rounded(w, sum, budget)
         /\ sum <= 2 * (w * budget) => Rounded(w, sum, budget) >= 1
<1> DEFINE a == v * budget
           b == w * budget
<1>1. /\ a \in Nat /\ b \in Nat /\ (v <= w => a <= b)
      /\ 2 * v * budget = 2 * a /\ 2 * w * budget = 2 * b
  BY Z3
<1>2. Rounded(v, sum, budget) = (2 * a + sum) \div (2 * sum) /\ Rounded(w, sum, budget) = (2 * b + sum) \div (2 * sum)
  BY <1>1 DEF Rounded
<1>3. sum <= 2 * (w * budget) <=> sum <= 2 * b
  OBVIOUS
<1> HIDE DEF a, b
<1> DEFINE c == 2 * a + sum
           d == 2 * b + sum
           e == 2 * sum
<1>4. c \in Nat /\ d \in Nat /\ e \in Nat \ {0} /\ (v <= w => c <= d) /\ (sum <= 2 * b => e <= d)
  BY <1>1
<1>5. Rounded(v, sum, budget) = c \div e /\ Rounded(w, sum, budget) = d \div e
  BY <1>2
<1> HIDE DEF c, d, e
<1>6. d \div e \in Nat /\ (e <= d => 1 <= d \div e)
  BY <1>4, DivOrder
<1>7. c <= d => c \div e <= d \div e
  BY <1>4, DivOrder
<1> QED BY <1>3, <1>4, <1>5, <1>6, <1>7

\* what the tags before the n-th got: within the budget, the more the heavier;
\* whoever got less than the weight and the cap allow got the last of it
Fair(g, n, weights, budget) ==
  /\ g \in Seq(Nat) /\ Len(g) = n /\ Total(g) \in Nat /\ Total(g) <= budget
  /\ \A p \in 1 .. n : \/ g[p] >= Rounded(weights[p], Total(weights), budget)
                       \/ g[p] >= ShareCap \/ Total(g) = budget
  /\ \A p, q \in 1 .. n : p < q /\ weights[p] >= weights[q] => g[p] >= g[q]
  /\ n >= 1 => g[1] = Min({Rounded(weights[1], Total(weights), budget), ShareCap, budget})

\* the next share
Share(weights, budget, n, g) ==
  Min({Rounded(weights[n], Total(weights), budget), ShareCap, Remaining(g, budget)})

LEMMA FairShare ==
  ASSUME NEW weights \in Seq(Nat \ {0}), NEW budget \in Nat, NEW n \in 1 .. Len(weights),
         NEW g, Fair(g, n - 1, weights, budget)
  PROVE  Fair(Append(g, Share(weights, budget, n, g)), n, weights, budget)
<1> DEFINE x == Share(weights, budget, n, g)
           t == Append(g, x)
           T == Total(weights)
           r == Total(g)
           R(p) == Rounded(weights[p], T, budget)
<1>1. /\ n \in Nat \ {0} /\ \A p \in 1 .. n : p \in 1 .. Len(weights)
      /\ \A p \in 1 .. Len(weights) : weights[p] \in Nat \ {0}
  OBVIOUS
<1>2. T \in Nat \ {0}
  BY TotalIsPositive
<1>3. /\ g \in Seq(Nat) /\ Len(g) = n - 1 /\ r \in Nat /\ r <= budget
      /\ \A p \in 1 .. n - 1 : g[p] >= R(p) \/ g[p] >= ShareCap \/ r = budget
      /\ \A p, q \in 1 .. n - 1 : p < q /\ weights[p] >= weights[q] => g[p] >= g[q]
      /\ n - 1 >= 1 => g[1] = Min({R(1), ShareCap, budget})
  BY DEF Fair
<1>4. ShareCap \in Nat \ {0}
  BY UserAssumption
<1>5. \A p \in 1 .. n : R(p) \in Nat
  BY <1>1, <1>2, PartIsFair
<1>6. \A p \in 1 .. n : weights[p] >= weights[n] => R(p) >= R(n)
  <2>1. SUFFICES ASSUME NEW p \in 1 .. n, weights[n] <= weights[p] PROVE R(n) <= R(p)
    BY <1>1, <1>5
  <2> QED BY <1>1, <1>2, <2>1, PartIsFair
<1>7. x \in {R(n), ShareCap, budget - r} /\ x <= R(n) /\ x <= ShareCap /\ x <= budget - r
  <2>1. budget - r \in Int /\ R(n) \in Int /\ ShareCap \in Int
    BY <1>1, <1>3, <1>4, <1>5
  <2>2. x = Min({R(n), ShareCap, budget - r})
    BY DEF Share, Remaining
  <2> HIDE DEF x, R, r
  <2> QED BY <2>1, <2>2, LeastOfThree
<1> HIDE DEF R, T
<1>8. x \in Nat
  BY <1>1, <1>3, <1>4, <1>5, <1>7
<1>9. /\ t \in Seq(Nat) /\ Len(t) = n /\ t[n] = x /\ \A p \in 1 .. n - 1 : t[p] = g[p]
  BY <1>3, <1>8
<1>10. Total(t) = r + x
  <2>1. g \in Seq(Int) /\ x \in Int
    BY <1>3, <1>8
  <2> QED BY <2>1, TotalGrows
<1>11. n = 1 => t[1] = Min({R(1), ShareCap, budget})
  <2>1. SUFFICES ASSUME n = 1 PROVE t[1] = Min({R(1), ShareCap, budget})
    OBVIOUS
  <2>2. g = <<>>
    BY <1>3, <2>1
  <2>3. r = 0
    BY <2>2, TotalOfNone
  <2>4. budget - r = budget
    BY <2>3
  <2> QED BY <1>9, <2>1, <2>4 DEF Share, Remaining, R, T
<1> HIDE DEF x, t, r
<1>12. Total(t) \in Nat /\ Total(t) <= budget
  BY <1>3, <1>7, <1>8, <1>10
<1>13. \A p \in 1 .. n - 1 : g[p] \in Nat
  BY <1>1, <1>3, SMTT(30)
<1>14. \A p \in 1 .. n : p = n \/ p \in 1 .. n - 1
  BY <1>1
<1>15. ASSUME NEW p \in 1 .. n PROVE t[p] >= R(p) \/ t[p] >= ShareCap \/ Total(t) = budget
  <2>1. CASE p = n
    BY <1>3, <1>4, <1>5, <1>7, <1>8, <1>9, <1>10, <2>1
  <2>2. CASE p \in 1 .. n - 1
    <3>1. r = budget => Total(t) = budget
      BY <1>3, <1>8, <1>10, <1>12
    <3> QED BY <1>3, <1>9, <2>2, <3>1
  <2> QED BY <1>14, <2>1, <2>2
<1>16. ASSUME NEW p \in 1 .. n, NEW q \in 1 .. n, p < q, weights[p] >= weights[q]
       PROVE  t[p] >= t[q]
  <2>1. p \in 1 .. n - 1 /\ p # n
    BY <1>1, <1>16
  <2>2. CASE q = n
    <3>1. t[p] = g[p] /\ t[q] = x /\ g[p] \in Nat
      BY <1>9, <1>13, <2>1, <2>2
    <3>2. CASE g[p] >= R(p)
      <4>1. R(p) >= R(n)
        BY <1>6, <1>16, <2>2
      <4>2. R(p) \in Nat /\ R(n) \in Nat
        BY <1>1, <1>5
      <4> QED BY <1>7, <1>8, <3>1, <3>2, <4>1, <4>2
    <3>3. CASE g[p] >= ShareCap
      BY <1>4, <1>7, <1>8, <3>1, <3>3
    <3>4. CASE r = budget
      BY <1>3, <1>7, <1>8, <3>1, <3>4
    <3> QED BY <1>3, <2>1, <3>2, <3>3, <3>4
  <2>3. CASE q \in 1 .. n - 1
    BY <1>3, <1>9, <1>16, <2>1, <2>3
  <2> QED BY <1>14, <2>2, <2>3
<1>17. n >= 1 => t[1] = Min({R(1), ShareCap, budget})
  <2>1. n # 1 => 1 \in 1 .. n - 1 /\ n - 1 >= 1
    BY <1>1
  <2>2. n # 1 => t[1] = g[1]
    BY <1>9, <2>1
  <2> QED BY <1>3, <1>11, <2>1, <2>2
<1> QED BY <1>9, <1>12, <1>15, <1>16, <1>17 DEF Fair, R, T, t, x

\* The shares of a lane are fair, and the first one is at least 1 unless there
\* are more than twice as many tags as places.
LEMMA Allocated ==
  ASSUME NEW weights \in Seq(Nat \ {0}), weights # <<>>, NEW budget \in Nat \ {0}
  PROVE  LET s == AllocateTagRecallCounts(weights, budget)
         IN  /\ s \in Seq(Nat) /\ Len(s) = Len(weights) /\ Total(s) <= budget
             /\ \A p, q \in 1 .. Len(s) : p < q /\ weights[p] >= weights[q] => s[p] >= s[q]
             /\ /\ \A p \in DOMAIN weights : weights[p] <= weights[1]
                /\ Len(weights) <= 2 * budget
                => s[1] >= 1
<1> DEFINE L == Len(weights)
           After(n, g) == Append(g, Share(weights, budget, n, g))
           step == [p \in (1 .. L) \X Seq(Int) |-> After(p[1], p[2])]
           Round(h) == [n \in 0 .. L |-> IF n = 0 THEN <<>>
                          ELSE Append(h[n - 1],
                                 Min({Rounded(weights[n], Total(weights), budget), ShareCap,
                                      Remaining(h[n - 1], budget)}))]
           f == CHOOSE h : h = Round(h)
           none == <<>>
<1>1. AllocateTagRecallCounts(weights, budget) = f[L]
  BY DEF AllocateTagRecallCounts
<1>2. L \in Nat \ {0} /\ weights \in Seq(Int) /\ DOMAIN weights = 1 .. L
  OBVIOUS
<1>3. none \in Seq(Int) /\ none \in Seq(Nat) /\ Len(none) = 0
  OBVIOUS
<1>4. \A h : Round(h) = [n \in 0 .. L |-> IF n = 0 THEN none ELSE After(n, h[n - 1])]
  BY DEF Share
<1>5. ASSUME NEW n \in 1 .. L, NEW g \in Seq(Int) PROVE After(n, g) \in Seq(Int)
  <2> DEFINE R == Rounded(weights[n], Total(weights), budget)
             m == Remaining(g, budget)
  <2>1. weights[n] \in Int /\ Total(weights) \in Int /\ Total(g) \in Int
    BY <1>2, TotalGrows
  <2>2. R \in Int
    <3>1. weights[n] \in Nat \ {0} /\ Total(weights) \in Nat \ {0}
      <4> SUFFICES Total(weights) \in Nat \ {0}
        OBVIOUS
      <4> QED BY TotalIsPositive
    <3>2. weights[n] \in Nat /\ budget \in Nat
      BY <3>1
    <3>3. R \in Nat
      BY <3>1, <3>2, PartIsFair
    <3> QED BY <3>3
  <2>3. m \in Int
    BY <2>1 DEF Remaining
  <2>4. ShareCap \in Int
    BY UserAssumption
  <2>5. Share(weights, budget, n, g) = Min({R, ShareCap, m})
    BY DEF Share
  <2> HIDE DEF R, m
  <2>7. Min({R, ShareCap, m}) \in {R, ShareCap, m}
    BY <2>2, <2>3, <2>4, LeastOfThree
  <2>6. Share(weights, budget, n, g) \in Int
    BY <2>2, <2>3, <2>4, <2>5, <2>7
  <2> QED BY <2>6
<1> HIDE DEF L, After, Round
<1>6. step \in [(1 .. L) \X Seq(Int) -> Seq(Int)]
  <2>1. \A p \in (1 .. L) \X Seq(Int) : p[1] \in 1 .. L /\ p[2] \in Seq(Int)
    OBVIOUS
  <2> QED BY <1>5, <2>1
<1>7. \A n \in 1 .. L, g \in Seq(Int) : step[<<n, g>>] = After(n, g)
  OBVIOUS
<1> HIDE DEF step, none
<1>8. PICK h : IsLoop(h, L, none, step)
  BY <1>2, <1>3, <1>6, LoopFunction
<1>9. Runs(h, L, Seq(Int), none, step)
  BY <1>2, <1>3, <1>6, <1>8, LoopStays
<1>10. /\ h \in [0 .. L -> Seq(Int)] /\ h[0] = none
       /\ \A n \in 1 .. L : h[n] = After(n, h[n - 1])
  <2>1. h \in [0 .. L -> Seq(Int)] /\ h[0] = none /\ \A n \in 1 .. L : h[n] = step[<<n, h[n - 1]>>]
    BY <1>9 DEF Runs
  <2>2. \A n \in 1 .. L : n - 1 \in 0 .. L
    BY <1>2
  <2>3. \A n \in 1 .. L : h[n - 1] \in Seq(Int)
    BY <2>1, <2>2
  <2> QED BY <1>7, <2>1, <2>3
<1>11. h = [n \in 0 .. L |-> IF n = 0 THEN none ELSE After(n, h[n - 1])]
  <2>1. \A n \in 0 .. L : h[n] = IF n = 0 THEN none ELSE After(n, h[n - 1])
    BY <1>2, <1>10
  <2>2. h = [n \in 0 .. L |-> h[n]]
    BY <1>10
  <2> QED BY <2>1, <2>2
<1>12. f = [n \in 0 .. L |-> IF n = 0 THEN none ELSE After(n, f[n - 1])]
  <2>1. h = Round(h)
    BY <1>4, <1>11
  <2>2. f = Round(f)
    BY <2>1
  <2> QED BY <1>4, <2>2
<1> HIDE DEF f
<1>13. f[0] = none /\ \A n \in 1 .. L : f[n] = After(n, f[n - 1])
  BY <1>2, <1>12
<1> DEFINE H == {n \in 0 .. L : Fair(f[n], n, weights, budget)}
<1>14. 0 \in H
  <2>1. Total(none) = 0
    BY TotalOfNone DEF none
  <2>2. Fair(none, 0, weights, budget)
    BY <1>3, <2>1 DEF Fair
  <2> QED BY <1>2, <1>13, <2>2
<1>15. ASSUME NEW m \in 0 .. L - 1, m \in H PROVE m + 1 \in H
  <2> DEFINE n == m + 1
  <2>1. n \in 1 .. L /\ n \in 0 .. L /\ n - 1 = m
    BY <1>2
  <2> HIDE DEF n
  <2>2. Fair(f[n - 1], n - 1, weights, budget)
    BY <1>15, <2>1
  <2>3. n \in 1 .. Len(weights) /\ budget \in Nat
    BY <2>1 DEF L
  <2>4. Fair(Append(f[n - 1], Share(weights, budget, n, f[n - 1])), n, weights, budget)
    BY <2>2, <2>3, FairShare
  <2>5. f[n] = Append(f[n - 1], Share(weights, budget, n, f[n - 1]))
    BY <1>13, <2>1 DEF After
  <2>6. n \in H
    BY <2>1, <2>4, <2>5
  <2> QED BY <2>6 DEF n
<1> HIDE DEF H
<1>16. \A n \in 0 .. L : n \in H
  BY <1>2, <1>14, <1>15, Induction
<1> DEFINE s == f[L]
<1>17. Fair(s, L, weights, budget)
  <2>1. L \in 0 .. L
    BY <1>2
  <2> QED BY <1>16, <2>1 DEF H
<1> HIDE DEF s
<1>18. ASSUME \A p \in DOMAIN weights : weights[p] <= weights[1], L <= 2 * budget
       PROVE  s[1] >= 1
  <2> DEFINE T == Total(weights)
             w == weights[1]
             R == Rounded(w, T, budget)
  <2>1. w \in Nat \ {0}
    BY <1>2
  <2>2. T \in Nat \ {0} /\ T <= L * w
    BY <1>18, <2>1, TotalBounds DEF L
  <2>3. s[1] = Min({R, ShareCap, budget})
    BY <1>2, <1>17 DEF Fair
  <2> HIDE DEF w, T
  <2>4. L * w <= 2 * (w * budget) /\ L * w \in Nat /\ w * budget \in Nat
    BY <1>2, <1>18, <2>1, Z3
  <2>5. T <= 2 * (w * budget)
    BY <2>2, <2>4
  <2>6. R \in Nat /\ R >= 1
    BY <2>1, <2>2, <2>5, PartIsFair
  <2>7. ShareCap \in Nat \ {0}
    BY UserAssumption
  <2> HIDE DEF R
  <2>8. s[1] \in {R, ShareCap, budget}
    <3>1. R \in Int /\ ShareCap \in Int /\ budget \in Int
      BY <2>6, <2>7
    <3>2. Min({R, ShareCap, budget}) \in {R, ShareCap, budget}
      BY <3>1, LeastOfThree
    <3> QED BY <2>3, <3>2
  <2> QED BY <2>6, <2>7, <2>8
<1>19. /\ s \in Seq(Nat) /\ Len(s) = L /\ Total(s) <= budget
       /\ \A p, q \in 1 .. L : p < q /\ weights[p] >= weights[q] => s[p] >= s[q]
  BY <1>17 DEF Fair
<1> QED BY <1>1, <1>18, <1>19 DEF s, L
-----------------------------------------------------------------------------
(* Rows, tags and lists *)

\* The entry that is picked is one of the entries.
LEMMA PickedIsMember ==
  ASSUME NEW exps \in Seq(Int), NEW entries, entries \in Seq(ToSet(entries)), entries # <<>>
  PROVE  entries[PickABVariantIndex(exps, entries)] \in ToSet(entries)
<1>1. PICK T : entries \in Seq(T)
  OBVIOUS
<1>2. PickABVariantIndex(exps, entries) \in DOMAIN entries
  BY <1>1, PickIsEntry
<1> QED BY <1>2 DEF ToSet

\* A row of a library is a row, and its lists are lists of rules.
LEMMA ResolvedRow ==
  ASSUME NEW lib, IsLibrary(lib), NEW exps \in Seq(Int), NEW g,
         ResolveMapRecommend(lib, exps, g) # <<>>
  PROVE  LET lists == ResolvedRecallLists(ResolveMapRecommend(lib, exps, g)[1], exps)
         IN  AreRules(lists.exclusive) /\ AreRules(lists.main)
<1> DEFINE bucket == lib[PickABVariantIndex(exps, lib)]
           rows == bucket.rows
           own == {r \in DOMAIN rows : rows[r].group = g}
           n == IF g # "" /\ own # {} THEN Min(own) ELSE 1
<1>1. lib # <<>> /\ rows # <<>>
  BY DEF ResolveMapRecommend
<1>2. ResolveMapRecommend(lib, exps, g) = <<rows[n]>>
  BY <1>1 DEF ResolveMapRecommend
<1>3. bucket \in ToSet(lib)
  BY <1>1, PickedIsMember DEF IsLibrary
<1>4. rows \in Seq(ToSet(rows)) /\ \A row \in ToSet(rows) : IsRow(row)
  BY <1>3 DEF IsLibrary
<1> HIDE DEF bucket, rows
<1>5. n \in DOMAIN rows
  <2>1. PICK T : rows \in Seq(T)
    BY <1>4
  <2>2. own \subseteq Nat /\ 1 \in DOMAIN rows
    BY <1>1, <2>1
  <2>3. own # {} => Min(own) \in own
    BY <2>2, MinIsMember
  <2> QED BY <2>2, <2>3
<1> HIDE DEF n
<1> DEFINE row == rows[n]
           lists == Variant(row, row.RecallAb, exps)
<1>6. IsRow(row)
  BY <1>4, <1>5 DEF ToSet
<1> HIDE DEF row
<1>7. lists = row \/ lists \in ToSet(row.RecallAb)
  <2>1. CASE row.RecallAb = <<>>
    BY <2>1 DEF Variant
  <2>2. CASE row.RecallAb # <<>>
    BY <1>6, <2>2, PickedIsMember DEF Variant, IsRow
  <2> QED BY <2>1, <2>2
<1>8. AreRules(lists.exclusive) /\ AreRules(lists.main)
  BY <1>6, <1>7 DEF IsRow
<1>9. ResolveMapRecommend(lib, exps, g)[1] = row
  BY <1>2 DEF row
<1> QED BY <1>8, <1>9 DEF ResolvedRecallLists

\* The rules of two lists are rules.
LEMMA RulesOfBoth ==
  ASSUME NEW a, NEW b, AreRules(a), AreRules(b)
  PROVE  AreRules(a \o b) /\ Len(a) \in Nat
<1>1. PICK T, U : a \in Seq(T) /\ b \in Seq(U)
  BY DEF AreRules
<1> DEFINE both == a \o b
           A == Len(a)
           B == Len(b)
<1>2. a \in Seq(T \cup U) /\ b \in Seq(T \cup U)
  BY <1>1
<1>3. /\ both \in Seq(T \cup U) /\ A \in Nat /\ B \in Nat /\ DOMAIN both = 1 .. A + B
      /\ DOMAIN a = 1 .. A /\ DOMAIN b = 1 .. B
      /\ \A i \in 1 .. A : both[i] = a[i]
      /\ \A i \in 1 .. A + B : i \notin 1 .. A => both[i] = b[i - A]
  BY <1>2
<1> HIDE DEF both, A, B
<1>4. ASSUME NEW i \in DOMAIN both PROVE IsRule(both[i])
  <2>1. CASE i \in 1 .. A
    BY <1>3, <2>1 DEF AreRules
  <2>2. CASE i \notin 1 .. A
    <3>1. i - A \in 1 .. B
      BY <1>3, <2>2
    <3> QED BY <1>3, <2>2, <3>1 DEF AreRules
  <2> QED BY <2>1, <2>2
<1>5. both \in Seq(ToSet(both))
  BY <1>3, OverItself
<1> QED BY <1>3, <1>4, <1>5 DEF AreRules, both, A

Entries == [id : Int, ts : Int]
TagWeights == [tag : DOMAIN Indexes, weight : Nat \ {0}]

\* A list in another order has its items and its length.
LEMMA SortedItems ==
  ASSUME NEW T, NEW w \in Seq(T), NEW f \in Bijection(DOMAIN w, DOMAIN w)
  PROVE  LET t == [p \in DOMAIN w |-> w[f[p]]] IN t \in Seq(T) /\ Len(t) = Len(w)
<1> DEFINE t == [p \in DOMAIN w |-> w[f[p]]]
<1>1. t \in Seq(T) /\ Len(t) = Len(w)
  BY PermutedList
<1> QED BY <1>1

\* A lane shows at most RecallNum entries of the user.
LEMMA LiveAnswer ==
  ASSUME NEW live \in Seq(Entries), NEW time, NEW n \in Int, n > 0,
         NEW items \in LiveItems(live, time, n)
  PROVE  items \in Seq(Entries) /\ Len(items) <= n
<1> DEFINE w == FreshOf(live, time)
<1>1. w \in Seq(Entries)
  BY KeepPlaces DEF FreshOf
<1> HIDE DEF w
<1>2. PICK f \in Bijection(DOMAIN w, DOMAIN w) : items = Cap([p \in DOMAIN w |-> w[f[p]]], n)
  BY DEF LiveItems, SortedBy, w
<1> DEFINE t == [p \in DOMAIN w |-> w[f[p]]]
<1>3. t \in Seq(Entries) /\ Len(t) = Len(w)
  BY <1>1, SortedItems
<1> HIDE DEF t
<1>4. items = Cap(t, n)
  BY <1>2 DEF t
<1>5. items \in Seq(Entries) /\ Len(items) = CapLen(Len(t), n) /\ Len(t) \in Nat
  BY <1>3, <1>4, CapKeepsFront
<1> QED BY <1>5 DEF CapLen

\* What a lane shows of the user are the newest of the fresh entries.
LEMMA NewestShown ==
  ASSUME NEW live \in Seq(Entries), NEW time, NEW n \in Nat \ {0},
         NEW items \in LiveItems(live, time, n)
  PROVE  LET fresh == {e \in DOMAIN live : Fresh(live[e], time)}
         IN  /\ Len(items) = Min({Cardinality(fresh), n}) /\ Cardinality(fresh) \in Nat
             /\ items \in Seq(Entries)
             /\ \E shown \in Injection(1 .. Len(items), fresh) :
                  /\ \A p \in 1 .. Len(items) : items[p] = live[shown[p]]
                  /\ \A p, q \in 1 .. Len(items) : p < q => live[shown[p]].ts >= live[shown[q]].ts
                  /\ \A p \in 1 .. Len(items), e \in fresh \ Range(shown) :
                       live[shown[p]].ts >= live[e].ts
<1> DEFINE fresh == {e \in DOMAIN live : Fresh(live[e], time)}
           w == FreshOf(live, time)
           L == Len(w)
<1>1. w = Keep(live, fresh) /\ fresh \in SUBSET DOMAIN live
  BY DEF FreshOf
<1>2. PICK f \in Bijection(DOMAIN w, DOMAIN w) :
        /\ items = Cap([p \in DOMAIN w |-> w[f[p]]], n)
        /\ \A p, q \in DOMAIN [r \in DOMAIN w |-> w[f[r]]] :
             p < q => [r \in DOMAIN w |-> w[f[r]]][p].ts >= [r \in DOMAIN w |-> w[f[r]]][q].ts
  BY DEF LiveItems, SortedBy
<1> HIDE DEF fresh, w
<1>3. PICK place : w \in Seq(Entries) /\ IsPlaces(place, w, live, fresh)
  BY <1>1, KeepPlaces
<1>4. L \in Nat /\ DOMAIN w = 1 .. L
  BY <1>3
<1> HIDE DEF L
<1>5. /\ place \in [1 .. L -> fresh]
      /\ \A m \in 1 .. L : w[m] = live[place[m]]
      /\ \A m, k_ \in 1 .. L : place[m] = place[k_] => m = k_
      /\ \A e \in fresh : \E m \in 1 .. L : place[m] = e
  <2>1. /\ place \in [1 .. L -> fresh]
        /\ \A m \in 1 .. L : w[m] = live[place[m]]
        /\ \A m, k_ \in 1 .. L : m < k_ => place[m] < place[k_]
        /\ \A e \in fresh : \E m \in 1 .. L : place[m] = e
    BY <1>3 DEF IsPlaces, L
  <2>2. \A m \in 1 .. L : place[m] \in Int
    <3>1. fresh \in SUBSET Int
      BY <1>1
    <3> QED BY <2>1, <3>1
  <2>3. \A m, k_ \in 1 .. L : place[m] = place[k_] => m = k_
    <3> SUFFICES ASSUME NEW m \in 1 .. L, NEW k_ \in 1 .. L, m # k_ PROVE place[m] # place[k_]
      OBVIOUS
    <3>1. m < k_ \/ k_ < m
      BY <1>4
    <3> QED BY <2>1, <2>2, <3>1
  <2> QED BY <2>1, <2>3
<1>6. Cardinality(fresh) = L
  <2>1. place \in Bijection(1 .. L, fresh)
    BY <1>5 DEF Bijection, Injection, Surjection, IsInjective
  <2>2. IsFiniteSet(1 .. L) /\ Cardinality(1 .. L) = L
    BY <1>4, FS_Interval
  <2> QED BY <2>1, <2>2, FS_Bijection DEF ExistsBijection
<1>7. /\ f \in [1 .. L -> 1 .. L]
      /\ \A p, q \in 1 .. L : f[p] = f[q] => p = q
      /\ \A q \in 1 .. L : \E p \in 1 .. L : f[p] = q
  BY <1>4 DEF Bijection, Injection, Surjection, IsInjective
<1> DEFINE t == [p \in DOMAIN w |-> w[f[p]]]
<1>8. t \in Seq(Entries) /\ Len(t) = L
  BY <1>3, SortedItems DEF L
<1>9. \A p \in 1 .. L : t[p] = live[place[f[p]]]
  BY <1>4, <1>5, <1>7
<1>10. \A p, q \in 1 .. L : p < q => t[p].ts >= t[q].ts
  BY <1>2, <1>4
<1>11. items = Cap(t, n)
  BY <1>2
<1> HIDE DEF t
<1> DEFINE K == Len(items)
<1>12. items \in Seq(Entries) /\ K = CapLen(L, n) /\ \A p \in DOMAIN items : items[p] = t[p]
  <2>1. n \in Int
    OBVIOUS
  <2>2. /\ Cap(t, n) \in Seq(Entries) /\ Len(Cap(t, n)) = CapLen(Len(t), n)
        /\ \A p \in DOMAIN Cap(t, n) : Cap(t, n)[p] = t[p]
    BY <1>8, <2>1, CapKeepsFront
  <2> QED BY <1>8, <1>11, <2>2
<1>13. K \in 0 .. L /\ DOMAIN items = 1 .. K /\ K = Min({L, n})
  <2>1. K = IF L > n THEN n ELSE L
    BY <1>4, <1>12 DEF CapLen
  <2>2. DOMAIN items = 1 .. K
    BY <1>12
  <2> HIDE DEF K
  <2>3. K \in {L, n} /\ (\A y \in {L, n} : K <= y) /\ K \in 0 .. L
    BY <1>4, <2>1
  <2>4. Min({L, n}) \in {L, n} /\ \A y \in {L, n} : Min({L, n}) <= y
    BY <2>3 DEF Min
  <2>5. L \in Int /\ n \in Int
    BY <1>4
  <2> QED BY <2>2, <2>3, <2>4, <2>5
<1> HIDE DEF K
<1> DEFINE shown == [p \in 1 .. K |-> place[f[p]]]
<1>14. shown \in Injection(1 .. K, fresh)
  <2>1. \A p \in 1 .. K : p \in 1 .. L /\ f[p] \in 1 .. L /\ place[f[p]] \in fresh
    BY <1>4, <1>5, <1>7, <1>13
  <2>2. \A p, q \in 1 .. K : place[f[p]] = place[f[q]] => p = q
    BY <1>5, <1>7, <2>1
  <2> QED BY <2>1, <2>2 DEF Injection, IsInjective
<1>15. \A p \in 1 .. K : p \in 1 .. L /\ shown[p] = place[f[p]] /\ live[shown[p]] = t[p] /\ items[p] = t[p]
  BY <1>4, <1>9, <1>12, <1>13
<1>16. ASSUME NEW p \in 1 .. K, NEW e \in fresh \ Range(shown)
       PROVE  live[shown[p]].ts >= live[e].ts
  <2>1. PICK m \in 1 .. L : place[m] = e
    BY <1>5
  <2>2. PICK q \in 1 .. L : f[q] = m
    BY <1>7
  <2>3. q \notin 1 .. K
    <3>1. q \in 1 .. K => shown[q] = e /\ q \in DOMAIN shown
      BY <2>1, <2>2
    <3> QED BY <1>16, <3>1 DEF Range
  <2>4. p < q /\ p \in 1 .. L
    BY <1>4, <1>13, <2>3
  <2>5. t[q] = live[e]
    BY <1>9, <2>1, <2>2
  <2> QED BY <1>10, <1>15, <2>4, <2>5
<1> HIDE DEF shown
<1>17. \A p, q \in 1 .. K : p < q => live[shown[p]].ts >= live[shown[q]].ts
  BY <1>10, <1>15
<1>18. \A p \in 1 .. K : items[p] = live[shown[p]]
  BY <1>15
<1> QED BY <1>4, <1>6, <1>12, <1>13, <1>14, <1>16, <1>17, <1>18 DEF K, fresh

\* The tags of a lane are in the order of their weights.
LEMMA HeaviestTags ==
  ASSUME NEW raw \in Interests, NEW n \in Int,
         NEW s \in SortedBy(raw, LAMBDA t : t.weight)
  PROVE  LET list == Cap(s, n)
         IN  /\ list \in Seq(TagWeights) /\ list # <<>>
             /\ \A p, q \in DOMAIN list : p < q => list[p].weight >= list[q].weight
<1>1. raw \in Seq(TagWeights) /\ raw # <<>>
  BY UserAssumption DEF TagWeights
<1>2. /\ \E f \in Bijection(DOMAIN raw, DOMAIN raw) : s = [p \in DOMAIN raw |-> raw[f[p]]]
      /\ \A p, q \in DOMAIN s : p < q => s[p].weight >= s[q].weight
  BY DEF SortedBy
<1>3. s \in Seq(TagWeights) /\ Len(s) = Len(raw)
  BY <1>1, <1>2, SortedItems
<1> DEFINE list == Cap(s, n)
<1>4. /\ list \in Seq(TagWeights) /\ Len(list) = CapLen(Len(s), n)
      /\ \A p \in DOMAIN list : p \in DOMAIN s /\ list[p] = s[p]
  BY <1>3, CapKeepsFront
<1> HIDE DEF list
<1>5. Len(raw) > 0 /\ Len(raw) \in Nat
  BY <1>1
<1>6. list # <<>>
  <2>1. Len(list) > 0
    BY <1>3, <1>4, <1>5 DEF CapLen
  <2> QED BY <2>1
<1>7. \A p, q \in DOMAIN list : p < q => list[p].weight >= list[q].weight
  BY <1>2, <1>4
<1> QED BY <1>4, <1>6, <1>7 DEF list

\* A list without repetitions begins like the list it is made of.
LEMMA DedupedIds ==
  ASSUME NEW ids \in Seq(Int)
  PROVE  /\ DedupeItemIDsStable(ids) \in Seq(Int)
         /\ ids # <<>> => /\ DedupeItemIDsStable(ids) # <<>>
                          /\ DedupeItemIDsStable(ids)[1] = ids[1]
<1> DEFINE I == {p \in DOMAIN ids : \A q \in 1 .. p - 1 : ids[q] # ids[p]}
<1>1. DedupeItemIDsStable(ids) = Keep(ids, I) /\ I \in SUBSET DOMAIN ids
  BY DEF DedupeItemIDsStable
<1>2. ids # <<>> => 1 \in I /\ \A j \in I : 1 <= j
  OBVIOUS
<1> HIDE DEF I
<1>3. Keep(ids, I) \in Seq(Int)
  BY <1>1, KeepPlaces
<1>4. ids # <<>> => Keep(ids, I) # <<>> /\ Keep(ids, I)[1] = ids[1]
  BY <1>1, <1>2, KeptHead
<1> QED BY <1>1, <1>3, <1>4

\* Items of the code are no more than the rule asks for.
LEMMA StubAnswer ==
  ASSUME NEW type, NEW n \in Int, n > 0
  PROVE  Len(Stub(type, n)) <= n
<1>1. \A s \in Seq(Int) : Len(Cap(s, n)) <= n
  <2> SUFFICES ASSUME NEW s \in Seq(Int) PROVE Len(Cap(s, n)) <= n
    OBVIOUS
  <2>1. Cap(s, n) \in Seq(Int) /\ Len(Cap(s, n)) = CapLen(Len(s), n)
    BY CapKeepsFront
  <2>2. Len(s) \in Nat
    OBVIOUS
  <2> QED BY <2>1, <2>2 DEF CapLen
<1>2. /\ <<1, 2, 3>> \in Seq(Int) /\ <<6, 7, 8, 9, 10>> \in Seq(Int)
      /\ NewUserLane(type) \in Seq(Int)
  <2>1. <<1, 2, 3>> \in Seq(Int) /\ <<6, 7, 8, 9, 10>> \in Seq(Int)
    OBVIOUS
  <2>2. /\ <<2, 3, 4>> \in Seq(Int) /\ <<1, 10>> \in Seq(Int) /\ <<2, 3, 4, 10>> \in Seq(Int)
        /\ <<2, 3>> \in Seq(Int)
    OBVIOUS
  <2> QED BY <2>1, <2>2 DEF NewUserLane
<1>3. Len([p \in 1 .. n |-> 4 + ((p - 1) % 7)]) = n /\ Len([p \in 1 .. n |-> 10001 + ((p - 1) * 11)]) = n
  OBVIOUS
<1> DEFINE u == Cap(<<1, 2, 3>>, n)
           v == Cap(<<6, 7, 8, 9, 10>>, n)
           w == Cap(NewUserLane(type), n)
           y == [p \in 1 .. n |-> 4 + ((p - 1) % 7)]
           z == [p \in 1 .. n |-> 10001 + ((p - 1) * 11)]
<1>4. Stub(type, n) = CASE type = "LiveRedirect" -> u
                        [] type = "CollaborativeFiltering" -> y
                        [] type = "LiveTag" -> v
                        [] type \in HotTypes /\ group = NewUserGroup -> w
                        [] OTHER -> z
  BY DEF Stub
<1>5. Len(u) <= n /\ Len(v) <= n /\ Len(w) <= n
  BY <1>1, <1>2
<1>6. Len(y) <= n /\ Len(z) <= n
  BY <1>3
<1> HIDE DEF u, v, w, y, z
<1>7. Stub(type, n) \in {u, v, w, y, z}
  BY <1>4
<1> QED BY <1>5, <1>6, <1>7

-----------------------------------------------------------------------------
(* The invariant *)

\* the shares of the tags, once they are there
Shared ==
  /\ tags \in Seq(TagWeights) /\ shares \in Seq(Nat) /\ Len(shares) = Len(tags)
  /\ Total(shares) <= Budget
  /\ \A p, q \in 1 .. Len(tags) : p < q => tags[p].weight >= tags[q].weight
  /\ \A p, q \in 1 .. Len(tags) :
       p < q /\ tags[p].weight >= tags[q].weight => shares[p] >= shares[q]
  /\ Len(tags) <= 2 * Budget => shares[1] >= 1

\* what was read under the first tag is in front
Pooled ==
  /\ pooled \in Seq(Int) /\ found \in Seq(Seq(Int)) /\ Len(found) <= Len(tags)
  /\ found = <<>> => pooled = <<>>
  /\ found # <<>> /\ found[1] # <<>> /\ Len(tags) <= 2 * Budget =>
       pooled # <<>> /\ pooled[1] = found[1][1]

\* a lane that is on its way has a rule that asks for something
Asked ==
  /\ req \in Requests /\ feat.live \in Seq(Entries)
  /\ AreRules(rules) /\ exclusive \in Int /\ k \in Nat \ {0}
  /\ pc \in {"user", "interest", "tags", "list", "stub"} => k <= Len(rules) /\ Rule.RecallNum > 0

Tagged ==
  /\ pc \in {"user", "interest"} => tags = <<>> /\ found = <<>> /\ pooled = <<>>
  /\ pc \in {"tags", "list"} /\ tags # <<>> => Shared
  /\ pc = "tags" => tags # <<>> /\ Pooled

Answered ==
  /\ answers \in Seq(ToSet(answers))
  /\ \A n \in DOMAIN answers :
       answers[n].ids # <<>> => Len(answers[n].ids) <= answers[n].rule.RecallNum

Sound == Asked /\ Tagged /\ Answered

\* The rule of a lane has numbers for its numbers, and the lists it may read.
LEMMA RuleIsRule ==
  ASSUME Asked, k <= Len(rules)
  PROVE  IsRule(Rule)
<1>1. PICK T : rules \in Seq(T)
  BY DEF Asked, AreRules
<1>2. k \in DOMAIN rules
  BY <1>1 DEF Asked
<1> QED BY <1>2 DEF Asked, AreRules, Rule

LEMMA BudgetIsPositive ==
  ASSUME IsRule(Rule), Rule.RecallNum > 0
  PROVE  Budget \in Nat \ {0}
<1> DEFINE a == Rule.RecallNum
           b == IF Rule.SampleFold <= 0 THEN 1 ELSE Rule.SampleFold
<1>1. a \in Nat \ {0} /\ b \in Nat \ {0}
  BY DEF IsRule
<1>2. Budget = a * b
  BY DEF Budget
<1> HIDE DEF a, b
<1>3. a * b \in Nat \ {0}
  BY <1>1, Z3
<1> QED BY <1>2, <1>3

\* The answer of a lane is one answer more.
LEMMA AnswerIsAdded ==
  ASSUME Answered, NEW ids, NEW source, Answer(ids, source),
         ids # <<>> => Len(ids) <= Rule.RecallNum
  PROVE  Answered'
<1> DEFINE x == [rule |-> Rule, ids |-> ids, source |-> source]
           L == Len(answers)
<1>1. PICK T : answers \in Seq(T)
  BY DEF Answered
<1>2. answers' = Append(answers, x)
  BY DEF Answer
<1>3. x.ids # <<>> => Len(x.ids) <= x.rule.RecallNum
  OBVIOUS
<1> HIDE DEF x
<1>4. answers \in Seq(T \cup {x})
  BY <1>1
<1>5. /\ answers' \in Seq(T \cup {x}) /\ L \in Nat /\ DOMAIN answers' = 1 .. L + 1
      /\ answers'[L + 1] = x /\ \A n \in 1 .. L : n \in DOMAIN answers /\ answers'[n] = answers[n]
  BY <1>2, <1>4
<1>6. answers' \in Seq(ToSet(answers'))
  BY <1>5, OverItself
<1>7. ASSUME NEW n \in DOMAIN answers'
      PROVE  answers'[n].ids # <<>> => Len(answers'[n].ids) <= answers'[n].rule.RecallNum
  <2>1. CASE n = L + 1
    BY <1>3, <1>5, <2>1
  <2>2. CASE n \in 1 .. L
    BY <1>5, <2>2 DEF Answered
  <2> QED BY <1>5, <2>1, <2>2
<1> QED BY <1>6, <1>7 DEF Answered

\* The lane that answered makes way for the next one.
LEMMA AnswerAsksOn ==
  ASSUME Asked, Tagged, NEW ids, NEW source, Answer(ids, source), UNCHANGED setup
  PROVE  Asked' /\ Tagged'
<1>1. pc' = "lane" /\ k' = k + 1
  BY DEF Answer
<1>2. k' \in Nat \ {0}
  BY <1>1 DEF Asked
<1> QED BY <1>1, <1>2 DEF Asked, Tagged, setup

LEMMA InitSound == Init => Sound
<1> SUFFICES ASSUME Init PROVE Sound
  OBVIOUS
<1>1. req \in Requests /\ feat.live = <<>> /\ rules = <<>> /\ exclusive = 0 /\ k = 1
      /\ pc = "start" /\ answers = <<>>
  BY DEF Init, NoFeature
<1> DEFINE none == <<>>
<1>2. none \in Seq(Entries) /\ DOMAIN none = {} /\ \A S : none \in Seq(S)
  OBVIOUS
<1> HIDE DEF none
<1>3. AreRules(none)
  BY <1>2 DEF AreRules
<1>4. Asked
  BY <1>1, <1>2, <1>3 DEF Asked, none
<1>5. Answered
  <2>1. answers = none
    BY <1>1 DEF none
  <2> QED BY <1>2, <2>1 DEF Answered
<1> QED BY <1>1, <1>4, <1>5 DEF Sound, Tagged

\* The tags that were read get fair shares.
LEMMA InterestIsShared ==
  ASSUME Sound, pc = "interest", TagInterest, pc' = "tags"
  PROVE  Shared' /\ tags' # <<>>
<1>1. PICK raw \in Interests :
        tags' \in {Cap(s, Rule.UseTopKIndex) : s \in SortedBy(raw, LAMBDA t : t.weight)}
  BY DEF TagInterest
<1>2. /\ shares' = AllocateTagRecallCounts([p \in DOMAIN tags' |-> tags'[p].weight], Budget)
      /\ Rule' = Rule /\ Budget' = Budget
  BY DEF TagInterest, setup, Rule, Budget
<1>3. IsRule(Rule) /\ Rule.RecallNum > 0
  BY RuleIsRule DEF Sound, Asked
<1>4. /\ tags' \in Seq(TagWeights) /\ tags' # <<>>
      /\ \A p, q \in DOMAIN tags' : p < q => tags'[p].weight >= tags'[q].weight
  <2>1. Rule.UseTopKIndex \in Int
    BY <1>3 DEF IsRule
  <2> QED BY <1>1, <2>1, HeaviestTags
<1> DEFINE weights == [p \in DOMAIN tags' |-> tags'[p].weight]
           L == Len(tags')
<1>5. /\ L \in Nat \ {0} /\ DOMAIN tags' = 1 .. L
      /\ \A p \in 1 .. L : tags'[p].weight \in Nat \ {0}
  <2>1. L \in Nat \ {0} /\ DOMAIN tags' = 1 .. L /\ \A p \in 1 .. L : tags'[p] \in TagWeights
    BY <1>4
  <2>2. \A t \in TagWeights : t.weight \in Nat \ {0}
    BY DEF TagWeights
  <2> QED BY <2>1, <2>2
<1>6. /\ weights \in Seq(Nat \ {0}) /\ Len(weights) = L /\ DOMAIN weights = 1 .. L
      /\ \A p \in 1 .. L : weights[p] = tags'[p].weight
  BY <1>5
<1> HIDE DEF weights, L
<1>7. weights # <<>>
  BY <1>5, <1>6
<1>8. Budget \in Nat \ {0}
  BY <1>3, BudgetIsPositive
<1>9. /\ shares' \in Seq(Nat) /\ Len(shares') = L /\ Total(shares') <= Budget
      /\ \A p, q \in 1 .. L : p < q /\ weights[p] >= weights[q] => shares'[p] >= shares'[q]
      /\ (\A p \in DOMAIN weights : weights[p] <= weights[1]) /\ Len(weights) <= 2 * Budget
           => shares'[1] >= 1
  BY <1>2, <1>6, <1>7, <1>8, Allocated DEF weights
<1>10. \A p \in 1 .. L : weights[p] <= weights[1]
  <2> SUFFICES ASSUME NEW p \in 1 .. L PROVE weights[p] <= weights[1]
    OBVIOUS
  <2>1. 1 \in 1 .. L /\ (p = 1 \/ 1 < p)
    BY <1>5
  <2>2. weights[p] \in Nat /\ weights[1] \in Nat
    BY <1>5, <1>6, <2>1
  <2>3. 1 < p => weights[1] >= weights[p]
    BY <1>4, <1>5, <1>6, <2>1
  <2> QED BY <2>1, <2>2, <2>3
<1> QED BY <1>2, <1>4, <1>5, <1>6, <1>9, <1>10 DEF Shared, L

\* A capped list of ids is the front of it.
LEMMA CappedIds ==
  ASSUME NEW ids \in Seq(Int), NEW n \in Int
  PROVE  /\ Cap(ids, n) \in Seq(Int) /\ Len(Cap(ids, n)) = CapLen(Len(ids), n)
         /\ \A p \in DOMAIN Cap(ids, n) : Cap(ids, n)[p] = ids[p]
<1> DEFINE T == Int
<1>1. ids \in Seq(T) /\ n \in Int
  OBVIOUS
<1> HIDE DEF T
<1>2. /\ Cap(ids, n) \in Seq(T) /\ Len(Cap(ids, n)) = CapLen(Len(ids), n)
      /\ \A p \in DOMAIN Cap(ids, n) : p \in DOMAIN ids /\ Cap(ids, n)[p] = ids[p]
  BY <1>1, CapKeepsFront
<1> QED BY <1>2 DEF T

\* What an index brings is put behind what the ones before it brought.
LEMMA IndexIsPooled ==
  ASSUME Sound, TagIndex
  PROVE  Pooled'
<1> DEFINE n == Len(found) + 1
<1>1. PICK ids \in Indexes[tags[n].tag] :
        /\ found' = Append(found, ids)
        /\ pooled' = IF shares[n] <= 0 THEN pooled ELSE pooled \o Cap(ids, shares[n])
  BY DEF TagIndex
<1>2. /\ pc = "tags" /\ Len(found) < Len(tags) /\ UNCHANGED <<tags, shares>>
      /\ Rule' = Rule /\ Budget' = Budget
  BY DEF TagIndex, setup, Rule, Budget
<1>3. Shared /\ Pooled /\ tags # <<>>
  BY <1>2 DEF Sound, Tagged
<1>4. /\ tags \in Seq(TagWeights) /\ shares \in Seq(Nat) /\ Len(shares) = Len(tags)
      /\ pooled \in Seq(Int) /\ found \in Seq(Seq(Int))
      /\ Len(tags) \in Nat /\ Len(found) \in Nat
  BY <1>3 DEF Shared, Pooled
<1>5. n \in 1 .. Len(tags) /\ n \in 1 .. Len(shares)
  BY <1>2, <1>4
<1> HIDE DEF n
<1>6. tags[n].tag \in DOMAIN Indexes /\ shares[n] \in Nat
  <2>1. tags[n] \in TagWeights
    BY <1>4, <1>5
  <2> QED BY <1>4, <1>5, <2>1 DEF TagWeights
<1>7. ids \in Seq(Int)
  BY <1>6, RedisAssumption
<1> DEFINE c == Cap(ids, shares[n])
<1>12. shares[n] \in Int
  BY <1>6
<1>8. c \in Seq(Int) /\ Len(c) = CapLen(Len(ids), shares[n]) /\ \A p \in DOMAIN c : c[p] = ids[p]
  BY <1>7, <1>12, CappedIds
<1> HIDE DEF c
<1>9. pooled' \in Seq(Int) /\ (pooled # <<>> => pooled' # <<>> /\ pooled'[1] = pooled[1])
  <2>1. pooled \o c \in Seq(Int) /\ (pooled # <<>> => pooled \o c # <<>> /\ (pooled \o c)[1] = pooled[1])
    BY <1>4, <1>8
  <2> QED BY <1>1, <1>4, <2>1 DEF c
<1>10. /\ found' \in Seq(Seq(Int)) /\ Len(found') = Len(found) + 1 /\ Len(found') <= Len(tags')
       /\ found' # <<>>
  <2> DEFINE a == Len(tags)
             b == Len(found)
  <2>1. found' \in Seq(Seq(Int)) /\ Len(found') = b + 1 /\ found' # <<>>
    BY <1>1, <1>4, <1>7
  <2>2. a \in Nat /\ b \in Nat /\ b < a /\ Len(tags') = a
    BY <1>2, <1>4
  <2> HIDE DEF a, b
  <2>3. b + 1 <= a
    BY <2>2
  <2> QED BY <2>1, <2>2, <2>3 DEF b
<1>11. ASSUME found' # <<>>, found'[1] # <<>>, Len(tags') <= 2 * Budget'
       PROVE  pooled' # <<>> /\ pooled'[1] = found'[1][1]
  <2>1. CASE found # <<>>
    <3>1. found'[1] = found[1]
      BY <1>1, <1>4, <1>7, <2>1
    <3> QED BY <1>2, <1>3, <1>9, <1>11, <2>1, <3>1 DEF Pooled
  <2>2. CASE found = <<>>
    <3>1. n = 1 /\ found'[1] = ids
      BY <1>1, <1>4, <1>7, <2>2 DEF n
    <3>2. shares[1] \in Nat /\ shares[1] >= 1
      BY <1>2, <1>3, <1>6, <1>11, <3>1 DEF Shared
    <3>3. ids # <<>> /\ Len(ids) \in Nat \ {0}
      BY <1>7, <1>11, <3>1
    <3>4. Len(c) >= 1 /\ c[1] = ids[1] /\ c # <<>>
      <4>1. Len(c) \in Nat /\ Len(c) >= 1
        BY <1>8, <3>1, <3>2, <3>3 DEF CapLen
      <4>2. 1 \in DOMAIN c
        BY <1>8, <4>1
      <4> QED BY <1>8, <4>1, <4>2
    <3>5. pooled' = pooled \o c
      BY <1>1, <3>1, <3>2 DEF c
    <3>6. pooled = <<>>
      BY <1>3, <2>2 DEF Pooled
    <3> QED BY <1>4, <1>8, <3>1, <3>4, <3>5, <3>6
  <2> QED BY <2>1, <2>2
<1> QED BY <1>9, <1>10, <1>11 DEF Pooled
LEMMA ResolveIsSound ==
  ASSUME Sound, Resolve
  PROVE  Sound'
<1>1. UNCHANGED <<req, k, answers, tags>> /\ pc' \in {"lane", "no profile"}
  BY DEF Resolve, tagged
<1>2. req \in Requests /\ AreRules(rules) /\ exclusive \in Int /\ k \in Nat \ {0}
  BY DEF Sound, Asked
<1>3. feat'.live \in Seq(Entries)
  <2> DEFINE none == <<>>
  <2>1. none \in Seq(Entries)
    OBVIOUS
  <2> HIDE DEF none
  <2>2. NoFeature.live \in Seq(Entries)
    BY <2>1 DEF NoFeature, none
  <2>3. CASE feat' \in Features \cup {NoFeature}
    BY <2>2, <2>3, UserAssumption DEF Entries
  <2>4. CASE feat' = feat
    BY <2>4 DEF Sound, Asked
  <2> QED BY <2>3, <2>4 DEF Resolve
<1>4. AreRules(rules') /\ exclusive' \in Int
  <2> DEFINE row == ResolveMapRecommend(Libraries[req.mode], req.ExpIDs, group')
             lists == ResolvedRecallLists(row[1], req.ExpIDs)
  <2>1. CASE row = <<>>
    BY <1>2, <2>1 DEF Resolve
  <2>2. CASE row # <<>>
    <3>1. rules' = lists.exclusive \o lists.main /\ exclusive' = Len(lists.exclusive)
      BY <2>2 DEF Resolve
    <3>2. req.ExpIDs \in Seq(Int) /\ IsLibrary(Libraries[req.mode])
      BY <1>2, RequestsAssumption
    <3>3. AreRules(lists.exclusive) /\ AreRules(lists.main)
      BY <2>2, <3>2, ResolvedRow
    <3> HIDE DEF lists
    <3> QED BY <3>1, <3>3, RulesOfBoth
  <2> QED BY <2>1, <2>2
<1>5. Asked'
  BY <1>1, <1>2, <1>3, <1>4 DEF Asked
<1>6. Answered'
  BY <1>1 DEF Sound, Answered
<1> QED BY <1>1, <1>5, <1>6 DEF Sound, Tagged

LEMMA LaneIsSound ==
  ASSUME Sound, Lane
  PROVE  Sound'
<1>1. /\ pc = "lane" /\ k <= Len(rules) /\ UNCHANGED <<req, feat, rules, exclusive>>
      /\ tags' = <<>> /\ found' = <<>> /\ pooled' = <<>>
  BY DEF Lane, setup
<1>2. IsRule(Rule)
  BY <1>1, RuleIsRule DEF Sound
<1>3. CASE Rule.RecallNum <= 0
  <2>1. Answer(<<>>, "none") /\ UNCHANGED setup
    BY <1>3 DEF Lane
  <2>2. Answered'
    BY <2>1, AnswerIsAdded DEF Sound
  <2> QED BY <2>1, <2>2, AnswerAsksOn DEF Sound
<1>4. CASE ~(Rule.RecallNum <= 0)
  <2>1. UNCHANGED <<k, answers>> /\ Rule' = Rule /\ Rule.RecallNum > 0
    BY <1>1, <1>2, <1>4 DEF Lane, Rule, IsRule
  <2>2. pc' \in {"user", "stub", "interest", "list"}
    BY <1>4 DEF Lane, AfterUser
  <2>3. Asked'
    BY <1>1, <2>1 DEF Sound, Asked
  <2>4. Answered'
    BY <2>1 DEF Sound, Answered
  <2>5. Tagged'
    BY <1>1, <2>2 DEF Tagged
  <2> QED BY <2>3, <2>4, <2>5 DEF Sound
<1> QED BY <1>3, <1>4

LEMMA LiveRedirectIsSound ==
  ASSUME Sound, LiveRedirect
  PROVE  Sound'
<1>1. pc = "user" /\ UNCHANGED <<setup, tagged>>
  BY DEF LiveRedirect
<1>2. /\ k <= Len(rules) /\ Rule.RecallNum > 0 /\ feat.live \in Seq(Entries)
      /\ tags = <<>> /\ found = <<>> /\ pooled = <<>>
  BY <1>1 DEF Sound, Asked, Tagged
<1>3. Rule.RecallNum \in Int
  BY <1>2, RuleIsRule DEF Sound, IsRule
<1>4. PICK items \in LiveItems(feat.live, now', Rule.RecallNum) :
        IF items # <<>>
          THEN Answer([p \in DOMAIN items |-> items[p].id], "user")
          ELSE pc' = AfterUser /\ UNCHANGED <<k, answers>>
  BY DEF LiveRedirect
<1>5. items \in Seq(Entries) /\ Len(items) <= Rule.RecallNum
  BY <1>2, <1>3, LiveAnswer
<1>6. CASE items # <<>>
  <2> DEFINE ids == [p \in DOMAIN items |-> items[p].id]
  <2>1. Len(ids) = Len(items)
    BY <1>5
  <2>2. Answer(ids, "user")
    BY <1>4, <1>6
  <2> HIDE DEF ids
  <2>3. Answered'
    BY <1>5, <2>1, <2>2, AnswerIsAdded DEF Sound
  <2>4. Asked' /\ Tagged'
    BY <1>1, <2>2, AnswerAsksOn DEF Sound
  <2> QED BY <2>3, <2>4 DEF Sound
<1>7. CASE items = <<>>
  <2>1. pc' = AfterUser /\ UNCHANGED <<k, answers>>
    BY <1>4, <1>7
  <2>2. pc' \in {"stub", "interest", "list"}
    BY <2>1 DEF AfterUser
  <2>3. Asked'
    BY <1>1, <1>2, <2>1 DEF Sound, Asked, setup, Rule
  <2>4. Answered'
    BY <2>1 DEF Sound, Answered
  <2>5. Tagged'
    BY <1>1, <1>2, <2>2 DEF Tagged, tagged
  <2> QED BY <2>3, <2>4, <2>5 DEF Sound
<1> QED BY <1>6, <1>7

LEMMA TagInterestIsSound ==
  ASSUME Sound, TagInterest
  PROVE  Sound'
<1>1. /\ pc = "interest" /\ pc' \in {"tags", "list"}
      /\ UNCHANGED <<req, feat, rules, exclusive, k, found, pooled, answers>>
  BY DEF TagInterest, setup
<1>2. Asked' /\ Answered'
  BY <1>1 DEF Sound, Asked, Answered, Rule
<1>3. tags = <<>> /\ found = <<>> /\ pooled = <<>>
  BY <1>1 DEF Sound, Tagged
<1>4. CASE pc' = "tags"
  <2>1. Shared' /\ tags' # <<>>
    BY <1>1, <1>4, InterestIsShared
  <2>2. Len(tags') \in Nat
    BY <2>1 DEF Shared
  <2> DEFINE none == <<>>
  <2>3. none \in Seq(Int) /\ none \in Seq(Seq(Int)) /\ Len(none) = 0
    OBVIOUS
  <2> HIDE DEF none
  <2>4. found' = none /\ pooled' = none /\ none = <<>>
    BY <1>1, <1>3 DEF none
  <2>5. Pooled'
    BY <2>2, <2>3, <2>4 DEF Pooled
  <2> QED BY <1>2, <1>4, <2>1, <2>5 DEF Sound, Tagged
<1>5. CASE pc' = "list"
  <2>1. tags' = tags
    BY <1>5 DEF TagInterest
  <2> QED BY <1>2, <1>3, <1>5, <2>1 DEF Sound, Tagged
<1> QED BY <1>1, <1>4, <1>5

LEMMA TagIndexIsSound ==
  ASSUME Sound, TagIndex
  PROVE  Sound'
<1>1. /\ pc = "tags" /\ pc' = "tags"
      /\ UNCHANGED <<req, feat, rules, exclusive, k, tags, shares, answers>>
  BY DEF TagIndex, setup
<1>2. Asked' /\ Answered'
  BY <1>1 DEF Sound, Asked, Answered, Rule
<1>3. Pooled'
  BY IndexIsPooled
<1>4. Shared /\ tags # <<>>
  BY <1>1 DEF Sound, Tagged
<1>5. Shared'
  BY <1>1, <1>4 DEF Shared, Budget, Rule
<1> QED BY <1>1, <1>2, <1>3, <1>4, <1>5 DEF Sound, Tagged

\* A capped list has at most n items.
LEMMA CapIsCut ==
  ASSUME NEW T, NEW s \in Seq(T), NEW n \in Int, n > 0
  PROVE  Len(Cap(s, n)) <= n
<1>1. Len(Cap(s, n)) = CapLen(Len(s), n)
  BY CapKeepsFront
<1> QED BY <1>1 DEF CapLen

LEMMA TagEndIsSound ==
  ASSUME Sound, TagEnd
  PROVE  Sound'
<1>1. pc = "tags" /\ UNCHANGED <<setup, now, tagged>>
  BY DEF TagEnd
<1>2. k <= Len(rules) /\ Rule.RecallNum > 0 /\ Shared /\ Pooled /\ tags # <<>>
  BY <1>1 DEF Sound, Asked, Tagged
<1>3. Rule.RecallNum \in Int
  BY <1>2, RuleIsRule DEF Sound, IsRule
<1>4. CASE pooled = <<>>
  <2>1. pc' = "list" /\ UNCHANGED <<k, answers>>
    BY <1>4 DEF TagEnd
  <2>2. Asked'
    BY <1>1, <1>2, <2>1 DEF Sound, Asked, setup, Rule
  <2>3. Answered'
    BY <2>1 DEF Sound, Answered
  <2>4. Shared'
    BY <1>1, <1>2, <2>1 DEF Shared, Budget, Rule, setup, tagged
  <2>5. Tagged'
    BY <2>1, <2>4 DEF Tagged
  <2> QED BY <2>2, <2>3, <2>5 DEF Sound
<1>5. CASE pooled # <<>>
  <2> DEFINE s == DedupeItemIDsStable(pooled)
             ids == Cap(s, Rule.RecallNum)
  <2>1. Answer(ids, "tags")
    BY <1>5 DEF TagEnd
  <2>2. s \in Seq(Int)
    BY <1>2, DedupedIds DEF Pooled
  <2> HIDE DEF s
  <2>3. Len(ids) <= Rule.RecallNum
    BY <1>2, <1>3, <2>2, CapIsCut
  <2> HIDE DEF ids
  <2>4. Answered'
    BY <2>1, <2>3, AnswerIsAdded DEF Sound
  <2> QED BY <1>1, <2>1, <2>4, AnswerAsksOn DEF Sound
<1> QED BY <1>4, <1>5

LEMMA RedisListIsSound ==
  ASSUME Sound, RedisList
  PROVE  Sound'
<1>1. pc = "list" /\ UNCHANGED <<setup, now, tagged>>
  BY DEF RedisList
<1>2. k <= Len(rules) /\ Rule.RecallNum > 0
  BY <1>1 DEF Sound, Asked
<1>3. IsRule(Rule)
  BY <1>2, RuleIsRule DEF Sound
<1>4. PICK list \in RedisLists[Rule.RecallType] :
        IF list = <<>> THEN pc' = "stub" /\ UNCHANGED <<k, answers>>
        ELSE Answer(Cap(list, Rule.RecallNum), "list")
  BY DEF RedisList
<1>5. CASE list = <<>>
  <2>1. pc' = "stub" /\ UNCHANGED <<k, answers>>
    BY <1>4, <1>5
  <2>2. Asked' /\ Answered'
    BY <1>1, <1>2, <2>1 DEF Sound, Asked, Answered, setup, Rule
  <2> QED BY <2>1, <2>2 DEF Sound, Tagged
<1>6. CASE list # <<>>
  <2> DEFINE ids == Cap(list, Rule.RecallNum)
  <2>1. list \in Seq(Int) /\ Rule.RecallNum \in Int
    BY <1>3, RedisAssumption DEF IsRule
  <2>2. Len(ids) <= Rule.RecallNum
    BY <1>2, <2>1, CapIsCut
  <2>3. Answer(ids, "list")
    BY <1>4, <1>6
  <2> HIDE DEF ids
  <2>4. Answered'
    BY <2>2, <2>3, AnswerIsAdded DEF Sound
  <2> QED BY <1>1, <2>3, <2>4, AnswerAsksOn DEF Sound
<1> QED BY <1>5, <1>6

LEMMA LaneStubIsSound ==
  ASSUME Sound, LaneStub
  PROVE  Sound'
<1>1. pc = "stub" /\ UNCHANGED <<setup, now, tagged>>
  BY DEF LaneStub
<1>2. k <= Len(rules) /\ Rule.RecallNum > 0
  BY <1>1 DEF Sound, Asked
<1>3. Rule.RecallNum \in Int
  BY <1>2, RuleIsRule DEF Sound, IsRule
<1>4. CASE Answer(Stub(Rule.RecallType, Rule.RecallNum), "stub")
  <2> DEFINE ids == Stub(Rule.RecallType, Rule.RecallNum)
  <2>1. Len(ids) <= Rule.RecallNum
    BY <1>2, <1>3, StubAnswer
  <2>2. Answer(ids, "stub")
    BY <1>4
  <2> HIDE DEF ids
  <2>3. Answered'
    BY <2>1, <2>2, AnswerIsAdded DEF Sound
  <2> QED BY <1>1, <2>2, <2>3, AnswerAsksOn DEF Sound
<1>5. CASE Answer(<<>>, "error")
  <2>1. Answered'
    BY <1>5, AnswerIsAdded DEF Sound
  <2> QED BY <1>1, <1>5, <2>1, AnswerAsksOn DEF Sound
<1>6. CASE pc' = "failed" /\ UNCHANGED <<k, answers>>
  BY <1>1, <1>6 DEF Sound, Asked, Answered, Tagged, setup
<1> QED BY <1>4, <1>5, <1>6 DEF LaneStub

LEMMA NextSound == Sound /\ [Next]_vars => Sound'
<1> SUFFICES ASSUME Sound, [Next]_vars PROVE Sound'
  OBVIOUS
<1>1. CASE UNCHANGED vars
  BY <1>1 DEF Sound, Asked, Tagged, Answered, Shared, Pooled, Budget, Rule, vars, setup, tagged
<1>2. CASE Ended
  BY <1>2 DEF Ended, Sound, Asked, Tagged, Answered, Shared, Pooled, Budget, Rule, vars, setup, tagged
<1> QED BY <1>1, <1>2, ResolveIsSound, LaneIsSound, LiveRedirectIsSound, TagInterestIsSound,
           TagIndexIsSound, TagEndIsSound, RedisListIsSound, LaneStubIsSound DEF Next

-----------------------------------------------------------------------------
(* The theorems *)

\* The tags share the budget by their weights, and no lane answers with more
\* items than its rule asks for.
THEOREM SharesStayFair == Spec => []SharesAreFair
<1>1. Sound => SharesAreFair
  <2> SUFFICES ASSUME Sound PROVE SharesAreFair
    OBVIOUS
  <2>1. ASSUME pc \in {"tags", "list"}, tags # <<>>
        PROVE  /\ Total(shares) <= Budget
               /\ \A p, q \in DOMAIN tags : tags[p].weight > tags[q].weight => shares[p] >= shares[q]
    <3>1. Shared
      BY <2>1 DEF Sound, Tagged
    <3> DEFINE L == Len(tags)
    <3>2. DOMAIN tags = 1 .. L /\ L \in Nat /\ \A p \in 1 .. L : tags[p] \in TagWeights
      BY <3>1 DEF Shared
    <3>3. \A p \in 1 .. L : tags[p].weight \in Nat
      BY <3>2 DEF TagWeights
    <3> HIDE DEF L
    <3>4. ASSUME NEW p \in 1 .. L, NEW q \in 1 .. L, tags[p].weight > tags[q].weight
          PROVE  shares[p] >= shares[q]
      <4>1. /\ \A i, j \in 1 .. L : i < j => tags[i].weight >= tags[j].weight
            /\ \A i, j \in 1 .. L : i < j /\ tags[i].weight >= tags[j].weight => shares[i] >= shares[j]
        BY <3>1 DEF Shared, L
      <4>2. ~(q < p) /\ p # q
        BY <3>3, <3>4, <4>1
      <4>3. p < q
        BY <3>2, <4>2
      <4> QED BY <4>1, <4>3
    <3> QED BY <3>1, <3>2, <3>4 DEF Shared
  <2> QED BY <2>1 DEF SharesAreFair, Sound, Answered
<1> QED BY <1>1, InitSound, NextSound, PTL DEF Spec

\* When the index of the heaviest tag has items the lane begins with them, if the
\* tags are not too many.
THEOREM HeaviestTagIsServed == Spec => HeaviestIsServed
<1> DEFINE A == (pc = "tags" /\ pc' # "tags" /\ found[1] # <<>> /\ Len(tags) <= 2 * Budget) =>
                  answers' # answers /\ Head(Last(answers').ids) = Head(found[1])
<1>1. Sound /\ [Next]_vars => [A]_vars
  <2> SUFFICES ASSUME Sound, Next, pc = "tags", pc' # "tags", found[1] # <<>>,
                      Len(tags) <= 2 * Budget
               PROVE  answers' # answers /\ Head(Last(answers').ids) = Head(found[1])
    BY DEF vars
  <2>1. TagEnd
    BY DEF Next, Resolve, Lane, LiveRedirect, TagInterest, TagIndex, RedisList, LaneStub, Ended, vars
  <2>2. /\ Shared /\ Pooled /\ tags # <<>> /\ Answered /\ Rule.RecallNum > 0 /\ k <= Len(rules)
        /\ Len(found) = Len(tags)
    BY <2>1 DEF TagEnd, Sound, Asked, Tagged
  <2>3. /\ pooled \in Seq(Int) /\ found \in Seq(Seq(Int)) /\ tags \in Seq(TagWeights)
    BY <2>2 DEF Pooled, Shared
  <2>4. found # <<>> /\ 1 \in DOMAIN found
    BY <2>2, <2>3
  <2>5. pooled # <<>> /\ pooled[1] = found[1][1]
    BY <2>2, <2>4 DEF Pooled
  <2>6. Head(found[1]) = found[1][1]
    BY <2>3, <2>4
  <2> DEFINE s == DedupeItemIDsStable(pooled)
             n == Rule.RecallNum
             ids == Cap(s, n)
             x == [rule |-> Rule, ids |-> ids, source |-> "tags"]
  <2>7. s \in Seq(Int) /\ s # <<>> /\ s[1] = pooled[1]
    BY <2>3, <2>5, DedupedIds
  <2>8. answers' = Append(answers, x)
    BY <2>1, <2>5 DEF TagEnd, Answer
  <2>9. n \in Int /\ n > 0
    BY <2>2, RuleIsRule DEF Sound, IsRule
  <2> HIDE DEF s, n
  <2>10. /\ ids \in Seq(Int) /\ Len(ids) = CapLen(Len(s), n)
         /\ \A p \in DOMAIN ids : ids[p] = s[p]
    BY <2>7, <2>9, CappedIds
  <2> HIDE DEF ids
  <2>11. Len(s) \in Nat \ {0}
    BY <2>7
  <2>12. Len(ids) \in Nat \ {0}
    BY <2>9, <2>10, <2>11 DEF CapLen
  <2>13. Head(ids) = s[1]
    <3>1. 1 \in DOMAIN ids /\ ids # <<>>
      BY <2>10, <2>12
    <3> QED BY <2>10, <3>1
  <2>14. x.ids = ids
    OBVIOUS
  <2> HIDE DEF x
  <2>15. answers' # answers /\ Last(answers') = x
    <3>1. PICK T : answers \in Seq(T)
      BY <2>2 DEF Answered
    <3>2. answers \in Seq(T \cup {x})
      BY <3>1
    <3> QED BY <2>8, <3>2 DEF Last
  <2> QED BY <2>5, <2>6, <2>7, <2>13, <2>14, <2>15
<1>2. HeaviestIsServed <=> [][A]_vars
  BY DEF HeaviestIsServed
<1> HIDE DEF A
<1> QED BY <1>1, <1>2, InitSound, NextSound, PTL DEF Spec

\* The answer of a user lane is the newest fresh entries of its own list.
THEOREM NewestAreShown == Spec => NewestFirst
<1> DEFINE A == (pc = "user" /\ pc' # "user") =>
                  LET live == feat.live
                      fresh == {e \in DOMAIN live : Fresh(live[e], now')}
                      ids == Last(answers').ids
                  IN  fresh # {} =>
                        /\ answers' # answers
                        /\ Len(ids) = Min({Cardinality(fresh), Rule.RecallNum})
                        /\ \E shown \in Injection(DOMAIN ids, fresh) :
                             /\ \A p \in DOMAIN ids : ids[p] = live[shown[p]].id
                             /\ \A p, q \in DOMAIN ids : p < q => live[shown[p]].ts >= live[shown[q]].ts
                             /\ \A p \in DOMAIN ids, e \in fresh \ Range(shown) :
                                  live[shown[p]].ts >= live[e].ts
<1>1. Sound /\ [Next]_vars => [A]_vars
  <2> DEFINE live == feat.live
             fresh == {e \in DOMAIN live : Fresh(live[e], now')}
             ids == Last(answers').ids
             n == Rule.RecallNum
  <2> SUFFICES ASSUME Sound, Next, pc = "user", pc' # "user", fresh # {}
               PROVE  /\ answers' # answers
                      /\ Len(ids) = Min({Cardinality(fresh), n})
                      /\ \E shown \in Injection(DOMAIN ids, fresh) :
                           /\ \A p \in DOMAIN ids : ids[p] = live[shown[p]].id
                           /\ \A p, q \in DOMAIN ids : p < q => live[shown[p]].ts >= live[shown[q]].ts
                           /\ \A p \in DOMAIN ids, e \in fresh \ Range(shown) :
                                live[shown[p]].ts >= live[e].ts
    BY DEF vars
  <2>1. LiveRedirect
    BY DEF Next, Resolve, Lane, TagInterest, TagIndex, TagEnd, RedisList, LaneStub, Ended, vars
  <2>2. Asked /\ Answered /\ n > 0 /\ live \in Seq(Entries)
    BY DEF Sound, Asked
  <2>3. n \in Nat \ {0}
    BY <2>2, RuleIsRule DEF IsRule, Asked
  <2>4. PICK items \in LiveItems(live, now', n) :
          IF items # <<>>
            THEN Answer([p \in DOMAIN items |-> items[p].id], "user")
            ELSE pc' = AfterUser /\ UNCHANGED <<k, answers>>
    BY <2>1 DEF LiveRedirect
  <2> HIDE DEF live, n, fresh
  <2>5. /\ Len(items) = Min({Cardinality(fresh), n}) /\ Cardinality(fresh) \in Nat
        /\ items \in Seq(Entries)
        /\ \E shown \in Injection(1 .. Len(items), fresh) :
             /\ \A p \in 1 .. Len(items) : items[p] = live[shown[p]]
             /\ \A p, q \in 1 .. Len(items) : p < q => live[shown[p]].ts >= live[shown[q]].ts
             /\ \A p \in 1 .. Len(items), e \in fresh \ Range(shown) :
                  live[shown[p]].ts >= live[e].ts
    BY <2>2, <2>3, NewestShown DEF fresh
  <2>6. items # <<>>
    <3>1. IsFiniteSet(fresh)
      <4>1. IsFiniteSet(DOMAIN live)
        BY <2>2, FS_Interval
      <4> QED BY <4>1, FS_Subset DEF fresh
    <3>2. Cardinality(fresh) # 0
      BY <3>1, FS_EmptySet
    <3> DEFINE c == Cardinality(fresh)
    <3>3. c \in Nat /\ c > 0
      BY <2>5, <3>2
    <3> HIDE DEF c
    <3>4. \E x \in {c, n} : \A y \in {c, n} : x <= y
      BY <2>3, <3>3
    <3>5. Min({c, n}) \in {c, n}
      BY <3>4 DEF Min
    <3>6. Len(items) # 0
      BY <2>3, <2>5, <3>3, <3>5 DEF c
    <3> QED BY <2>5, <3>6
  <2> DEFINE given == [p \in DOMAIN items |-> items[p].id]
             x == [rule |-> Rule, ids |-> given, source |-> "user"]
  <2>7. answers' = Append(answers, x)
    BY <2>4, <2>6 DEF Answer
  <2>8. x.ids = given
    OBVIOUS
  <2>9. given \in Seq({items[p].id : p \in DOMAIN items}) /\ Len(given) = Len(items)
        /\ DOMAIN given = 1 .. Len(items) /\ \A p \in 1 .. Len(items) : given[p] = items[p].id
    <3>1. DOMAIN items = 1 .. Len(items) /\ Len(items) \in Nat
      BY <2>5
    <3> DEFINE S == {items[p].id : p \in DOMAIN items}
    <3>2. \A p \in 1 .. Len(items) : items[p].id \in S
      BY <3>1
    <3>3. given = [p \in 1 .. Len(items) |-> items[p].id]
      BY <3>1
    <3> HIDE DEF S, given
    <3>4. given \in Seq(S) /\ Len(given) = Len(items)
      BY <3>1, <3>2, <3>3
    <3> QED BY <3>3, <3>4 DEF S
  <2> HIDE DEF given, x
  <2>10. answers' # answers /\ Last(answers') = x
    <3>1. PICK T : answers \in Seq(T)
      BY <2>2 DEF Answered
    <3>2. answers \in Seq(T \cup {x})
      BY <3>1
    <3> QED BY <2>7, <3>2 DEF Last
  <2>11. ids = given
    BY <2>8, <2>10
  <2> HIDE DEF ids
  <2>12. PICK shown \in Injection(1 .. Len(items), fresh) :
           /\ \A p \in 1 .. Len(items) : items[p] = live[shown[p]]
           /\ \A p, q \in 1 .. Len(items) : p < q => live[shown[p]].ts >= live[shown[q]].ts
           /\ \A p \in 1 .. Len(items), e \in fresh \ Range(shown) :
                live[shown[p]].ts >= live[e].ts
    BY <2>5
  <2>13. DOMAIN ids = 1 .. Len(items) /\ Len(ids) = Len(items)
         /\ \A p \in DOMAIN ids : ids[p] = live[shown[p]].id
    BY <2>9, <2>11, <2>12
  <2> QED BY <2>5, <2>10, <2>12, <2>13
<1>2. NewestFirst <=> [][A]_vars
  BY DEF NewestFirst
<1> HIDE DEF A
<1> QED BY <1>1, <1>2, InitSound, NextSound, PTL DEF Spec

\* A lane that ends the request
Failing ==
  pc = "failed" => Rule.RecallType \notin KnownTypes /\ ~(req.mode = "center" /\ k <= exclusive)

\* Whatever Redis says, only a lane without items of the code ends a request,
\* and in center mode only a main one.
THEOREM RedisNeverEndsRequest == Spec => []RedisNeverFails
<1>1. Init => Failing
  BY DEF Init, Failing
<1>2. Failing /\ [Next]_vars => Failing'
  <2> SUFFICES ASSUME Failing, [Next]_vars, pc' = "failed"
               PROVE  Rule'.RecallType \notin KnownTypes /\ ~(req'.mode = "center" /\ k' <= exclusive')
    BY DEF Failing
  <2>1. CASE LaneStub
    <3>1. pc' = "failed" => Rule.RecallType \notin KnownTypes /\ ~(req.mode = "center" /\ k <= exclusive)
                            /\ UNCHANGED k
      BY <2>1 DEF LaneStub, Answer
    <3>2. UNCHANGED <<rules, req, exclusive>>
      BY <2>1 DEF LaneStub, setup
    <3> QED BY <3>1, <3>2 DEF Rule
  <2>2. CASE UNCHANGED vars
    BY <2>2 DEF Failing, vars, setup, Rule
  <2>3. CASE Ended
    BY <2>3 DEF Ended, Failing, vars, setup, Rule
  <2>4. CASE Resolve \/ Lane \/ LiveRedirect \/ TagInterest \/ TagIndex \/ TagEnd \/ RedisList
    BY <2>4 DEF Resolve, Lane, LiveRedirect, TagInterest, TagIndex, TagEnd, RedisList, Answer, AfterUser
  <2> QED BY <2>1, <2>2, <2>3, <2>4 DEF Next
<1>3. Sound /\ Failing => RedisNeverFails
  BY DEF Sound, Asked, Failing, RedisNeverFails
<1> QED BY <1>1, <1>2, <1>3, InitSound, NextSound, PTL DEF Spec
=============================================================================
