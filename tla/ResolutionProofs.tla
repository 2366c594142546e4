-------------------------- MODULE ResolutionProofs ---------------------------
(***************************************************************************)
(* What the choice of an entry by experiment and of a row by user group    *)
(* returns, for every table and every library.                             *)
(***************************************************************************)
EXTENDS Resolution, WellFoundedInduction, TLAPS

\* A set of indices has a least member.
LEMMA MinIsMember ==
  ASSUME NEW S \in SUBSET Nat, S # {}
  PROVE  Min(S) \in S /\ \A y \in S : Min(S) <= y
<1> DEFINE Less == {m \in Nat \X Nat : m[1] < m[2]}
<1>1. IsWellFoundedOn(Less, Nat)
  BY NatLessThanWellFounded DEF OpToRel
<1>2. PICK x \in S : \A y \in S : ~(<<y, x>> \in Less)
  BY <1>1, WFMin
<1>3. ASSUME NEW y \in S PROVE x <= y
  <2>1. <<y, x>> \in Nat \X Nat /\ <<y, x>> \notin Less
    BY <1>2
  <2>2. ~(<<y, x>>[1] < <<y, x>>[2])
    BY <2>1
  <2> QED BY <2>2
<1> QED BY <1>3 DEF Min

\* A library that is not empty has the bucket that is picked from it.
LEMMA PickIsEntry ==
  ASSUME NEW exps \in Seq(Int), NEW T, NEW lib \in Seq(T), lib # <<>>
  PROVE  PickABVariantIndex(exps, lib) \in DOMAIN lib
<1> DEFINE Of(e) == {v \in DOMAIN lib : lib[v].exp = e}
           known == {r \in DOMAIN exps : Of(exps[r]) # {}}
<1>1. 1 \in DOMAIN lib /\ DOMAIN lib \subseteq Nat /\ DOMAIN exps \subseteq Nat
  OBVIOUS
<1>2. CASE known # {}
  <2>1. Min(known) \in known
    BY <1>1, <1>2, MinIsMember
  <2>2. Min(Of(exps[Min(known)])) \in Of(exps[Min(known)])
    BY <2>1, <1>1, MinIsMember
  <2> QED BY <1>2, <2>2 DEF PickABVariantIndex
<1>3. CASE known = {} /\ Of(0) # {}
  <2>1. Min(Of(0)) \in Of(0)
    BY <1>1, <1>3, MinIsMember
  <2> QED BY <1>3, <2>1 DEF PickABVariantIndex
<1>4. CASE known = {} /\ Of(0) = {}
  BY <1>1, <1>4 DEF PickABVariantIndex
<1> QED BY <1>2, <1>3, <1>4

OfGroup(rows, g) == {n \in DOMAIN rows : rows[n].group = g}

\* The least index of the rows of a group is that of a row of the group.
LEMMA FirstOfGroup ==
  ASSUME NEW T, NEW rows \in Seq(T), NEW g, NEW r \in DOMAIN rows, rows[r].group = g
  PROVE  OfGroup(rows, g) # {} /\ rows[Min(OfGroup(rows, g))].group = g
<1> DEFINE own == {n \in DOMAIN rows : rows[n].group = g}
<1>1. DOMAIN rows \subseteq Nat
  OBVIOUS
<1>2. own \subseteq Nat /\ own # {}
  BY <1>1
<1>3. Min(own) \in own
  BY <1>2, MinIsMember
<1> QED BY <1>2, <1>3 DEF OfGroup

\* Where the bucket has a row for the group, that row is resolved.
LEMMA OwnRowServes ==
  ASSUME NEW exps \in Seq(Int), NEW g, g # "", NEW lib, lib \in Seq(ToSet(lib)),
         \A b \in DOMAIN lib : lib[b].rows \in Seq(ToSet(lib[b].rows)),
         ResolveMapRecommend(lib, exps, g) # <<>>,
         NEW r \in DOMAIN lib[PickABVariantIndex(exps, lib)].rows,
         lib[PickABVariantIndex(exps, lib)].rows[r].group = g
  PROVE  ResolveMapRecommend(lib, exps, g)[1].group = g
<1> DEFINE rows == lib[PickABVariantIndex(exps, lib)].rows
           own == OfGroup(rows, g)
<1>1. lib # <<>> /\ rows # <<>>
  BY DEF ResolveMapRecommend
<1>2. PICK T : rows \in Seq(T)
  BY <1>1, PickIsEntry
<1>3. own # {} /\ rows[Min(own)].group = g
  <2>1. r \in DOMAIN rows /\ rows[r].group = g
    OBVIOUS
  <2> HIDE DEF rows
  <2> QED BY <1>2, <2>1, FirstOfGroup
<1>4. ResolveMapRecommend(lib, exps, g) = <<rows[Min(own)]>>
  BY <1>1, <1>3 DEF ResolveMapRecommend, OfGroup
<1>5. \A x : <<x>>[1] = x
  OBVIOUS
<1> HIDE DEF rows, own
<1>6. ResolveMapRecommend(lib, exps, g)[1] = rows[Min(own)]
  BY <1>4, <1>5
<1> QED BY <1>3, <1>6

\* A stage resolves to a strategy of its table, or to none.
LEMMA StageIsOfTable ==
  ASSUME NEW exps \in Seq(Int), NEW T, NEW table \in Seq(T),
         \A e \in DOMAIN table :
           /\ table[e].strategies \in Seq(ToSet(table[e].strategies))
           /\ \A n \in DOMAIN table[e].strategies : table[e].strategies[n].trunc \in Int
  PROVE  ResolveStage(table, exps).trunc \in Int
<1> DEFINE strategies == table[PickABVariantIndex(exps, table)].strategies
<1>1. CASE table = <<>> \/ strategies = <<>>
  BY <1>1 DEF ResolveStage, Missing
<1>2. CASE table # <<>> /\ strategies # <<>>
  <2>1. PickABVariantIndex(exps, table) \in DOMAIN table
    BY <1>2, PickIsEntry
  <2>2. ResolveStage(table, exps) = Head(strategies)
    BY <1>2 DEF ResolveStage
  <2>3. \E S : strategies \in Seq(S)
    BY <2>1
  <2>4. 1 \in DOMAIN strategies /\ Head(strategies) = strategies[1]
    <3> HIDE DEF strategies
    <3> QED BY <1>2, <2>3
  <2> QED BY <2>1, <2>2, <2>4
<1> QED BY <1>1, <1>2
=============================================================================
