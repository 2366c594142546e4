--------------------------- MODULE ShowChainProofs ---------------------------
(***************************************************************************)
(* What no chain of strategies does, whatever the lists, the pools, the    *)
(* exchange maps and the strategies are.                                   *)
(***************************************************************************)
EXTENDS ShowChain, ListProofs

\* the list is one of items without repetitions at every step
ChainInv ==
  /\ list \in Seq(ItemInfo) /\ UniqueIds(list)
  /\ IsPool(exclusive) /\ IsExchange(read)
  /\ chain \in Chains /\ k \in Nat \ {0}

\* The next strategy is a configured one, and reads a map.
LEMMA AppliedStrategy ==
  ASSUME ChainInv, Apply
  PROVE  /\ IsStrategy(chain[k]) /\ IsExchange(read')
         /\ list' \in ApplyStrategy(list, exclusive, read', chain[k])
<1>1. AreStrategies(chain) /\ k \in DOMAIN chain
  <2>1. AreStrategies(chain)
    BY ShowChainAssumption DEF ChainInv
  <2>2. PICK S : chain \in Seq(S)
    BY <2>1 DEF AreStrategies
  <2>3. DOMAIN chain = 1 .. Len(chain) /\ Len(chain) \in Nat
    BY <2>2
  <2> QED BY <2>1, <2>3 DEF ChainInv, Apply
<1>2. IsExchange(read')
  <2>1. read' \in Exchanges \/ read' = read
    BY DEF Apply
  <2> QED BY <2>1, ShowChainAssumption DEF ChainInv
<1> QED BY <1>1, <1>2 DEF Apply, AreStrategies

LEMMA InitChainInv == Init => ChainInv
<1> SUFFICES ASSUME Init PROVE ChainInv
  OBVIOUS
<1>1. IsExchange(read)
  BY DEF Init, IsExchange
<1> QED BY <1>1, ShowChainAssumption DEF Init, ChainInv

LEMMA NextChainInv == ChainInv /\ [Next]_vars => ChainInv'
<1> SUFFICES ASSUME ChainInv, [Next]_vars PROVE ChainInv'
  OBVIOUS
<1>1. CASE Apply
  <2>1. /\ IsStrategy(chain[k]) /\ IsExchange(read')
        /\ list' \in ApplyStrategy(list, exclusive, read', chain[k])
    BY <1>1, AppliedStrategy
  <2>2. list' \in Seq(ItemInfo) /\ UniqueIds(list')
    BY <2>1, Strategies DEF ChainInv
  <2>3. UNCHANGED <<exclusive, chain>> /\ k' \in Nat \ {0}
    BY <1>1 DEF Apply, ChainInv
  <2> QED BY <2>1, <2>2, <2>3 DEF ChainInv, UniqueIds
<1>2. CASE UNCHANGED vars
  BY <1>2 DEF vars, ChainInv, UniqueIds
<1> QED BY <1>1, <1>2 DEF Next, Done

\* No chain of strategies shows an item twice.
THEOREM NothingShownTwice == Spec => []ShownOnce
<1>1. ChainInv => ShownOnce
  BY DEF ChainInv, ShownOnce
<1> QED BY <1>1, InitChainInv, NextChainInv, PTL DEF Spec

\* Where HomogenContent makes an item disappear, its own alternative is shown.
THEOREM AlternativesReplace == Spec => HomogenReplaces
<1> DEFINE gone == Ids(list) \ Ids(list')
           Replaces == (Step("HomogenContent") /\ DOMAIN read' # {}) =>
                         /\ gone \subseteq DOMAIN read'
                         /\ \A x \in gone : read'[x] \in Ids(list')
                         /\ \A x, y \in gone : x # y => read'[x] # read'[y]
<1>1. ChainInv /\ [Next]_vars => [Replaces]_vars
  <2> SUFFICES ASSUME ChainInv, Apply, Strategy.type = "HomogenContent", DOMAIN read' # {}
               PROVE  Replaces
    BY DEF Next, Done, Step
  <2>1. /\ IsStrategy(chain[k]) /\ IsExchange(read')
        /\ list' \in ApplyStrategy(list, exclusive, read', chain[k])
    BY AppliedStrategy
  <2>2. list' = ApplyHomogenContent(list, Strategy.topN, read') /\ Strategy.topN \in Int
    BY <2>1 DEF Strategy, ApplyStrategy, IsStrategy
  <2> DEFINE topN == Strategy.topN
             e == read'
  <2>3. list' = ApplyHomogenContent(list, topN, e) /\ topN \in Int /\ IsExchange(e) /\ list \in Seq(ItemInfo)
    BY <2>1, <2>2 DEF ChainInv
  <2> HIDE DEF topN, e
  <2>4. DOMAIN e # {} => OnlyReplaced(list, list', e)
    BY <2>3, Homogenized
  <2> QED BY <2>4 DEF e, OnlyReplaced
<1>2. HomogenReplaces <=> [][Replaces]_vars
  BY DEF HomogenReplaces
<1> HIDE DEF Replaces
<1> QED BY <1>1, <1>2, InitChainInv, NextChainInv, PTL DEF Spec

\* ForcedInsert inserts a queue of items its rules may take, and an empty one
\* only when they may take none.
LEMMA InsertedQueue ==
  ASSUME ChainInv, Apply, Strategy.type = "ForcedInsert"
  PROVE  /\ {Strategy.PageNum, Strategy.PageSize, Strategy.PageInsertCount} \subseteq Int
         /\ \E q \in Seq(ItemInfo) :
              /\ list' = ApplyForcedInsert(list, q, Strategy)
              /\ HasInserts => q # <<>>
              /\ Ids(q) \subseteq UNION {Sourced(r) : r \in DOMAIN Strategy.rules}
<1> DEFINE rules == Strategy.rules
           src == [r \in DOMAIN rules |-> InsertSource(list, exclusive, rules[r])]
           Some == {r \in DOMAIN rules : src[r] # <<>> /\ rules[r].count > 0}
<1>1. IsStrategy(Strategy) /\ list' \in ApplyStrategy(list, exclusive, read', Strategy)
  BY AppliedStrategy DEF Strategy
<1>2. /\ rules \in Seq(ToSet(rules)) /\ DOMAIN rules = 1 .. Len(rules)
      /\ \A r \in DOMAIN rules : rules[r].count \in Int
      /\ {Strategy.PageNum, Strategy.PageSize, Strategy.PageInsertCount} \subseteq Int
  BY <1>1 DEF IsStrategy
<1>3. PICK q \in InsertQueues(list, exclusive, rules) :
             list' = ApplyForcedInsert(list, q, Strategy)
  BY <1>1 DEF ApplyStrategy
<1>4. list \in Seq(ItemInfo) /\ UniqueIds(list) /\ IsPool(exclusive)
  BY DEF ChainInv
<1>5. /\ DOMAIN src = DOMAIN rules
      /\ \A r \in DOMAIN rules :
           src[r] = InsertSource(list, exclusive, Rule(r)) /\ Ids(src[r]) = Sourced(r)
  BY DEF Rule, Sourced
<1>6. HasInserts <=> \E r \in DOMAIN rules : Ids(src[r]) # {} /\ rules[r].count > 0
  BY <1>5 DEF HasInserts, Rule
<1> HIDE DEF rules
<1>7. q \in Seq(ItemInfo) /\ Queued(q, src, Some, Len(rules))
  BY <1>2, <1>3, <1>4, QueuesFilled
<1> HIDE DEF src
<1>8. HasInserts => q # <<>>
  <2> SUFFICES ASSUME HasInserts PROVE q # <<>>
    OBVIOUS
  <2>1. PICK r \in DOMAIN rules : Ids(src[r]) # {} /\ rules[r].count > 0
    BY <1>6
  <2>2. src[r] # <<>>
    BY <2>1 DEF Ids
  <2>3. r \in Some \cap (1 .. Len(rules))
    BY <1>2, <2>1, <2>2
  <2> QED BY <1>7, <2>3 DEF Queued
<1>9. Ids(q) \subseteq UNION {Sourced(r) : r \in DOMAIN rules}
  <2> SUFFICES ASSUME NEW i \in DOMAIN q
               PROVE  \E r \in DOMAIN rules : q[i].id \in Sourced(r)
    BY DEF Ids
  <2>1. PICK r \in DOMAIN rules : q[i] \in ToSet(src[r])
    BY <1>2, <1>7 DEF Queued
  <2>2. q[i].id \in Ids(src[r])
    BY <2>1 DEF ToSet, Ids
  <2> QED BY <1>5, <2>2
<1> QED BY <1>2, <1>3, <1>7, <1>8, <1>9 DEF rules

\* An unpaged ForcedInsert puts what it inserts on top and keeps the rest.
THEOREM InsertedOnTop == Spec => InsertsOnTop
<1> DEFINE Inserts ==
             (Step("ForcedInsert") /\ Strategy.PageSize = 0) =>
               \E n \in 0 .. Len(list') :
                 /\ HasInserts => n > 0
                 /\ Ids(SubSeq(list', 1, n)) \subseteq
                      UNION {Sourced(r) : r \in DOMAIN Strategy.rules}
                 /\ SubSeq(list', n + 1, Len(list')) =
                      OfIds(list, Ids(list) \ Ids(SubSeq(list', 1, n)))
<1>1. ChainInv /\ [Next]_vars => [Inserts]_vars
  <2> SUFFICES ASSUME ChainInv, Apply, Strategy.type = "ForcedInsert", Strategy.PageSize = 0
               PROVE  Inserts
    BY DEF Next, Done, Step
  <2>1. PICK q \in Seq(ItemInfo) :
          /\ list' = ApplyForcedInsert(list, q, Strategy)
          /\ HasInserts => q # <<>>
          /\ Ids(q) \subseteq UNION {Sourced(r) : r \in DOMAIN Strategy.rules}
    BY InsertedQueue
  <2>2. list \in Seq(ItemInfo) /\ UniqueIds(list)
    BY DEF ChainInv
  <2>3. list' = IF q = <<>> THEN list ELSE PrependUnique(list, q)
    BY <2>1 DEF ApplyForcedInsert
  <2>4. OnTop(list', q, list)
    BY <2>2, <2>3, NothingOnTop, PrependedOnTop
  <2>5. PICK n \in 0 .. Len(list') :
            /\ q # <<>> => n > 0
            /\ Ids(SubSeq(list', 1, n)) = Ids(q)
            /\ SubSeq(list', n + 1, Len(list')) = OfIds(list, Ids(list) \ Ids(q))
    BY <2>4 DEF OnTop
  <2> QED BY <2>1, <2>5
<1>2. InsertsOnTop <=> [][Inserts]_vars
  BY DEF InsertsOnTop
<1> HIDE DEF Inserts
<1> QED BY <1>1, <1>2, InitChainInv, NextChainInv, PTL DEF Spec

\* A paged ForcedInsert keeps the ranked order, leaves short lists alone and
\* crowds no page.
THEOREM PagesInOrder == Spec => PagesKeepOrder
<1> DEFINE sourced == UNION {Sourced(r) : r \in DOMAIN Strategy.rules}
           ranked == Ids(list') \ sourced
           Inserted(n) == {j \in 1 .. n : list'[j].id \in sourced}
           size == Strategy.PageSize
           count == Strategy.PageInsertCount
           Pages ==
             (Step("ForcedInsert") /\ Strategy.PageNum > 0 /\ count \in 1 .. size - 1 /\ list # <<>>) =>
               /\ OfIds(list', ranked) = OfIds(list, ranked)
               /\ Len(list) < size => list' = list
               /\ sourced \cap Ids(list) = {} =>
                    \A n \in DOMAIN list' :
                      Cardinality(Inserted(n)) <= count * (((n - 1) \div size) + 1)
<1>1. ChainInv /\ [Next]_vars => [Pages]_vars
  <2> SUFFICES ASSUME ChainInv, Apply, Strategy.type = "ForcedInsert",
                      Strategy.PageNum > 0, count \in 1 .. size - 1, list # <<>>
               PROVE  /\ OfIds(list', ranked) = OfIds(list, ranked)
                      /\ Len(list) < size => list' = list
                      /\ sourced \cap Ids(list) = {} =>
                           \A n \in DOMAIN list' :
                             Cardinality(Inserted(n)) <= count * (((n - 1) \div size) + 1)
    BY DEF Next, Done, Step
  <2>1. {Strategy.PageNum, size, count} \subseteq Int
    BY InsertedQueue
  <2>2. PICK q \in Seq(ItemInfo) :
          list' = ApplyForcedInsert(list, q, Strategy) /\ Ids(q) \subseteq sourced
    BY InsertedQueue
  <2>3. list \in Seq(ItemInfo) /\ UniqueIds(list)
    BY DEF ChainInv
  <2>4. list' \in Seq(ItemInfo) /\ UniqueIds(list') /\ Woven(list', list, ToSet(q))
    BY <2>1, <2>2, <2>3, ForcedInserted
  <2> DEFINE t == list'
             items == list
             pageOri == size - count
  <2>5. /\ Strategy.PageNum \in Nat \ {0} /\ count \in Nat \ {0} /\ size \in Nat \ {0}
        /\ count < size /\ pageOri \in Nat \ {0} /\ size = pageOri + count
    BY <2>1
  <2>6. OfIds(list', ranked) = OfIds(list, ranked)
    <3>1. \A x \in ToSet(q) : x.id \notin ranked
      <4>1. \A x \in ToSet(q) : x.id \in Ids(q)
        BY DEF ToSet, Ids
      <4> QED BY <2>2, <4>1
    <3> DEFINE ids == ranked
    <3>2. ids \subseteq Ids(list')
      OBVIOUS
    <3> HIDE DEF ids
    <3>3. \A x \in ToSet(q) : x.id \notin ids
      BY <3>1 DEF ids
    <3>4. OfIds(t, ids) = OfIds(items, ids)
      BY <2>3, <2>4, <3>2, <3>3, WovenOrder
    <3> QED BY <3>4 DEF ids
  <2>7. /\ Len(list) < size => list' = list
        /\ q # <<>> /\ Ids(q) \cap Ids(list) = {} => InPages(t, items, q, pageOri, count)
        /\ q = <<>> => list' = list
    <3>1. CASE q = <<>>
      BY <2>2, <3>1 DEF ApplyForcedInsert
    <3>2. CASE q # <<>>
      <4>1. /\ ForcedInsertPaged(list, q, Strategy) # <<>>
            /\ Len(list) < size => ForcedInsertPaged(list, q, Strategy) = list
            /\ Ids(q) \cap Ids(list) = {} =>
                 InPages(ForcedInsertPaged(list, q, Strategy), list, q, pageOri, count)
        BY <2>3, <2>5, <3>2, PagedEvenly
      <4>2. list' = ForcedInsertPaged(list, q, Strategy)
        BY <2>2, <2>5, <3>2, <4>1 DEF ApplyForcedInsert
      <4> QED BY <3>2, <4>1, <4>2
    <3> QED BY <3>1, <3>2
  <2> HIDE DEF sourced, size, count, pageOri
  <2>8. ASSUME sourced \cap Ids(list) = {}, NEW n \in DOMAIN list'
        PROVE  Cardinality(Inserted(n)) <= count * (((n - 1) \div size) + 1)
    <3>1. n \in Nat \ {0} /\ 1 .. n \subseteq DOMAIN list'
      BY <2>4
    <3> DEFINE S == Inserted(n)
    <3>2. CASE q = <<>>
      <4>1. S = {}
        BY <2>7, <2>8, <3>1, <3>2 DEF Ids
      <4> DEFINE zero == 0
      <4>2. zero <= zero * count /\ zero + (zero * pageOri) <= n /\ zero \in Nat
        BY <2>5, <3>1
      <4>3. Cardinality(S) = zero
        BY <4>1, FS_EmptySet
      <4> HIDE DEF zero, S
      <4>4. zero <= count * (((n - 1) \div size) + 1)
        BY <2>5, <3>1, <4>2, PageRoom
      <4> QED BY <4>3, <4>4 DEF S
    <3>3. CASE q # <<>>
      <4>1. InPages(t, items, q, pageOri, count)
        BY <2>2, <2>7, <2>8, <3>3
      <4>2. \A j \in DOMAIN t : t[j].id \in Ids(items) \/ t[j].id \in Ids(q)
        BY <4>1 DEF InPages, Ids
      <4>3. S = {j \in 1 .. n : t[j].id \notin Ids(items)}
        BY <2>2, <2>8, <3>1, <4>2
      <4> HIDE DEF S
      <4>4. items \in Seq(ItemInfo) /\ UniqueIds(items) /\ t \in Seq(ItemInfo) /\ UniqueIds(t)
            /\ n \in DOMAIN t
        BY <2>3, <2>4
      <4>5. Cardinality(S) <= count * (((n - 1) \div size) + 1)
        BY <2>5, <4>1, <4>3, <4>4, PagesCounted
      <4> QED BY <4>5 DEF S
    <3> QED BY <3>2, <3>3
  <2> QED BY <2>6, <2>7, <2>8
<1>2. PagesKeepOrder <=> [][Pages]_vars
  BY DEF PagesKeepOrder
<1> HIDE DEF Pages
<1> QED BY <1>1, <1>2, InitChainInv, NextChainInv, PTL DEF Spec

\* MMRRearrange shows items of the list, and as many as it is asked for unless
\* those left out are as far below zero as any item is above it.
THEOREM RearrangedOnly == Spec => MMRRearranges
<1> DEFINE Rearranges ==
             Step("MMRRearrange") =>
               /\ ToSet(list') \subseteq ToSet(list)
               /\ \/ Len(list') = IF Len(list) < 2 THEN Len(list)
                                  ELSE Len(Cap(list, Strategy.dimension))
                  \/ \A it \in ToSet(list) \ ToSet(list') :
                       it.score < 0 /\ \A other \in ToSet(list) : it.score <= -other.score
<1>1. ChainInv /\ [Next]_vars => [Rearranges]_vars
  <2> SUFFICES ASSUME ChainInv, Apply, Strategy.type = "MMRRearrange"
               PROVE  Rearranges
    BY DEF Next, Done, Step
  <2>1. IsStrategy(chain[k]) /\ list' \in ApplyStrategy(list, exclusive, read', chain[k])
    BY AppliedStrategy
  <2>2. /\ list' = ApplyMMRRearrange(list, Strategy)
        /\ Strategy.lambda \in Int /\ Strategy.dimension \in Int
    BY <2>1 DEF Strategy, ApplyStrategy, IsStrategy
  <2> QED BY <2>2, Rearranged DEF ChainInv, TooLow
<1>2. MMRRearranges <=> [][Rearranges]_vars
  BY DEF MMRRearranges
<1> HIDE DEF Rearranges
<1> QED BY <1>1, <1>2, InitChainInv, NextChainInv, PTL DEF Spec
=============================================================================
