---------------------------- MODULE ShowControl -----------------------------
(***************************************************************************)
(* The strategies of Config_ShowControl (centerconfig/show.go, apply.go):  *)
(* each maps the ranked list, and for ForcedInsert the exclusive pool, to  *)
(* the list the next strategy gets.  ForcedInsert is a set of lists: its   *)
(* TopNRand extraction shuffles.                                           *)
(***************************************************************************)
EXTENDS ItemLists

CONSTANTS
  ItemIds,     \* the ids of items
  RecallTypes  \* the names items are recalled under

ASSUME RecallTypesAssumption == "HomogeneityContent" \in RecallTypes

ItemInfo == [id : ItemIds, recall : RecallTypes, score : Int]

IsPool(exclusive) == \A r \in DOMAIN exclusive : exclusive[r] \in Seq(ItemInfo)
IsExchange(exchange) == \A x \in DOMAIN exchange : exchange[x] \in ItemIds

\* what is configured: each type of strategy has numbers of its own
IsStrategy(st) ==
  /\ st.type = "ScoreControl" => st.factor \in Int
  /\ st.type = "HomogenContent" => st.topN \in Int
  /\ st.type = "MMRRearrange" => st.lambda \in Int /\ st.dimension \in Int
  /\ st.type = "ForcedInsert" =>
       /\ {st.PageNum, st.PageSize, st.PageInsertCount} \subseteq Int
       /\ st.rules \in Seq(ToSet(st.rules))
       /\ \A r \in DOMAIN st.rules : st.rules[r].count \in Int
AreStrategies(strategies) ==
  /\ strategies \in Seq(ToSet(strategies))
  /\ \A n \in DOMAIN strategies : IsStrategy(strategies[n])

\* mutant: the inserts go behind the list
PrependUnique_Behind(items, prefix) == DedupeKeepFirst(items \o prefix)
\* mutant: an item that is inserted stays where it was as well
PrependUnique_Plain(items, prefix) == prefix \o items
PrependUnique(items, prefix) == DedupeKeepFirst(prefix \o items)

\* mutant: every item is boosted
ApplyScoreControl_All(items, st) ==
  [k \in DOMAIN items |-> [items[k] EXCEPT !.score = @ * st.factor]]
\* ScoreControl multiplies the scores of the listed recall types, by the one
\* method there is
ApplyScoreControl(items, st) ==
  IF st.method # "RecallType" \/ st.factor <= 0 THEN items
  ELSE [k \in DOMAIN items |->
          IF items[k].recall \in st.recalls
            THEN [items[k] EXCEPT !.score = @ * st.factor] ELSE items[k]]

-----------------------------------------------------------------------------
\* mutant: an alternative that is already in the list is taken again
SwapIn_Twice(kept, it, exchange) ==
  Append(kept, IF it.id \in DOMAIN exchange
                 THEN [id |-> exchange[it.id], recall |-> "HomogeneityContent",
                       score |-> it.score]
                 ELSE it)
\* one of the first TopN items: its alternative if that is new, else itself if
\* that is, else nothing
SwapIn(kept, it, exchange) ==
  LET swap == it.id \in DOMAIN exchange /\ exchange[it.id] # it.id
      seen == Ids(kept)
  IN  IF swap /\ exchange[it.id] \notin seen
        THEN Append(kept, [id |-> exchange[it.id], recall |-> "HomogeneityContent",
                           score |-> it.score])
      ELSE IF it.id \notin seen THEN Append(kept, it) ELSE kept

\* the first n items after that
SwapHead(items, exchange, n) ==
  LET head[m \in 0 .. n] == IF m = 0 THEN <<>> ELSE SwapIn(head[m - 1], items[m], exchange)
  IN  head[n]

\* HomogenContent with the exchange map that was read; an empty map, a missing
\* key or a Redis error all fall back on cutting the list
ApplyHomogenContent(items, topN, exchange) ==
  LET n == IF topN > Len(items) THEN Len(items) ELSE topN
  IN  IF topN <= 0 \/ items = <<>> \/ DOMAIN exchange = {}
        THEN Cap(items, topN)
        ELSE DedupeKeepFirst(SwapHead(items, exchange, n) \o SubSeq(items, n + 1, Len(items)))

-----------------------------------------------------------------------------
\* the relevance of an item less a penalty for a recall type already picked,
\* as an integer: MMRConstant is lambda / 10, relevance score / maxScore
MMRValue(items, picked, lambda, maxScore, k) ==
  (lambda * items[k].score)
    - (IF \E j \in picked : items[j].recall = items[k].recall
         THEN (10 - lambda) * maxScore ELSE 0)

\* mutant: nothing with a value of zero or less is ever picked
MMRFloor_Zero(maxScore) == 0
\* bestScore before an item is looked at: -1.0
MMRFloor(maxScore) == -(10 * maxScore)

\* the items that may be picked next, and the first of the best of them
MMROpen(items, order, lambda, maxScore) ==
  {k \in DOMAIN items \ ToSet(order) :
     MMRValue(items, ToSet(order), lambda, maxScore, k) > MMRFloor(maxScore)}
MMRBest(items, order, lambda, maxScore) ==
  LET Value(k) == MMRValue(items, ToSet(order), lambda, maxScore, k)
      open == MMROpen(items, order, lambda, maxScore)
  IN  CHOOSE k \in open : \A j \in open :
        Value(k) > Value(j) \/ (Value(k) = Value(j) /\ k <= j)

\* the places of the list in the order they are picked, until there are enough
\* or none is better than the floor
MMROrder(items, lambda, maxScore, rounds) ==
  LET Pick == [order \in Seq(DOMAIN items) |->
                 IF MMROpen(items, order, lambda, maxScore) = {} THEN order
                 ELSE Append(order, MMRBest(items, order, lambda, maxScore))]
      order[r \in 0 .. rounds] == IF r = 0 THEN <<>> ELSE Pick[order[r - 1]]
  IN  order[rounds]

\* MMRRearrange shows MMRDimension items
ApplyMMRRearrange(items, st) ==
  LET lambda == IF st.lambda <= 0 \/ st.lambda > 10 THEN 5 ELSE st.lambda
      rounds == Len(Cap(items, st.dimension))
      positive == {s \in {items[k].score : k \in DOMAIN items} : s > 0}
      maxScore == IF positive = {} THEN 1 ELSE Max(positive)
      order == MMROrder(items, lambda, maxScore, rounds)
  IN  IF Len(items) < 2 THEN items ELSE [k \in DOMAIN order |-> items[order[k]]]

-----------------------------------------------------------------------------
\* where a ForcedInsert rule takes its items from
InsertSource(items, exclusive, rule) ==
  IF rule.recall \in DOMAIN exclusive /\ exclusive[rule.recall] # <<>>
    THEN exclusive[rule.recall]
    ELSE Keep(items, {p \in DOMAIN items : items[p].recall = rule.recall})

\* what pickForcedInsert may take: the first ones, or any of them in any order
PickForcedInsert(src, rule) ==
  LET n == IF rule.count > Len(src) THEN Len(src) ELSE rule.count
  IN  IF src = <<>> \/ rule.count <= 0 THEN {<<>>}
      ELSE IF rule.method = "TopNRand"
        THEN {[k \in 1 .. n |-> src[f[k]]] : f \in Injection(1 .. n, 1 .. Len(src))}
        ELSE {SubSeq(src, 1, n)}

\* what the rules may take, one after the other
Behind(queues, picks) == {q \o p : q \in queues, p \in picks}
InsertQueues(items, exclusive, rules) ==
  LET queues[m \in 0 .. Len(rules)] ==
        IF m = 0 THEN {<<>>}
        ELSE Behind(queues[m - 1],
                    PickForcedInsert(InsertSource(items, exclusive, rules[m]), rules[m]))
  IN  queues[Len(rules)]

\* mutant: the first page takes the whole queue
ForcedInsertPaged_AllFirst(ori, inserts, st) ==
  LET pageOri == st.PageSize - st.PageInsertCount
  IN  DedupeKeepFirst(Cap(ori, pageOri) \o inserts \o SubSeq(ori, pageOri + 1, Len(ori)))
Slice(s, from, n) == SubSeq(s, from + 1, IF from + n < Len(s) THEN from + n ELSE Len(s))
\* page k is pageOri items of the list and then PageInsertCount of the queue
Page(ori, inserts, pageOri, st, k) ==
  Slice(ori, (k - 1) * pageOri, pageOri) \o
  Slice(inserts, (k - 1) * st.PageInsertCount, st.PageInsertCount)

\* applyForcedInsertPaged: a page is built only while the queue lasts, what
\* follows the pages starts after the last page of the list
ForcedInsertPaged(ori, inserts, st) ==
  LET pageOri == st.PageSize - st.PageInsertCount
      full == Len(ori) \div st.PageSize
      actualPages == IF full < st.PageNum THEN full ELSE st.PageNum
      built == {p \in 0 .. actualPages - 1 : p * st.PageInsertCount < Len(inserts)}
      pages == [k \in 1 .. Cardinality(built) |-> Page(ori, inserts, pageOri, st, k)]
  IN  IF pageOri <= 0 THEN PrependUnique(ori, inserts)
      ELSE DedupeKeepFirst(FlattenSeq(pages) \o
                           SubSeq(ori, (actualPages * pageOri) + 1, Len(ori)))

\* ForcedInsert for one insert queue
ApplyForcedInsert(items, queue, st) ==
  LET paged == ForcedInsertPaged(items, queue, st)
  IN  IF queue = <<>> THEN items
      ELSE IF st.PageSize > 0 /\ st.PageInsertCount > 0 /\ st.PageNum > 0 /\ paged # <<>>
        THEN paged
        ELSE PrependUnique(items, queue)

\* the lists one strategy may turn items into
ApplyStrategy(items, exclusive, exchange, st) ==
  CASE st.type = "ScoreControl" -> {ApplyScoreControl(items, st)}
    [] st.type = "HomogenContent" -> {ApplyHomogenContent(items, st.topN, exchange)}
    [] st.type = "MMRRearrange" -> {ApplyMMRRearrange(items, st)}
    [] st.type = "ForcedInsert" ->
         {ApplyForcedInsert(items, q, st) : q \in InsertQueues(items, exclusive, st.rules)}
    [] OTHER -> {items}
=============================================================================
