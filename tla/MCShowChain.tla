---------------------------- MODULE MCShowChain -----------------------------
(* Up to four ranked items of two recall types, some with scores below zero, *)
(* exclusive items that overlap them or not, exchange maps that swap,        *)
(* collide or are missing, and every chain of two strategies.                *)
EXTENDS ShowChain

Item(id, recall, score) == [id |-> id, recall |-> recall, score |-> score]

MCItemIds == 1 .. 7
MCRecallTypes == {"Tag", "Hot", "Live", "HomogeneityContent"}
MCMainLists ==
  {[p \in DOMAIN f |-> Item(f[p], IF f[p] \in {1, 3} THEN "Tag" ELSE "Hot", 4 - p)] :
     f \in UNION {Injection(1 .. n, 1 .. 4) : n \in 0 .. 4}}
    \cup
  {[p \in DOMAIN f |-> Item(f[p], IF f[p] \in {1, 3} THEN "Tag" ELSE "Hot", 3 - 2 * p)] :
     f \in Injection(1 .. 3, 1 .. 3)}

Live(ids) == [p \in DOMAIN ids |-> Item(ids[p], "Live", 0)]
MCPools ==
  {[r \in {} |-> <<>>]} \cup
  {[r \in {"Live"} |-> Live(ids)] : ids \in {<<5>>, <<2, 5>>, <<2, 2>>, <<5, 1, 6>>, <<5, 6>>}}

MCExchanges ==
  {[x \in {} |-> 0], [x \in {1} |-> 2], [x \in {1, 3} |-> 7], [x \in {2} |-> 5]}

Insert(count, method) == [recall |-> "Live", count |-> count, method |-> method]
Forced(rules, num, size, ins) ==
  [type |-> "ForcedInsert", rules |-> rules, PageNum |-> num, PageSize |-> size,
   PageInsertCount |-> ins]
Score(recalls, factor) ==
  [type |-> "ScoreControl", method |-> "RecallType", recalls |-> recalls, factor |-> factor]
Homogen(topN) == [type |-> "HomogenContent", topN |-> topN]
MMR(lambda, dimension) ==
  [type |-> "MMRRearrange", lambda |-> lambda, dimension |-> dimension]

Unpaged == {Forced(<<Insert(1, "TopNOrder")>>, 0, 0, 0),
            Forced(<<Insert(2, "TopNRand")>>, 0, 0, 0),
            Forced(<<Insert(1, "TopNOrder"),
                     [recall |-> "Hot", count |-> 1, method |-> "TopNOrder"]>>, 0, 0, 0)}
Paged == {Forced(<<Insert(2, "TopNOrder")>>, 2, 2, 1)}
Strategies ==
  {Score({"Live", "Hot"}, 2), Homogen(2), Homogen(0), MMR(5, 0), MMR(7, 2)}
    \cup Unpaged \cup Paged
MCChains == {<<s, t>> : s \in Strategies, t \in Strategies}

PagedChains == {<<Forced(<<Insert(1, "TopNOrder")>>, 2, 2, 1)>>}
=============================================================================
