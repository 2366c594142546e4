------------------------------ MODULE ShowChain -----------------------------
(***************************************************************************)
(* ApplyShowStrategiesWithExclusive: the strategies of one show profile    *)
(* run one after the other on the ranked list.                             *)
(***************************************************************************)
EXTENDS ShowControl

CONSTANTS
  MainLists,  \* ranked lists the chain may start from
  Pools,      \* exclusive pools: recall type -> items
  Exchanges,  \* homogen exchange maps that may be read
  Chains      \* strategy lists of the configuration

ASSUME ShowChainAssumption ==
  /\ \A s \in MainLists : s \in Seq(ItemInfo) /\ UniqueIds(s)
  /\ \A pool \in Pools : IsPool(pool)
  /\ \A exchange \in Exchanges : IsExchange(exchange)
  /\ \A strategies \in Chains : AreStrategies(strategies)

VARIABLES
  list,       \* the list the next strategy gets
  exclusive,  \* the exclusive pool of the request
  chain, k,   \* the configured strategies, and which one is next
  read        \* the exchange map the last strategy found in the feature store

vars == <<list, exclusive, chain, k, read>>

Init ==
  /\ list \in MainLists
  /\ exclusive \in Pools
  /\ chain \in Chains
  /\ k = 1
  /\ read = [x \in {} |-> 0]

\* one strategy; HomogenContent reads the exchange map when it runs
Apply ==
  /\ k <= Len(chain)
  /\ read' \in IF chain[k].type = "HomogenContent" THEN Exchanges ELSE {read}
  /\ list' \in ApplyStrategy(list, exclusive, read', chain[k])
  /\ k' = k + 1
  /\ UNCHANGED <<exclusive, chain>>

Done == k > Len(chain) /\ UNCHANGED vars

Next == Apply \/ Done

Spec == Init /\ [][Next]_vars

\* the loop over the strategies neither blocks nor waits
FairSpec == Spec /\ WF_vars(Apply)

-----------------------------------------------------------------------------
Strategy == chain[k]
Step(type) == k <= Len(chain) /\ k' = k + 1 /\ Strategy.type = type
Rule(n) == Strategy.rules[n]

Pooled == UNION {Ids(exclusive[r]) : r \in DOMAIN exclusive}

\* the items a ForcedInsert strategy may take for its rule n
Sourced(n) == Ids(InsertSource(list, exclusive, Rule(n)))

HasInserts ==
  \E r \in DOMAIN Strategy.rules : Sourced(r) # {} /\ Rule(r).count > 0

\* No chain of strategies shows an item twice, whatever overlaps the ranked
\* list, the exclusive pool and the exchange map have.
ShownOnce == UniqueIds(list)

\* HomogenContent with a map in hand makes an item disappear only where its
\* own alternative is shown instead: two items that share an alternative do not
\* both give way to it (applyHomogenContent keeps the second one).
HomogenReplaces ==
  [][(Step("HomogenContent") /\ DOMAIN read' # {}) =>
       LET gone == Ids(list) \ Ids(list')
       IN  /\ gone \subseteq DOMAIN read'
           /\ \A x \in gone : read'[x] \in Ids(list')
           /\ \A x, y \in gone : x # y => read'[x] # read'[y]]_vars

\* An unpaged ForcedInsert that has something to insert puts it on top and
\* keeps every other item, in its order.
InsertsOnTop ==
  [][(Step("ForcedInsert") /\ Strategy.PageSize = 0) =>
       \E n \in 0 .. Len(list') :
         /\ HasInserts => n > 0
         /\ Ids(SubSeq(list', 1, n)) \subseteq
              UNION {Sourced(r) : r \in DOMAIN Strategy.rules}
         /\ SubSeq(list', n + 1, Len(list')) =
              OfIds(list, Ids(list) \ Ids(SubSeq(list', 1, n)))]_vars

\* A paged ForcedInsert neither crowds nor shuffles: the ranked items it does
\* not take stay in their order, a list shorter than a page is left alone, and
\* when the inserts are new to the list every PageSize places hold at most
\* PageInsertCount of them.
PagesKeepOrder ==
  [][(Step("ForcedInsert") /\ Strategy.PageNum > 0 /\ Strategy.PageInsertCount \in 1 .. Strategy.PageSize - 1
       /\ list # <<>>) =>
       LET sourced == UNION {Sourced(r) : r \in DOMAIN Strategy.rules}
           ranked == Ids(list') \ sourced
           Inserted(n) == {j \in 1 .. n : list'[j].id \in sourced}
       IN  /\ OfIds(list', ranked) = OfIds(list, ranked)
           /\ Len(list) < Strategy.PageSize => list' = list
           /\ sourced \cap Ids(list) = {} =>
                \A n \in DOMAIN list' :
                  Cardinality(Inserted(n)) <=
                    Strategy.PageInsertCount * (((n - 1) \div Strategy.PageSize) + 1)]_vars

\* MMRRearrange shows items of the list, as many as MMRDimension asks for, and
\* fewer only when every item it leaves out has a score as far below zero as the
\* highest one is above it: no other score, penalty or MMRConstant takes a value
\* down to where its search for the best starts.
MMRRearranges ==
  [][Step("MMRRearrange") =>
       /\ ToSet(list') \subseteq ToSet(list)
       /\ \/ Len(list') = IF Len(list) < 2 THEN Len(list)
                          ELSE Len(Cap(list, Strategy.dimension))
          \/ \A it \in ToSet(list) \ ToSet(list') :
               it.score < 0 /\ \A other \in ToSet(list) : it.score <= -other.score]_vars

\* What recommend-showcontrol.json:28 says of ForcedInsert, that it inserts:
\* nothing that was ranked is lost.
InsertKeepsRanked ==
  [][Step("ForcedInsert") => Ids(list) \subseteq Ids(list')]_vars
=============================================================================
