-------------------------- MODULE RankServiceProofs --------------------------
(***************************************************************************)
(* The rank service, for every list of distinct items, every engine and    *)
(* all truncations: its sorts and cuts keep the items they should, the     *)
(* tables in service are whole, a coarse score is the factorization        *)
(* machine of the model file, and a wrapped password gets in.              *)
(***************************************************************************)
EXTENDS RankService, ListProofs

-----------------------------------------------------------------------------
(* Lists *)

IsItem(w) ==
  w = [id |-> w.id, sparse |-> w.sparse, dense |-> w.dense, pre |-> w.pre, rank |-> w.rank,
       re |-> w.re]
List(w) == w \in Seq(ToSet(w)) /\ UniqueIds(w) /\ \A p \in DOMAIN w : IsItem(w[p])

\* A cut of a list is a list.
LEMMA CappedList ==
  ASSUME NEW w, List(w), NEW n \in Int
  PROVE  List(Cap(w, n)) /\ Len(Cap(w, n)) = CapLen(Len(w), n)
<1>1. PICK T : w \in Seq(T)
  BY DEF List
<1>2. UniqueIds(w) /\ \A p \in DOMAIN w : IsItem(w[p])
  BY DEF List
<1>3. /\ Cap(w, n) \in Seq(T) /\ Len(Cap(w, n)) = CapLen(Len(w), n)
      /\ \A p \in DOMAIN Cap(w, n) : p \in DOMAIN w /\ Cap(w, n)[p] = w[p]
  BY <1>1, CapKeepsFront
<1>4. UniqueIds(Cap(w, n))
  BY <1>1, <1>2, CapKeepsDistinct
<1>5. Cap(w, n) \in Seq(ToSet(Cap(w, n)))
  BY <1>3, OverItself
<1>6. \A p \in DOMAIN Cap(w, n) : IsItem(Cap(w, n)[p])
  BY <1>2, <1>3
<1> QED BY <1>3, <1>4, <1>5, <1>6 DEF List

\* A list has as many items as places.
LEMMA ListIsCounted == ASSUME NEW w, List(w) PROVE Cardinality(Ids(w)) = Len(w)
<1>1. PICK T : w \in Seq(T)
  BY DEF List
<1> QED BY <1>1, IdsAreCounted DEF List

\* A list in another order is a list of the same items.
LEMMA ReorderedList ==
  ASSUME NEW w, List(w), NEW f \in Bijection(DOMAIN w, DOMAIN w), NEW t,
         t = [p \in DOMAIN w |-> w[f[p]]]
  PROVE  List(t) /\ Len(t) = Len(w) /\ DOMAIN t = DOMAIN w /\ Ids(t) = Ids(w)
<1>1. PICK T : w \in Seq(T)
  BY DEF List
<1>2. UniqueIds(w) /\ \A p \in DOMAIN w : IsItem(w[p])
  BY DEF List
<1>3. /\ t \in Seq(T) /\ Len(t) = Len(w) /\ DOMAIN t = DOMAIN w /\ Ids(t) = Ids(w)
      /\ UniqueIds(t)
  BY <1>1, <1>2, PermutedList
<1>4. t \in Seq(ToSet(t))
  BY <1>3, OverItself
<1>5. \A p \in DOMAIN t : IsItem(t[p])
  BY <1>2, <1>3 DEF Bijection, Injection
<1> QED BY <1>3, <1>4, <1>5 DEF List

LEMMA SortedByCoarse ==
  ASSUME NEW w, List(w), NEW t \in SortedBy(w, LAMBDA x : x.pre)
  PROVE  /\ List(t) /\ Len(t) = Len(w) /\ Ids(t) = Ids(w)
         /\ \A p, q \in DOMAIN t : p < q => t[p].pre >= t[q].pre
BY ReorderedList DEF SortedBy

LEMMA SortedByFine ==
  ASSUME NEW w, List(w), NEW t \in SortedBy(w, LAMBDA x : x.rank)
  PROVE  /\ List(t) /\ Len(t) = Len(w) /\ Ids(t) = Ids(w)
         /\ \A p \in DOMAIN t : \E q \in DOMAIN w : t[p] = w[q]
BY ReorderedList DEF SortedBy, Bijection, Injection

LEMMA SortedByRe ==
  ASSUME NEW w, List(w), NEW t \in SortedBy(w, LAMBDA x : x.re)
  PROVE  /\ List(t) /\ Len(t) = Len(w) /\ Ids(t) = Ids(w)
         /\ \A p, q \in DOMAIN t : p < q => t[p].re >= t[q].re
         /\ \A p \in DOMAIN t : \E q \in DOMAIN w : t[p] = w[q]
BY ReorderedList DEF SortedBy, Bijection, Injection

-----------------------------------------------------------------------------
(* What a group is made of *)

\* The items of the coarse stage are those of the request.
LEMMA CoarseList ==
  ASSUME req \in Requests, NEW d
  PROVE  List(Coarse(d)) /\ Len(Coarse(d)) = Len(req.ids) /\ Ids(Coarse(d)) = Requested
<1>1. /\ req.ids \in Seq(Int) /\ \A p, q \in DOMAIN req.ids : req.ids[p] = req.ids[q] => p = q
  BY RequestsAssumption DEF IsInjective
<1>2. /\ DOMAIN Coarse(d) = DOMAIN req.ids
      /\ \A p \in DOMAIN req.ids : Coarse(d)[p].id = req.ids[p] /\ IsItem(Coarse(d)[p])
  BY DEF Coarse, Scored, IsItem
<1>3. Coarse(d) \in Seq(ToSet(Coarse(d))) /\ Len(Coarse(d)) = Len(req.ids)
  <2>1. Coarse(d) = [p \in 1 .. Len(req.ids) |-> Coarse(d)[p]] /\ Len(req.ids) \in Nat
    BY <1>1 DEF Coarse
  <2> QED BY <2>1, FunctionIsSequence
<1>4. UniqueIds(Coarse(d))
  BY <1>1, <1>2 DEF UniqueIds
<1>5. Ids(Coarse(d)) = Requested
  BY <1>2 DEF Ids, Requested, ToSet
<1> QED BY <1>2, <1>3, <1>4, <1>5 DEF List

\* An engine that is no pipeline answers the items of the request.
LEMMA MockList ==
  ASSUME NEW ids \in Seq(Int), IsInjective(ids)
  PROVE  /\ List(MockRankGroup(ids)) /\ Len(MockRankGroup(ids)) = Len(ids)
         /\ Ids(MockRankGroup(ids)) \subseteq ToSet(ids)
<1> DEFINE m == MockRankGroup(ids)
           n == Len(ids)
<1>1. n \in Nat /\ DOMAIN ids = 1 .. n /\ \A p, q \in 1 .. n : ids[p] = ids[q] => p = q
  BY DEF IsInjective
<1>2. /\ DOMAIN m = 1 .. n
      /\ \A p \in 1 .. n : m[p].id = ids[n + 1 - p] /\ IsItem(m[p])
  BY <1>1 DEF MockRankGroup, Scored, IsItem
<1>3. m = [p \in 1 .. n |-> m[p]]
  BY <1>1 DEF MockRankGroup
<1> HIDE DEF m, n
<1>4. m \in Seq(ToSet(m)) /\ Len(m) = n
  BY <1>1, <1>3, FunctionIsSequence
<1>5. UniqueIds(m)
  BY <1>1, <1>2 DEF UniqueIds
<1>6. Ids(m) \subseteq ToSet(ids)
  <2>1. ASSUME NEW p \in 1 .. n PROVE m[p].id \in ToSet(ids)
    <3>1. n + 1 - p \in DOMAIN ids
      BY <1>1
    <3>2. m[p].id = ids[n + 1 - p]
      BY <1>2
    <3> QED BY <3>1, <3>2 DEF ToSet
  <2> QED BY <1>2, <2>1 DEF Ids
<1> QED BY <1>2, <1>4, <1>5, <1>6 DEF List, m, n

-----------------------------------------------------------------------------
(* The service *)

IsTable(table) ==
  /\ table \in Seq(ToSet(table))
  /\ \A e \in DOMAIN table :
       /\ table[e].strategies \in Seq(ToSet(table[e].strategies))
       /\ \A n \in DOMAIN table[e].strategies : table[e].strategies[n].trunc \in Int

\* the truncations of engines and experiments are numbers
ServiceOK ==
  /\ conf \in Configs
  /\ pc \notin {"boot", "refused"} =>
       /\ Default \in DOMAIN svc.engines
       /\ \A name \in DOMAIN svc.engines :
            svc.engines[name].PreRankTrunc \in Int /\ svc.engines[name].RankTrunc \in Int
       /\ IsTable(svc.exp.PreRankExp) /\ IsTable(svc.exp.RankExp)

\* An engine truncates as its configuration says.
LEMMA EngineTruncates ==
  ASSUME NEW c, NewEngine(c) # <<>>
  PROVE  NewEngine(c)[1].PreRankTrunc = c.PreRankTrunc /\ NewEngine(c)[1].RankTrunc = c.RankTrunc
BY DEF NewEngine

LEMMA BootOK == ServiceOK /\ Boot => ServiceOK'
<1> SUFFICES ASSUME ServiceOK, Boot PROVE ServiceOK'
  OBVIOUS
<1>1. conf' = conf /\ conf \in Configs
  BY DEF Boot, ServiceOK
<1>2. PICK reachable \in BOOLEAN :
        LET context == NewServiceContext(conf, NewFetcher(conf.redis, reachable))
        IN  IF context = <<>> THEN pc' = "refused" /\ UNCHANGED svc
            ELSE pc' = "start" /\ svc' = context[1]
  BY DEF Boot
<1> DEFINE fetch == NewFetcher(conf.redis, reachable)
           context == NewServiceContext(conf, fetch)
           engines == EngineConfigs(conf)
<1>3. CASE context = <<>>
  BY <1>1, <1>2, <1>3 DEF ServiceOK
<1>4. CASE context # <<>>
  <2> HIDE DEF fetch
  <2>1. /\ \A name \in DOMAIN engines : NewEngine(engines[name]) # <<>>
        /\ conf.exp.status # "broken"
    BY <1>4 DEF NewServiceContext
  <2>2. /\ svc'.engines = [name \in DOMAIN engines |-> NewEngine(engines[name])[1]]
        /\ svc'.exp = IF conf.exp.status = "unset" THEN NoContext.exp ELSE conf.exp.conf
    BY <1>2, <1>4, <2>1 DEF NewServiceContext, fetch
  <2>3. Default \in DOMAIN engines
    BY DEF EngineConfigs
  <2>4. \A name \in DOMAIN engines :
          engines[name].PreRankTrunc \in Int /\ engines[name].RankTrunc \in Int
    BY <1>1, ConfigsAssumption
  <2> HIDE DEF engines
  <2>5. \A name \in DOMAIN svc'.engines :
          svc'.engines[name].PreRankTrunc \in Int /\ svc'.engines[name].RankTrunc \in Int
    BY <2>1, <2>2, <2>4, EngineTruncates
  <2>6. IsTable(svc'.exp.PreRankExp) /\ IsTable(svc'.exp.RankExp)
    <3>1. CASE conf.exp.status = "unset"
      <4>1. NoContext.exp = [PreRankExp |-> <<>>, RankExp |-> <<>>]
        BY DEF NoContext
      <4>2. svc'.exp.PreRankExp = <<>> /\ svc'.exp.RankExp = <<>>
        BY <2>2, <3>1, <4>1
      <4>3. IsTable(<<>>)
        BY DEF IsTable
      <4> QED BY <4>2, <4>3
    <3>2. CASE conf.exp.status = "read"
      BY <1>1, <2>2, <3>2, ConfigsAssumption DEF IsTable
    <3> QED BY <1>1, <2>1, <3>1, <3>2, ConfigsAssumption
  <2>7. Default \in DOMAIN svc'.engines
    BY <2>2, <2>3
  <2> QED BY <1>1, <2>5, <2>6, <2>7 DEF ServiceOK
<1> QED BY <1>3, <1>4

LEMMA NextService == ServiceOK /\ [Next]_vars => ServiceOK'
<1> SUFFICES ASSUME ServiceOK, [Next]_vars PROVE ServiceOK'
  OBVIOUS
<1>1. CASE Boot
  BY <1>1, BootOK
<1>2. CASE /\ UNCHANGED <<conf, svc>>
           /\ pc \in {"boot", "refused"} => pc' = pc
  BY <1>2 DEF ServiceOK
<1>3. CASE Handle \/ PreRank \/ Truncate \/ FineScore \/ FineSort \/ ReRank
  BY <1>2, <1>3 DEF Handle, PreRank, Truncate, FineScore, FineSort, ReRank
<1>4. CASE Done \/ UNCHANGED vars
  BY <1>2, <1>4 DEF Done, vars
<1> QED BY <1>1, <1>3, <1>4 DEF Next, Step

-----------------------------------------------------------------------------
(* The choice of the truncations *)

Chosen ==
  pc \notin {"boot", "refused", "start"} =>
    /\ req \in Requests
    /\ preN \in Int /\ rankN \in Int
    /\ preN = FirstPositive(req.PreRankTrunc, PreRankStage(req.ExpIDs).trunc, eng.PreRankTrunc)
    /\ rankN = FirstPositive(req.RankTrunc, RankStage(req.ExpIDs).trunc, eng.RankTrunc)

LEMMA NextChosen == ServiceOK /\ Chosen /\ [Next]_vars => Chosen'
<1> SUFFICES ASSUME ServiceOK, Chosen, [Next]_vars PROVE Chosen'
  OBVIOUS
<1>1. CASE Boot
  BY <1>1 DEF Boot, Chosen
<1>2. CASE Handle
  <2>1. eng' \in {svc.engines[name] : name \in DOMAIN svc.engines}
    BY <1>2 DEF Handle, EngineFor, ServiceOK
  <2>2. eng'.PreRankTrunc \in Int /\ eng'.RankTrunc \in Int
    BY <1>2, <2>1 DEF Handle, ServiceOK
  <2>3. svc' = svc
    BY <1>2 DEF Handle
  <2>4. /\ req' \in Requests /\ req'.ExpIDs \in Seq(Int)
        /\ req'.PreRankTrunc \in Int /\ req'.RankTrunc \in Int
    BY <1>2, RequestsAssumption DEF Handle
  <2>5. IsTable(svc.exp.PreRankExp) /\ IsTable(svc.exp.RankExp)
    BY <1>2 DEF Handle, ServiceOK
  <2>6. /\ PreRankStage(req'.ExpIDs).trunc \in Int
        /\ RankStage(req'.ExpIDs).trunc \in Int
    BY <2>4, <2>5, StageIsOfTable DEF PreRankStage, RankStage, IsTable
  <2>7. preN' \in Int /\ rankN' \in Int
    BY <1>2, <2>2, <2>4, <2>6 DEF Handle, FirstPositive
  <2> QED BY <1>2, <2>3, <2>7 DEF Handle, Chosen, PreRankStage, RankStage
<1>3. CASE /\ UNCHANGED <<req, svc, eng, preN, rankN>>
           /\ pc \in {"boot", "refused", "start"} => pc' = pc
  BY <1>3 DEF Chosen, PreRankStage, RankStage
<1>4. CASE PreRank \/ Truncate \/ FineScore \/ FineSort \/ ReRank
  BY <1>3, <1>4 DEF PreRank, Truncate, FineScore, FineSort, ReRank
<1>5. CASE Done \/ UNCHANGED vars
  BY <1>3, <1>5 DEF Done, vars
<1> QED BY <1>1, <1>2, <1>4, <1>5 DEF Next, Step

-----------------------------------------------------------------------------
(* The experiments *)

BaseEntries(table) == {e \in DOMAIN table : table[e].exp = 0}
IsFirstBase(b, table) == table[b].exp = 0 /\ \A e \in DOMAIN table : table[e].exp = 0 => b <= e
FirstBase(table) == CHOOSE b \in DOMAIN table : IsFirstBase(b, table)

\* The baseline that serves is the first of the table.
LEMMA FirstBaseIsLeast ==
  ASSUME NEW T, NEW table \in Seq(T), BaseEntries(table) # {}
  PROVE  FirstBase(table) \in DOMAIN table /\ FirstBase(table) = Min(BaseEntries(table))
<1>1. DOMAIN table \subseteq Nat /\ BaseEntries(table) \in SUBSET Nat
  BY DEF BaseEntries
<1>2. /\ Min(BaseEntries(table)) \in BaseEntries(table)
      /\ \A e \in BaseEntries(table) : Min(BaseEntries(table)) <= e
  BY <1>1, MinIsMember
<1>3. IsFirstBase(Min(BaseEntries(table)), table)
  BY <1>2 DEF IsFirstBase, BaseEntries
<1>4. Min(BaseEntries(table)) \in DOMAIN table
  BY <1>2 DEF BaseEntries
<1>5. FirstBase(table) \in DOMAIN table /\ IsFirstBase(FirstBase(table), table)
  BY <1>3, <1>4 DEF FirstBase
<1> QED BY <1>1, <1>3, <1>4, <1>5 DEF IsFirstBase

\* A stage without an entry for the request is served by the baseline as if it
\* were alone.
LEMMA UnnamedIsBase ==
  ASSUME NEW T, NEW table \in Seq(T), NEW exps \in Seq(Int),
         \A e \in DOMAIN table : table[e].exp \notin ToSet(exps),
         \E e \in DOMAIN table : table[e].exp = 0
  PROVE  ResolveStage(table, exps) = ResolveStage(<<table[FirstBase(table)]>>, <<>>)
<1>1. BaseEntries(table) # {} /\ table # <<>>
  BY DEF BaseEntries
<1>2. PickABVariantIndex(exps, table) = FirstBase(table)
  <2>1. \A r \in DOMAIN exps : {v \in DOMAIN table : table[v].exp = exps[r]} = {}
    BY DEF ToSet
  <2>2. PickABVariantIndex(exps, table) = Min(BaseEntries(table))
    BY <1>1, <2>1 DEF PickABVariantIndex, BaseEntries
  <2> QED BY <1>1, <2>2, FirstBaseIsLeast
<1> DEFINE entry == table[FirstBase(table)]
<1>3. PickABVariantIndex(<<>>, <<entry>>) = 1
  <2> HIDE DEF entry
  <2>1. <<entry>> \in Seq({entry}) /\ <<entry>> # <<>> /\ <<>> \in Seq(Int) /\ DOMAIN <<entry>> = {1}
    OBVIOUS
  <2> QED BY <2>1, PickIsEntry
<1>4. ResolveStage(table, exps)
        = IF entry.strategies = <<>> THEN Missing ELSE Head(entry.strategies)
  BY <1>1, <1>2 DEF ResolveStage
<1>5. ResolveStage(<<entry>>, <<>>)
        = IF entry.strategies = <<>> THEN Missing ELSE Head(entry.strategies)
  <2> HIDE DEF entry
  <2>1. <<entry>>[1] = entry /\ <<entry>> # <<>>
    OBVIOUS
  <2> QED BY <1>3, <2>1 DEF ResolveStage
<1> QED BY <1>4, <1>5

LEMMA ChosenIsBaseline == ServiceOK /\ Chosen => BaselineUntouched
<1> SUFFICES ASSUME ServiceOK, Chosen, pc \notin {"boot", "refused", "start"}
             PROVE  BaselineUntouched
  BY DEF BaselineUntouched
<1>1. req.ExpIDs \in Seq(Int)
  BY RequestsAssumption DEF Chosen
<1> DEFINE Unnamed(table) ==
             /\ \A e \in DOMAIN table : table[e].exp \notin ToSet(req.ExpIDs)
             /\ \E e \in DOMAIN table : table[e].exp = 0
           Base(table) == ResolveStage(<<table[FirstBase(table)]>>, <<>>).trunc
<1>2. ASSUME NEW table, IsTable(table), Unnamed(table)
      PROVE  ResolveStage(table, req.ExpIDs).trunc = Base(table)
  BY <1>1, <1>2, UnnamedIsBase DEF IsTable
<1>3. Unnamed(svc.exp.PreRankExp) =>
        preN = FirstPositive(req.PreRankTrunc, Base(svc.exp.PreRankExp), eng.PreRankTrunc)
  BY <1>2 DEF ServiceOK, Chosen, PreRankStage
<1>4. Unnamed(svc.exp.RankExp) =>
        rankN = FirstPositive(req.RankTrunc, Base(svc.exp.RankExp), eng.RankTrunc)
  BY <1>2 DEF ServiceOK, Chosen, RankStage
<1> QED BY <1>3, <1>4 DEF BaselineUntouched, FirstBase, IsFirstBase

-----------------------------------------------------------------------------
(* The list in its stages *)

Sent == CapLen(CapLen(Len(req.ids), preN), rankN)

\* before the cuts every item is there, in the order of its coarse score; after
\* them a list of items of the request is
Ranking ==
  /\ pc \in {"coarse", "cut", "fine", "rerank"} => eng.pipeline
  /\ pc = "cut" =>
       /\ List(work) /\ Len(work) = Len(req.ids) /\ Ids(work) = Requested
       /\ \A p, q \in DOMAIN work : p < q => work[p].pre >= work[q].pre
       /\ \A p \in DOMAIN work : coarse[work[p].id] = work[p].pre
  /\ pc \in {"fine", "rerank"} =>
       /\ List(work) /\ Len(work) = Sent /\ Ids(work) \subseteq Requested
       /\ CutsTheWorst
  /\ AnswersAll

LEMMA HandleRanks ==
  ASSUME Chosen', Handle PROVE Ranking'
<1>1. req' \in Requests /\ preN' \in Int /\ rankN' \in Int
  BY DEF Handle, Chosen
<1>2. req'.ids \in Seq(Int) /\ IsInjective(req'.ids) /\ req'.RetCount \in Int
  BY <1>1, RequestsAssumption
<1>3. CASE eng'.pipeline /\ req'.ids # <<>>
  BY <1>3 DEF Handle, Ranking, AnswersAll
<1>4. CASE ~(eng'.pipeline /\ req'.ids # <<>>)
  <2> DEFINE m == MockRankGroup(req'.ids)
  <2>1. pc' = "done" /\ work' = Cap(m, req'.RetCount)
    BY <1>4 DEF Handle
  <2>2. List(m) /\ Len(m) = Len(req'.ids) /\ Ids(m) \subseteq ToSet(req'.ids)
    BY <1>2, MockList
  <2> HIDE DEF m
  <2>3. /\ List(work') /\ Len(work') = CapLen(Len(req'.ids), req'.RetCount)
        /\ Ids(work') \subseteq ToSet(req'.ids)
    BY <1>2, <2>1, <2>2, CappedList, CapKeepsDistinct DEF List
  <2>4. Cardinality(Ids(work')) = Len(work')
    BY <2>3, ListIsCounted
  <2>5. Len(Cap(req'.ids, req'.RetCount)) = CapLen(Len(req'.ids), req'.RetCount)
    <3>1. \A ids \in Seq(Int), n \in Int : Len(Cap(ids, n)) = CapLen(Len(ids), n)
      BY CapKeepsFront
    <3> QED BY <1>2, <3>1
  <2>6. req'.ids = <<>> => Cap(Cap(req'.ids, preN'), rankN') = req'.ids
    BY <1>1 DEF Cap
  <2>7. eng'.pipeline => req'.ids = <<>>
    BY <1>4
  <2>8. AnswersAll'
    BY <2>3, <2>4, <2>5, <2>6, <2>7 DEF AnswersAll, Requested
  <2> QED BY <2>1, <2>8 DEF Ranking
<1> QED BY <1>3, <1>4

LEMMA PreRankRanks ==
  ASSUME Chosen, Ranking, PreRank PROVE Ranking'
<1>1. req \in Requests /\ eng.pipeline /\ req' = req /\ eng' = eng /\ pc' = "cut"
  BY DEF PreRank, Chosen, Ranking
<1> DEFINE c == Coarse(docs')
<1>2. work' \in SortedBy(c, LAMBDA w : w.pre)
  BY DEF PreRank
<1>3. List(c) /\ Len(c) = Len(req.ids) /\ Ids(c) = Requested
  BY <1>1, CoarseList
<1> HIDE DEF c
<1>4. /\ List(work') /\ Len(work') = Len(req.ids) /\ Ids(work') = Requested
      /\ \A p, q \in DOMAIN work' : p < q => work'[p].pre >= work'[q].pre
  BY <1>2, <1>3, SortedByCoarse
<1>5. ASSUME NEW p \in DOMAIN work' PROVE coarse'[work'[p].id] = work'[p].pre
  <2>1. work'[p].id \in ToSet(req.ids)
    BY <1>4, <1>5 DEF Ids, Requested
  <2>2. coarse'[work'[p].id] = (CHOOSE w \in ToSet(work') : w.id = work'[p].id).pre
    BY <2>1 DEF PreRank
  <2>3. \A w \in ToSet(work') : w.id = work'[p].id => w = work'[p]
    BY <1>4, <1>5 DEF List, UniqueIds, ToSet
  <2>4. work'[p] \in ToSet(work')
    BY <1>5 DEF ToSet
  <2> QED BY <2>2, <2>3, <2>4
<1>6. Requested' = Requested
  BY <1>1 DEF Requested
<1> QED BY <1>1, <1>4, <1>5, <1>6 DEF Ranking, AnswersAll

\* No item that is cut off is above one that is kept.
LEMMA TruncateRanks ==
  ASSUME Chosen, Ranking, Truncate PROVE Ranking'
<1>1. /\ req \in Requests /\ preN \in Int /\ rankN \in Int /\ eng.pipeline
      /\ List(work) /\ Len(work) = Len(req.ids) /\ Ids(work) = Requested
      /\ \A p, q \in DOMAIN work : p < q => work[p].pre >= work[q].pre
      /\ \A p \in DOMAIN work : coarse[work[p].id] = work[p].pre
  BY DEF Truncate, Chosen, Ranking
<1>2. /\ pc' = "fine" /\ UNCHANGED <<req, eng, preN, rankN, coarse>>
      /\ work' = Cap(Cap(work, preN), rankN)
  BY DEF Truncate
<1> DEFINE once == Cap(work, preN)
<1>3. List(once) /\ Len(once) = CapLen(Len(req.ids), preN)
  BY <1>1, CappedList
<1>4. PICK T : work \in Seq(T)
  BY <1>1 DEF List
<1>5. \A p \in DOMAIN once : p \in DOMAIN work /\ once[p] = work[p]
  BY <1>1, <1>4, CapKeepsFront
<1>6. PICK U : once \in Seq(U)
  BY <1>3 DEF List
<1> HIDE DEF once
<1>7. work' = Cap(once, rankN)
  BY <1>2 DEF once
<1>8. List(work') /\ Len(work') = Sent
  BY <1>1, <1>3, <1>7, CappedList DEF Sent
<1>9. \A p \in DOMAIN work' : p \in DOMAIN work /\ work'[p] = work[p]
  BY <1>1, <1>5, <1>6, <1>7, CapKeepsFront
<1>10. Ids(work') \subseteq Requested
  BY <1>1, <1>9 DEF Ids
<1>11. ASSUME NEW kept \in Ids(work'), NEW cut \in Requested \ Ids(work')
       PROVE  coarse[kept] >= coarse[cut]
  <2>1. PICK p \in DOMAIN work' : work'[p].id = kept
    BY DEF Ids
  <2>2. PICK q \in DOMAIN work : work[q].id = cut
    BY <1>1 DEF Ids
  <2>3. q \notin DOMAIN work'
    BY <1>9, <2>2 DEF Ids
  <2>4. DOMAIN work = 1 .. Len(work) /\ DOMAIN work' = 1 .. Len(work')
        /\ Len(work) \in Nat /\ Len(work') \in Nat
    <3>1. PICK V : work' \in Seq(V)
      BY <1>8 DEF List
    <3> QED BY <1>4, <3>1
  <2>5. p < q /\ p \in DOMAIN work
    BY <1>9, <2>1, <2>2, <2>3, <2>4
  <2> QED BY <1>1, <1>9, <2>1, <2>2, <2>5
<1>12. Requested' = Requested /\ Sent' = Sent
  BY <1>2 DEF Requested, Sent
<1> QED BY <1>1, <1>2, <1>8, <1>10, <1>11, <1>12 DEF Ranking, CutsTheWorst, AnswersAll

\* A list of the same ids is cut as well as before.
LEMMA SameIds ==
  ASSUME Ranking, pc \in {"fine", "rerank"}, pc' \in {"fine", "rerank"},
         UNCHANGED <<req, eng, preN, rankN, coarse>>,
         List(work'), Len(work') = Len(work), Ids(work') = Ids(work)
  PROVE  Ranking'
BY DEF Ranking, CutsTheWorst, AnswersAll, Requested, Sent

LEMMA FineScoreRanks ==
  ASSUME Ranking, FineScore PROVE Ranking'
<1>1. /\ pc = "fine" /\ pc' = "fine" /\ k <= Len(work)
      /\ UNCHANGED <<req, eng, preN, rankN, coarse>>
  BY DEF FineScore
<1>2. PICK score : work' = [work EXCEPT ![k].rank = score]
  BY DEF FineScore
<1>3. List(work)
  BY <1>1 DEF Ranking
<1>4. DOMAIN work = 1 .. Len(work) /\ Len(work) \in Nat /\ DOMAIN work' = DOMAIN work
  <2>1. PICK T : work \in Seq(T)
    BY <1>3 DEF List
  <2> QED BY <1>2, <2>1
<1>5. ASSUME NEW p \in DOMAIN work
      PROVE  IsItem(work'[p]) /\ work'[p].id = work[p].id
  <2>1. work[p] = [id |-> work[p].id, sparse |-> work[p].sparse, dense |-> work[p].dense,
                   pre |-> work[p].pre, rank |-> work[p].rank, re |-> work[p].re]
    BY <1>3 DEF List, IsItem
  <2>2. work'[p] = work[p] \/ work'[p] = [work[p] EXCEPT !.rank = score]
    BY <1>2
  <2> QED BY <2>1, <2>2 DEF IsItem
<1>6. work' = [p \in 1 .. Len(work) |-> work'[p]]
  BY <1>2, <1>4
<1>7. work' \in Seq(ToSet(work')) /\ Len(work') = Len(work)
  BY <1>4, <1>6, FunctionIsSequence
<1>8. List(work')
  BY <1>3, <1>4, <1>5, <1>7 DEF List, UniqueIds
<1>9. Ids(work') = Ids(work)
  BY <1>4, <1>5 DEF Ids
<1> QED BY <1>1, <1>7, <1>8, <1>9, SameIds

LEMMA FineSortRanks ==
  ASSUME Ranking, FineSort PROVE Ranking'
<1>1. /\ pc = "fine" /\ pc' = "rerank" /\ UNCHANGED <<req, eng, preN, rankN, coarse>>
      /\ work' \in SortedBy(work, LAMBDA w : w.rank)
  BY DEF FineSort
<1>2. List(work)
  BY <1>1 DEF Ranking
<1> QED BY <1>1, <1>2, SortedByFine, SameIds

ReRankedList(w) == [p \in DOMAIN w |-> [w[p] EXCEPT !.re = ReRanked(w[p])]]

\* Re-rank changes no more than the last score of an item.
LEMMA ReRankKeepsList ==
  ASSUME NEW w, List(w)
  PROVE  /\ List(ReRankedList(w)) /\ Len(ReRankedList(w)) = Len(w)
         /\ DOMAIN ReRankedList(w) = DOMAIN w /\ Ids(ReRankedList(w)) = Ids(w)
         /\ \A p \in DOMAIN w : /\ ReRankedList(w)[p].rank = w[p].rank
                                /\ ReRankedList(w)[p].id = w[p].id
                                /\ ReRankedList(w)[p].re = ReRanked(w[p])
<1> DEFINE r == ReRankedList(w)
<1>1. DOMAIN r = DOMAIN w /\ \A p \in DOMAIN w : r[p] = [w[p] EXCEPT !.re = ReRanked(w[p])]
  BY DEF ReRankedList
<1>2. DOMAIN w = 1 .. Len(w) /\ Len(w) \in Nat
  <2>1. PICK T : w \in Seq(T)
    BY DEF List
  <2> QED BY <2>1
<1>3. r = [p \in 1 .. Len(w) |-> r[p]]
  BY <1>2 DEF ReRankedList
<1> HIDE DEF r
<1>4. ASSUME NEW p \in DOMAIN w
      PROVE  IsItem(r[p]) /\ r[p].id = w[p].id /\ r[p].rank = w[p].rank /\ r[p].re = ReRanked(w[p])
  <2>1. w[p] = [id |-> w[p].id, sparse |-> w[p].sparse, dense |-> w[p].dense,
                pre |-> w[p].pre, rank |-> w[p].rank, re |-> w[p].re]
    BY <1>4 DEF List, IsItem
  <2>2. r[p] = [w[p] EXCEPT !.re = ReRanked(w[p])]
    BY <1>1
  <2> QED BY <2>1, <2>2 DEF IsItem
<1>5. r \in Seq(ToSet(r)) /\ Len(r) = Len(w)
  BY <1>2, <1>3, FunctionIsSequence
<1>6. List(r)
  BY <1>1, <1>4, <1>5 DEF List, UniqueIds
<1>7. Ids(r) = Ids(w)
  BY <1>1, <1>4 DEF Ids
<1> QED BY <1>1, <1>4, <1>5, <1>6, <1>7 DEF r

LEMMA ReRankRanks ==
  ASSUME Chosen, Ranking, ReRank PROVE Ranking'
<1>1. /\ pc = "rerank" /\ pc' = "done" /\ UNCHANGED <<req, eng, preN, rankN>>
      /\ eng.pipeline /\ req \in Requests /\ preN \in Int /\ rankN \in Int
      /\ List(work) /\ Len(work) = Sent /\ Ids(work) \subseteq Requested
  BY DEF ReRank, Chosen, Ranking
<1>2. req.ids \in Seq(Int) /\ req.RetCount \in Int
  BY <1>1, RequestsAssumption
<1>3. PICK sorted \in SortedBy(ReRankedList(work), LAMBDA w : w.re) :
        work' = Cap(sorted, req.RetCount)
  BY DEF ReRank, ReRankedList
<1>4. List(sorted) /\ Len(sorted) = Sent /\ Ids(sorted) \subseteq Requested
  BY <1>1, <1>3, ReRankKeepsList, SortedByRe
<1>5. /\ List(work') /\ Len(work') = CapLen(Sent, req.RetCount)
      /\ Ids(work') \subseteq Requested
  BY <1>2, <1>3, <1>4, CappedList, CapKeepsDistinct DEF List
<1>6. Cardinality(Ids(work')) = Len(work')
  BY <1>5, ListIsCounted
<1>7. Len(Cap(Cap(Cap(req.ids, preN), rankN), req.RetCount)) = CapLen(Sent, req.RetCount)
  <2>1. Cap(req.ids, preN) \in Seq(Int) /\ Len(Cap(req.ids, preN)) = CapLen(Len(req.ids), preN)
    BY <1>1, <1>2, CapKeepsFront
  <2>2. /\ Cap(Cap(req.ids, preN), rankN) \in Seq(Int)
        /\ Len(Cap(Cap(req.ids, preN), rankN)) = Sent
    BY <1>1, <2>1, CapKeepsFront DEF Sent
  <2> QED BY <1>2, <2>2, CapKeepsFront
<1> QED BY <1>1, <1>5, <1>6, <1>7 DEF Ranking, AnswersAll, Requested

LEMMA NextRanking == Chosen /\ Chosen' /\ Ranking /\ [Next]_vars => Ranking'
<1> SUFFICES ASSUME Chosen, Chosen', Ranking, [Next]_vars PROVE Ranking'
  OBVIOUS
<1>1. CASE Boot
  BY <1>1 DEF Boot, Ranking, AnswersAll
<1>2. CASE Done \/ UNCHANGED vars
  BY <1>2 DEF Done, vars, Ranking, CutsTheWorst, AnswersAll, Requested, Sent
<1> QED
  BY <1>1, <1>2, HandleRanks, PreRankRanks, TruncateRanks, FineScoreRanks, FineSortRanks,
     ReRankRanks DEF Next, Step

-----------------------------------------------------------------------------
(* The theorems *)

RankInv == ServiceOK /\ Chosen /\ Ranking

LEMMA InitRankInv == Init => RankInv
BY DEF Init, RankInv, ServiceOK, Chosen, Ranking, AnswersAll

LEMMA NextRankInv == RankInv /\ [Next]_vars => RankInv'
BY NextService, NextChosen, NextRanking DEF RankInv

LEMMA RankInvImplies == RankInv => AnswersAll /\ CutsTheWorst /\ BaselineUntouched
<1>1. ServiceOK /\ Chosen => BaselineUntouched
  BY ChosenIsBaseline
<1>2. Ranking => AnswersAll /\ CutsTheWorst
  BY DEF Ranking, CutsTheWorst
<1> QED BY <1>1, <1>2 DEF RankInv

\* No failure of TF-Serving costs the answer an item, and no sort or cut repeats
\* one, for any number of items and any truncations.
THEOREM EveryItemIsAnswered == Spec => []AnswersAll
<1> QED BY InitRankInv, NextRankInv, RankInvImplies, PTL DEF Spec

\* The truncations before fine rank take the items with the lowest coarse
\* scores, whatever order equal scores are left in.
THEOREM BestAreKept == Spec => []CutsTheWorst
<1> QED BY InitRankInv, NextRankInv, RankInvImplies, PTL DEF Spec

\* A request that names no entry of a stage runs its baseline, for every table
\* that has one at whatever place.
THEOREM BaselineStays == Spec => []BaselineUntouched
<1> QED BY InitRankInv, NextRankInv, RankInvImplies, PTL DEF Spec

-----------------------------------------------------------------------------
(* Re-rank *)

\* the sigmoid gives scores, which are integers
ScoresAreIntegers == \A z : Sigmoid(z) \in Int

\* A number of the width is left as it is.
LEMMA WrapKeeps == ASSUME NEW n \in 0 .. Half - 1 PROVE Wrap(n) = n
<1> DEFINE a == n + Half
           b == 2 * Half
<1>1. a \in 0 .. b - 1 /\ b \in Nat /\ b > 0 /\ a - Half = n
  BY WidthAssumption
<1>2. Wrap(n) = (a % b) - Half
  BY DEF Wrap
<1> HIDE DEF a, b
<1>3. a % b = a
  BY <1>1, Z3
<1> QED BY <1>1, <1>2, <1>3

LEMMA WrapIsNumber == ASSUME NEW n \in Int PROVE Wrap(n) \in Int
<1> DEFINE a == n + Half
           b == 2 * Half
<1>1. a \in Int /\ b \in Nat /\ b > 0 /\ Half \in Int
  BY WidthAssumption
<1>2. Wrap(n) = (a % b) - Half
  BY DEF Wrap
<1> HIDE DEF a, b
<1>3. a % b \in Int
  BY <1>1
<1> QED BY <1>1, <1>2, <1>3

\* the sum a mock score is the remainder of
MockSum(id, salt) == (UserID * 31) + (id * 17) + (salt * 13)

LEMMA MockScoreBounds ==
  ASSUME NEW id \in Int, NEW salt \in Int
  PROVE  /\ MockScore(id, salt) \in Int
         /\ MockScore(id, salt) \div 100 \in -MaxNoise .. MaxNoise
         /\ MockSum(id, salt) \in 0 .. Half - 1 => MockScore(id, salt) \div 100 \in 0 .. MaxNoise
<1> DEFINE n == MockSum(id, salt)
           w == Wrap(n)
           m == GoRem(w, 1000)
<1>1. n \in Int
  <2>1. UserID \in Int
    BY UserAssumption, WidthAssumption DEF Int64
  <2> QED BY <2>1 DEF MockSum
<1>2. MockScore(id, salt) = 100 * m
  BY DEF MockScore, MockSum
<1> HIDE DEF n
<1>3. w \in Int /\ (n \in 0 .. Half - 1 => w >= 0)
  BY <1>1, WrapIsNumber, WrapKeeps
<1> HIDE DEF w
<1>4. m \in -999 .. 999 /\ (w >= 0 => m \in 0 .. 999)
  BY <1>3 DEF GoRem
<1> HIDE DEF m
<1>5. (100 * m) \div 100 = m /\ 100 * m \in Int
  BY <1>4
<1> QED BY <1>2, <1>3, <1>4, <1>5 DEF MaxNoise, n

\* what re-rank may add to the fine score of an item
Noise(id) == IF NoiseIsPlain(id) THEN 0 .. MaxNoise ELSE -MaxNoise .. MaxNoise

LEMMA NoiseBounds ==
  ASSUME NEW id \in Int PROVE MockScore(id, 3) \div 100 \in Noise(id)
<1>1. UserID \in Int /\ Half \in Int
  BY UserAssumption, WidthAssumption DEF Int64
<1>2. NoiseIsPlain(id) => MockSum(id, 3) \in 0 .. Half - 1
  BY <1>1 DEF NoiseIsPlain, MockSum
<1> DEFINE three == 3
<1>3. three \in Int
  OBVIOUS
<1>4. /\ MockScore(id, three) \div 100 \in -MaxNoise .. MaxNoise
      /\ MockSum(id, three) \in 0 .. Half - 1 => MockScore(id, three) \div 100 \in 0 .. MaxNoise
  <2> HIDE DEF three
  <2> QED BY <1>3, MockScoreBounds
<1> QED BY <1>2, <1>4 DEF Noise

\* the scores are numbers from the stage on that gives them
Scores ==
  /\ pc \in {"boot", "start", "coarse", "cut"} => k = 1
  /\ pc = "fine" => k \in Int /\ \A p \in DOMAIN work : p < k => work[p].rank \in Int
  /\ pc \in {"cut", "fine"} => \A p \in DOMAIN work : work[p].pre \in Int
  /\ pc = "rerank" => \A p \in DOMAIN work : work[p].rank \in Int
  /\ ReRankIsMarginal

LEMMA CoarseIsNumber ==
  ASSUME ScoresAreIntegers, req \in Requests, NEW d, NEW p \in DOMAIN req.ids
  PROVE  Coarse(d)[p].pre \in Int
<1>1. req.ids[p] \in Int
  BY RequestsAssumption
<1>2. \A features : CoarseScore(features, req.ids[p]) \in Int
  <2>1. ASSUME NEW fm, NEW f PROVE Predict(fm, f) \in Int
    BY DEF Predict, ScoresAreIntegers
  <2>2. MockScore(req.ids[p], 1) \in Int
    <3>1. \A id \in Int : MockScore(id, 1) \in Int
      BY MockScoreBounds
    <3> QED BY <1>1, <3>1
  <2> QED BY <2>1, <2>2 DEF CoarseScore
<1>3. \E features : Coarse(d)[p].pre = CoarseScore(features, req.ids[p])
  BY DEF Coarse, Scored
<1> QED BY <1>2, <1>3

LEMMA PreRankScores ==
  ASSUME ScoresAreIntegers, Chosen, Scores, PreRank PROVE Scores'
<1>1. req \in Requests /\ pc = "coarse" /\ pc' = "cut" /\ k' = k
  BY DEF PreRank, Chosen
<1> DEFINE c == Coarse(docs')
<1>2. work' \in SortedBy(c, LAMBDA w : w.pre)
  BY DEF PreRank
<1>3. \A p \in DOMAIN c : c[p].pre \in Int
  BY <1>1, CoarseIsNumber DEF Coarse
<1> HIDE DEF c
<1>4. \A p \in DOMAIN work' : \E q \in DOMAIN c : work'[p] = c[q]
  BY <1>2 DEF SortedBy, Bijection, Injection
<1> QED BY <1>1, <1>3, <1>4 DEF Scores, ReRankIsMarginal

LEMMA TruncateScores ==
  ASSUME Chosen, Ranking, Scores, Truncate PROVE Scores'
<1>1. /\ List(work) /\ preN \in Int /\ rankN \in Int /\ k = 1
      /\ \A p \in DOMAIN work : work[p].pre \in Int
  BY DEF Truncate, Chosen, Ranking, Scores
<1>2. pc' = "fine" /\ k' = k /\ work' = Cap(Cap(work, preN), rankN)
  BY DEF Truncate
<1>3. PICK T : work \in Seq(T)
  BY <1>1 DEF List
<1>4. /\ Cap(work, preN) \in Seq(T)
      /\ \A p \in DOMAIN Cap(work, preN) : p \in DOMAIN work /\ Cap(work, preN)[p] = work[p]
  BY <1>1, <1>3, CapKeepsFront
<1>5. /\ work' \in Seq(T)
      /\ \A p \in DOMAIN work' : p \in DOMAIN work /\ work'[p] = work[p]
  BY <1>1, <1>2, <1>4, CapKeepsFront
<1>6. \A p \in DOMAIN work' : ~(p < k')
  BY <1>1, <1>2, <1>5
<1> QED BY <1>1, <1>2, <1>5, <1>6 DEF Scores, ReRankIsMarginal

LEMMA FineScoreScores ==
  ASSUME Chosen, Ranking, Scores, FineScore PROVE Scores'
<1>1. /\ pc = "fine" /\ pc' = "fine" /\ k <= Len(work) /\ k' = k + 1 /\ k \in Int
      /\ List(work) /\ Ids(work) \subseteq Requested /\ req \in Requests
      /\ \A p \in DOMAIN work : work[p].pre \in Int
      /\ \A p \in DOMAIN work : p < k => work[p].rank \in Int
  BY DEF FineScore, Ranking, Scores, Chosen
<1>2. \A p \in DOMAIN work : work[p].id \in Int
  <2>1. Requested \subseteq Int
    BY <1>1, RequestsAssumption DEF Requested, ToSet
  <2> QED BY <1>1, <2>1 DEF Ids
<1>3. DOMAIN work = 1 .. Len(work) /\ Len(work) \in Nat
  <2>1. PICK T : work \in Seq(T)
    BY <1>1 DEF List
  <2> QED BY <2>1
<1>4. PICK score : work' = [work EXCEPT ![k].rank = score] /\ (k \in DOMAIN work => score \in Int)
  <2>1. CASE eng.tf = <<>>
    BY <1>1, <2>1 DEF FineScore
  <2>2. CASE eng.tf # <<>>
    <3>1. PICK answer \in TFAnswers :
            work' = [work EXCEPT ![k].rank =
                       IF TFScore(answer) = <<>> THEN MockScore(work[k].id, 2)
                       ELSE TFScore(answer)[1]]
      BY <2>2 DEF FineScore
    <3>2. TFScore(answer) # <<>> => TFScore(answer)[1] \in Int
      <4>1. CASE answer.kind \in {"scalar", "list", "lists"}
        BY <4>1, AnswersAssumption DEF TFScore
      <4>2. CASE answer.kind = "null"
        <5>1. TFScore(answer) = <<0>>
          BY <4>2 DEF TFScore
        <5> QED BY <5>1
      <4>3. CASE answer.kind \notin {"scalar", "list", "lists", "null"}
        BY <4>3 DEF TFScore
      <4>4. \/ answer.kind \in {"scalar", "list", "lists"} \/ answer.kind = "null"
            \/ answer.kind \notin {"scalar", "list", "lists", "null"}
        OBVIOUS
      <4> QED BY <4>1, <4>2, <4>3, <4>4
    <3>3. ASSUME k \in DOMAIN work PROVE MockScore(work[k].id, 2) \in Int
      <4>1. work[k].id \in Int
        BY <1>2, <3>3
      <4>2. \A id \in Int : MockScore(id, 2) \in Int
        BY MockScoreBounds
      <4> QED BY <4>1, <4>2
    <3> QED BY <3>1, <3>2, <3>3
  <2> QED BY <2>1, <2>2
<1>5. ASSUME NEW p \in DOMAIN work
      PROVE  work'[p].pre \in Int /\ (p < k' => work'[p].rank \in Int)
  <2>1. work[p] = [id |-> work[p].id, sparse |-> work[p].sparse, dense |-> work[p].dense,
                   pre |-> work[p].pre, rank |-> work[p].rank, re |-> work[p].re]
    BY <1>1, <1>5 DEF List, IsItem
  <2>2. CASE p = k
    <3>1. work'[p] = [work[p] EXCEPT !.rank = score] /\ score \in Int
      BY <1>4, <1>5, <2>2
    <3> QED BY <1>1, <2>1, <3>1
  <2>3. CASE p # k
    <3>1. work'[p] = work[p] /\ (p < k' => p < k)
      BY <1>1, <1>3, <1>4, <1>5, <2>3
    <3> QED BY <1>1, <3>1
  <2> QED BY <2>2, <2>3
<1>6. DOMAIN work' = DOMAIN work
  BY <1>4
<1> QED BY <1>1, <1>5, <1>6 DEF Scores, ReRankIsMarginal

LEMMA FineSortScores ==
  ASSUME Ranking, Scores, FineSort PROVE Scores'
<1>1. /\ pc = "fine" /\ pc' = "rerank" /\ k > Len(work) /\ k \in Int /\ List(work)
      /\ work' \in SortedBy(work, LAMBDA w : w.rank)
      /\ \A p \in DOMAIN work : p < k => work[p].rank \in Int
  BY DEF FineSort, Ranking, Scores
<1>2. \A p \in DOMAIN work : p < k
  <2>1. PICK T : work \in Seq(T)
    BY <1>1 DEF List
  <2> QED BY <1>1, <2>1
<1>3. \A p \in DOMAIN work' : \E q \in DOMAIN work : work'[p] = work[q]
  BY <1>1, SortedByFine
<1> QED BY <1>1, <1>2, <1>3 DEF Scores, ReRankIsMarginal

LEMMA ReRankScores ==
  ASSUME Chosen, Ranking, Scores, ReRank PROVE Scores'
<1>1. /\ pc = "rerank" /\ pc' = "done" /\ req \in Requests
      /\ List(work) /\ Ids(work) \subseteq Requested
      /\ \A p \in DOMAIN work : work[p].rank \in Int
  BY DEF ReRank, Ranking, Scores, Chosen
<1>2. req.RetCount \in Int /\ Requested \subseteq Int
  BY <1>1, RequestsAssumption DEF Requested, ToSet
<1> DEFINE r == ReRankedList(work)
<1>3. PICK sorted \in SortedBy(r, LAMBDA w : w.re) : work' = Cap(sorted, req.RetCount)
  BY DEF ReRank, ReRankedList
<1>4. \A q \in DOMAIN r : /\ r[q].rank \in Int /\ r[q].re \in Int
                            /\ r[q].re - r[q].rank \in Noise(r[q].id)
  <2>1. ASSUME NEW q \in DOMAIN work
        PROVE  /\ ReRanked(work[q]) \in Int
               /\ ReRanked(work[q]) - work[q].rank \in Noise(work[q].id)
    <3> DEFINE id == work[q].id
               score == work[q].rank
               noise == MockScore(id, 3) \div 100
    <3>1. id \in Int /\ score \in Int
      BY <1>1, <1>2 DEF Ids
    <3>2. ReRanked(work[q]) = score + noise
      BY DEF ReRanked
    <3> HIDE DEF id, score
    <3>3. noise \in Noise(id)
      BY <3>1, NoiseBounds
    <3> HIDE DEF noise
    <3>4. noise \in Int
      BY <3>3 DEF Noise, MaxNoise
    <3>5. score + noise \in Int /\ (score + noise) - score = noise
      BY <3>1, <3>4
    <3> QED BY <3>2, <3>3, <3>5 DEF id, score
  <2> QED BY <1>1, <2>1, ReRankKeepsList
<1>5. List(r)
  BY <1>1, ReRankKeepsList
<1> HIDE DEF r
<1>6. /\ List(sorted) /\ \A p, q \in DOMAIN sorted : p < q => sorted[p].re >= sorted[q].re
      /\ \A p \in DOMAIN sorted : \E q \in DOMAIN r : sorted[p] = r[q]
  BY <1>5, SortedByRe
<1>7. PICK T : sorted \in Seq(T)
  BY <1>6 DEF List
<1>8. \A p \in DOMAIN work' : p \in DOMAIN sorted /\ work'[p] = sorted[p]
  BY <1>2, <1>3, <1>7, CapKeepsFront
<1>9. ASSUME NEW p \in DOMAIN work', NEW q \in DOMAIN work', p < q
      PROVE  work'[p].rank + Swing(work'[q].id) >= work'[q].rank
  <2>1. sorted[p].re >= sorted[q].re
    BY <1>6, <1>8, <1>9
  <2>2. \A n \in DOMAIN sorted : /\ sorted[n].rank \in Int /\ sorted[n].re \in Int
                                 /\ sorted[n].re - sorted[n].rank \in Noise(sorted[n].id)
    BY <1>4, <1>6
  <2> DEFINE x == sorted[p].re
             y == sorted[q].re
             u == sorted[p].rank
             v == sorted[q].rank
             front == sorted[p].id
             behind == sorted[q].id
  <2>3. x \in Int /\ y \in Int /\ u \in Int /\ v \in Int /\ x >= y
    BY <1>8, <2>1, <2>2
  <2>4. x - u \in Noise(front) /\ y - v \in Noise(behind)
    BY <1>8, <2>2
  <2>5. work'[p].rank = u /\ work'[q].rank = v /\ work'[q].id = behind
    BY <1>8, <1>9
  <2> HIDE DEF x, y, u, v, front, behind
  <2>6. \A id : /\ Noise(id) \subseteq -MaxNoise .. MaxNoise
                /\ Swing(id) \in Int /\ \A n \in Noise(id) : MaxNoise - n <= Swing(id)
    BY DEF Noise, MaxNoise, Swing
  <2>7. Swing(behind) \in Int /\ MaxNoise - (y - v) <= Swing(behind) /\ x - u <= MaxNoise
    BY <2>3, <2>4, <2>6 DEF MaxNoise
  <2> HIDE DEF Swing
  <2>8. u + Swing(behind) >= v
    BY <2>3, <2>7 DEF MaxNoise
  <2> QED BY <2>5, <2>8
<1> QED BY <1>1, <1>9 DEF Scores, ReRankIsMarginal

LEMMA HandleScores ==
  ASSUME Scores, Chosen', Handle PROVE Scores'
<1>1. pc = "start" /\ k' = k /\ req' \in Requests /\ pc' \in {"coarse", "done"}
  BY DEF Handle
<1>2. req'.ids \in Seq(Int) /\ IsInjective(req'.ids) /\ req'.RetCount \in Int
  BY <1>1, RequestsAssumption
<1>3. CASE pc' = "coarse" \/ ~eng'.pipeline
  BY <1>1, <1>3 DEF Scores, ReRankIsMarginal
<1>4. CASE pc' = "done" /\ eng'.pipeline
  <2> DEFINE m == MockRankGroup(req'.ids)
  <2>1. req'.ids = <<>> /\ work' = Cap(m, req'.RetCount)
    BY <1>4 DEF Handle
  <2>2. List(m) /\ Len(m) = 0
    BY <1>2, <2>1, MockList
  <2> HIDE DEF m
  <2>3. List(work') /\ Len(work') = 0
    BY <1>2, <2>1, <2>2, CappedList DEF CapLen
  <2>4. DOMAIN work' = {}
    <3>1. PICK T : work' \in Seq(T)
      BY <2>3 DEF List
    <3> QED BY <2>3, <3>1
  <2> QED BY <1>1, <1>4, <2>4 DEF Scores, ReRankIsMarginal
<1> QED BY <1>1, <1>3, <1>4

LEMMA NextScores ==
  ASSUME ScoresAreIntegers
  PROVE  RankInv /\ RankInv' /\ Scores /\ [Next]_vars => Scores'
<1> SUFFICES ASSUME Chosen, Chosen', Ranking, Scores, [Next]_vars PROVE Scores'
  BY DEF RankInv
<1>1. CASE Boot
  BY <1>1 DEF Boot, Scores, ReRankIsMarginal
<1>2. CASE Done \/ UNCHANGED vars
  BY <1>2 DEF Done, vars, Scores, ReRankIsMarginal
<1> QED
  BY <1>1, <1>2, HandleScores, PreRankScores, TruncateScores, FineScoreScores, FineSortScores,
     ReRankScores DEF Next, Step

\* Re-rank moves no item past one whose fine score is more than the noise of the
\* two can make up higher, wherever the fine scores come from and whether or not
\* the sum the noise is made of overflows.
THEOREM ReRankStaysMarginal ==
  ASSUME ScoresAreIntegers
  PROVE  Spec => []ReRankIsMarginal
<1>1. Init => Scores
  BY DEF Init, Scores, ReRankIsMarginal
<1>2. RankInv /\ RankInv' /\ Scores /\ [Next]_vars => Scores'
  BY NextScores
<1>3. Scores => ReRankIsMarginal
  BY DEF Scores
<1> QED BY <1>1, <1>2, <1>3, InitRankInv, NextRankInv, PTL DEF Spec

-----------------------------------------------------------------------------
(* The files in service *)

\* every engine is what its configuration makes
Built ==
  /\ conf \in Configs
  /\ pc \notin {"boot", "refused"} =>
       /\ DOMAIN svc.engines = DOMAIN EngineConfigs(conf)
       /\ \A name \in DOMAIN svc.engines :
            NewEngine(EngineConfigs(conf)[name]) = <<svc.engines[name]>>

LEMMA EngineIsOne ==
  ASSUME NEW c, NewEngine(c) # <<>>
  PROVE  NewEngine(c) = <<NewEngine(c)[1]>>
BY DEF NewEngine

LEMMA NextBuilt == Built /\ [Next]_vars => Built'
<1> SUFFICES ASSUME Built, [Next]_vars PROVE Built'
  OBVIOUS
<1>1. CASE Boot
  <2>1. conf' = conf /\ conf \in Configs
    BY <1>1 DEF Boot, Built
  <2>2. PICK reachable \in BOOLEAN :
          LET context == NewServiceContext(conf, NewFetcher(conf.redis, reachable))
          IN  IF context = <<>> THEN pc' = "refused" /\ UNCHANGED svc
              ELSE pc' = "start" /\ svc' = context[1]
    BY <1>1 DEF Boot
  <2> DEFINE fetch == NewFetcher(conf.redis, reachable)
             context == NewServiceContext(conf, fetch)
             engines == EngineConfigs(conf)
  <2>3. CASE context = <<>>
    BY <2>1, <2>2, <2>3 DEF Built
  <2>4. CASE context # <<>>
    <3> HIDE DEF fetch
    <3>1. \A name \in DOMAIN engines : NewEngine(engines[name]) # <<>>
      BY <2>4 DEF NewServiceContext
    <3>2. svc'.engines = [name \in DOMAIN engines |-> NewEngine(engines[name])[1]]
      BY <2>2, <2>4, <3>1 DEF NewServiceContext, fetch
    <3> HIDE DEF engines
    <3>3. /\ DOMAIN svc'.engines = DOMAIN engines
          /\ \A name \in DOMAIN engines : NewEngine(engines[name]) = <<svc'.engines[name]>>
      BY <3>1, <3>2, EngineIsOne
    <3> QED BY <2>1, <3>3 DEF Built, engines
  <2> QED BY <2>3, <2>4
<1>2. CASE /\ UNCHANGED <<conf, svc>>
           /\ pc \in {"boot", "refused"} => pc' = pc
  BY <1>2 DEF Built
<1>3. CASE Handle \/ PreRank \/ Truncate \/ FineScore \/ FineSort \/ ReRank
  BY <1>2, <1>3 DEF Handle, PreRank, Truncate, FineScore, FineSort, ReRank
<1>4. CASE Done \/ UNCHANGED vars
  BY <1>2, <1>4 DEF Done, vars
<1> QED BY <1>1, <1>3, <1>4 DEF Next, Step

LEMMA InitBuilt == Init => Built
BY DEF Init, Built

\* A table that was read to its total has a field for every line that counts.
LEMMA ReadIsWhole ==
  ASSUME NEW file, IsTransFile(file), file.status = "read", TellsTotal(file),
         LoadFMTrans(file) # <<>>
  PROVE  \A n \in DOMAIN file.lines :
           file.lines[n].count > 0 => file.lines[n].field \in DOMAIN LoadFMTrans(file)[1]
<1> DEFINE lines == file.lines
           R == file.readable
           counts == [n \in DOMAIN lines |-> lines[n].count]
           front == Read(file)
<1>1. lines \in Seq([field : Int, count : Int]) /\ R \in 0 .. Len(lines)
  BY DEF IsTransFile
<1>2. /\ Total([n \in 1 .. R |-> lines[n].count]) = file.total
      /\ LoadFMTrans(file)[1] = [f \in {line.field : line \in ToSet(front)} |->
                                   front[LastOf(front, LAMBDA line : line.field, f)].count]
  BY DEF LoadFMTrans, TransComplete
<1>3. file.total = Total(counts) /\ \A n \in DOMAIN counts : counts[n] >= 0
  BY DEF TellsTotal
<1>4. DOMAIN LoadFMTrans(file)[1] = {line.field : line \in ToSet(front)}
  BY <1>2
<1>5. front = SubSeq(lines, 1, R)
  BY DEF Read
<1> HIDE DEF lines, R, front
<1>6. /\ counts \in Seq(Nat) /\ Len(counts) = Len(lines) /\ DOMAIN counts = DOMAIN lines
      /\ DOMAIN lines = 1 .. Len(lines) /\ Len(lines) \in Nat
      /\ \A n \in DOMAIN lines : counts[n] = lines[n].count
  <2>1. DOMAIN lines = 1 .. Len(lines) /\ Len(lines) \in Nat
    BY <1>1
  <2>2. \A n \in DOMAIN lines : lines[n].count \in Int /\ counts[n] = lines[n].count
    <3> DEFINE Line == [field : Int, count : Int]
    <3>1. lines \in Seq(Line)
      BY <1>1
    <3> HIDE DEF Line
    <3>2. \A n \in DOMAIN lines : lines[n] \in Line
      BY <3>1
    <3>3. \A line \in Line : line.count \in Int
      BY DEF Line
    <3> QED BY <3>2, <3>3
  <2>3. counts = [n \in 1 .. Len(lines) |-> counts[n]] /\ \A n \in 1 .. Len(lines) : counts[n] \in Nat
    BY <1>3, <2>1, <2>2
  <2> HIDE DEF counts
  <2> QED BY <2>1, <2>2, <2>3
<1>7. [n \in 1 .. R |-> lines[n].count] = [n \in 1 .. R |-> counts[n]]
  BY <1>1, <1>6
<1> HIDE DEF counts
<1>8. \A n \in DOMAIN counts : n > R => counts[n] = 0
  <2>1. Total([n \in 1 .. R |-> counts[n]]) = Total(counts) /\ R \in 0 .. Len(counts)
    BY <1>1, <1>2, <1>3, <1>6, <1>7
  <2> QED BY <1>6, <2>1, FrontHasTotal
<1>9. ASSUME NEW n \in DOMAIN lines, lines[n].count > 0
      PROVE  lines[n].field \in DOMAIN LoadFMTrans(file)[1]
  <2>1. n \in 1 .. R
    <3>1. counts[n] = lines[n].count /\ n \in DOMAIN counts /\ n \in 1 .. Len(lines)
      BY <1>6
    <3>2. ~(n > R)
      BY <1>8, <1>9, <3>1
    <3> QED BY <1>1, <3>1, <3>2
  <2>2. n \in DOMAIN front /\ front[n] = lines[n]
    BY <1>1, <1>5, <1>6, <2>1
  <2>3. lines[n] \in ToSet(front)
    BY <2>2 DEF ToSet
  <2> QED BY <1>4, <2>3
<1> QED BY <1>9 DEF lines

LEMMA BuiltIsWhole == Built => TransIsWhole
<1> SUFFICES ASSUME Built, pc \notin {"boot", "refused"}, NEW name \in DOMAIN svc.engines,
                    EngineConfigs(conf)[name].pipeline,
                    EngineConfigs(conf)[name].trans.status = "read",
                    TellsTotal(EngineConfigs(conf)[name].trans)
             PROVE  \A n \in DOMAIN EngineConfigs(conf)[name].trans.lines :
                      EngineConfigs(conf)[name].trans.lines[n].count > 0 =>
                        EngineConfigs(conf)[name].trans.lines[n].field
                          \in DOMAIN svc.engines[name].trans
  BY DEF TransIsWhole
<1> DEFINE c == EngineConfigs(conf)[name]
<1>1. NewEngine(c) = <<svc.engines[name]>> /\ IsTransFile(c.trans)
  BY ConfigsAssumption DEF Built
<1> HIDE DEF c
<1>2. c.pipeline
  BY DEF c
<1>3. LoadFMTrans(c.trans) # <<>> /\ svc.engines[name].trans = LoadFMTrans(c.trans)[1]
  BY <1>1, <1>2 DEF NewEngine
<1>4. c.trans.status = "read" /\ TellsTotal(c.trans)
  BY DEF c
<1> QED BY <1>1, <1>3, <1>4, ReadIsWhole DEF c

\* No engine serves with a field of its table left out, wherever the reading of
\* the file stopped.
THEOREM TablesAreWhole == Spec => []TransIsWhole
<1> QED BY InitBuilt, NextBuilt, BuiltIsWhole, PTL DEF Spec

-----------------------------------------------------------------------------
(* The password *)

\* Mixing a block twice with another gives it back.
LEMMA XorUndone ==
  ASSUME NEW b \in Block, NEW c \in Block
  PROVE  Xor(b, c) \in Block /\ Xor(Xor(b, c), b) = c
<1>1. BlockSize \in Nat
  BY BlockSizeAssumption
<1>2. \A x, y \in 0 .. 1 : (x + y) % 2 \in 0 .. 1 /\ (((x + y) % 2) + x) % 2 = y
  OBVIOUS
<1>3. \A i \in 1 .. BlockSize : b[i] \in 0 .. 1 /\ c[i] \in 0 .. 1
  BY DEF Block
<1>4. Xor(b, c) \in Block
  BY <1>2, <1>3 DEF Xor, Block
<1>5. \A i \in 1 .. BlockSize : Xor(Xor(b, c), b)[i] = c[i]
  <2>1. \A i \in 1 .. BlockSize : Xor(b, c)[i] = (b[i] + c[i]) % 2
    BY DEF Xor
  <2>2. \A i \in 1 .. BlockSize : Xor(Xor(b, c), b)[i] = (Xor(b, c)[i] + b[i]) % 2
    BY DEF Xor
  <2> QED BY <1>2, <1>3, <2>1, <2>2
<1>6. /\ Xor(Xor(b, c), b) = [i \in 1 .. BlockSize |-> Xor(Xor(b, c), b)[i]]
      /\ c = [i \in 1 .. BlockSize |-> c[i]]
  BY DEF Xor, Block
<1> QED BY <1>4, <1>5, <1>6

LEMMA ZeroIsBlock == Zero \in Block
BY DEF Zero, Block

\* A block of a text that is long enough.
LEMMA BlockHas ==
  ASSUME NEW s \in Seq(0 .. 1), NEW n \in Nat, n * BlockSize <= Len(s)
  PROVE  /\ BlockOf(s, n) \in Block
         /\ n > 0 => \A i \in 1 .. BlockSize :
                       /\ BlockOf(s, n)[i] = s[((n - 1) * BlockSize) + i]
                       /\ ((n - 1) * BlockSize) + i \in 1 .. Len(s)
<1> DEFINE a == (n - 1) * BlockSize
           c == n * BlockSize
<1>1. BlockSize \in Nat /\ BlockSize > 0
  BY BlockSizeAssumption
<1>2. CASE n = 0
  BY <1>2, ZeroIsBlock DEF BlockOf
<1>3. CASE n > 0
  <2>1. c = a + BlockSize /\ a \in Nat
    BY <1>1, <1>3, Z3
  <2>0. n # 0
    BY <1>3
  <2>2. BlockOf(s, n) = SubSeq(s, a + 1, c)
    BY <2>0, Zenon DEF BlockOf
  <2>3. c <= Len(s)
    OBVIOUS
  <2> HIDE DEF a, c
  <2>4. BlockOf(s, n) = [i \in 1 .. BlockSize |-> s[a + i]]
    BY <1>1, <2>1, <2>2, <2>3
  <2>5. \A i \in 1 .. BlockSize : a + i \in 1 .. Len(s) /\ s[a + i] \in 0 .. 1
    BY <1>1, <2>1, <2>3
  <2>6. BlockOf(s, n) \in Block
    BY <2>4, <2>5 DEF Block
  <2> QED BY <2>4, <2>5, <2>6 DEF a
<1> QED BY <1>2, <1>3

\* What follows a text leaves its blocks alone.
LEMMA BlockStays ==
  ASSUME NEW s \in Seq(0 .. 1), NEW t, t \in Seq(Int), Len(s) <= Len(t),
         \A i \in 1 .. Len(s) : t[i] = s[i],
         NEW n \in Nat, n * BlockSize <= Len(s)
  PROVE  BlockOf(t, n) = BlockOf(s, n)
<1> DEFINE a == (n - 1) * BlockSize
           c == n * BlockSize
<1>1. BlockSize \in Nat /\ BlockSize > 0
  BY BlockSizeAssumption
<1>2. CASE n = 0
  BY <1>2 DEF BlockOf
<1>3. CASE n > 0
  <2>1. c = a + BlockSize /\ a \in Nat
    BY <1>1, <1>3, Z3
  <2>0. n # 0
    BY <1>3
  <2>2. BlockOf(s, n) = SubSeq(s, a + 1, c) /\ BlockOf(t, n) = SubSeq(t, a + 1, c)
    BY <2>0, Zenon DEF BlockOf
  <2>3. c <= Len(s)
    OBVIOUS
  <2> HIDE DEF a, c
  <2>4. /\ SubSeq(s, a + 1, c) = [i \in 1 .. BlockSize |-> s[a + i]]
        /\ SubSeq(t, a + 1, c) = [i \in 1 .. BlockSize |-> t[a + i]]
    BY <1>1, <2>1, <2>3
  <2>5. \A i \in 1 .. BlockSize : a + i \in 1 .. Len(s)
    BY <1>1, <2>1, <2>3
  <2> QED BY <2>2, <2>4, <2>5
<1> QED BY <1>2, <1>3

\* the first m blocks of padded, in x, each mixed with the cipher of the one before
Chained(x, padded, m) ==
  /\ x \in Seq(0 .. 1) /\ Len(x) = m * BlockSize
  /\ \A n \in 1 .. m : BlockOf(x, n) = Cipher[Xor(BlockOf(x, n - 1), BlockOf(padded, n))]
Mixed(x, padded, n) == x \o Cipher[Xor(BlockOf(x, n - 1), BlockOf(padded, n))]

LEMMA BlockIsText ==
  ASSUME NEW b \in Block
  PROVE  b \in Seq(0 .. 1) /\ Len(b) = BlockSize
BY BlockSizeAssumption DEF Block

\* One block more keeps the chain.
LEMMA ChainGrows ==
  ASSUME NEW padded \in Seq(0 .. 1), NEW m \in Nat, (m + 1) * BlockSize <= Len(padded),
         NEW x, Chained(x, padded, m)
  PROVE  Chained(Mixed(x, padded, m + 1), padded, m + 1)
<1> DEFINE j == m + 1
           c == Cipher[Xor(BlockOf(x, m), BlockOf(padded, j))]
           y == x \o c
           a == m * BlockSize
<1>1. BlockSize \in Nat /\ BlockSize > 0 /\ j * BlockSize = a + BlockSize /\ a \in Nat
  BY BlockSizeAssumption, Z3
<1>2. x \in Seq(0 .. 1) /\ Len(x) = a
  BY DEF Chained
<1>3. BlockOf(x, m) \in Block /\ BlockOf(padded, j) \in Block
  <2>1. m * BlockSize <= Len(x) /\ j * BlockSize <= Len(padded) /\ j \in Nat
    BY <1>1, <1>2
  <2> QED BY <1>2, <2>1, BlockHas
<1>4. c \in Block
  BY <1>3, XorUndone, CipherAssumption
<1>5. Mixed(x, padded, j) = y /\ m + 1 = j /\ j - 1 = m /\ j \in Nat
  BY DEF Mixed
<1> HIDE DEF c
<1>6. c \in Seq(0 .. 1) /\ Len(c) = BlockSize
  BY <1>4, BlockIsText
<1> HIDE DEF a
<1>7. y \in Seq(0 .. 1) /\ Len(y) = a + BlockSize /\ \A i \in 1 .. a : y[i] = x[i]
  BY <1>1, <1>2, <1>6
<1>8. \A i \in 1 .. BlockSize : y[a + i] = c[i]
  BY <1>1, <1>2, <1>6
<1> HIDE DEF y
<1> USE DEF a
<1>9. Len(y) = j * BlockSize
  BY <1>1, <1>7
<1>10. \A n \in 0 .. m : BlockOf(y, n) = BlockOf(x, n)
  <2> TAKE n \in 0 .. m
  <2>1. n * BlockSize <= a /\ n \in Nat
    BY <1>1, Z3
  <2>2. y \in Seq(Int)
    BY <1>7
  <2> HIDE DEF a
  <2>3. /\ n * BlockSize <= Len(x) /\ Len(x) <= Len(y)
        /\ \A i \in 1 .. Len(x) : y[i] = x[i]
    BY <1>1, <1>2, <1>7, <2>1
  <2> QED BY <1>2, <2>1, <2>2, <2>3, BlockStays
<1>11. BlockOf(y, j) = c
  <2>1. BlockOf(y, j) \in Block /\ \A i \in 1 .. BlockSize : BlockOf(y, j)[i] = y[a + i]
    <3>1. j * BlockSize <= Len(y) /\ j > 0 /\ (j - 1) * BlockSize = a
      BY <1>1, <1>5, <1>9
    <3> QED BY <1>5, <1>7, <3>1, BlockHas
  <2>2. \A i \in 1 .. BlockSize : BlockOf(y, j)[i] = c[i]
    BY <1>8, <2>1
  <2>3. c = [i \in 1 .. BlockSize |-> c[i]] /\ BlockOf(y, j) = [i \in 1 .. BlockSize |-> BlockOf(y, j)[i]]
    BY <1>4, <2>1 DEF Block
  <2> QED BY <2>2, <2>3
<1> HIDE DEF j, a
<1>12. ASSUME NEW n \in 1 .. j
       PROVE  BlockOf(y, n) = Cipher[Xor(BlockOf(y, n - 1), BlockOf(padded, n))]
  <2>1. CASE n = j
    <3>1. n - 1 = m /\ m \in 0 .. m
      BY <1>5, <2>1
    <3>2. BlockOf(y, m) = BlockOf(x, m)
      BY <1>10, <3>1
    <3> QED BY <1>11, <2>1, <3>1, <3>2 DEF c
  <2>2. CASE n # j
    <3>1. n \in 1 .. m /\ n \in 0 .. m /\ n - 1 \in 0 .. m
      BY <1>5, <2>2
    <3>2. BlockOf(x, n) = Cipher[Xor(BlockOf(x, n - 1), BlockOf(padded, n))]
      BY <3>1 DEF Chained
    <3> QED BY <1>10, <3>1, <3>2
  <2> QED BY <2>1, <2>2
<1> QED BY <1>5, <1>7, <1>9, <1>12 DEF Chained

\* the function EncryptPassword is defined by
WrapOf(padded, blocks) ==
  CHOOSE out : out = [n \in 0 .. blocks |->
    IF n = 0 THEN <<>>
    ELSE out[n - 1] \o Cipher[Xor(BlockOf(out[n - 1], n - 1), BlockOf(padded, n))]]

\* What EncryptPassword builds is such a chain.
LEMMA WrapIsChained ==
  ASSUME NEW padded \in Seq(0 .. 1), NEW blocks \in Nat, blocks * BlockSize <= Len(padded)
  PROVE  Chained(WrapOf(padded, blocks)[blocks], padded, blocks)
<1> DEFINE S == Seq(0 .. 1)
           Round(g) == [n \in 0 .. blocks |->
                          IF n = 0 THEN <<>>
                          ELSE g[n - 1] \o Cipher[Xor(BlockOf(g[n - 1], n - 1), BlockOf(padded, n))]]
           Grown(x, n) == IF Chained(x, padded, n - 1) THEN Mixed(x, padded, n) ELSE x
           step == [p \in (1 .. blocks) \X S |-> Grown(p[2], p[1])]
           none == <<>>
           f == CHOOSE g : g = Round(g)
<1>1. WrapOf(padded, blocks) = f
  BY DEF WrapOf
<1>2. none \in S /\ Chained(none, padded, 0)
  <2>1. none \in S /\ Len(none) = 0 * BlockSize /\ 1 .. 0 = {}
    BY BlockSizeAssumption
  <2> HIDE DEF none
  <2> QED BY <2>1 DEF Chained
<1>3. \A m \in 0 .. blocks - 1 : \A x : Chained(x, padded, m) => Chained(Mixed(x, padded, m + 1), padded, m + 1)
  <2> TAKE m \in 0 .. blocks - 1
  <2>1. (m + 1) * BlockSize <= blocks * BlockSize
    <3>1. BlockSize \in Nat /\ m + 1 <= blocks /\ m + 1 \in Nat
      BY BlockSizeAssumption
    <3> QED BY <3>1, Z3
  <2>2. (m + 1) * BlockSize <= Len(padded) /\ m \in Nat
    <3> DEFINE a == (m + 1) * BlockSize
               c == blocks * BlockSize
    <3>1. a \in Int /\ c \in Int /\ a <= c /\ c <= Len(padded)
      BY <2>1, BlockSizeAssumption
    <3> HIDE DEF a, c
    <3>2. a <= Len(padded)
      BY <3>1
    <3> QED BY <3>2 DEF a
  <2> QED BY <2>2, ChainGrows
<1> HIDE DEF Round, none
<1>4. step \in [(1 .. blocks) \X S -> S]
  <2>1. ASSUME NEW n \in 1 .. blocks, NEW x \in S PROVE Grown(x, n) \in S
    <3>1. n - 1 \in 0 .. blocks - 1 /\ (n - 1) + 1 = n
      OBVIOUS
    <3>2. CASE Chained(x, padded, n - 1)
      <4>1. Chained(Mixed(x, padded, n), padded, n)
        BY <1>3, <3>1, <3>2
      <4> QED BY <3>2, <4>1 DEF Chained
    <3>3. CASE ~Chained(x, padded, n - 1)
      BY <3>3
    <3> QED BY <3>2, <3>3
  <2> HIDE DEF Grown, S
  <2> QED BY <2>1
<1>5. \A n \in 1 .. blocks : \A x \in S : Chained(x, padded, n - 1) => step[<<n, x>>] = Mixed(x, padded, n)
  OBVIOUS
<1> HIDE DEF step
<1>6. PICK g : IsLoop(g, blocks, none, step)
  <2> HIDE DEF S
  <2> QED BY <1>2, <1>4, LoopFunction
<1>7. /\ g \in [0 .. blocks -> S] /\ g[0] = none
      /\ \A n \in 1 .. blocks : g[n] = step[<<n, g[n - 1]>>]
  <2> HIDE DEF S
  <2>1. none \in S
    BY <1>2
  <2>2. Runs(g, blocks, S, none, step)
    BY <1>4, <1>6, <2>1, LoopStays
  <2> QED BY <2>2 DEF Runs
<1>8. \A m \in 0 .. blocks : Chained(g[m], padded, m)
  <2> DEFINE H == {m \in 0 .. blocks : Chained(g[m], padded, m)}
  <2>1. 0 \in H
    BY <1>2, <1>7
  <2>2. ASSUME NEW m \in 0 .. blocks - 1, m \in H PROVE m + 1 \in H
    <3> DEFINE j == m + 1
    <3>1. j \in 1 .. blocks /\ j \in 0 .. blocks /\ j - 1 = m /\ m \in 0 .. blocks
      OBVIOUS
    <3>2. j = m + 1
      OBVIOUS
    <3> HIDE DEF j
    <3>3. Chained(g[m], padded, m) /\ g[m] \in S
      BY <1>7, <2>2, <3>1
    <3>4. g[j] = Mixed(g[m], padded, j)
      BY <1>5, <1>7, <3>1, <3>3
    <3>5. Chained(g[j], padded, j)
      BY <1>3, <3>2, <3>3, <3>4
    <3> QED BY <3>1, <3>5 DEF j
  <2> HIDE DEF H
  <2>3. \A m \in 0 .. blocks : m \in H
    BY <2>1, <2>2, Induction
  <2> QED BY <2>3 DEF H
<1>9. g = Round(g)
  <2>1. ASSUME NEW n \in 1 .. blocks PROVE g[n] = Mixed(g[n - 1], padded, n)
    <3>1. n - 1 \in 0 .. blocks
      OBVIOUS
    <3> QED BY <1>5, <1>7, <1>8, <3>1
  <2>2. \A n \in 0 .. blocks : g[n] = IF n = 0 THEN <<>> ELSE Mixed(g[n - 1], padded, n)
    <3>1. \A n \in 0 .. blocks : n = 0 \/ n \in 1 .. blocks
      OBVIOUS
    <3>2. \A n \in 1 .. blocks : n # 0
      OBVIOUS
    <3> QED BY <1>7, <2>1, <3>1, <3>2 DEF none
  <2>3. g = [n \in 0 .. blocks |-> g[n]]
    BY <1>7
  <2>4. g = [n \in 0 .. blocks |-> IF n = 0 THEN <<>> ELSE Mixed(g[n - 1], padded, n)]
    BY <2>2, <2>3
  <2> QED BY <2>4 DEF Round, Mixed
<1>10. f = Round(f)
  BY <1>9
<1> HIDE DEF f
<1>11. f[0] = <<>> /\ \A n \in 1 .. blocks : f[n] = Mixed(f[n - 1], padded, n)
  <2>1. f = [n \in 0 .. blocks |-> IF n = 0 THEN <<>> ELSE Mixed(f[n - 1], padded, n)]
    BY <1>10 DEF Round, Mixed
  <2>2. \A n \in 0 .. blocks : f[n] = IF n = 0 THEN <<>> ELSE Mixed(f[n - 1], padded, n)
    BY <2>1
  <2>3. 0 \in 0 .. blocks /\ \A n \in 1 .. blocks : n \in 0 .. blocks /\ n # 0
    OBVIOUS
  <2> QED BY <2>2, <2>3
<1> DEFINE H == {m \in 0 .. blocks : Chained(f[m], padded, m)}
<1>12. 0 \in H
  BY <1>2, <1>11 DEF none
<1>13. ASSUME NEW m \in 0 .. blocks - 1, m \in H PROVE m + 1 \in H
  <2>1. m + 1 \in 1 .. blocks /\ m + 1 \in 0 .. blocks /\ (m + 1) - 1 = m
    OBVIOUS
  <2>2. Chained(f[m], padded, m) /\ f[m + 1] = Mixed(f[m], padded, m + 1)
    BY <1>11, <1>13, <2>1
  <2> QED BY <1>3, <2>1, <2>2
<1> HIDE DEF H
<1>14. \A m \in 0 .. blocks : m \in H
  BY <1>12, <1>13, Induction
<1>15. blocks \in H
  BY <1>14
<1> QED BY <1>1, <1>15 DEF H

\* The blocks of a text of a given length, and what its last one lacks.
LEMMA BlocksOfText ==
  ASSUME NEW len \in Nat \ {0},
         NEW blocks, blocks = (len + BlockSize - 1) \div BlockSize,
         NEW rem, rem = len % BlockSize
  PROVE  /\ blocks \in Nat \ {0} /\ rem \in 0 .. BlockSize - 1
         /\ blocks * BlockSize = IF rem = 0 THEN len ELSE (len - rem) + BlockSize
         /\ blocks * BlockSize <= len + BlockSize
<1> DEFINE q == len \div BlockSize
           a == q * BlockSize
<1>1. BlockSize \in Nat \ {0}
  BY BlockSizeAssumption
<1>2. q \in Int /\ rem \in 0 .. BlockSize - 1 /\ len = a + rem /\ a \in Int
  BY <1>1, DivMod
<1> HIDE DEF q
<1>3. CASE rem = 0
  <2> DEFINE r == BlockSize - 1
  <2>1. r \in 0 .. BlockSize - 1
    BY <1>1
  <2>2. len + BlockSize - 1 = a + r
    <3> HIDE DEF a
    <3> QED BY <1>1, <1>2, <1>3
  <2> HIDE DEF r
  <2>3. blocks = q
    BY <1>1, <1>2, <2>1, <2>2, DivModIs
  <2>4. q * BlockSize = len
    <3> HIDE DEF a
    <3> QED BY <1>1, <1>2, <1>3 DEF a
  <2>5. q > 0
    BY <1>1, <1>2, <2>4, Z3
  <2> QED BY <1>1, <1>2, <1>3, <2>3, <2>4, <2>5
<1>4. CASE rem # 0
  <2> DEFINE r == rem - 1
             p == q + 1
  <2>1. r \in 0 .. BlockSize - 1 /\ p \in Int
    BY <1>1, <1>2, <1>4
  <2>2. p * BlockSize = a + BlockSize
    BY <1>1, <1>2, Z3
  <2> HIDE DEF p
  <2>3. len + BlockSize - 1 = (p * BlockSize) + r
    <3> DEFINE c == p * BlockSize
    <3>1. c = a + BlockSize
      BY <2>2
    <3> HIDE DEF a, c
    <3>2. len + BlockSize - 1 = c + r
      BY <1>1, <1>2, <3>1
    <3> QED BY <3>2 DEF c
  <2> HIDE DEF r
  <2>4. blocks = p
    BY <1>1, <2>1, <2>3, DivModIs
  <2>5. p * BlockSize = (len - rem) + BlockSize
    <3> DEFINE c == p * BlockSize
    <3>1. c = a + BlockSize
      BY <2>2
    <3> HIDE DEF a, c
    <3>2. c = (len - rem) + BlockSize
      BY <1>1, <1>2, <3>1
    <3> QED BY <3>2 DEF c
  <2>6. len - rem >= 0
    <3>1. a >= 0
      <4>1. q >= 0
        <5>1. CASE q <= -1
          <6>1. a <= -BlockSize
            BY <1>1, <1>2, <5>1, Z3
          <6> HIDE DEF a
          <6> QED BY <1>1, <1>2, <6>1
        <5> QED BY <1>2, <5>1
      <4>2. q \in Nat /\ BlockSize \in Nat
        BY <1>1, <1>2, <4>1
      <4>3. q * BlockSize \in Nat
        BY <4>2
      <4> HIDE DEF a
      <4>4. a \in Nat
        BY <4>3 DEF a
      <4> QED BY <4>4
    <3> HIDE DEF a
    <3> QED BY <1>1, <1>2, <3>1
  <2>7. p > 0
    <3>1. p * BlockSize > 0
      <4> DEFINE c == p * BlockSize
      <4>1. c = (len - rem) + BlockSize
        BY <2>5
      <4> HIDE DEF c
      <4>2. c > 0
        BY <1>1, <1>2, <2>6, <4>1
      <4> QED BY <4>2 DEF c
    <3> QED BY <1>1, <2>1, <3>1, Z3
  <2>8. p * BlockSize <= len + BlockSize
    <3> DEFINE c == p * BlockSize
    <3>1. c = (len - rem) + BlockSize
      BY <2>5
    <3> HIDE DEF c
    <3>2. c <= len + BlockSize
      BY <1>1, <1>2, <3>1
    <3> QED BY <3>2 DEF c
  <2>9. p \in Nat \ {0}
    BY <2>1, <2>7
  <2>10. blocks * BlockSize = p * BlockSize /\ blocks \in Nat \ {0}
    BY <2>4, <2>9
  <2>11. /\ blocks * BlockSize = (len - rem) + BlockSize
         /\ blocks * BlockSize <= len + BlockSize
    BY <2>5, <2>8, <2>10, Zenon
  <2> QED BY <1>2, <1>4, <2>10, <2>11
<1> QED BY <1>3, <1>4

\* What was wrapped unwraps to itself.
LEMMA RoundTrip ==
  ASSUME NEW text \in Seq(0 .. 1), text # <<>>
  PROVE  EncryptPassword(text) # <<>> /\ DecryptPassword(EncryptPassword(text)) = <<text>>
<1> DEFINE len == Len(text)
           blocks == (len + BlockSize - 1) \div BlockSize
           padded == text \o Zero
           rem == len % BlockSize
           x == WrapOf(padded, blocks)[blocks]
           hex == EncryptPassword(text)
           A == blocks * BlockSize
<1>1. BlockSize \in Nat \ {0} /\ len \in Nat \ {0}
  BY BlockSizeAssumption
<1>2. /\ blocks \in Nat \ {0} /\ rem \in 0 .. BlockSize - 1
      /\ A = IF rem = 0 THEN len ELSE (len - rem) + BlockSize
      /\ A <= len + BlockSize
  BY <1>1, BlocksOfText
<1>3. /\ padded \in Seq(0 .. 1) /\ Len(padded) = len + BlockSize
      /\ \A i \in 1 .. len : padded[i] = text[i]
  <2> DEFINE z == Zero
  <2>1. z \in Seq(0 .. 1) /\ Len(z) = BlockSize
    BY ZeroIsBlock, BlockIsText
  <2> HIDE DEF z
  <2>2. /\ text \o z \in Seq(0 .. 1) /\ Len(text \o z) = len + BlockSize
        /\ \A i \in 1 .. len : (text \o z)[i] = text[i]
    BY <1>1, <2>1
  <2> QED BY <2>2 DEF z
<1>4. hex = IF rem = 0 THEN x ELSE Append(x, rem)
  BY DEF EncryptPassword, WrapOf
<1> HIDE DEF padded, blocks, rem
<1>5. Chained(x, padded, blocks)
  BY <1>2, <1>3, WrapIsChained
<1> HIDE DEF x, hex
<1>6. x \in Seq(0 .. 1) /\ Len(x) = A
  BY <1>5 DEF Chained
<1>7. A \in Nat /\ A >= BlockSize
  BY <1>1, <1>2, Z3
<1>8. /\ hex \in Seq(Nat) /\ Len(hex) = IF rem = 0 THEN A ELSE A + 1
      /\ \A i \in 1 .. A : hex[i] = x[i]
      /\ rem # 0 => Last(hex) = rem
  <2> HIDE DEF A
  <2>1. CASE rem = 0
    BY <1>4, <1>6, <1>7, <2>1
  <2>2. CASE rem # 0
    BY <1>2, <1>4, <1>6, <1>7, <2>2 DEF Last
  <2> QED BY <2>1, <2>2
<1>9. A % BlockSize = 0 /\ (BlockSize > 1 => (A + 1) % BlockSize = 1)
  <2> DEFINE zero == 0
             one == 1
  <2>1. /\ zero \in 0 .. BlockSize - 1
        /\ BlockSize > 1 => one \in 0 .. BlockSize - 1
    BY <1>1
  <2> HIDE DEF zero, one
  <2>2. \A r \in 0 .. BlockSize - 1 : ((blocks * BlockSize) + r) % BlockSize = r
    <3>1. blocks \in Int
      BY <1>2
    <3> QED BY <1>1, <3>1, DivModIs
  <2>3. \A r \in 0 .. BlockSize - 1 : (A + r) % BlockSize = r
    BY <2>2
  <2> HIDE DEF A
  <2>4. (A + zero) % BlockSize = zero /\ (BlockSize > 1 => (A + one) % BlockSize = one)
    BY <2>1, <2>3
  <2>5. A + 0 = A
    BY <1>7
  <2> QED BY <2>4, <2>5 DEF zero, one
<1>10. /\ Len(hex) % BlockSize = IF rem = 0 THEN 0 ELSE 1
       /\ Len(hex) - (Len(hex) % BlockSize) = A
       /\ Len(hex) >= BlockSize
  <2> HIDE DEF A
  <2>1. rem # 0 => BlockSize > 1
    BY <1>1, <1>2
  <2>2. CASE rem = 0
    BY <1>7, <1>8, <1>9, <2>2
  <2>3. CASE rem # 0
    <3>1. Len(hex) = A + 1 /\ (A + 1) % BlockSize = 1
      BY <1>8, <1>9, <2>1, <2>3
    <3>2. (A + 1) - 1 = A /\ A + 1 >= BlockSize
      BY <1>1, <1>7
    <3> QED BY <2>3, <3>1, <3>2
  <2> QED BY <2>2, <2>3
<1> DEFINE Plain(n) == Xor(AntiFunction(Cipher)[BlockOf(hex, n)], BlockOf(hex, n - 1))
           plain == [i \in 1 .. A |->
                       Plain(((i - 1) \div BlockSize) + 1)[((i - 1) % BlockSize) + 1]]
<1>11. \A n \in 0 .. blocks : n * BlockSize <= A /\ n \in Nat
  BY <1>1, <1>2, Z3
<1> HIDE DEF A
<1>12. \A n \in 0 .. blocks : BlockOf(hex, n) = BlockOf(x, n)
  <2> TAKE n \in 0 .. blocks
  <2>1. hex \in Seq(Int) /\ Len(x) <= Len(hex) /\ \A i \in 1 .. Len(x) : hex[i] = x[i]
    BY <1>6, <1>7, <1>8
  <2> QED BY <1>6, <1>11, <2>1, BlockStays
<1>13. A <= Len(padded)
  BY <1>2, <1>3
<1>14. ASSUME NEW n \in 1 .. blocks PROVE Plain(n) = BlockOf(padded, n)
  <2> DEFINE b == BlockOf(x, n - 1)
             c == BlockOf(padded, n)
             m == Xor(b, c)
  <2>1. n - 1 \in 0 .. blocks /\ n \in 0 .. blocks
    BY <1>2
  <2>2. b \in Block
    BY <1>6, <1>11, <2>1, BlockHas
  <2>3. c \in Block
    <3>1. n * BlockSize <= Len(padded)
      <4> DEFINE d == n * BlockSize
      <4>1. d <= A /\ d \in Int
        BY <1>1, <1>11, <2>1
      <4> HIDE DEF d
      <4>2. d <= Len(padded)
        BY <1>3, <1>7, <1>13, <4>1
      <4> QED BY <4>2 DEF d
    <3> QED BY <1>3, <1>11, <2>1, <3>1, BlockHas
  <2>4. BlockOf(hex, n) = Cipher[m] /\ BlockOf(hex, n - 1) = b
    BY <1>5, <1>12, <2>1 DEF Chained
  <2>5. m \in Block /\ Xor(m, b) = c
    BY <2>2, <2>3, XorUndone
  <2>6. AntiFunction(Cipher)[Cipher[m]] = m
    <3> HIDE DEF m
    <3>1. /\ m \in DOMAIN Cipher
          /\ \A p, q \in DOMAIN Cipher : Cipher[p] = Cipher[q] => p = q
      BY <2>5, CipherAssumption DEF IsInjective
    <3>2. Cipher[m] \in Range(Cipher)
      BY <3>1 DEF Range
    <3>3. AntiFunction(Cipher)[Cipher[m]] = CHOOSE s \in DOMAIN Cipher : Cipher[m] \in Range(Cipher) => Cipher[s] = Cipher[m]
      BY <3>2 DEF AntiFunction, Inverse
    <3>4. (CHOOSE s \in DOMAIN Cipher : Cipher[m] \in Range(Cipher) => Cipher[s] = Cipher[m]) = m
      BY <3>1, <3>2
    <3> QED BY <3>3, <3>4
  <2> HIDE DEF b, c, m
  <2> QED BY <2>4, <2>5, <2>6 DEF c
<1>15. ASSUME NEW i \in 1 .. A PROVE plain[i] = padded[i]
  <2> DEFINE q == (i - 1) \div BlockSize
             r == (i - 1) % BlockSize
             n == q + 1
             j == r + 1
             d == q * BlockSize
  <2>1. i - 1 \in Int
    OBVIOUS
  <2>2. q \in Int /\ r \in 0 .. BlockSize - 1 /\ i - 1 = d + r
    BY <1>1, <2>1, DivMod
  <2>3. plain[i] = Plain(n)[j]
    OBVIOUS
  <2> HIDE DEF q, r, plain
  <2>4. q \in 0 .. blocks - 1
    <3>1. d < A /\ d > -BlockSize
      <4>1. d \in Int
        BY <1>1, <2>2, Z3
      <4> HIDE DEF d
      <4> QED BY <1>1, <1>7, <2>2, <4>1
    <3>2. q < blocks /\ q > -1
      BY <1>1, <1>2, <2>2, <3>1, Z3 DEF A
    <3> QED BY <1>2, <2>2, <3>2
  <2>5. n \in 1 .. blocks /\ n \in Nat /\ n > 0 /\ n - 1 = q /\ j \in 1 .. BlockSize /\ n \in 0 .. blocks
    BY <1>1, <1>2, <2>2, <2>4
  <2>6. n * BlockSize <= Len(padded)
    <3> DEFINE e == n * BlockSize
    <3>1. e <= A /\ e \in Int
      BY <1>1, <1>11, <2>5
    <3> HIDE DEF e
    <3>2. e <= Len(padded)
      BY <1>3, <1>7, <1>13, <3>1
    <3> QED BY <3>2 DEF e
  <2> HIDE DEF n, j, Plain
  <2>7. BlockOf(padded, n)[j] = padded[d + j]
    BY <1>3, <2>5, <2>6, BlockHas
  <2>8. d + j = i
    <3>1. d \in Int
      BY <1>1, <2>2, Z3
    <3> HIDE DEF d
    <3> QED BY <1>1, <2>2, <3>1 DEF j
  <2> QED BY <1>14, <2>3, <2>5, <2>7, <2>8
<1> DEFINE drop == IF rem = 0 THEN 0 ELSE Dropped(rem)
<1>16. A - drop = len
  BY <1>1, <1>2, <1>7 DEF Dropped
<1>17. DOMAIN plain = 1 .. A /\ plain \in Seq(0 .. 1) /\ Len(plain) = A
  <2>1. \A i \in 1 .. A : plain[i] \in 0 .. 1
    <3>1. \A i \in 1 .. A : padded[i] \in 0 .. 1
      BY <1>3, <1>7, <1>13
    <3> HIDE DEF plain
    <3> QED BY <1>15, <3>1
  <2>2. plain = [i \in 1 .. A |-> plain[i]]
    OBVIOUS
  <2> HIDE DEF plain
  <2> QED BY <1>7, <2>1, <2>2
<1>18. /\ ~ \E i \in DOMAIN hex : hex[i] < 0
       /\ ~ (Len(hex) < BlockSize)
       /\ ~ (Len(hex) % BlockSize > 1)
       /\ ~ (Len(hex) % BlockSize = 1 /\ Last(hex) \notin 1 .. BlockSize - 1)
  <2>1. ~ \E i \in DOMAIN hex : hex[i] < 0
    BY <1>8
  <2>2. ~ (Len(hex) < BlockSize) /\ ~ (Len(hex) % BlockSize > 1)
    BY <1>1, <1>7, <1>8, <1>10
  <2>3. ~ (Len(hex) % BlockSize = 1 /\ Last(hex) \notin 1 .. BlockSize - 1)
    <3>1. Len(hex) % BlockSize = 1 => rem # 0
      BY <1>10
    <3>2. rem # 0 => Last(hex) = rem /\ rem \in 1 .. BlockSize - 1
      BY <1>1, <1>2, <1>8
    <3> QED BY <3>1, <3>2
  <2> QED BY <2>1, <2>2, <2>3
<1>19. DecryptPassword(hex) = <<SubSeq(plain, 1, len)>>
  <2> DEFINE rest == Len(hex) % BlockSize
             all == [i \in 1 .. Len(hex) - rest |->
                       Plain(((i - 1) \div BlockSize) + 1)[((i - 1) % BlockSize) + 1]]
             cut == IF rest = 0 THEN 0 ELSE Dropped(Last(hex))
  <2>1. DecryptPassword(hex) = <<SubSeq(all, 1, Len(all) - cut)>>
    BY <1>18 DEF DecryptPassword
  <2>2. all = plain
    BY <1>10
  <2>3. cut = drop
    BY <1>8, <1>10
  <2> HIDE DEF plain, drop, cut, all
  <2> QED BY <1>16, <1>17, <2>1, <2>2, <2>3
<1>20. SubSeq(plain, 1, len) = text
  <2>1. len <= A
    BY <1>1, <1>2, <1>7
  <2> HIDE DEF plain
  <2>2. SubSeq(plain, 1, len) = [i \in 1 .. len |-> plain[i]]
    BY <1>1, <1>7, <1>17, <2>1
  <2>3. \A i \in 1 .. len : plain[i] = text[i]
    BY <1>1, <1>3, <1>7, <1>15, <2>1
  <2>4. text = [i \in 1 .. len |-> text[i]]
    OBVIOUS
  <2> QED BY <2>2, <2>3, <2>4
<1>21. hex # <<>>
  BY <1>1, <1>7, <1>8
<1> QED BY <1>19, <1>20, <1>21 DEF hex

LEMMA BuiltLogsIn == Built => PasswordSurvives
<1> SUFFICES ASSUME conf \in Configs, conf.redis.Crypto, ~conf.redis.Disabled,
                    conf.redis.password # <<>>,
                    conf.redis.PasswordHex = EncryptPassword(conf.redis.password)
             PROVE  Login(conf.redis) = <<conf.redis.password>>
  BY DEF Built, PasswordSurvives
<1> DEFINE c == conf.redis
<1>1. c.password \in Seq(0 .. 1) /\ c.password # <<>>
  BY ConfigsAssumption
<1>2. c.PasswordHex # <<>> /\ DecryptPassword(c.PasswordHex) = <<c.password>>
  BY <1>1, RoundTrip
<1>3. c.Crypto /\ ~c.Disabled
  OBVIOUS
<1> HIDE DEF c
<1> QED BY <1>2, <1>3 DEF Login, c

\* A service whose configuration wraps the password of Redis presents that
\* password, whatever its length and whatever permutation the cipher is.
THEOREM PasswordsSurvive == Spec => []PasswordSurvives
<1> QED BY InitBuilt, NextBuilt, BuiltLogsIn, PTL DEF Spec

-----------------------------------------------------------------------------
(* The score of features under a model *)

\* A key has room for the values of a legacy index.
LEMMA HiIsNumber == Hi \in Nat \ {0} /\ Lo \in Nat \ {0} /\ Lo <= Hi
<1>1. Lo \in Nat /\ Fields \in Nat /\ Lo > 0 /\ Fields >= 1
  BY KeyAssumption
<1>2. Lo * Fields \in Nat
  BY <1>1
<1>3. Lo * Fields >= Lo
  BY <1>1, Z3
<1> DEFINE h == Lo * Fields
<1>4. h \in Nat /\ h >= Lo
  BY <1>2, <1>3
<1> HIDE DEF h
<1>5. h \in Nat \ {0} /\ Lo <= h
  BY <1>1, <1>4
<1> QED BY <1>1, <1>5 DEF Hi, h

\* a line of this index says something of this key
SpeaksOf(index, key) ==
  \/ index >= Hi /\ key = index
  \/ /\ index \in 0 .. Hi - 1
     /\ key \div Hi = index \div Lo /\ key % Hi = index % Lo
  \/ index < 0 /\ key = 0

\* The key of a line is the one it says something of.
LEMMA KeyOfLine ==
  ASSUME NEW index \in Int, NEW key \in Int
  PROVE  FieldValueFromIndex(index) = key <=> SpeaksOf(index, key)
<1>1. Hi \in Nat \ {0} /\ Lo \in Nat \ {0} /\ Lo <= Hi
  BY HiIsNumber
<1>2. CASE index < 0
  BY <1>1, <1>2 DEF FieldValueFromIndex, SpeaksOf
<1>3. CASE index >= Hi
  BY <1>1, <1>3 DEF FieldValueFromIndex, SpeaksOf
<1>4. CASE index \in 0 .. Hi - 1
  <2> DEFINE q == index \div Lo
             r == index % Lo
             kq == key \div Hi
             kr == key % Hi
  <2>1. q \in Int /\ r \in 0 .. Lo - 1
    BY <1>1, DivMod
  <2>2. kq \in Int /\ kr \in 0 .. Hi - 1 /\ key = (kq * Hi) + kr
    BY <1>1, DivMod
  <2>3. FieldValueFromIndex(index) = (q * Hi) + r
    BY <1>1, <1>4 DEF FieldValueFromIndex, PackFieldValue
  <2>4. SpeaksOf(index, key) <=> kq = q /\ kr = r
    BY <1>1, <1>4 DEF SpeaksOf
  <2> HIDE DEF q, r
  <2>5. r \in 0 .. Hi - 1
    BY <1>1, <2>1
  <2>6. ((q * Hi) + r) \div Hi = q /\ ((q * Hi) + r) % Hi = r
    BY <1>1, <2>1, <2>5, DivModIs
  <2>7. (q * Hi) + r = key => kq = q /\ kr = r
    BY <2>6
  <2>8. kq = q /\ kr = r => key = (q * Hi) + r
    <3> HIDE DEF kq, kr
    <3> QED BY <2>2
  <2> QED BY <2>3, <2>4, <2>7, <2>8
<1> QED BY <1>1, <1>2, <1>3, <1>4

\* the lines of a model file that say something of a key, among those read
LinesOf(file, key) == {n \in 1 .. file.readable : SpeaksOf(file.lines[n].index, key)}

\* What the model has for a key is what the last of its lines says.
LEMMA LastLineCounts ==
  ASSUME NEW file, IsModelFile(file), file.status = "read", NEW factor \in Nat,
         LoadFMModel(file, factor) # <<>>, NEW key \in Int
  PROVE  LET fm == LoadFMModel(file, factor)[1]
             lines == LinesOf(file, key)
         IN  /\ fm.w0 = file.w0 /\ fm.factor = factor
             /\ key \in DOMAIN fm.w1 <=> lines # {}
             /\ key \in DOMAIN fm.w2 <=> lines # {}
             /\ lines # {} =>
                  /\ Max(lines) \in 1 .. file.readable
                  /\ fm.w1[key] = file.lines[Max(lines)].w1 /\ fm.w1[key] \in Int
                  /\ \A f \in 1 .. factor : /\ fm.w2[key][f] = file.lines[Max(lines)].w2[f]
                                            /\ fm.w2[key][f] \in Int
<1> DEFINE Line == [index : Int, w1 : Int, w2 : Seq(Int)]
           L == file.readable
           front == Read(file)
           Key(line) == FieldValueFromIndex(line.index)
           fm == LoadFMModel(file, factor)[1]
           lines == LinesOf(file, key)
           keys == {Key(line) : line \in ToSet(front)}
           LineFor(z) == front[LastOf(front, Key, z)]
<1>1. file.lines \in Seq(Line) /\ L \in 0 .. Len(file.lines)
  BY DEF IsModelFile
<1>2. front \in Seq(Line) /\ DOMAIN front = 1 .. L /\ L \in Nat /\ \A n \in 1 .. L : front[n] = file.lines[n]
  <2> HIDE DEF Line
  <2> QED BY <1>1 DEF Read
<1>3. /\ \A line \in ToSet(front) : ~(Len(line.w2) < factor)
      /\ fm = [factor |-> factor, w0 |-> file.w0,
               w1 |-> [z \in keys |-> LineFor(z).w1],
               w2 |-> [z \in keys |-> SubSeq(LineFor(z).w2, 1, factor)]]
  BY DEF LoadFMModel
<1>4. /\ fm.w0 = file.w0 /\ fm.factor = factor
      /\ DOMAIN fm.w1 = keys /\ DOMAIN fm.w2 = keys
      /\ \A z \in keys : fm.w1[z] = LineFor(z).w1 /\ fm.w2[z] = SubSeq(LineFor(z).w2, 1, factor)
  <2> HIDE DEF fm, keys, LineFor
  <2> QED BY <1>3
<1> HIDE DEF fm, front
<1>5. \A n \in 1 .. L : front[n] \in Line
  <2> HIDE DEF Line
  <2> QED BY <1>2
<1>6. \A n \in 1 .. L : Key(front[n]) = key <=> SpeaksOf(file.lines[n].index, key)
  <2> TAKE n \in 1 .. L
  <2>1. front[n].index \in Int /\ front[n] = file.lines[n]
    BY <1>2, <1>5
  <2> QED BY <2>1, KeyOfLine
<1>7. lines = {n \in DOMAIN front : Key(front[n]) = key}
  BY <1>2, <1>6 DEF LinesOf
<1>8. key \in keys <=> lines # {}
  BY <1>2, <1>7 DEF ToSet
<1>9. LineFor(key) = front[Max(lines)]
  BY <1>7 DEF LastOf
<1> HIDE DEF LineFor, keys, Key
<1>10. ASSUME lines # {}
       PROVE  /\ Max(lines) \in 1 .. L
              /\ fm.w1[key] = file.lines[Max(lines)].w1 /\ fm.w1[key] \in Int
              /\ \A f \in 1 .. factor : /\ fm.w2[key][f] = file.lines[Max(lines)].w2[f]
                                        /\ fm.w2[key][f] \in Int
  <2> DEFINE m == Max(lines)
  <2>1. m \in 1 .. L
    <3>1. lines \in SUBSET (1 .. L)
      BY DEF LinesOf
    <3> HIDE DEF lines
    <3> QED BY <1>2, <1>10, <3>1, MaxIsMember
  <2> HIDE DEF m
  <2>2. front[m] = file.lines[m] /\ front[m] \in Line /\ front[m] \in ToSet(front)
    BY <1>2, <1>5, <2>1 DEF ToSet
  <2>3. LineFor(key) = file.lines[m] /\ fm.w1[key] = file.lines[m].w1
        /\ fm.w2[key] = SubSeq(file.lines[m].w2, 1, factor)
    BY <1>4, <1>8, <1>9, <1>10, <2>2 DEF m
  <2> DEFINE v == file.lines[m].w2
  <2>4. file.lines[m].w1 \in Int /\ v \in Seq(Int)
    BY <2>2
  <2>5. factor <= Len(v)
    BY <1>3, <2>2, <2>4
  <2> HIDE DEF v
  <2>6. \A f \in 1 .. factor : SubSeq(v, 1, factor)[f] = v[f] /\ v[f] \in Int
    BY <2>4, <2>5
  <2>7. fm.w2[key] = SubSeq(v, 1, factor)
    BY <2>3 DEF v
  <2> QED BY <2>1, <2>3, <2>4, <2>6, <2>7 DEF m, v
<1> QED BY <1>4, <1>8, <1>10 DEF fm

Feature == [key : Int, weight : Int]

\* the weight of a feature in the linear part and in slot f, as the model and as
\* its file has it
LinearIn(fm, fe) == IF fe.key \in DOMAIN fm.w1 THEN fm.w1[fe.key] * fe.weight ELSE 0
SlotIn(fm, fe, f) == IF fe.key \in DOMAIN fm.w2 THEN fm.w2[fe.key][f] * fe.weight ELSE 0
LinearOf(file, fe) ==
  IF LinesOf(file, fe.key) = {} THEN 0 ELSE fe.weight * file.lines[Max(LinesOf(file, fe.key))].w1
SlotOf(file, fe, f) ==
  IF LinesOf(file, fe.key) = {} THEN 0 ELSE fe.weight * file.lines[Max(LinesOf(file, fe.key))].w2[f]

PairScore(file, factor, s) ==
  Sigmoid((20000 * file.w0)
    + (200 * Total([p \in DOMAIN s |-> LinearOf(file, s[p])]))
    + Total([f \in 1 .. factor |->
        Total([p \in DOMAIN s |->
          Total([q \in DOMAIN s |->
            IF p = q THEN 0 ELSE SlotOf(file, s[p], f) * SlotOf(file, s[q], f)])])]))

\* A feature weighs in the model what it weighs in its file.
LEMMA SameWeights ==
  ASSUME NEW file, IsModelFile(file), file.status = "read", NEW factor \in Nat,
         LoadFMModel(file, factor) # <<>>, NEW fe \in Feature
  PROVE  LET fm == LoadFMModel(file, factor)[1]
         IN  /\ LinearIn(fm, fe) = LinearOf(file, fe)
             /\ \A f \in 1 .. factor : SlotIn(fm, fe, f) = SlotOf(file, fe, f)
                                       /\ SlotIn(fm, fe, f) \in Int
<1> DEFINE fm == LoadFMModel(file, factor)[1]
           key == fe.key
           lines == LinesOf(file, key)
           line == file.lines[Max(lines)]
<1>1. key \in Int /\ fe.weight \in Int
  BY DEF Feature
<1>2. /\ key \in DOMAIN fm.w1 <=> lines # {}
      /\ key \in DOMAIN fm.w2 <=> lines # {}
      /\ lines # {} =>
           /\ fm.w1[key] = line.w1 /\ fm.w1[key] \in Int
           /\ \A f \in 1 .. factor : fm.w2[key][f] = line.w2[f] /\ fm.w2[key][f] \in Int
  <2> HIDE DEF key
  <2> QED BY <1>1, LastLineCounts
<1>3. /\ LinearIn(fm, fe) = IF key \in DOMAIN fm.w1 THEN fm.w1[key] * fe.weight ELSE 0
      /\ LinearOf(file, fe) = IF lines = {} THEN 0 ELSE fe.weight * line.w1
      /\ \A f : /\ SlotIn(fm, fe, f) = IF key \in DOMAIN fm.w2 THEN fm.w2[key][f] * fe.weight ELSE 0
                /\ SlotOf(file, fe, f) = IF lines = {} THEN 0 ELSE fe.weight * line.w2[f]
  BY DEF LinearIn, LinearOf, SlotIn, SlotOf
<1> HIDE DEF fm, key, lines, line
<1>4. \A a \in Int : a * fe.weight = fe.weight * a /\ a * fe.weight \in Int
  BY <1>1
<1>5. CASE lines = {}
  BY <1>2, <1>3, <1>5 DEF fm
<1>6. CASE lines # {}
  <2>1. LinearIn(fm, fe) = LinearOf(file, fe)
    BY <1>2, <1>3, <1>4, <1>6
  <2>2. ASSUME NEW f \in 1 .. factor
        PROVE  SlotIn(fm, fe, f) = SlotOf(file, fe, f) /\ SlotIn(fm, fe, f) \in Int
    <3> DEFINE a == fm.w2[key][f]
    <3>1. key \in DOMAIN fm.w2 /\ a = line.w2[f] /\ a \in Int
      BY <1>2, <1>6
    <3>2. SlotIn(fm, fe, f) = a * fe.weight /\ SlotOf(file, fe, f) = fe.weight * line.w2[f]
      BY <1>3, <1>6, <3>1
    <3> HIDE DEF a
    <3> QED BY <1>4, <3>1, <3>2
  <2> QED BY <2>1, <2>2 DEF fm
<1> QED BY <1>5, <1>6

\* FMModel.Predict is the factorization machine of the file.
LEMMA PredictIsPairwise ==
  ASSUME NEW file, IsModelFile(file), file.status = "read", NEW factor \in Nat,
         LoadFMModel(file, factor) # <<>>, NEW s \in Seq(Feature)
  PROVE  Predict(LoadFMModel(file, factor)[1], s) = PairScore(file, factor, s)
<1> DEFINE fm == LoadFMModel(file, factor)[1]
           linear == [p \in DOMAIN s |-> LinearIn(fm, s[p])]
           x(f) == [p \in DOMAIN s |-> SlotIn(fm, s[p], f)]
           square(f) == (Total(x(f)) * Total(x(f)))
                          - Total([p \in DOMAIN s |-> SlotIn(fm, s[p], f) * SlotIn(fm, s[p], f)])
           pairs(f) == Total([p \in DOMAIN s |->
                         Total([q \in DOMAIN s |->
                           IF p = q THEN 0 ELSE SlotOf(file, s[p], f) * SlotOf(file, s[q], f)])])
           lined == [p \in DOMAIN s |-> LinearOf(file, s[p])]
<1>1. DOMAIN s = 1 .. Len(s) /\ Len(s) \in Nat /\ \A p \in DOMAIN s : s[p] \in Feature
  <2> HIDE DEF Feature
  <2> QED OBVIOUS
<1>2. \A p \in DOMAIN s :
        /\ LinearIn(fm, s[p]) = LinearOf(file, s[p])
        /\ \A f \in 1 .. factor : SlotIn(fm, s[p], f) = SlotOf(file, s[p], f)
                                  /\ SlotIn(fm, s[p], f) \in Int
  BY <1>1, SameWeights
<1>3. fm.w0 = file.w0 /\ fm.factor = factor
  <2> DEFINE zero == 0
  <2>1. zero \in Int
    OBVIOUS
  <2> HIDE DEF zero
  <2> QED BY <2>1, LastLineCounts
<1>4. Predict(fm, s) = Sigmoid((20000 * fm.w0) + (200 * Total(linear))
                                 + Total([f \in 1 .. fm.factor |-> square(f)]))
  BY DEF Predict, Logit, LinearIn, SlotIn
<1>5. PairScore(file, factor, s) =
        Sigmoid((20000 * file.w0) + (200 * Total(lined)) + Total([f \in 1 .. factor |-> pairs(f)]))
  BY DEF PairScore
<1> HIDE DEF fm
<1>6. linear = lined
  BY <1>2
<1>7. ASSUME NEW f \in 1 .. factor PROVE square(f) = pairs(f)
  <2> DEFINE v == x(f)
  <2>1. v = [p \in 1 .. Len(s) |-> v[p]] /\ \A p \in 1 .. Len(s) : v[p] \in Int
    BY <1>1, <1>2
  <2>2. DOMAIN v = DOMAIN s /\ \A p \in DOMAIN s : v[p] = SlotIn(fm, s[p], f)
    OBVIOUS
  <2> HIDE DEF v
  <2>3. v \in Seq(Int)
    BY <1>1, <2>1, NumbersListed
  <2>4. Total([p \in DOMAIN v |-> Total([q \in DOMAIN v |-> IF p = q THEN 0 ELSE v[p] * v[q]])])
          = (Total(v) * Total(v)) - Total([p \in DOMAIN v |-> v[p] * v[p]])
    BY <2>3, PairsOf
  <2>5. [p \in DOMAIN v |-> v[p] * v[p]] = [p \in DOMAIN s |-> SlotIn(fm, s[p], f) * SlotIn(fm, s[p], f)]
    BY <2>2
  <2>6. \A p \in DOMAIN s :
          [q \in DOMAIN v |-> IF p = q THEN 0 ELSE v[p] * v[q]]
            = [q \in DOMAIN s |-> IF p = q THEN 0 ELSE SlotOf(file, s[p], f) * SlotOf(file, s[q], f)]
    <3>1. \A p \in DOMAIN s : v[p] = SlotOf(file, s[p], f)
      BY <1>2, <2>2
    <3> QED BY <2>2, <3>1
  <2>7. [p \in DOMAIN v |-> Total([q \in DOMAIN v |-> IF p = q THEN 0 ELSE v[p] * v[q]])]
          = [p \in DOMAIN s |-> Total([q \in DOMAIN s |->
               IF p = q THEN 0 ELSE SlotOf(file, s[p], f) * SlotOf(file, s[q], f)])]
    BY <2>2, <2>6
  <2> QED BY <2>4, <2>5, <2>7 DEF v
<1> HIDE DEF square, pairs, linear, lined
<1>8. [f \in 1 .. factor |-> square(f)] = [f \in 1 .. factor |-> pairs(f)]
  BY <1>7
<1> QED BY <1>3, <1>4, <1>5, <1>6, <1>8 DEF fm

-----------------------------------------------------------------------------
(* The features of an item *)

\* the hash of a placeholder feature is a number
HashIsNumber == \A id, f, n \in Int : Hash(id, f, n) \in Int

IsSlots(trans) ==
  /\ \E b \in Nat : DOMAIN trans \subseteq 1 .. b
  /\ \A f \in DOMAIN trans : trans[f] \in Nat

\* Every way to get features gives keys and weights.
LEMMA SlotsAreFeatures ==
  ASSUME NEW doc, IsDocument(doc), NEW fields \in Seq(1 .. 5)
  PROVE  Slots(doc, fields) \in Seq(Feature)
<1> DEFINE slot == [f \in DOMAIN doc.flat \cup DOMAIN doc.nested |->
                      IF f \in DOMAIN doc.flat THEN doc.flat[f] ELSE doc.nested[f]]
           Low(f) == IF f = 3 THEN 10 ELSE 0
           Clamped(f) == Max({Low(f), IF f = 5 THEN slot[f] ELSE Min({slot[f], 100})})
           places == {p \in DOMAIN fields : fields[p] \in DOMAIN slot}
           there == Keep(fields, places)
           kept == [p \in DOMAIN there |-> [key |-> there[p] * Hi, weight |-> Clamped(there[p])]]
<1>1. \A f \in DOMAIN slot : slot[f] \in Int
  <2>1. /\ \A f \in DOMAIN doc.flat : doc.flat[f] \in Int
        /\ \A f \in DOMAIN doc.nested : doc.nested[f] \in Int
    BY DEF IsDocument
  <2> QED BY <2>1
<1>2. Slots(doc, fields) = kept
  BY DEF Slots
<1> HIDE DEF slot
<1>3. \A f \in DOMAIN slot : Clamped(f) \in Int
  <2> TAKE f \in DOMAIN slot
  <2>1. slot[f] \in Int /\ Low(f) \in Int
    BY <1>1
  <2> DEFINE x == slot[f]
             y == IF f = 5 THEN x ELSE Min({x, 100})
  <2>2. y \in Int
    <3> DEFINE full == 100
    <3>1. x \in Int /\ full \in Int
      BY <2>1
    <3> HIDE DEF x, full
    <3>2. Min({x, full}) \in Int
      BY <3>1, ExtremeOfTwo
    <3> QED BY <3>1, <3>2 DEF full
  <2> HIDE DEF Low, y
  <2>3. Max({Low(f), y}) \in Int
    BY <2>1, <2>2, ExtremeOfTwo
  <2> QED BY <2>3 DEF y
<1> HIDE DEF Clamped
<1>4. /\ there \in Seq(1 .. 5) /\ \A n \in DOMAIN there : there[n] \in DOMAIN slot
      /\ DOMAIN there = 1 .. Len(there) /\ Len(there) \in Nat
  <2>1. places \in SUBSET DOMAIN fields
    OBVIOUS
  <2>2. \A p \in places : fields[p] \in DOMAIN slot
    OBVIOUS
  <2> HIDE DEF places
  <2>3. there \in Seq(1 .. 5) /\ \A n \in DOMAIN there : \E i \in places : there[n] = fields[i]
    BY <2>1, KeptItems
  <2> HIDE DEF there
  <2> QED BY <2>2, <2>3
<1> HIDE DEF there
<1>5. \A n \in 1 .. Len(there) : kept[n] \in Feature
  <2> TAKE n \in 1 .. Len(there)
  <2>1. there[n] \in Int /\ there[n] \in DOMAIN slot
    BY <1>4
  <2>2. there[n] * Hi \in Int
    BY <2>1, HiIsNumber
  <2>3. kept[n] = [key |-> there[n] * Hi, weight |-> Clamped(there[n])]
    BY <1>4
  <2> QED BY <1>3, <2>1, <2>2, <2>3 DEF Feature
<1>6. kept = [n \in 1 .. Len(there) |-> kept[n]]
  BY <1>4
<1> HIDE DEF kept
<1> QED BY <1>2, <1>4, <1>5, <1>6

LEMMA PlaceholdersAreFeatures ==
  ASSUME HashIsNumber, NEW id \in Int, NEW trans, IsSlots(trans)
  PROVE  BuildPlaceholderSparse(id, trans) \in Seq(Feature)
<1> DEFINE Slot(f, n) == [key |-> (f * Hi) + Hash(id, f, n), weight |-> 100]
<1>1. \A f, n \in Int : Slot(f, n) \in Feature
  <2> TAKE f, n \in Int
  <2>1. f * Hi \in Int /\ Hash(id, f, n) \in Int
    BY HiIsNumber DEF HashIsNumber
  <2> QED BY <2>1 DEF Feature
<1>2. CASE DOMAIN trans = {}
  <2>1. BuildPlaceholderSparse(id, trans) = <<Slot(1, 0)>>
    BY <1>2 DEF BuildPlaceholderSparse
  <2>2. Slot(1, 0) \in Feature
    BY <1>1
  <2> HIDE DEF Slot
  <2> QED BY <2>1, <2>2
<1>3. CASE DOMAIN trans # {}
  <2> DEFINE most == Max(DOMAIN trans)
             Row(f) == IF f \in DOMAIN trans THEN [n \in 1 .. trans[f] |-> Slot(f, n)] ELSE <<>>
             rows == [f \in 1 .. most |-> Row(f)]
  <2>1. most \in Nat
    <3>1. PICK b \in Nat : DOMAIN trans \subseteq 1 .. b
      BY DEF IsSlots
    <3>2. DOMAIN trans \in SUBSET (1 .. b)
      BY <3>1
    <3>3. most \in 1 .. b
      BY <1>3, <3>2, MaxIsMember
    <3> QED BY <3>3
  <2>2. BuildPlaceholderSparse(id, trans) = FlattenSeq(rows)
    BY <1>3 DEF BuildPlaceholderSparse
  <2>3. \A f \in 1 .. most : Row(f) \in Seq(Feature)
    <3> TAKE f \in 1 .. most
    <3>1. CASE f \in DOMAIN trans
      <4> DEFINE c == trans[f]
                 row == [n \in 1 .. c |-> Slot(f, n)]
      <4>1. c \in Nat /\ f \in Int
        BY <3>1 DEF IsSlots
      <4> HIDE DEF c, Slot
      <4>2. \A n \in 1 .. c : Slot(f, n) \in Feature
        BY <1>1, <4>1
      <4>3. row \in Seq(Feature)
        <5> HIDE DEF Feature
        <5> QED BY <4>1, <4>2
      <4> QED BY <3>1, <4>3 DEF c
    <3>2. CASE f \notin DOMAIN trans
      BY <3>2
    <3> QED BY <3>1, <3>2
  <2> HIDE DEF most, Row
  <2>4. rows \in Seq(Seq(Feature))
    BY <2>1, <2>3
  <2> HIDE DEF rows
  <2> QED BY <2>2, <2>4, Flattened
<1> QED BY <1>2, <1>3

LEMMA FeaturesAreFeatures ==
  ASSUME HashIsNumber, NEW user, IsDocument(user), NEW item, IsDocument(item), NEW id \in Int,
         NEW trans, IsSlots(trans)
  PROVE  Features(user, item, id, trans).sparse \in Seq(Feature)
<1> DEFINE Parsed(s) == Keep(s, {p \in DOMAIN s : s[p].key >= 0})
           all == Parsed(user.sparse) \o Parsed(item.sparse)
                    \o Slots(user, <<1, 2, 3>>) \o Slots(item, <<4, 5>>)
<1>1. user.sparse \in Seq(Feature) /\ item.sparse \in Seq(Feature)
  BY DEF IsDocument, Feature
<1>2. ASSUME NEW s \in Seq(Feature) PROVE Parsed(s) \in Seq(Feature)
  <2> DEFINE places == {p \in DOMAIN s : s[p].key >= 0}
  <2>1. places \in SUBSET DOMAIN s
    OBVIOUS
  <2> HIDE DEF places
  <2>2. Keep(s, places) \in Seq(Feature)
    BY <2>1, KeptItems
  <2> QED BY <2>2 DEF places
<1>3. Slots(user, <<1, 2, 3>>) \in Seq(Feature) /\ Slots(item, <<4, 5>>) \in Seq(Feature)
  <2> DEFINE a == <<1, 2, 3>>
             b == <<4, 5>>
  <2>1. a \in Seq(1 .. 5) /\ b \in Seq(1 .. 5)
    OBVIOUS
  <2> HIDE DEF a, b
  <2>2. Slots(user, a) \in Seq(Feature) /\ Slots(item, b) \in Seq(Feature)
    BY <2>1, SlotsAreFeatures
  <2> QED BY <2>2 DEF a, b
<1> HIDE DEF Parsed
<1>4. all \in Seq(Feature)
  <2>1. Parsed(user.sparse) \in Seq(Feature) /\ Parsed(item.sparse) \in Seq(Feature)
    BY <1>1, <1>2
  <2> DEFINE a == Parsed(user.sparse)
             b == Parsed(item.sparse)
             c == Slots(user, <<1, 2, 3>>)
             d == Slots(item, <<4, 5>>)
  <2> HIDE DEF a, b, c, d, Feature
  <2>2. a \o b \o c \o d \in Seq(Feature)
    BY <1>3, <2>1 DEF a, b, c, d
  <2> QED BY <2>2 DEF a, b, c, d
<1>5. MergeUserItem(user, item).sparse \in {<<>>, all}
  BY DEF MergeUserItem, Parsed
<1> HIDE DEF all
<1>6. Features(user, item, id, trans).sparse
        \in {MergeUserItem(user, item).sparse, BuildPlaceholderSparse(id, trans)}
  BY DEF Features
<1>7. <<>> \in Seq(Feature)
  OBVIOUS
<1> QED BY <1>4, <1>5, <1>6, <1>7, PlaceholdersAreFeatures

\* The fields of a table that was loaded are bounded, and their slots counted.
LEMMA TransIsSlots ==
  ASSUME NEW file, IsTransFile(file), LoadFMTrans(file) # <<>>
  PROVE  IsSlots(LoadFMTrans(file)[1])
<1>1. file.status \in {"unset", "read", "broken"}
  BY DEF IsTransFile, Statuses
<1>2. CASE file.status = "unset"
  <2>1. LoadFMTrans(file)[1] = NoTrans
    BY <1>2 DEF LoadFMTrans
  <2>2. DOMAIN NoTrans = {}
    BY DEF NoTrans
  <2>3. 0 \in Nat
    OBVIOUS
  <2> QED BY <2>1, <2>2, <2>3 DEF IsSlots
<1>3. CASE file.status = "broken"
  BY <1>3 DEF LoadFMTrans
<1>4. CASE file.status = "read"
  <2> DEFINE Line == [field : Int, count : Int]
             L == file.readable
             front == Read(file)
             fields == {line.field : line \in ToSet(front)}
             last(f) == LastOf(front, LAMBDA line : line.field, f)
             trans == LoadFMTrans(file)[1]
  <2>1. file.lines \in Seq(Line) /\ L \in 0 .. Len(file.lines)
    BY <1>4 DEF IsTransFile
  <2>2. front \in Seq(Line) /\ DOMAIN front = 1 .. L /\ L \in Nat
    <3> HIDE DEF Line
    <3> QED BY <2>1 DEF Read
  <2>3. /\ \A n \in DOMAIN front : ~(front[n].field <= 0) /\ ~(front[n].count < 0)
        /\ trans = [f \in fields |-> front[last(f)].count]
    BY <1>4 DEF LoadFMTrans
  <2>4. \A f : last(f) = Max({n \in DOMAIN front : front[n].field = f})
    BY DEF LastOf
  <2> HIDE DEF front, trans, last
  <2>5. \A n \in 1 .. L : front[n] \in Line
    <3> HIDE DEF Line
    <3> QED BY <2>2
  <2>6. \A n \in 1 .. L : front[n].field \in Nat \ {0} /\ front[n].count \in Nat
    <3>1. \A n \in 1 .. L : front[n].field \in Int /\ front[n].count \in Int
      BY <2>5
    <3> QED BY <2>2, <2>3, <3>1
  <2>7. \E b \in Nat : \A n \in 1 .. L : front[n].field <= b
    <3> DEFINE H == {m \in 0 .. L : \E b \in Nat : \A n \in 1 .. m : front[n].field <= b}
    <3>1. 0 \in H
      <4>1. 0 \in Nat /\ 0 \in 0 .. L /\ 1 .. 0 = {}
        BY <2>2
      <4> QED BY <4>1
    <3>2. ASSUME NEW m \in 0 .. L - 1, m \in H PROVE m + 1 \in H
      <4>1. PICK b \in Nat : \A n \in 1 .. m : front[n].field <= b
        BY <3>2
      <4> DEFINE j == m + 1
                 c == b + front[j].field
      <4>2. j \in 1 .. L /\ j \in 0 .. L
        BY <2>2
      <4>3. front[j].field \in Nat
        BY <2>6, <4>2
      <4>4. c \in Nat /\ b <= c /\ front[j].field <= c
        BY <4>3
      <4> HIDE DEF c
      <4>5. \A n \in 1 .. j : front[n].field <= c
        <5> TAKE n \in 1 .. j
        <5>1. CASE n = j
          BY <4>4, <5>1
        <5>2. CASE n # j
          <6>1. n \in 1 .. m /\ n \in 1 .. L
            BY <2>2, <5>2
          <6>2. front[n].field <= b /\ front[n].field \in Nat
            BY <2>6, <4>1, <6>1
          <6> QED BY <4>4, <6>2
        <5> QED BY <5>1, <5>2
      <4> HIDE DEF j
      <4>6. j \in H
        BY <4>2, <4>4, <4>5
      <4> QED BY <4>6 DEF j
    <3> HIDE DEF H
    <3>3. \A m \in 0 .. L : m \in H
      BY <2>2, <3>1, <3>2, Induction
    <3>4. L \in H
      BY <2>2, <3>3
    <3> QED BY <3>4 DEF H
  <2>8. DOMAIN trans = fields /\ \A f \in fields : trans[f] = front[last(f)].count
    BY <2>3
  <2>9. \A f \in fields : \E n \in 1 .. L : front[n].field = f
    BY <2>2 DEF ToSet
  <2>10. \E b \in Nat : DOMAIN trans \subseteq 1 .. b
    <3>1. PICK b \in Nat : \A n \in 1 .. L : front[n].field <= b
      BY <2>7
    <3>2. ASSUME NEW f \in fields PROVE f \in 1 .. b
      <4>1. PICK n \in 1 .. L : front[n].field = f
        BY <2>9
      <4> QED BY <2>6, <3>1, <4>1
    <3> QED BY <2>8, <3>2
  <2>11. ASSUME NEW f \in fields PROVE trans[f] \in Nat
    <3> DEFINE S == {n \in DOMAIN front : front[n].field = f}
    <3>1. S \in SUBSET (1 .. L) /\ S # {}
      BY <2>2, <2>9
    <3>2. last(f) = Max(S)
      BY <2>4
    <3> HIDE DEF S
    <3>3. Max(S) \in S
      BY <2>2, <3>1, MaxIsMember
    <3>4. last(f) \in 1 .. L
      BY <3>1, <3>2, <3>3
    <3> QED BY <2>6, <2>8, <3>4
  <2> QED BY <2>8, <2>10, <2>11 DEF IsSlots, trans
<1> QED BY <1>1, <1>2, <1>3, <1>4

-----------------------------------------------------------------------------
(* The coarse score *)

\* the engine is the one of the profile, and a coarse score what it predicts
Predicted ==
  pc \notin {"boot", "refused", "start"} =>
    /\ req \in Requests
    /\ eng = EngineFor(Profile(req))
    /\ pc = "coarse" => eng.pipeline
    /\ pc = "cut" =>
         \A p \in DOMAIN work :
           /\ work[p].sparse \in Seq(Feature)
           /\ eng.fm # <<>> => work[p].pre = Predict(eng.fm[1], work[p].sparse)

NameOf(r) == IF Profile(r) \in DOMAIN svc.engines THEN Profile(r) ELSE Default

LEMMA EngineIsBuilt ==
  ASSUME Built, Predicted, pc \notin {"boot", "refused", "start"}
  PROVE  LET c == EngineConfigs(conf)[NameOf(req)]
         IN  /\ conf \in Configs /\ NameOf(req) \in DOMAIN EngineConfigs(conf)
             /\ NewEngine(c) = <<eng>>
<1>1. eng = svc.engines[NameOf(req)]
  BY DEF Predicted, EngineFor, NameOf
<1>2. Default \in DOMAIN EngineConfigs(conf)
  BY DEF EngineConfigs
<1>3. NameOf(req) \in DOMAIN svc.engines
  BY <1>2 DEF Built, NameOf
<1> QED BY <1>1, <1>3 DEF Built

LEMMA PreRankPredicts ==
  ASSUME HashIsNumber, Built, Predicted, PreRank PROVE Predicted'
<1>1. /\ pc = "coarse" /\ pc' = "cut" /\ UNCHANGED <<req, svc, eng>>
      /\ req \in Requests /\ eng = EngineFor(Profile(req)) /\ eng.pipeline
  BY DEF PreRank, Predicted
<1> DEFINE c == Coarse(docs')
           s == EngineConfigs(conf)[NameOf(req)]
<1>2. work' \in SortedBy(c, LAMBDA w : w.pre)
  BY DEF PreRank
<1>3. IsSlots(eng.trans)
  <2>1. NewEngine(s) = <<eng>> /\ IsTransFile(s.trans)
    BY <1>1, EngineIsBuilt, ConfigsAssumption
  <2> HIDE DEF s
  <2>2. LoadFMTrans(s.trans) # <<>> /\ eng.trans = LoadFMTrans(s.trans)[1]
    BY <1>1, <2>1 DEF NewEngine
  <2> QED BY <2>1, <2>2, TransIsSlots
<1>4. IsDocument(NoDoc)
  <2>1. <<>> \in Seq([key : Int, weight : Int])
    OBVIOUS
  <2>2. DOMAIN NoTrans = {}
    BY DEF NoTrans
  <2> QED BY <2>1, <2>2 DEF IsDocument, NoDoc
<1>5. IsDocument(docs'.user) /\ \A id \in DOMAIN docs'.items : IsDocument(docs'.items[id])
  <2>1. docs' \in Documents \/ docs' = NoDocs
    BY DEF PreRank
  <2>2. NoDocs.user = NoDoc /\ DOMAIN NoDocs.items = {}
    BY DEF NoDocs
  <2> QED BY <1>4, <2>1, <2>2, DocumentsAssumption
<1>6. ASSUME NEW p \in DOMAIN c
      PROVE  /\ c[p].sparse \in Seq(Feature)
             /\ eng.fm # <<>> => c[p].pre = Predict(eng.fm[1], c[p].sparse)
  <2> DEFINE id == req.ids[p]
             item == IF id \in DOMAIN docs'.items THEN docs'.items[id] ELSE NoDoc
             features == Features(docs'.user, item, id, eng.trans)
  <2>1. p \in DOMAIN req.ids /\ c[p] = Scored(id, features, CoarseScore(features, id), 0, 0)
    BY DEF Coarse
  <2>2. id \in Int
    BY <1>1, <2>1, RequestsAssumption
  <2>3. IsDocument(item)
    BY <1>4, <1>5
  <2> HIDE DEF id, item, c
  <2>4. features.sparse \in Seq(Feature)
    BY <1>3, <1>5, <2>2, <2>3, FeaturesAreFeatures
  <2> HIDE DEF features
  <2>5. c[p].sparse = features.sparse /\ c[p].pre = CoarseScore(features, id)
    BY <2>1 DEF Scored
  <2> QED BY <2>4, <2>5 DEF CoarseScore
<1> HIDE DEF c
<1>7. \A p \in DOMAIN work' : \E q \in DOMAIN c : work'[p] = c[q]
  BY <1>2 DEF SortedBy, Bijection, Injection
<1>8. eng' = EngineFor(Profile(req))'
  BY <1>1 DEF EngineFor, Profile, PreRankStage, RankStage
<1> QED BY <1>1, <1>6, <1>7, <1>8 DEF Predicted

LEMMA NextPredicted ==
  ASSUME HashIsNumber
  PROVE  Built /\ Predicted /\ [Next]_vars => Predicted'
<1> SUFFICES ASSUME Built, Predicted, [Next]_vars PROVE Predicted'
  OBVIOUS
<1>1. CASE Boot
  BY <1>1 DEF Boot, Predicted
<1>2. CASE Handle
  <2>1. svc' = svc /\ req' \in Requests /\ eng' = EngineFor(Profile(req'))
        /\ pc' \in {"coarse", "done"} /\ (pc' = "coarse" => eng'.pipeline)
    BY <1>2 DEF Handle
  <2>2. EngineFor(Profile(req))' = EngineFor(Profile(req'))
    BY <2>1 DEF EngineFor, Profile, PreRankStage, RankStage
  <2> QED BY <2>1, <2>2 DEF Predicted
<1>3. CASE PreRank
  BY <1>3, PreRankPredicts
<1>4. CASE /\ UNCHANGED <<req, svc, eng>>
           /\ \/ pc' \notin {"boot", "refused", "start", "coarse", "cut"}
                   /\ pc \notin {"boot", "refused", "start"}
              \/ UNCHANGED <<pc, work>>
  <2>1. EngineFor(Profile(req))' = EngineFor(Profile(req))
    BY <1>4 DEF EngineFor, Profile, PreRankStage, RankStage
  <2> QED BY <1>4, <2>1 DEF Predicted
<1>5. CASE Truncate \/ FineScore \/ FineSort \/ ReRank
  BY <1>4, <1>5 DEF Truncate, FineScore, FineSort, ReRank
<1>6. CASE Done \/ UNCHANGED vars
  BY <1>4, <1>6 DEF Done, vars
<1> QED BY <1>1, <1>2, <1>3, <1>5, <1>6 DEF Next, Step

\* The property in the terms above.
LEMMA PairwiseScore ==
  LET name == IF Profile(req) \in DOMAIN svc.engines THEN Profile(req) ELSE Default
      file == EngineConfigs(conf)[name].model
  IN  ScoreIsPairwise <=>
        (pc = "cut" /\ eng.fm # <<>> =>
           \A p \in DOMAIN work :
             work[p].pre = PairScore(file, eng.fm[1].factor, work[p].sparse))
BY DEF ScoreIsPairwise, PairScore, LinearOf, SlotOf, LinesOf, SpeaksOf

LEMMA PredictedIsPairwise == Built /\ Predicted => ScoreIsPairwise
<1> DEFINE name == IF Profile(req) \in DOMAIN svc.engines THEN Profile(req) ELSE Default
           file == EngineConfigs(conf)[name].model
<1> SUFFICES ASSUME Built, Predicted, pc = "cut", eng.fm # <<>>, NEW p \in DOMAIN work
             PROVE  work[p].pre = PairScore(file, eng.fm[1].factor, work[p].sparse)
  BY PairwiseScore
<1> DEFINE c == EngineConfigs(conf)[name]
           factor == IF c.Factor <= 0 THEN 8 ELSE c.Factor
<1>1. /\ NewEngine(c) = <<eng>> /\ IsModelFile(c.model) /\ c.Factor \in Int
  <2>1. conf \in Configs /\ name \in DOMAIN EngineConfigs(conf) /\ NewEngine(c) = <<eng>>
    BY EngineIsBuilt DEF NameOf
  <2> QED BY <2>1, ConfigsAssumption
<1>2. file = c.model
  OBVIOUS
<1> HIDE DEF c, file
<1>3. factor \in Nat
  BY <1>1
<1>4. eng.fm = LoadFMModel(c.model, factor) /\ c.model.status # "unset"
  BY <1>1 DEF NewEngine
<1>5. c.model.status = "read"
  <2>1. c.model.status # "broken"
    BY <1>4 DEF LoadFMModel
  <2> QED BY <1>1, <1>4, <2>1 DEF IsModelFile, Statuses
<1>6. eng.fm[1].factor = factor
  BY <1>4 DEF LoadFMModel
<1>7. work[p].sparse \in Seq(Feature) /\ work[p].pre = Predict(eng.fm[1], work[p].sparse)
  BY DEF Predicted
<1> HIDE DEF factor
<1>8. Predict(eng.fm[1], work[p].sparse) = PairScore(c.model, factor, work[p].sparse)
  BY <1>1, <1>3, <1>4, <1>5, <1>7, PredictIsPairwise
<1> QED BY <1>2, <1>6, <1>7, <1>8

\* If the hash of a placeholder feature is a number, the coarse score of every
\* item is the factorization machine of the model file its engine was built of:
\* what scoring by squares of sums gives is the sum over the pairs.
THEOREM ScoresArePairwise ==
  ASSUME HashIsNumber
  PROVE  Spec => []ScoreIsPairwise
<1>1. Init => Predicted
  BY DEF Init, Predicted
<1>2. Built /\ Predicted /\ [Next]_vars => Predicted'
  BY NextPredicted
<1> QED BY <1>1, <1>2, InitBuilt, NextBuilt, PredictedIsPairwise, PTL DEF Spec
=============================================================================
