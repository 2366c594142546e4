------------------------ MODULE CenterPipelineProofs -------------------------
(***************************************************************************)
(* What recommend keeps of its promises, whatever the libraries, the       *)
(* requests and the failures are: its layers serve one audience, the merge *)
(* loses nothing below its cap, an item shown has passed its filters,      *)
(* forced items are on top and scored ones ahead of the others, the log has*)
(* the scores rank gave, and the whole implements RequestLife.             *)
(***************************************************************************)
EXTENDS CenterPipeline, ListProofs

\* A library is a sequence of buckets of rows, whether its file is there or not.
LEMMA LibraryIsSequence ==
  ASSUME NEW path
  PROVE  /\ Library(path) \in Seq(ToSet(Library(path)))
         /\ \A b \in DOMAIN Library(path) :
              Library(path)[b].rows \in Seq(ToSet(Library(path)[b].rows))
<1>1. CASE path \in DOMAIN Files
  BY <1>1, FilesAssumption DEF Library
<1>2. CASE path \notin DOMAIN Files
  BY <1>2 DEF Library
<1> QED BY <1>1, <1>2

-----------------------------------------------------------------------------
(* What each layer serves *)

LibraryOf(layer) == Library(IF layer = "center" THEN svc.recall ELSE svc[layer])
ChoiceOf(layer) == ResolveMapRecommend(LibraryOf(layer), req.ExpIDs, group)

\* a layer has served the row it resolves to, and none has before there is a
\* request
Serving ==
  /\ req.ExpIDs \in Seq(Int)
  /\ pc \in {"boot", "start"} => DOMAIN served = {}
  /\ \A layer \in DOMAIN served :
       ChoiceOf(layer) # <<>> /\ served[layer] = ChoiceOf(layer)[1].group

LEMMA InitServing == Init => Serving
<1> SUFFICES ASSUME Init PROVE Serving
  OBVIOUS
<1>1. req.ExpIDs = <<>> /\ DOMAIN served = {}
  BY DEF Init
<1> QED BY <1>1 DEF Serving

LEMMA NextServing == Serving /\ [Next]_vars => Serving'
<1> SUFFICES ASSUME Serving, [Next]_vars PROVE Serving'
  OBVIOUS
<1>1. CASE UNCHANGED <<svc, req, group, served>> /\ (pc' \in {"boot", "start"} => pc' = pc)
  BY <1>1 DEF Serving, ChoiceOf, LibraryOf
<1>2. CASE Boot
  BY <1>2 DEF Boot, history, Serving
<1>3. CASE Resolve
  <2>1. req'.ExpIDs \in Seq(Int) /\ pc' \notin {"boot", "start"}
    BY <1>3, RequestsAssumption DEF Resolve
  <2>2. CASE Row' = <<>>
    BY <1>3, <2>1, <2>2 DEF Resolve, Serving
  <2>3. CASE Row' # <<>>
    <3>1. Serve(svc.mode, Row'[1].group) /\ svc' = svc
      BY <1>3, <2>3 DEF Resolve
    <3>2. DOMAIN served' = {svc.mode} /\ served'[svc.mode] = Row'[1].group
      BY <1>3, <3>1 DEF Resolve, Serve, Serving
    <3>3. svc.mode \in {"center", "funnel"}
      BY <2>3, <3>1 DEF Row, Center, Funnel
    <3>4. Row' = ChoiceOf(svc.mode)'
      BY <3>1, <3>3
         DEF Row, Center, Funnel, ChoiceOf, LibraryOf, ResolveRecall, ResolveFunnel
    <3> QED BY <2>1, <2>3, <3>1, <3>2, <3>4 DEF Serving
  <2> QED BY <2>2, <2>3
<1>4. ASSUME NEW layer \in {"filter", "show"}, UNCHANGED request, ChoiceOf(layer) # <<>>,
             Serve(layer, ChoiceOf(layer)[1].group),
             pc' \notin {"boot", "start"}
      PROVE  Serving'
  <2>1. /\ DOMAIN served' = {layer} \cup DOMAIN served
        /\ served'[layer] = ChoiceOf(layer)[1].group
        /\ \A other \in DOMAIN served : other # layer => served'[other] = served[other]
    BY <1>4 DEF Serve
  <2>2. \A other : ChoiceOf(other)' = ChoiceOf(other)
    BY <1>4 DEF ChoiceOf, LibraryOf, request
  <2> QED BY <1>4, <2>1, <2>2 DEF Serving, request
<1>5. CASE Filter
  <2>1. UNCHANGED request /\ pc' \notin {"boot", "start"}
    BY <1>5 DEF Filter, Answer
  <2>2. FilterRow = ChoiceOf("filter")
    BY DEF FilterRow, ResolveFilter, ChoiceOf, LibraryOf
  <2>3. CASE FilterRow = <<>>
    BY <1>1, <1>5, <2>1, <2>3 DEF Filter, request
  <2>4. CASE FilterRow # <<>>
    BY <1>4, <1>5, <2>1, <2>2, <2>4 DEF Filter
  <2> QED BY <2>3, <2>4
<1>6. CASE ShowBegin
  <2>1. UNCHANGED request /\ pc' \notin {"boot", "start"}
    BY <1>6 DEF ShowBegin
  <2>2. ShowRow = ChoiceOf("show")
    BY DEF ShowRow, ResolveShow, ChoiceOf, LibraryOf
  <2>3. CASE Funnel \/ ShowRow = <<>>
    BY <1>1, <1>6, <2>1, <2>3 DEF ShowBegin, request
  <2>4. CASE ~(Funnel \/ ShowRow = <<>>)
    BY <1>4, <1>6, <2>1, <2>2, <2>4 DEF ShowBegin
  <2> QED BY <2>3, <2>4
<1>7. CASE ExclusiveLane
  BY <1>1, <1>7 DEF ExclusiveLane, request, history
<1>8. CASE ExclusiveEnd
  BY <1>1, <1>8 DEF ExclusiveEnd, request, history
<1>9. CASE RecallLane
  BY <1>1, <1>9 DEF RecallLane, Fail, request, history
<1>10. CASE Merge
  BY <1>1, <1>10 DEF Merge, request, history
<1>11. CASE FunnelFilter
  BY <1>1, <1>11 DEF FunnelFilter, Answer, request, history
<1>12. CASE RankMain
  BY <1>1, <1>12 DEF RankMain, Fail, request, history
<1>13. CASE RankNothing
  BY <1>1, <1>13 DEF RankNothing, request, history
<1>14. CASE Show
  BY <1>1, <1>14 DEF Show, request, history
<1>15. CASE Respond
  BY <1>1, <1>15 DEF Respond, Answer, request, history
<1>16. CASE Stub
  BY <1>1, <1>16 DEF Stub, Answer, Fail, request, history
<1>17. CASE UNCHANGED vars
  BY <1>1, <1>17 DEF vars, request, history
<1> QED
  BY <1>2, <1>3, <1>5, <1>6, <1>7, <1>8, <1>9, <1>10, <1>11, <1>12, <1>13, <1>14, <1>15,
     <1>16, <1>17
     DEF Next, Work, Ended

LEMMA ServingGivesGroup == Serving => OneGroupServes
<1> SUFFICES ASSUME Serving, NEW layer \in DOMAIN served, group # "",
                    NEW r \in DOMAIN LibraryOf(layer)[PickABVariantIndex(req.ExpIDs, LibraryOf(layer))].rows,
                    LibraryOf(layer)[PickABVariantIndex(req.ExpIDs, LibraryOf(layer))].rows[r].group = group
             PROVE  served[layer] = group
  BY DEF OneGroupServes, LibraryOf
<1>1. ChoiceOf(layer) # <<>> /\ served[layer] = ChoiceOf(layer)[1].group
  BY DEF Serving
<1>2. ChoiceOf(layer)[1].group = group
  <2> DEFINE lib == LibraryOf(layer)
  <2>1. /\ lib \in Seq(ToSet(lib))
        /\ \A b \in DOMAIN lib : lib[b].rows \in Seq(ToSet(lib[b].rows))
    BY LibraryIsSequence DEF LibraryOf
  <2>2. ResolveMapRecommend(lib, req.ExpIDs, group) # <<>> /\ req.ExpIDs \in Seq(Int)
    BY <1>1 DEF ChoiceOf, Serving
  <2> HIDE DEF lib
  <2>3. ResolveMapRecommend(lib, req.ExpIDs, group)[1].group = group
    BY <2>1, <2>2, OwnRowServes DEF lib
  <2> QED BY <2>3 DEF ChoiceOf, lib
<1> QED BY <1>1, <1>2

\* Recall, filter and show each resolve their row on their own, and yet no layer
\* serves another group where it has a row for the group of the request.
THEOREM LayersServeTheGroup == Spec => []OneGroupServes
<1> QED BY InitServing, NextServing, ServingGivesGroup, PTL DEF Spec

-----------------------------------------------------------------------------
(* What the files say *)

\* A resolved row is one of its file.
LEMMA RowIsOfFile ==
  ASSUME NEW path, NEW exps \in Seq(Int), NEW g,
         ResolveMapRecommend(Library(path), exps, g) # <<>>
  PROVE  ResolveMapRecommend(Library(path), exps, g)[1] \in Rows(path)
<1> DEFINE lib == Library(path)
           b == PickABVariantIndex(exps, lib)
           rows == lib[b].rows
           own == {r \in DOMAIN rows : rows[r].group = g}
           r == IF g # "" /\ own # {} THEN Min(own) ELSE 1
<1>1. /\ lib \in Seq(ToSet(lib))
      /\ \A n \in DOMAIN lib : lib[n].rows \in Seq(ToSet(lib[n].rows))
  BY LibraryIsSequence
<1>2. lib # <<>> /\ rows # <<>>
  BY DEF ResolveMapRecommend
<1>3. ResolveMapRecommend(lib, exps, g) = <<rows[r]>>
  BY <1>2 DEF ResolveMapRecommend
<1> HIDE DEF lib
<1>4. b \in DOMAIN lib
  <2>1. PICK T : lib \in Seq(T)
    BY <1>1
  <2> QED BY <1>2, <2>1, PickIsEntry
<1> HIDE DEF b
<1>5. PICK T : rows \in Seq(T)
  BY <1>1, <1>4
<1> HIDE DEF rows
<1>6. r \in DOMAIN rows
  <2>1. own \subseteq Nat /\ 1 \in DOMAIN rows
    BY <1>2, <1>5
  <2>2. own # {} => Min(own) \in own
    BY <2>1, MinIsMember
  <2> QED BY <2>1, <2>2
<1> HIDE DEF r
<1>7. rows[r] \in ToSet(lib[b].rows)
  BY <1>6 DEF ToSet, rows
<1> QED BY <1>3, <1>4, <1>7 DEF Rows, lib

\* A layer says what its row says, or what one of the variants does.
LEMMA VariantIsOne ==
  ASSUME NEW row, NEW ab, IsVariants(ab), NEW exps \in Seq(Int)
  PROVE  Variant(row, ab, exps) = row \/ Variant(row, ab, exps) \in ToSet(ab)
<1>1. CASE ab = <<>>
  BY <1>1 DEF Variant
<1>2. CASE ab # <<>>
  <2>1. PICK T : ab \in Seq(T)
    BY DEF IsVariants
  <2>2. PickABVariantIndex(exps, ab) \in DOMAIN ab
    BY <1>2, <2>1, PickIsEntry
  <2> QED BY <1>2, <2>2 DEF Variant, ToSet
<1> QED BY <1>1, <1>2

-----------------------------------------------------------------------------
(* The state of a request *)

Wired ==
  \E c \in Configs :
    /\ svc.recall = c.CenterRecall /\ svc.filter = c.CenterFilter
    /\ svc.show = c.CenterShow /\ svc.funnel = c.Funnel

Stages == {"exclusive", "main", "filter", "rank", "ranked", "show"}

\* in its stages a request has a row, and its lists are lists of items
Shape ==
  /\ pc \in {"boot", "refused"} \/ Wired
  /\ req.ExpIDs \in Seq(Int) /\ req.RetCount \in Int
  /\ pc \in Stages => Row # <<>>
  /\ IsPool(pool) /\ \A r \in DOMAIN pool : pool[r] # <<>>
  /\ batches \in Seq(Seq(ItemInfo))
  /\ list \in Seq(ItemInfo)
  /\ AreStrategies(strategies) /\ k \in Nat \ {0} /\ ret \in Int

LEMMA WiredByBoot ==
  ASSUME NEW c \in Configs, NEW env, NEW fetch,
         NewServiceContext(ApplyEnvOverrides(c, env), fetch) # <<>>,
         svc' = NewServiceContext(ApplyEnvOverrides(c, env), fetch)[1]
  PROVE  Wired'
<1> DEFINE conf == ApplyEnvOverrides(c, env)
<1>1. {"CenterRecall", "CenterFilter", "CenterShow", "Funnel"} \subseteq DOMAIN c
  BY ConfigsAssumption
<1>2. /\ conf.CenterRecall = c.CenterRecall /\ conf.CenterFilter = c.CenterFilter
      /\ conf.CenterShow = c.CenterShow /\ conf.Funnel = c.Funnel
  BY <1>1 DEF ApplyEnvOverrides
<1> HIDE DEF conf
<1>3. /\ svc'.recall = conf.CenterRecall /\ svc'.filter = conf.CenterFilter
      /\ svc'.show = conf.CenterShow /\ svc'.funnel = conf.Funnel
  BY DEF NewServiceContext, conf
<1> QED BY <1>2, <1>3 DEF Wired

\* The rows the layers resolve to are what their files have.
LEMMA RowIsSound ==
  ASSUME Shape, Wired, Row # <<>>
  PROVE  IsRecallRow(Row[1]) /\ (Funnel => IsFunnelRow(Row[1]))
<1>1. req.ExpIDs \in Seq(Int)
  BY DEF Shape
<1>2. PICK c \in Configs : svc.recall = c.CenterRecall /\ svc.funnel = c.Funnel
  BY DEF Wired
<1>3. CASE Center
  <2>1. Row[1] \in Rows(svc.recall)
    BY <1>1, <1>3, RowIsOfFile DEF Row, Center, Funnel, ResolveRecall
  <2> QED BY <1>2, <1>3, <2>1, ConfigsAssumption DEF Center, Funnel
<1>4. CASE Funnel
  <2>1. Row[1] \in Rows(svc.funnel)
    BY <1>1, <1>4, RowIsOfFile DEF Row, Center, Funnel, ResolveFunnel
  <2> QED BY <1>2, <2>1, ConfigsAssumption DEF IsFunnelRow
<1>5. Center \/ Funnel
  BY DEF Row
<1> QED BY <1>3, <1>4, <1>5

LEMMA ListsAreSound ==
  ASSUME Shape, Wired, Row # <<>>
  PROVE  AreRules(Lists.exclusive) /\ AreRules(Lists.main)
<1> DEFINE row == Row[1]
           lists == Variant(row, row.RecallAb, req.ExpIDs)
<1>1. IsRecallRow(row) /\ req.ExpIDs \in Seq(Int)
  BY RowIsSound DEF Shape
<1>2. Lists.exclusive = lists.exclusive /\ Lists.main = lists.main
  BY DEF Lists, ResolvedRecallLists
<1> HIDE DEF row
<1>3. lists = row \/ lists \in ToSet(row.RecallAb)
  BY <1>1, VariantIsOne DEF IsRecallRow
<1> QED BY <1>1, <1>2, <1>3 DEF IsRecallRow

LEMMA RulesAreSound ==
  ASSUME Shape, Wired, Row # <<>>, NEW n \in 1 .. Len(MainRules)
  PROVE  IsRule(MainRules[n])
<1> DEFINE a == Lists.exclusive
           b == Lists.main
<1>1. AreRules(a) /\ AreRules(b)
  BY ListsAreSound
<1>2. MainRules = a \o b \/ MainRules = b
  BY DEF MainRules
<1> HIDE DEF a, b
<1>3. PICK T, U : a \in Seq(T) /\ b \in Seq(U)
  BY <1>1 DEF AreRules
<1>4. /\ \A i \in 1 .. Len(a) : IsRule(a[i])
      /\ \A i \in 1 .. Len(b) : IsRule(b[i])
  BY <1>1, <1>3 DEF AreRules
<1>5. CASE MainRules = b
  BY <1>4, <1>5
<1>6. CASE MainRules = a \o b
  <2>1. a \in Seq(T \cup U) /\ b \in Seq(T \cup U)
    BY <1>3
  <2> DEFINE A == Len(a)
             B == Len(b)
  <2>2. A \in Nat /\ B \in Nat /\ n \in 1 .. A + B
    BY <1>6, <2>1
  <2>3. /\ \A i \in 1 .. A : MainRules[i] = a[i]
        /\ \A i \in 1 .. A + B : i \notin 1 .. A => MainRules[i] = b[i - A]
    BY <1>6, <2>1
  <2>4. CASE n \in 1 .. A
    BY <1>4, <2>3, <2>4
  <2>5. CASE n \notin 1 .. A
    <3>1. n - A \in 1 .. B
      BY <2>2, <2>5
    <3> QED BY <1>4, <2>2, <2>3, <2>5, <3>1
  <2> QED BY <2>4, <2>5
<1> QED BY <1>2, <1>5, <1>6

LEMMA FilterIsSound ==
  ASSUME Shape, Wired, FilterRow # <<>>
  PROVE  FilterRow[1].KeepItemNum \in Int /\ AreLimits(FilterLists.rules)
<1> DEFINE row == FilterRow[1]
           lists == Variant(row, row.FilterAb, req.ExpIDs)
<1>1. req.ExpIDs \in Seq(Int)
  BY DEF Shape
<1>2. PICK c \in Configs : svc.filter = c.CenterFilter
  BY DEF Wired
<1>3. row \in Rows(svc.filter)
  BY <1>1, RowIsOfFile DEF FilterRow, ResolveFilter
<1>4. FilterLists.rules = lists.rules
  BY DEF FilterLists, ResolvedRuleAndFeature
<1> HIDE DEF row
<1>5. IsFilterRow(row)
  BY <1>2, <1>3, ConfigsAssumption
<1>6. lists = row \/ lists \in ToSet(row.FilterAb)
  BY <1>1, <1>5, VariantIsOne DEF IsFilterRow
<1> QED BY <1>4, <1>5, <1>6 DEF IsFilterRow, row

LEMMA ShowIsSound ==
  ASSUME Shape, Wired, ShowRow # <<>>
  PROVE  AreStrategies(ResolvedStrategyList(ShowRow[1], req.ExpIDs))
<1> DEFINE row == ShowRow[1]
           lists == Variant(row, row.ShowAb, req.ExpIDs)
<1>1. req.ExpIDs \in Seq(Int)
  BY DEF Shape
<1>2. PICK c \in Configs : svc.show = c.CenterShow
  BY DEF Wired
<1>3. row \in Rows(svc.show)
  BY <1>1, RowIsOfFile DEF ShowRow, ResolveShow
<1>4. ResolvedStrategyList(row, req.ExpIDs) = lists.StrategyList
  BY DEF ResolvedStrategyList
<1> HIDE DEF row
<1>5. IsShowRow(row)
  BY <1>2, <1>3, ConfigsAssumption
<1>6. lists = row \/ lists \in ToSet(row.ShowAb)
  BY <1>1, <1>5, VariantIsOne DEF IsShowRow
<1> QED BY <1>4, <1>5, <1>6 DEF IsShowRow, row

LEMMA FunnelIsSound ==
  ASSUME Shape, Wired, Row # <<>>, Funnel
  PROVE  AreBackoffs(FunnelPolicies) /\ ResolvedShowControl(Row[1], req.ExpIDs) \in Int
<1> DEFINE row == Row[1]
           policies == Variant(row, row.FilterAb, req.ExpIDs)
           shows == Variant(row, row.ShowAb, req.ExpIDs)
<1>1. IsFunnelRow(row) /\ req.ExpIDs \in Seq(Int)
  BY RowIsSound DEF Shape
<1>2. FunnelPolicies = policies.FilterPolicies /\ ResolvedShowControl(row, req.ExpIDs) = shows.MaxItems
  BY DEF FunnelPolicies, ResolvedFilterPolicies, ResolvedShowControl
<1> HIDE DEF row
<1>3. /\ policies = row \/ policies \in ToSet(row.FilterAb)
      /\ shows = row \/ shows \in ToSet(row.ShowAb)
  BY <1>1, VariantIsOne DEF IsFunnelRow
<1> HIDE DEF policies, shows
<1> QED BY <1>1, <1>2, <1>3 DEF IsFunnelRow, row

-----------------------------------------------------------------------------
(* The filters and rank *)

\* What the filters leave are items of the list that every rule lets pass.
LEMMA FilteredItems ==
  ASSUME NEW T, NEW s \in Seq(T), NEW counts, NEW lists
  PROVE  LET t == Filtered(s, counts, lists)
         IN  /\ t \in Seq(T) /\ ToSet(t) \subseteq ToSet(s)
             /\ UniqueIds(s) => UniqueIds(t)
             /\ \A it \in ToSet(t) : \A n \in DOMAIN lists.rules :
                  lists.rules[n].type = "LiveExposure" =>
                    FilterLiveExposure(it, counts, lists.rules[n].limit)
<1> DEFINE Pass(it) == \A n \in DOMAIN lists.rules :
                         lists.rules[n].type = "LiveExposure" =>
                           FilterLiveExposure(it, counts, lists.rules[n].limit)
           I == {p \in DOMAIN s : Pass(s[p])}
           u == Keep(s, I)
           t == Filtered(s, counts, lists)
<1>1. u = ApplyRuleFilters(s, counts, lists.rules) /\ I \in SUBSET DOMAIN s
  BY DEF ApplyRuleFilters
<1>2. \A i \in I : s[i] \in ToSet(s) /\ Pass(s[i])
  BY DEF ToSet
<1> HIDE DEF I
<1>3. /\ u \in Seq(T) /\ ToSet(u) = {s[i] : i \in I}
      /\ UniqueIds(s) => UniqueIds(u)
  BY <1>1, KeptOf
<1> HIDE DEF u, Pass
<1>4. t = u \/ t = <<>>
  BY <1>1 DEF Filtered, ApplyFeatureFilters
<1> HIDE DEF t
<1>5. CASE t = u
  <2>1. \A it \in ToSet(t) : Pass(it)
    BY <1>2, <1>3, <1>5
  <2>2. ToSet(t) \subseteq ToSet(s)
    BY <1>2, <1>3, <1>5
  <2> QED BY <1>3, <1>5, <2>1, <2>2 DEF t, Pass
<1>6. CASE t = <<>>
  <2>1. t \in Seq(T) /\ ToSet(t) = {} /\ UniqueIds(t)
    BY <1>6 DEF ToSet, UniqueIds
  <2> QED BY <2>1 DEF t
<1> QED BY <1>4, <1>5, <1>6

LEMMA BackedOffItems ==
  ASSUME NEW T, NEW s \in Seq(T), NEW counts, NEW policies
  PROVE  LET t == ApplyFilterPolicies(s, counts, policies)
         IN  /\ t \in Seq(T) /\ ToSet(t) \subseteq ToSet(s)
             /\ UniqueIds(s) => UniqueIds(t)
             /\ \A it \in ToSet(t) : \A n \in DOMAIN policies :
                  policies[n].type = "exposure_backoff" =>
                    FilterExposureBackoff(it, counts, policies[n].after)
<1> DEFINE Pass(it) == \A n \in DOMAIN policies :
                         policies[n].type = "exposure_backoff" =>
                           FilterExposureBackoff(it, counts, policies[n].after)
           I == {p \in DOMAIN s : Pass(s[p])}
           t == Keep(s, I)
<1>1. t = ApplyFilterPolicies(s, counts, policies) /\ I \in SUBSET DOMAIN s
  BY DEF ApplyFilterPolicies
<1>2. \A i \in I : s[i] \in ToSet(s) /\ Pass(s[i])
  BY DEF ToSet
<1> HIDE DEF I
<1>3. /\ t \in Seq(T) /\ ToSet(t) = {s[i] : i \in I}
      /\ UniqueIds(s) => UniqueIds(t)
  BY <1>1, KeptOf
<1> HIDE DEF t, Pass
<1>4. \A it \in ToSet(t) : Pass(it)
  BY <1>2, <1>3
<1>5. ToSet(t) \subseteq ToSet(s)
  BY <1>2, <1>3
<1> QED BY <1>1, <1>3, <1>4, <1>5 DEF Pass

\* Rank answers with items of the list, none of them twice.
LEMMA RankAnswers ==
  ASSUME NEW s \in Seq(ItemInfo), UniqueIds(s), NEW n \in Int, NEW scores \in MultiRank(s, n)
  PROVE  scores \in Seq([id : ItemIds, score : Int]) /\ UniqueIds(scores)
<1>1. PICK f \in [DOMAIN s -> DOMAIN s], cut \in RankCuts, score \in RankScores :
        /\ IsInjective(f)
        /\ scores = [p \in 1 .. Len(Cap(Cap(f, cut), n)) |->
                       [id |-> s[f[p]].id, score |-> score[s[f[p]].id]]]
  BY DEF MultiRank
<1> DEFINE D == DOMAIN s
           once == Cap(f, cut)
           u == Cap(once, n)
<1>2. cut \in Int /\ score \in [ItemIds -> Int]
  BY DataAssumption
<1>3. f \in Seq(D) /\ DOMAIN f = D /\ \A i \in D : f[i] \in D
  BY <1>1
<1>4. \A i \in D : s[i] \in ItemInfo /\ s[i].id \in ItemIds
  <2>1. \A i \in D : s[i] \in ItemInfo
    OBVIOUS
  <2>2. \A x \in ItemInfo : x.id \in ItemIds
    BY DEF ItemInfo
  <2> QED BY <2>1, <2>2
<1>5. \A i, j \in D : s[i].id = s[j].id => i = j
  BY DEF UniqueIds
<1> HIDE DEF D
<1>6. once \in Seq(D) /\ \A p \in DOMAIN once : p \in DOMAIN f
  BY <1>2, <1>3, CapKeepsFront
<1> HIDE DEF once
<1>7. u \in Seq(D) /\ \A p \in DOMAIN u : p \in DOMAIN once
  BY <1>6, CapKeepsFront
<1>8. /\ Len(u) \in Nat /\ DOMAIN u = 1 .. Len(u)
      /\ scores = [p \in 1 .. Len(u) |-> [id |-> s[f[p]].id, score |-> score[s[f[p]].id]]]
  BY <1>1, <1>7 DEF once
<1> HIDE DEF u
<1>9. \A p \in 1 .. Len(u) : f[p] \in D /\ p \in D
  BY <1>3, <1>6, <1>7, <1>8
<1>10. \A p \in 1 .. Len(u) : /\ scores[p] \in [id : ItemIds, score : Int]
                              /\ scores[p].id = s[f[p]].id
  BY <1>2, <1>4, <1>8, <1>9
<1>11. scores \in Seq([id : ItemIds, score : Int])
  BY <1>8, <1>10
<1>12. UniqueIds(scores)
  <2> SUFFICES ASSUME NEW p \in 1 .. Len(u), NEW q \in 1 .. Len(u), scores[p].id = scores[q].id
               PROVE  p = q
    BY <1>8 DEF UniqueIds
  <2> DEFINE i == f[p]
             j == f[q]
  <2>1. i \in D /\ j \in D /\ s[i].id = s[j].id
    BY <1>9, <1>10
  <2> HIDE DEF i, j
  <2>2. i = j
    BY <1>5, <2>1
  <2> QED BY <1>1, <1>3, <1>9, <2>2 DEF IsInjective, i, j
<1> QED BY <1>11, <1>12

-----------------------------------------------------------------------------
(* What the steps do to the lists *)

\* What Registry.Lane answers is a list the lane has, or the front of one.
LEMMA LaneAnswers ==
  ASSUME NEW rule, IsRule(rule), NEW raw \in Lane(rule)
  PROVE  IsRecalled(raw)
<1>1. CASE raw = <<>>
  BY <1>1 DEF IsRecalled
<1>2. ASSUME NEW s \in LaneLists[rule.RecallType], raw = Cap(s, rule.RecallNum) PROVE IsRecalled(raw)
  <2>1. s \in Seq(ItemInfo) /\ (\A n \in DOMAIN s : s[n].score = 0) /\ rule.RecallNum \in Int
    BY DataAssumption DEF IsRule, IsRecalled
  <2>2. /\ Cap(s, rule.RecallNum) \in Seq(ItemInfo)
        /\ \A p \in DOMAIN Cap(s, rule.RecallNum) : p \in DOMAIN s /\ Cap(s, rule.RecallNum)[p] = s[p]
    BY <2>1, CapKeepsFront
  <2> QED BY <1>2, <2>1, <2>2 DEF IsRecalled
<1> QED BY <1>1, <1>2 DEF Lane

\* A turn of the exclusive lanes puts at most one more list into the pool: items
\* the lane found and for which it found a portrait.
PoolGrows(type, batch) ==
  pool' = [r \in DOMAIN pool \cup {type} |-> IF r = type THEN batch ELSE pool[r]]

LEMMA LaneFillsPool ==
  ASSUME Shape, Wired, Row # <<>>, ExclusiveLane
  PROVE  \/ UNCHANGED <<pool, vouched>>
         \/ \E type, raw, batch :
              /\ IsRecalled(raw) /\ batch \in Seq(ItemInfo)
              /\ ToSet(batch) \subseteq ToSet(raw)
              /\ vouched \subseteq vouched' /\ Ids(batch) \subseteq vouched'
              /\ pool' = pool \/ (batch # <<>> /\ PoolGrows(type, batch))
<1> DEFINE rule == Lists.exclusive[k]
<1>1. IsRule(rule)
  <2>1. AreRules(Lists.exclusive)
    BY ListsAreSound
  <2>2. k \in DOMAIN Lists.exclusive
    <3>1. PICK T : Lists.exclusive \in Seq(T)
      BY <2>1 DEF AreRules
    <3> QED BY <3>1 DEF ExclusiveLane, Shape
  <2> QED BY <2>1, <2>2 DEF AreRules
<1> HIDE DEF rule
<1>2. ASSUME NEW raw \in Lane(rule), NEW portraits \in MarkItemPortraits(TopOf(raw, rule)),
             pool' = IF LaneBatch(raw, rule, portraits) = <<>> THEN pool
                     ELSE [r \in DOMAIN pool \cup {rule.RecallType} |->
                             IF r = rule.RecallType THEN LaneBatch(raw, rule, portraits) ELSE pool[r]],
             vouched' = vouched \cup (Ids(TopOf(raw, rule)) \cap portraits)
      PROVE  \E type, r, batch :
              /\ IsRecalled(r) /\ batch \in Seq(ItemInfo)
              /\ ToSet(batch) \subseteq ToSet(r)
              /\ vouched \subseteq vouched' /\ Ids(batch) \subseteq vouched'
              /\ pool' = pool \/ (batch # <<>> /\ PoolGrows(type, batch))
  <2> DEFINE batch == LaneBatch(raw, rule, portraits)
  <2>1. IsRecalled(raw) /\ raw \in Seq(ItemInfo)
    BY <1>1, LaneAnswers DEF IsRecalled
  <2>2. {rule.RecallNum, rule.MergeMaxNum, rule.UseTopKIndex, rule.SampleFold} \subseteq Int
    BY <1>1 DEF IsRule
  <2>3. /\ batch \in Seq(ItemInfo) /\ ToSet(batch) \subseteq ToSet(raw)
        /\ Ids(batch) \subseteq Ids(TopOf(raw, rule)) \cap portraits
    BY <2>1, <2>2, LaneBatched
  <2>4. pool' = pool \/ (batch # <<>> /\ PoolGrows(rule.RecallType, batch))
    BY <1>2 DEF PoolGrows
  <2> HIDE DEF batch
  <2> QED BY <1>2, <2>1, <2>3, <2>4
<1>3. \/ UNCHANGED <<pool, vouched>>
      \/ \E raw \in Lane(rule) : \E portraits \in MarkItemPortraits(TopOf(raw, rule)) :
           /\ pool' = IF LaneBatch(raw, rule, portraits) = <<>> THEN pool
                      ELSE [r \in DOMAIN pool \cup {rule.RecallType} |->
                              IF r = rule.RecallType THEN LaneBatch(raw, rule, portraits) ELSE pool[r]]
           /\ vouched' = vouched \cup (Ids(TopOf(raw, rule)) \cap portraits)
  BY DEF ExclusiveLane, rule
<1> QED BY <1>2, <1>3

\* A turn of the main lanes adds a batch of such items, or fails the request.
LEMMA LaneFillsBatch ==
  ASSUME Shape, Wired, Row # <<>>, RecallLane
  PROVE  \/ Fail
         \/ /\ \E raw, batch :
                 /\ IsRecalled(raw) /\ batch \in Seq(ItemInfo) /\ batches' = Append(batches, batch)
                 /\ ToSet(batch) \subseteq ToSet(raw)
                 /\ vouched \subseteq vouched' /\ Ids(batch) \subseteq vouched'
            /\ k' = k + 1
            /\ UNCHANGED <<pc, request, strategies, pool, exposure, list, ret, resp, log, served, scored>>
<1> DEFINE rule == MainRules[k]
<1>1. IsRule(rule)
  <2>1. k \in 1 .. Len(MainRules)
    <3>1. PICK T, U : Lists.exclusive \in Seq(T) /\ Lists.main \in Seq(U)
      BY ListsAreSound DEF AreRules
    <3> DEFINE a == Lists.exclusive
               b == Lists.main
    <3>2. MainRules = a \o b \/ MainRules = b
      BY DEF MainRules
    <3>3. Len(MainRules) \in Nat
      <4> HIDE DEF a, b
      <4>1. a \in Seq(T \cup U) /\ b \in Seq(T \cup U)
        BY <3>1 DEF a, b
      <4>2. a \o b \in Seq(T \cup U)
        BY <4>1
      <4> QED BY <3>2, <4>1, <4>2
    <3> QED BY <3>3 DEF RecallLane, Shape
  <2> QED BY <2>1, RulesAreSound
<1>2. CASE Fail
  BY <1>2
<1>3. ASSUME NEW raw \in Lane(rule), NEW portraits \in MarkItemPortraits(TopOf(raw, rule)),
             batches' = Append(batches, LaneBatch(raw, rule, portraits)),
             vouched' = vouched \cup (Ids(TopOf(raw, rule)) \cap portraits)
      PROVE  \E r, batch :
                 /\ IsRecalled(r) /\ batch \in Seq(ItemInfo) /\ batches' = Append(batches, batch)
                 /\ ToSet(batch) \subseteq ToSet(r)
                 /\ vouched \subseteq vouched' /\ Ids(batch) \subseteq vouched'
  <2> DEFINE batch == LaneBatch(raw, rule, portraits)
  <2>1. IsRecalled(raw) /\ raw \in Seq(ItemInfo)
    BY <1>1, LaneAnswers DEF IsRecalled
  <2>2. {rule.RecallNum, rule.MergeMaxNum, rule.UseTopKIndex, rule.SampleFold} \subseteq Int
    BY <1>1 DEF IsRule
  <2>3. /\ batch \in Seq(ItemInfo) /\ ToSet(batch) \subseteq ToSet(raw)
        /\ Ids(batch) \subseteq Ids(TopOf(raw, rule)) \cap portraits
    BY <2>1, <2>2, LaneBatched
  <2>4. batches' = Append(batches, batch)
    BY <1>3
  <2> HIDE DEF batch
  <2> QED BY <1>3, <2>1, <2>3, <2>4
<1>4. \/ Fail
      \/ /\ \E raw \in Lane(rule) : \E portraits \in MarkItemPortraits(TopOf(raw, rule)) :
              /\ batches' = Append(batches, LaneBatch(raw, rule, portraits))
              /\ vouched' = vouched \cup (Ids(TopOf(raw, rule)) \cap portraits)
         /\ k' = k + 1
         /\ UNCHANGED <<pc, request, strategies, pool, exposure, list, ret, resp, log, served, scored>>
  BY DEF RecallLane, rule
<1> HIDE DEF rule
<1> QED BY <1>3, <1>4

\* every rule of the filter row of the request lets the item pass
Passes(it, counts) ==
  FilterRow = <<>> \/
  \A n \in DOMAIN FilterLists.rules :
    FilterLists.rules[n].type = "LiveExposure" =>
      FilterLiveExposure(it, counts, FilterLists.rules[n].limit)

\* The filters leave items of the list and of the pool that every rule lets pass.
LEMMA FilterKeeps ==
  ASSUME Shape, Wired, Row # <<>>, UniqueIds(list), Filter
  PROVE  /\ list' \in Seq(ItemInfo) /\ UniqueIds(list') /\ ToSet(list') \subseteq ToSet(list)
         /\ \A it \in ToSet(list') : Passes(it, exposure')
         /\ DOMAIN pool' \subseteq DOMAIN pool /\ IsPool(pool')
         /\ \A r \in DOMAIN pool' : /\ pool'[r] # <<>> /\ ToSet(pool'[r]) \subseteq ToSet(pool[r])
                                    /\ \A it \in ToSet(pool'[r]) : Passes(it, exposure')
<1>1. list \in Seq(ItemInfo) /\ IsPool(pool) /\ (\A r \in DOMAIN pool : pool[r] # <<>>)
  BY DEF Shape
<1>2. CASE FilterRow = <<>>
  <2>1. UNCHANGED <<list, pool>>
    BY <1>2 DEF Filter
  <2>2. \A it : Passes(it, exposure')
    BY <1>2 DEF Passes
  <2> QED BY <1>1, <2>1, <2>2
<1>3. CASE FilterRow # <<>>
  <2> DEFINE lists == FilterLists
             counts == exposure'
             keep == FilterRow[1].KeepItemNum
             t == Filtered(list, counts, lists)
  <2>1. list' = Cap(t, keep) /\ pool' = ApplyToExclusivePool(counts, lists) /\ keep \in Int
    BY <1>3, FilterIsSound DEF Filter
  <2> DEFINE LetsPass(it) == \A n \in DOMAIN lists.rules :
                               lists.rules[n].type = "LiveExposure" =>
                                 FilterLiveExposure(it, counts, lists.rules[n].limit)
  <2>2. \A it : LetsPass(it) => Passes(it, counts)
    BY DEF Passes
  <2> HIDE DEF lists, counts, keep
  <2>3. /\ t \in Seq(ItemInfo) /\ ToSet(t) \subseteq ToSet(list) /\ UniqueIds(t)
        /\ \A it \in ToSet(t) : LetsPass(it)
    BY <1>1, FilteredItems
  <2>4. \A r \in DOMAIN pool :
          LET u == Filtered(pool[r], counts, lists)
          IN  /\ u \in Seq(ItemInfo) /\ ToSet(u) \subseteq ToSet(pool[r])
              /\ \A it \in ToSet(u) : LetsPass(it)
    <3> TAKE r \in DOMAIN pool
    <3>1. pool[r] \in Seq(ItemInfo)
      BY <1>1 DEF IsPool
    <3> DEFINE s == pool[r]
    <3> HIDE DEF s
    <3>2. LET u == Filtered(s, counts, lists)
          IN  /\ u \in Seq(ItemInfo) /\ ToSet(u) \subseteq ToSet(s)
              /\ \A it \in ToSet(u) : LetsPass(it)
      BY <3>1, FilteredItems DEF s
    <3> QED BY <3>2 DEF s
  <2> HIDE DEF t, LetsPass
  <2>5. list' \in Seq(ItemInfo) /\ ToSet(list') \subseteq ToSet(t) /\ UniqueIds(list')
    BY <2>1, <2>3, CapHasItems, CapKeepsDistinct
  <2>6. \A it \in ToSet(list') : Passes(it, counts)
    BY <2>2, <2>3, <2>5
  <2>7. /\ DOMAIN pool' = {r \in DOMAIN pool : Filtered(pool[r], counts, lists) # <<>>}
        /\ \A r \in DOMAIN pool' : pool'[r] = Filtered(pool[r], counts, lists)
    BY <2>1 DEF ApplyToExclusivePool
  <2>8. \A r \in DOMAIN pool' :
          /\ r \in DOMAIN pool /\ pool'[r] # <<>> /\ pool'[r] \in Seq(ItemInfo)
          /\ ToSet(pool'[r]) \subseteq ToSet(pool[r])
          /\ \A it \in ToSet(pool'[r]) : Passes(it, counts)
    BY <2>2, <2>4, <2>7
  <2> QED BY <2>3, <2>5, <2>6, <2>8 DEF IsPool, counts
<1> QED BY <1>2, <1>3

\* The policies of the funnel do the same, and portraits are read again.
LEMMA FunnelKeeps ==
  ASSUME Shape, Wired, Row # <<>>, UniqueIds(list), FunnelFilter
  PROVE  /\ list' \in Seq(ItemInfo) /\ UniqueIds(list') /\ ToSet(list') \subseteq ToSet(list)
         /\ Ids(list) \subseteq vouched => Ids(list') \subseteq vouched'
         /\ \A it \in ToSet(list') : \A n \in DOMAIN FunnelPolicies :
              FunnelPolicies[n].type = "exposure_backoff" =>
                FilterExposureBackoff(it, exposure', FunnelPolicies[n].after)
<1>1. PICK portraits :
        /\ list' = ApplyFilterPolicies(OfIds(list, portraits), exposure', FunnelPolicies)
        /\ vouched' = vouched \cap portraits
  BY DEF FunnelFilter
<1> DEFINE policies == FunnelPolicies
           counts == exposure'
           s == OfIds(list, portraits)
<1>2. list \in Seq(ItemInfo)
  BY DEF Shape
<1>3. s \in Seq(ItemInfo) /\ ToSet(s) = {it \in ToSet(list) : it.id \in portraits} /\ UniqueIds(s)
  BY <1>2, ThoseOfIds
<1>4. list' = ApplyFilterPolicies(s, counts, policies)
  BY <1>1
<1> HIDE DEF s, policies, counts
<1>5. /\ list' \in Seq(ItemInfo) /\ ToSet(list') \subseteq ToSet(s) /\ UniqueIds(list')
      /\ \A it \in ToSet(list') : \A n \in DOMAIN policies :
           policies[n].type = "exposure_backoff" =>
             FilterExposureBackoff(it, counts, policies[n].after)
  BY <1>3, <1>4, BackedOffItems
<1>6. /\ Ids(list) = {it.id : it \in ToSet(list)} /\ Ids(list') = {it.id : it \in ToSet(list')}
  BY IdsOfItems
<1>7. Ids(list) \subseteq vouched => Ids(list') \subseteq vouched'
  BY <1>1, <1>3, <1>5, <1>6
<1> QED BY <1>3, <1>5, <1>7 DEF policies, counts

\* Rank reorders the list and gives it scores, or the request fails.
LEMMA RankReorders ==
  ASSUME Shape, UniqueIds(list), RankMain
  PROVE  \/ Fail
         \/ /\ \E scores \in Seq([id : ItemIds, score : Int]) :
                 UniqueIds(scores) /\ scored' = ScoreOf(scores) /\ list' = ReorderByRank(list, scores)
            /\ pc' = "ranked" /\ ret' \in Int
            /\ UNCHANGED <<request, strategies, k, pool, batches, exposure, resp, log, served, vouched>>
<1>1. list \in Seq(ItemInfo) /\ ret \in Int
  BY DEF Shape
<1>2. CASE Fail
  BY <1>2
<1>3. CASE /\ svc.hasRank
           /\ ret' = IF ret <= 0 THEN Len(list) ELSE ret
           /\ \E scores \in MultiRank(list, ret') :
                /\ scored' = ScoreOf(scores)
                /\ list' = ReorderByRank(list, scores)
           /\ pc' = "ranked"
           /\ UNCHANGED <<request, strategies, k, pool, batches, exposure, resp, log, served, vouched>>
  <2>1. ret' \in Int
    BY <1>1, <1>3
  <2>2. PICK scores \in MultiRank(list, ret') :
          scored' = ScoreOf(scores) /\ list' = ReorderByRank(list, scores)
    BY <1>3
  <2>3. scores \in Seq([id : ItemIds, score : Int]) /\ UniqueIds(scores)
    BY <1>1, <2>1, RankAnswers
  <2> QED BY <1>3, <2>1, <2>2, <2>3
<1> QED BY <1>2, <1>3 DEF RankMain

\* Without a row the stub is shown, ranked or not.
LEMMA StubIsRanked ==
  ASSUME NEW run \in PipelineRun
  PROVE  run.items \in Seq(ItemInfo) /\ UniqueIds(run.items)
<1>1. StubItems \in Seq(ItemInfo) /\ UniqueIds(StubItems)
  BY DataAssumption DEF IsRecalled
<1>2. PICK scores \in IF svc.hasRank THEN MultiRank(StubItems, Len(StubItems)) ELSE {<<>>} :
        run.items = ReorderByRank(StubItems, scores)
  BY DEF PipelineRun
<1>3. scores \in Seq([id : ItemIds, score : Int]) /\ UniqueIds(scores)
  <2>1. CASE svc.hasRank
    <3>1. Len(StubItems) \in Int
      BY <1>1
    <3> QED BY <1>1, <1>2, <2>1, <3>1, RankAnswers
  <2>2. CASE ~svc.hasRank
    BY <1>2, <2>2 DEF UniqueIds
  <2> QED BY <2>1, <2>2
<1> QED BY <1>1, <1>2, <1>3, Reordered

\* A turn of the show strategies applies one that is configured.
LEMMA ShowApplies ==
  ASSUME Shape, Show
  PROVE  /\ k \in DOMAIN strategies /\ IsStrategy(strategies[k])
         /\ \E exchange : /\ IsExchange(exchange)
                          /\ list' \in ApplyStrategy(list, pool, exchange, strategies[k])
<1>1. k \in DOMAIN strategies
  <2>1. PICK T : strategies \in Seq(T)
    BY DEF Shape, AreStrategies
  <2> QED BY <2>1 DEF Shape, Show
<1>2. PICK exchange \in IF svc.features THEN Exchanges ELSE {NoCounts} :
        list' \in ApplyStrategy(list, pool, exchange, strategies[k])
  BY DEF Show
<1>3. IsExchange(exchange)
  <2>1. IsExchange(NoCounts)
    BY DEF IsExchange, NoCounts
  <2> QED BY <1>2, <2>1, DataAssumption
<1> QED BY <1>1, <1>2, <1>3 DEF Shape, AreStrategies

-----------------------------------------------------------------------------
(* The lists stay lists of items, without repetitions from the merge on *)

Listed == {"filter", "rank", "ranked", "show"}
Sound == Shape /\ (pc \in Listed => UniqueIds(list))

LEMMA InitSound == Init => Sound
<1> SUFFICES ASSUME Init PROVE Sound
  OBVIOUS
<1> DEFINE none == <<>>
<1>3. \A S : none \in Seq(S)
  OBVIOUS
<1>4. DOMAIN none = {}
  OBVIOUS
<1>5. /\ batches = none /\ list = none /\ strategies = none /\ req.ExpIDs = none
      /\ req.RetCount = 0 /\ k = 1 /\ ret = 0 /\ pool = [r \in {} |-> <<>>]
  BY DEF Init
<1> HIDE DEF none
<1>1. /\ IsPool(pool) /\ DOMAIN pool = {} /\ batches \in Seq(Seq(ItemInfo)) /\ list \in Seq(ItemInfo)
      /\ k \in Nat \ {0} /\ ret \in Int /\ req.ExpIDs \in Seq(Int) /\ req.RetCount \in Int
  <2>1. IsPool(pool) /\ DOMAIN pool = {}
    BY <1>5 DEF IsPool
  <2>2. batches \in Seq(Seq(ItemInfo)) /\ list \in Seq(ItemInfo) /\ req.ExpIDs \in Seq(Int)
    BY <1>3, <1>5
  <2> QED BY <1>5, <2>1, <2>2
<1>2. AreStrategies(strategies)
  BY <1>3, <1>4, <1>5 DEF AreStrategies
<1> QED BY <1>1, <1>2 DEF Init, Sound, Shape, Stages, Listed

\* A step within a request keeps its row and its configuration.
LEMMA SoundKept ==
  ASSUME Shape, pc \in Stages \cup {"stub"}, pc' # "boot", pc' \in Stages => pc \in Stages, UNCHANGED request,
         IsPool(pool'), \A r \in DOMAIN pool' : pool'[r] # <<>>,
         batches' \in Seq(Seq(ItemInfo)), list' \in Seq(ItemInfo), AreStrategies(strategies'),
         k' \in Nat \ {0}, ret' \in Int, pc' \in Listed => UniqueIds(list')
  PROVE  Sound'
<1>1. Row' = Row /\ Wired' = Wired
  BY DEF Row, Center, Funnel, Wired, request
<1>2. Wired
  BY DEF Shape, Stages
<1>3. Shape'
  BY <1>1, <1>2 DEF Shape, request
<1> QED BY <1>3 DEF Sound, UniqueIds

LEMMA NextSound == Sound /\ [Next]_vars => Sound'
<1> SUFFICES ASSUME Sound, [Next]_vars PROVE Sound'
  OBVIOUS
<1> USE DEF Sound
<1>1. /\ pc \in Stages => Row # <<>> /\ Wired
      /\ IsPool(pool) /\ (\A r \in DOMAIN pool : pool[r] # <<>>)
      /\ batches \in Seq(Seq(ItemInfo)) /\ list \in Seq(ItemInfo) /\ AreStrategies(strategies)
      /\ k \in Nat \ {0} /\ k + 1 \in Nat \ {0} /\ ret \in Int /\ req.RetCount \in Int
  BY DEF Shape, Stages
<1>2. /\ Stages = {"exclusive", "main"} \cup Listed
      /\ Listed = {"filter", "rank", "ranked", "show"}
  BY DEF Stages, Listed
<1>3. CASE Boot
  <2>1. pc' \in {"refused", "start"} /\ (pc' = "start" => Wired')
    BY <1>3, WiredByBoot DEF Boot
  <2> QED BY <1>3, <2>1 DEF Boot, Shape, Stages, Listed, history
<1>4. CASE Resolve
  <2>1. req'.ExpIDs \in Seq(Int) /\ req'.RetCount \in Int
    BY <1>4, RequestsAssumption DEF Resolve
  <2>2. Wired'
    BY <1>4 DEF Resolve, Shape, Wired
  <2>3. /\ pc' \in {"stub", "main", "exclusive"} /\ (pc' \in Stages => Row' # <<>>)
        /\ UNCHANGED <<pool, batches, list, strategies, k, ret>>
    BY <1>4 DEF Resolve, Stages
  <2>4. pc' \notin Listed
    BY <2>3 DEF Listed
  <2>5. Shape'
    BY <2>1, <2>2, <2>3 DEF Shape
  <2> QED BY <2>4, <2>5
<1>5. CASE ExclusiveLane
  <2>1. /\ pc = "exclusive" /\ pc' = pc /\ k' = k + 1
        /\ UNCHANGED <<request, strategies, batches, list, ret>>
    BY <1>5 DEF ExclusiveLane
  <2>2. \/ pool' = pool
        \/ \E type, batch : batch \in Seq(ItemInfo) /\ batch # <<>> /\ PoolGrows(type, batch)
    BY <1>1, <1>2, <1>5, <2>1, LaneFillsPool
  <2>3. IsPool(pool') /\ \A r \in DOMAIN pool' : pool'[r] # <<>>
    BY <1>1, <2>2 DEF IsPool, PoolGrows
  <2> QED BY <1>1, <1>2, <2>1, <2>3, SoundKept
<1>6. CASE ExclusiveEnd
  <2>1. /\ pc = "exclusive" /\ pc' = "main" /\ k' = 1
        /\ UNCHANGED <<request, strategies, pool, batches, list, ret>>
    BY <1>6 DEF ExclusiveEnd
  <2> QED BY <1>1, <1>2, <2>1, SoundKept
<1>7. CASE Fail /\ pc \in Stages \cup {"stub"}
  <2>1. pc' = "failed" /\ UNCHANGED <<request, strategies, k, pool, batches, list, ret>>
    BY <1>7 DEF Fail
  <2> QED BY <1>1, <1>2, <1>7, <2>1, SoundKept
<1>8. CASE RecallLane
  <2>1. pc = "main"
    BY <1>8 DEF RecallLane
  <2>2. \/ Fail
        \/ /\ \E batch \in Seq(ItemInfo) : batches' = Append(batches, batch)
           /\ k' = k + 1
           /\ UNCHANGED <<pc, request, strategies, pool, list, ret>>
    BY <1>1, <1>2, <1>8, <2>1, LaneFillsBatch
  <2>3. CASE Fail
    BY <1>2, <1>7, <2>1, <2>3
  <2>4. CASE /\ \E batch \in Seq(ItemInfo) : batches' = Append(batches, batch)
             /\ k' = k + 1
             /\ UNCHANGED <<pc, request, strategies, pool, list, ret>>
    <3>1. batches' \in Seq(Seq(ItemInfo))
      <4> DEFINE S == Seq(ItemInfo)
      <4>1. PICK batch \in S : batches' = Append(batches, batch)
        BY <2>4
      <4> HIDE DEF S
      <4>2. Append(batches, batch) \in Seq(S)
        BY <1>1 DEF S
      <4> QED BY <4>1, <4>2 DEF S
    <3> QED BY <1>1, <1>2, <2>1, <2>4, <3>1, SoundKept
  <2> QED BY <2>2, <2>3, <2>4
<1>9. CASE Merge
  <2>1. /\ pc = "main" /\ pc' = "filter" /\ list' = MergeRecallLanes(batches, Row[1].AllMergeNum)
        /\ UNCHANGED <<request, strategies, k, pool, batches, ret>>
    BY <1>9 DEF Merge
  <2>2. Row[1].AllMergeNum \in Int
    BY <1>1, <1>2, <2>1, RowIsSound DEF IsRecallRow
  <2>3. list' \in Seq(ItemInfo) /\ UniqueIds(list')
    BY <1>1, <2>1, <2>2, Merged
  <2> QED BY <1>1, <1>2, <2>1, <2>3, SoundKept
<1>10. CASE Filter
  <2>1. /\ pc = "filter" /\ pc' \in {"answered", "rank"} /\ ret' = EffectiveRet
        /\ UNCHANGED <<request, strategies, k, batches>>
    BY <1>10 DEF Filter, Answer
  <2>2. /\ list' \in Seq(ItemInfo) /\ UniqueIds(list') /\ IsPool(pool')
        /\ \A r \in DOMAIN pool' : pool'[r] # <<>>
    BY <1>1, <1>2, <1>10, <2>1, FilterKeeps
  <2>3. ret' \in Int
    BY <1>1, <1>2, <2>1, RowIsSound DEF EffectiveRet, IsRecallRow
  <2> QED BY <1>1, <1>2, <2>1, <2>2, <2>3, SoundKept
<1>11. CASE FunnelFilter
  <2>1. /\ pc = "filter" /\ pc' \in {"answered", "rank"} /\ ret' = EffectiveRet
        /\ UNCHANGED <<request, strategies, k, batches, pool>>
    BY <1>11 DEF FunnelFilter, Answer
  <2>2. list' \in Seq(ItemInfo) /\ UniqueIds(list')
    BY <1>1, <1>2, <1>11, <2>1, FunnelKeeps
  <2>3. ret' \in Int
    BY <1>1, <1>2, <2>1, RowIsSound DEF EffectiveRet, IsRecallRow
  <2> QED BY <1>1, <1>2, <2>1, <2>2, <2>3, SoundKept
<1>12. CASE RankMain
  <2>1. pc = "rank"
    BY <1>12 DEF RankMain
  <2>2. CASE Fail
    BY <1>2, <1>7, <2>1, <2>2
  <2>3. CASE ~Fail
    <3>1. /\ pc' = "ranked" /\ ret' \in Int
          /\ UNCHANGED <<request, strategies, k, pool, batches>>
          /\ \E scores \in Seq([id : ItemIds, score : Int]) :
               UniqueIds(scores) /\ list' = ReorderByRank(list, scores)
      BY <1>2, <1>12, <2>1, <2>3, RankReorders
    <3>2. list' \in Seq(ItemInfo) /\ UniqueIds(list')
      BY <1>1, <1>2, <2>1, <3>1, Reordered
    <3> QED BY <1>1, <1>2, <2>1, <3>1, <3>2, SoundKept
  <2> QED BY <2>2, <2>3
<1>13. CASE RankNothing
  <2>1. /\ pc = "rank" /\ pc' = "ranked"
        /\ UNCHANGED <<request, strategies, k, pool, batches, list, ret>>
    BY <1>13 DEF RankNothing
  <2> QED BY <1>1, <1>2, <2>1, SoundKept
<1>14. CASE ShowBegin
  <2>1. /\ pc = "ranked" /\ pc' = "show" /\ k' = 1
        /\ UNCHANGED <<request, pool, batches, ret>>
    BY <1>14 DEF ShowBegin
  <2>2. AreStrategies(strategies')
    BY <1>1, <1>2, <1>14, <2>1, ShowIsSound DEF ShowBegin
  <2>3. list' \in Seq(ItemInfo) /\ UniqueIds(list')
    <3>1. CASE Funnel
      <4>1. ResolvedShowControl(Row[1], req.ExpIDs) \in Int
        BY <1>1, <1>2, <2>1, <3>1, FunnelIsSound
      <4> DEFINE n == ResolvedShowControl(Row[1], req.ExpIDs)
      <4>2. list' = Cap(list, n)
        BY <1>14, <3>1 DEF ShowBegin
      <4> HIDE DEF n
      <4> QED BY <1>1, <1>2, <2>1, <4>1, <4>2, CapHasItems, CapKeepsDistinct DEF n
    <3>2. CASE ~Funnel
      BY <1>1, <1>2, <1>14, <2>1, <3>2 DEF ShowBegin
    <3> QED BY <3>1, <3>2
  <2> QED BY <1>1, <1>2, <2>1, <2>2, <2>3, SoundKept
<1>15. CASE Show
  <2>1. /\ pc = "show" /\ pc' = pc /\ k' = k + 1
        /\ UNCHANGED <<request, strategies, pool, batches, ret>>
    BY <1>15 DEF Show
  <2>2. list' \in Seq(ItemInfo) /\ UniqueIds(list')
    BY <1>1, <1>2, <1>15, <2>1, ShowApplies, Strategies
  <2> QED BY <1>1, <1>2, <2>1, <2>2, SoundKept
<1>16. CASE Respond
  <2>1. /\ pc = "show" /\ pc' = "answered"
        /\ UNCHANGED <<request, strategies, k, pool, batches, list, ret>>
    BY <1>16 DEF Respond, Answer
  <2> QED BY <1>1, <1>2, <2>1, SoundKept
<1>17. CASE Stub
  <2>1. pc = "stub"
    BY <1>17 DEF Stub
  <2>2. CASE Fail
    BY <1>7, <2>1, <2>2
  <2>3. CASE ~Fail
    <3>1. PICK run \in PipelineRun :
            /\ list' = run.items /\ pc' = "answered"
            /\ UNCHANGED <<request, strategies, k, pool, batches, ret>>
      BY <1>17, <2>3 DEF Stub, Answer
    <3>2. list' \in Seq(ItemInfo)
      BY <3>1, StubIsRanked
    <3> QED BY <1>1, <1>2, <2>1, <3>1, <3>2, SoundKept
  <2> QED BY <2>2, <2>3
<1>18. CASE UNCHANGED vars
  <2>1. Row' = Row /\ Wired' = Wired
    BY <1>18 DEF vars, request, Row, Center, Funnel, Wired
  <2> QED BY <1>18, <2>1 DEF vars, request, Shape, UniqueIds
<1> QED
  BY <1>3, <1>4, <1>5, <1>6, <1>8, <1>9, <1>10, <1>11, <1>12, <1>13, <1>14, <1>15,
     <1>16, <1>17, <1>18
     DEF Next, Work, Ended

\* The merge loses a candidate only to its cap.
THEOREM MergeLosesNothing == Spec => []MergeFills
<1>1. Init => MergeFills
  BY DEF Init, MergeFills
<1>2. Sound /\ MergeFills /\ [Next]_vars => MergeFills'
  <2> SUFFICES ASSUME Sound, MergeFills, [Next]_vars, pc' = "filter" PROVE MergeFills'
    BY DEF MergeFills
  <2>1. CASE Merge
    <3>1. /\ pc = "main" /\ list' = MergeRecallLanes(batches, Row[1].AllMergeNum)
          /\ UNCHANGED <<request, batches>> /\ Row' = Row
      BY <2>1 DEF Merge, request, Row, Center, Funnel
    <3>2. Row[1].AllMergeNum \in Int /\ batches \in Seq(Seq(ItemInfo))
      BY <3>1, RowIsSound DEF Sound, Shape, Stages, IsRecallRow
    <3>3. /\ UniqueIds(list')
          /\ \/ Ids(list') = UNION {Ids(batches[b]) : b \in DOMAIN batches}
             \/ Len(list') = Row[1].AllMergeNum
      BY <3>1, <3>2, Merged
    <3> QED BY <3>1, <3>3 DEF MergeFills
  <2>2. CASE UNCHANGED vars
    <3>1. Row' = Row
      BY <2>2 DEF vars, request, Row, Center, Funnel
    <3> QED BY <2>2, <3>1 DEF vars, MergeFills
  <2>3. ~Boot /\ ~Resolve
    BY DEF Boot, Resolve
  <2>4. ~ExclusiveLane /\ ~ExclusiveEnd /\ ~RecallLane
    BY DEF ExclusiveLane, ExclusiveEnd, RecallLane, Fail
  <2>5. ~Filter /\ ~FunnelFilter /\ ~RankMain /\ ~RankNothing
    BY DEF Filter, FunnelFilter, RankMain, RankNothing, Answer, Fail
  <2>6. ~ShowBegin /\ ~Show /\ ~Respond /\ ~Stub
    BY DEF ShowBegin, Show, Respond, Stub, Answer, Fail
  <2> QED BY <2>1, <2>2, <2>3, <2>4, <2>5, <2>6 DEF Next, Work, Ended
<1> QED BY <1>1, <1>2, InitSound, NextSound, PTL DEF Spec

-----------------------------------------------------------------------------
(* The life of a request *)

\* nothing is shown or logged before the answer, and stubs are for requests
\* without a row
Silent == pc # "answered" => resp = <<>> /\ log = <<>>

\* Two cuts of a list agree as far as both go.
LEMMA CutsAgree ==
  ASSUME NEW items \in Seq(ItemInfo), NEW m \in Int, NEW n \in Int, NEW a, NEW b,
         a = [p \in DOMAIN Cap(items, m) |-> Cap(items, m)[p].id],
         b = [p \in DOMAIN Cap(items, n) |-> Cap(items, n)[p].id]
  PROVE  IsPrefix(a, b) \/ IsPrefix(b, a)
<1> DEFINE s == Cap(items, m)
           t == Cap(items, n)
<1>1. /\ s \in Seq(ItemInfo) /\ \A p \in DOMAIN s : p \in DOMAIN items /\ s[p] = items[p]
      /\ t \in Seq(ItemInfo) /\ \A p \in DOMAIN t : p \in DOMAIN items /\ t[p] = items[p]
  BY CapKeepsFront
<1>2. a = [p \in DOMAIN s |-> s[p].id] /\ b = [p \in DOMAIN t |-> t[p].id]
  OBVIOUS
<1> HIDE DEF s, t
<1> DEFINE x == Len(s)
           y == Len(t)
<1>3. x \in Nat /\ y \in Nat /\ DOMAIN s = 1 .. x /\ DOMAIN t = 1 .. y
  BY <1>1
<1> HIDE DEF x, y
<1>4. /\ a = [p \in 1 .. x |-> items[p].id] /\ b = [p \in 1 .. y |-> items[p].id]
  BY <1>1, <1>2, <1>3
<1>5. a \in Seq(ToSet(a)) /\ Len(a) = x /\ b \in Seq(ToSet(b)) /\ Len(b) = y
  <2>1. a = [p \in 1 .. x |-> a[p]] /\ b = [p \in 1 .. y |-> b[p]]
    BY <1>4
  <2> QED BY <1>3, <2>1, FunctionIsSequence
<1>6. PICK S : a \in Seq(S) /\ b \in Seq(S)
  <2>1. PICK T, U : a \in Seq(T) /\ b \in Seq(U)
    BY <1>5
  <2>2. a \in Seq(T \cup U) /\ b \in Seq(T \cup U)
    BY <2>1
  <2> QED BY <2>2
<1>7. ASSUME NEW p \in Nat, p <= x, p <= y PROVE SubSeq(a, 1, p) = SubSeq(b, 1, p)
  <2> DEFINE u == SubSeq(a, 1, p)
             v == SubSeq(b, 1, p)
  <2>1. u \in Seq(S) /\ Len(u) = p /\ \A i \in 1 .. p : u[i] = a[i]
    BY <1>3, <1>5, <1>6, <1>7
  <2>2. v \in Seq(S) /\ Len(v) = p /\ \A i \in 1 .. p : v[i] = b[i]
    BY <1>3, <1>5, <1>6, <1>7
  <2>3. \A i \in 1 .. p : i \in 1 .. x /\ i \in 1 .. y
    BY <1>3, <1>7
  <2>4. \A i \in 1 .. p : a[i] = b[i]
    BY <1>4, <2>3
  <2> HIDE DEF u, v
  <2>5. DOMAIN u = 1 .. p /\ DOMAIN v = 1 .. p /\ \A i \in 1 .. p : u[i] = v[i]
    <3>1. DOMAIN u = 1 .. p /\ DOMAIN v = 1 .. p
      BY <2>1, <2>2
    <3>2. ASSUME NEW i \in 1 .. p PROVE u[i] = v[i]
      <4>1. u[i] = a[i] /\ v[i] = b[i]
        BY <2>1, <2>2
      <4> QED BY <2>4, <4>1
    <3> QED BY <3>1, <3>2
  <2>6. u = v
    BY <2>1, <2>2, <2>5
  <2> QED BY <2>6 DEF u, v
<1>8. x <= y \/ y <= x
  BY <1>3
<1>9. CASE x <= y
  <2>1. SubSeq(a, 1, x) = SubSeq(b, 1, x)
    <3>1. x <= x
      BY <1>3
    <3> QED BY <1>3, <1>7, <1>9, <3>1
  <2> QED BY <1>5, <1>9, <2>1 DEF IsPrefix
<1>10. CASE y <= x
  <2>1. SubSeq(a, 1, y) = SubSeq(b, 1, y)
    <3>1. y <= y
      BY <1>3
    <3> QED BY <1>3, <1>7, <1>10, <3>1
  <2> QED BY <1>5, <1>10, <2>1 DEF IsPrefix
<1> QED BY <1>8, <1>9, <1>10

LEMMA InitSilent == Init => Silent
BY DEF Init, Silent

LEMMA NextSilent == Silent /\ [Next]_vars => Silent'
<1> SUFFICES ASSUME Silent, [Next]_vars, pc' # "answered" PROVE resp' = <<>> /\ log' = <<>>
  BY DEF Silent
<1>1. pc # "answered" \/ UNCHANGED vars
  BY DEF Next, Work, Ended, Boot, Resolve, ExclusiveLane, ExclusiveEnd, RecallLane, Merge, Filter,
         FunnelFilter, RankMain, RankNothing, ShowBegin, Show, Respond, Stub
<1>2. CASE UNCHANGED <<resp, log>>
  BY <1>1, <1>2 DEF Silent, vars
<1>3. ~Respond /\ (Stub => Fail)
  BY DEF Respond, Stub, Answer
<1>4. Boot \/ Resolve \/ ExclusiveLane \/ ExclusiveEnd \/ RecallLane \/ Merge => UNCHANGED <<resp, log>>
  BY DEF Boot, Resolve, ExclusiveLane, ExclusiveEnd, RecallLane, Merge, Fail
<1>5. Filter \/ FunnelFilter \/ RankMain \/ RankNothing => UNCHANGED <<resp, log>>
  BY DEF Filter, FunnelFilter, RankMain, RankNothing, Fail, Answer
<1>6. ShowBegin \/ Show \/ Fail \/ UNCHANGED vars => UNCHANGED <<resp, log>>
  BY DEF ShowBegin, Show, Fail, vars
<1> QED BY <1>2, <1>3, <1>4, <1>5, <1>6 DEF Next, Work, Ended

\* An answer made of a list without repetitions is one RequestLife allows.
LEMMA AnswerIsLife ==
  ASSUME Silent, pc \in Stages \cup {"stub"}, UNCHANGED svc, NEW items \in Seq(ItemInfo),
         UniqueIds(items), NEW cap \in Int, Answer(items, cap)
  PROVE  Life!Answer
<1> DEFINE shown == [n \in DOMAIN resp |-> resp[n].id]
           records == [r \in DOMAIN log |-> [n \in DOMAIN log[r] |-> log[r][n].id]]
<1>1. /\ pc' = "answered" /\ resp' = Cap(items, cap) /\ log = <<>>
      /\ log' = IF svc.logs THEN Append(log, Cap(items, LogCap)) ELSE log
  BY DEF Silent, Stages, Answer, PushAlgoLog, MaterialList
<1>2. UniqueIds(resp')
  BY <1>1, CapKeepsDistinct
<1>3. Life!IsInjective(shown')
  BY <1>2 DEF Life!IsInjective, UniqueIds
<1>4. IF svc.logs THEN Len(records') = 1 /\ Life!Tells(records'[1], shown') ELSE records' = <<>>
  <2>1. CASE svc.logs
    <3>1. log' = <<Cap(items, LogCap)>>
      BY <1>1, <2>1
    <3>2. records' = <<[n \in DOMAIN Cap(items, LogCap) |-> Cap(items, LogCap)[n].id]>>
      BY <3>1
    <3> DEFINE a == [n \in DOMAIN Cap(items, LogCap) |-> Cap(items, LogCap)[n].id]
    <3>3. records' = <<a>> /\ shown' = [n \in DOMAIN Cap(items, cap) |-> Cap(items, cap)[n].id]
      BY <1>1, <3>2
    <3>4. IsPrefix(a, shown') \/ IsPrefix(shown', a)
      <4>1. LogCap \in Int /\ cap \in Int
        BY DataAssumption
      <4> QED BY <3>3, <4>1, CutsAgree
    <3> HIDE DEF a
    <3>5. Len(records') = 1 /\ records'[1] = a
      BY <3>3
    <3>6. \A x, y : IsPrefix(x, y) => Life!IsPrefix(x, y)
      BY DEF IsPrefix, Life!IsPrefix
    <3>7. Life!Tells(a, shown')
      BY <3>4, <3>6 DEF Life!Tells
    <3> QED BY <2>1, <3>5, <3>7
  <2>2. CASE ~svc.logs
    <3>1. log' = <<>>
      BY <1>1, <2>2
    <3>2. records' = <<>>
      BY <3>1
    <3> QED BY <2>2, <3>2
  <2> QED BY <2>1, <2>2
<1> HIDE DEF shown, records
<1>5. Life!Answer <=>
        /\ Status = "busy" /\ Status' = "answered"
        /\ Life!IsInjective(shown')
        /\ IF svc.logs THEN Len(records') = 1 /\ Life!Tells(records'[1], shown') ELSE records' = <<>>
        /\ UNCHANGED svc.logs
  BY DEF Life!Answer, shown, records
<1>6. Status = "busy" /\ Status' = "answered"
  BY <1>1 DEF Status, Stages
<1> QED BY <1>3, <1>4, <1>5, <1>6

\* Other steps are ones of RequestLife when they say nothing.
LEMMA QuietIsLife ==
  ASSUME UNCHANGED <<svc.logs, resp, log>>
  PROVE  /\ UNCHANGED Status => UNCHANGED Life!vars
         /\ Status = "open" /\ Status' = "busy" => Life!Take
         /\ Status = "busy" /\ Status' = "failed" => Life!Fail
BY DEF Life!vars, Life!Take, Life!Fail

LEMMA BootIsLife ==
  ASSUME Boot
  PROVE  Life!Start
<1>1. UNCHANGED <<resp, log>> /\ Status = "starting"
  BY DEF Boot, Status
<1>2. PICK c \in Configs, env \in Environments, fetch \in {"none", "redis", "error"} :
        LET context == NewServiceContext(ApplyEnvOverrides(c, env), fetch)
        IN  IF context = <<>> THEN pc' = "refused" /\ UNCHANGED svc
            ELSE pc' = "start" /\ svc' = context[1]
  BY DEF Boot
<1>3. CASE pc' = "refused" /\ UNCHANGED svc
  BY <1>1, <1>3 DEF Status, Life!Start
<1>4. CASE pc' = "start"
  <2> DEFINE conf == ApplyEnvOverrides(c, env)
  <2>1. svc' = NewServiceContext(conf, fetch)[1] /\ NewServiceContext(conf, fetch) # <<>>
    BY <1>2, <1>4
  <2> HIDE DEF conf
  <2>2. svc'.logs = EnabledOn(conf.kafka)
    BY <2>1 DEF NewServiceContext
  <2>3. EnabledOn(conf.kafka) \in BOOLEAN
    BY DEF EnabledOn
  <2> QED BY <1>1, <1>4, <2>2, <2>3 DEF Status, Life!Start
<1> QED BY <1>2, <1>3, <1>4

LEMMA NextIsLife == Sound /\ Silent /\ [Next]_vars => [Life!Next]_(Life!vars)
<1> SUFFICES ASSUME Sound, Silent, [Next]_vars PROVE Life!Next \/ UNCHANGED Life!vars
  OBVIOUS
<1> DEFINE Busy == Stages \cup {"stub"}
<1>1. /\ \A p \in Busy : p \notin {"boot", "start", "refused", "answered", "failed"}
      /\ Stages \subseteq Busy /\ "stub" \in Busy
      /\ {"exclusive", "main", "filter", "rank", "ranked", "show"} \subseteq Busy
  BY DEF Stages
<1>2. pc \in Busy => Status = "busy"
  BY <1>1 DEF Status
<1>3. pc' \in Busy => Status' = "busy"
  BY <1>1 DEF Status
<1>4. /\ pc = "start" => Status = "open"
      /\ pc' = "failed" => Status' = "failed"
  BY DEF Status
<1> HIDE DEF Busy
<1>5. CASE pc \in Busy /\ pc' \in Busy /\ UNCHANGED <<svc.logs, resp, log>>
  BY <1>2, <1>3, <1>5, QuietIsLife
<1>6. CASE Boot
  BY <1>6, BootIsLife DEF Life!Next
<1>7. CASE Resolve
  <2>1. pc = "start" /\ pc' \in Busy /\ UNCHANGED <<svc.logs, resp, log>>
    BY <1>1, <1>7 DEF Resolve
  <2> QED BY <1>3, <1>4, <2>1, QuietIsLife DEF Life!Next
<1>8. CASE pc \in Busy /\ Fail
  BY <1>2, <1>4, <1>8, QuietIsLife DEF Fail, request, Life!Next
<1>9. ASSUME NEW items \in Seq(ItemInfo), UniqueIds(items), NEW cap \in Int, Answer(items, cap),
             pc \in Busy, UNCHANGED svc
      PROVE  Life!Next
  BY <1>9, AnswerIsLife DEF Busy, Life!Next
<1>10. CASE ExclusiveLane \/ ExclusiveEnd \/ Merge
  BY <1>1, <1>5, <1>10 DEF ExclusiveLane, ExclusiveEnd, Merge, request
<1>11. CASE RecallLane
  <2>1. pc = "main" /\ (~Fail => UNCHANGED <<pc, svc.logs, resp, log>>)
    BY <1>11 DEF RecallLane, request
  <2> QED BY <1>1, <1>5, <1>8, <2>1
<1>12. CASE Filter \/ FunnelFilter
  <2>1. pc = "filter" /\ UNCHANGED svc
    BY <1>12 DEF Filter, FunnelFilter, request
  <2>2. Answer(<<>>, 0) \/ (pc' = "rank" /\ UNCHANGED <<resp, log>>)
    BY <1>12 DEF Filter, FunnelFilter
  <2>3. CASE Answer(<<>>, 0)
    <3> DEFINE none == <<>>
    <3>1. none \in Seq(ItemInfo) /\ UniqueIds(none) /\ Answer(none, 0)
      BY <2>3 DEF UniqueIds
    <3> HIDE DEF none
    <3> QED BY <1>1, <1>9, <2>1, <3>1
  <2>4. CASE pc' = "rank" /\ UNCHANGED <<resp, log>>
    BY <1>1, <1>5, <2>1, <2>4
  <2> QED BY <2>2, <2>3, <2>4
<1>13. CASE RankMain
  <2>1. pc = "rank" /\ (~Fail => pc' = "ranked" /\ UNCHANGED <<svc.logs, resp, log>>)
    BY <1>13 DEF RankMain, request
  <2> QED BY <1>1, <1>5, <1>8, <2>1
<1>14. CASE RankNothing \/ ShowBegin \/ Show
  BY <1>1, <1>5, <1>14 DEF RankNothing, ShowBegin, Show, request
<1>15. CASE Respond
  <2>1. pc = "show" /\ Answer(list, ret) /\ UNCHANGED svc
    BY <1>15 DEF Respond, request
  <2>2. list \in Seq(ItemInfo) /\ UniqueIds(list) /\ ret \in Int
    BY <2>1 DEF Sound, Shape, Listed
  <2> QED BY <1>1, <1>9, <2>1, <2>2
<1>16. CASE Stub
  <2>1. pc = "stub"
    BY <1>16 DEF Stub
  <2>2. CASE Fail
    BY <1>1, <1>8, <2>1, <2>2
  <2>3. CASE ~Fail
    <3>1. PICK run \in PipelineRun : Answer(run.items, req.RetCount) /\ UNCHANGED svc
      BY <1>16, <2>3 DEF Stub, request
    <3>2. run.items \in Seq(ItemInfo) /\ UniqueIds(run.items)
      BY <3>1, StubIsRanked
    <3> QED BY <1>1, <1>9, <2>1, <3>1, <3>2 DEF Sound, Shape
  <2> QED BY <2>2, <2>3
<1>17. CASE UNCHANGED vars
  <2>1. UNCHANGED <<svc.logs, resp, log, Status>>
    BY <1>17 DEF vars, request, Status
  <2> QED BY <2>1, QuietIsLife
<1> QED
  BY <1>6, <1>7, <1>10, <1>11, <1>12, <1>13, <1>14, <1>15, <1>16, <1>17
     DEF Next, Work, Ended

\* Whatever happens on the way, a request lives as RequestLife promises: it is
\* answered without repetitions and logged once, when logs are on, or it fails.
THEOREM RequestsLive == Spec => Life!Safety
<1>1. Init => Life!Init
  <2> SUFFICES ASSUME Init PROVE Life!Init
    OBVIOUS
  <2>1. pc = "boot" /\ resp = <<>> /\ log = <<>> /\ svc = NoService
    BY DEF Init
  <2>2. Status = "starting" /\ ~svc.logs
    BY <2>1 DEF Status, NoService
  <2>3. [n \in DOMAIN resp |-> resp[n].id] = <<>>
    BY <2>1
  <2>4. [r \in DOMAIN log |-> [n \in DOMAIN log[r] |-> log[r][n].id]] = <<>>
    BY <2>1
  <2> QED BY <2>2, <2>3, <2>4 DEF Life!Init
<1> QED
  BY <1>1, InitSound, NextSound, InitSilent, NextSilent, NextIsLife, PTL DEF Spec, Life!Safety

-----------------------------------------------------------------------------
(* What is shown was eligible *)

Good(it) == Swapped(it) \/ (it.id \in vouched /\ Allowed(it.id))

\* what a lane found has its portrait, what the filters left is allowed, and
\* nothing later brings in anything else; in funnel mode there is no pool, so
\* that the portraits it asks for again are those of all it has
Eligible ==
  /\ pc \in {"boot", "start"} => DOMAIN pool = {} /\ batches = <<>>
  /\ pc = "stub" => Row = <<>>
  /\ pc \in Stages /\ Funnel => pc # "exclusive" /\ DOMAIN pool = {}
  /\ pc \in {"exclusive", "main"} => \A b \in DOMAIN batches : Ids(batches[b]) \subseteq vouched
  /\ pc \in {"exclusive", "main", "filter"} =>
       \A r \in DOMAIN pool : Ids(pool[r]) \subseteq vouched
  /\ pc = "filter" => Ids(list) \subseteq vouched
  /\ pc \in {"rank", "ranked", "show"} =>
       /\ \A it \in ToSet(list) : Good(it)
       /\ \A r \in DOMAIN pool : \A it \in ToSet(pool[r]) : Good(it)
  /\ Answered => \A it \in ToSet(resp) : Good(it)

\* A step that reads no portrait and no exposure map leaves the good ones good.
LEMMA GoodStays ==
  ASSUME UNCHANGED <<request, exposure, vouched>>
  PROVE  /\ \A it : Good(it)' <=> Good(it)
         /\ Row' = Row /\ Funnel' = Funnel
<1>1. Row' = Row /\ Funnel' = Funnel
  BY DEF request, Row, Center, Funnel
<1>2. FilterRow' = FilterRow /\ req' = req
  BY DEF request, FilterRow
<1>3. FunnelPolicies' = FunnelPolicies /\ FilterLists' = FilterLists
  BY <1>1, <1>2 DEF FunnelPolicies, FilterLists
<1>4. \A it : Good(it)' <=> Good(it)
  BY <1>1, <1>2, <1>3 DEF Good, Allowed
<1> QED BY <1>1, <1>4

\* The filters and the policies let pass what is allowed.
LEMMA PassedIsGood ==
  ASSUME Shape, Wired, Row # <<>>, UNCHANGED request
  PROVE  /\ Center => \A it : Passes(it, exposure') /\ it.id \in vouched' => Good(it)'
         /\ Funnel => \A it :
              /\ it.id \in vouched'
              /\ \A n \in DOMAIN FunnelPolicies :
                   FunnelPolicies[n].type = "exposure_backoff" =>
                     FilterExposureBackoff(it, exposure', FunnelPolicies[n].after)
              => Good(it)'
<1>1. Row' = Row /\ Funnel' = Funnel /\ FilterRow' = FilterRow /\ req' = req
  BY DEF request, Row, Center, Funnel, FilterRow
<1>2. FunnelPolicies' = FunnelPolicies /\ FilterLists' = FilterLists
  BY <1>1 DEF FunnelPolicies, FilterLists
<1>3. ASSUME Center, NEW it, Passes(it, exposure'), it.id \in vouched' PROVE Good(it)'
  <2>1. ~Funnel
    BY <1>3 DEF Center, Funnel
  <2>2. CASE FilterRow = <<>>
    BY <1>1, <1>3, <2>1, <2>2 DEF Good, Allowed
  <2>3. CASE FilterRow # <<>>
    <3>1. AreLimits(FilterLists.rules)
      BY <2>3, FilterIsSound
    <3> DEFINE rules == FilterLists.rules
    <3>2. \A n \in DOMAIN rules : rules[n].type = "LiveExposure" =>
            rules[n].limit \in Int /\ FilterLiveExposure(it, exposure', rules[n].limit)
      BY <1>3, <2>3, <3>1 DEF Passes, AreLimits
    <3> HIDE DEF rules
    <3>3. \A n \in DOMAIN rules : rules[n].type = "LiveExposure" /\ rules[n].limit > 0 =>
            Count(exposure', it.id) <= rules[n].limit
      BY <3>2 DEF FilterLiveExposure
    <3>4. Allowed(it.id)'
      BY <1>1, <1>2, <2>1, <3>3 DEF Allowed, rules
    <3> QED BY <1>3, <3>4 DEF Good
  <2> QED BY <2>2, <2>3
<1>4. ASSUME Funnel, NEW it, it.id \in vouched',
             \A n \in DOMAIN FunnelPolicies :
               FunnelPolicies[n].type = "exposure_backoff" =>
                 FilterExposureBackoff(it, exposure', FunnelPolicies[n].after)
      PROVE  Good(it)'
  <2> DEFINE policies == FunnelPolicies
  <2>1. AreBackoffs(policies)
    BY <1>4, FunnelIsSound DEF FunnelPolicies
  <2>2. \A n \in DOMAIN policies : policies[n].type = "exposure_backoff" =>
          policies[n].after \in Int /\ FilterExposureBackoff(it, exposure', policies[n].after)
    BY <1>4, <2>1 DEF AreBackoffs
  <2> HIDE DEF policies
  <2>3. \A n \in DOMAIN policies : policies[n].type = "exposure_backoff" /\ policies[n].after > 0 =>
          Count(exposure', it.id) < policies[n].after
    BY <2>2 DEF FilterExposureBackoff
  <2>4. Allowed(it.id)'
    BY <1>1, <1>2, <1>4, <2>3 DEF Allowed, policies
  <2> QED BY <1>4, <2>4 DEF Good
<1> QED BY <1>3, <1>4

LEMMA InitEligible == Init => Eligible
<1> SUFFICES ASSUME Init PROVE Eligible
  OBVIOUS
<1>1. pc = "boot" /\ pool = [r \in {} |-> <<>>] /\ batches = <<>>
  BY DEF Init
<1> QED BY <1>1 DEF Eligible, Stages, Answered

\* the steps after the filters: they bring in nothing but what is in the list or
\* the pool, or is an alternative
LEMMA GoodItemsStay ==
  ASSUME Eligible, pc \in {"rank", "ranked", "show"}, pc' \in {"rank", "ranked", "show"},
         UNCHANGED <<request, pool, exposure, vouched>>,
         \A it \in ToSet(list') : \/ Swapped(it)
                                  \/ \E x \in ToSet(list) : Same(it, x)
                                  \/ \E r \in DOMAIN pool : it \in ToSet(pool[r])
  PROVE  Eligible'
<1>1. /\ \A it \in ToSet(list) : Good(it)
      /\ \A r \in DOMAIN pool : \A it \in ToSet(pool[r]) : Good(it)
      /\ Funnel => DOMAIN pool = {}
  BY DEF Eligible, Stages
<1>2. (\A it : Good(it)' <=> Good(it)) /\ Row' = Row /\ Funnel' = Funnel
  BY GoodStays
<1>3. ASSUME NEW it \in ToSet(list') PROVE Good(it)
  <2>1. CASE Swapped(it)
    BY <2>1 DEF Good
  <2>2. CASE \E x \in ToSet(list) : Same(it, x)
    BY <1>1, <2>2 DEF Good, Same, Swapped
  <2>3. CASE \E r \in DOMAIN pool : it \in ToSet(pool[r])
    BY <1>1, <2>3
  <2> QED BY <1>3, <2>1, <2>2, <2>3
<1> QED BY <1>1, <1>2, <1>3 DEF Eligible, Answered

LEMMA NextEligible == Sound /\ Eligible /\ [Next]_vars => Eligible'
<1> SUFFICES ASSUME Sound, Eligible, [Next]_vars PROVE Eligible'
  OBVIOUS
<1>1. /\ Shape
      /\ pc \in Stages => Row # <<>> /\ Wired
      /\ pc \in Listed => UniqueIds(list)
      /\ list \in Seq(ItemInfo) /\ IsPool(pool) /\ batches \in Seq(Seq(ItemInfo))
  BY DEF Sound, Shape, Stages
<1>2. /\ Stages = {"exclusive", "main"} \cup Listed
      /\ Listed = {"filter", "rank", "ranked", "show"}
  BY DEF Stages, Listed
<1>3. CASE Boot
  <2>1. pc = "boot" /\ pc' \in {"refused", "start"} /\ UNCHANGED <<pool, batches>>
    BY <1>3 DEF Boot
  <2> QED BY <1>2, <2>1 DEF Eligible, Answered
<1>4. CASE Resolve
  <2>1. /\ pc = "start" /\ pc' \in {"stub", "main", "exclusive"}
        /\ pc' = "stub" => Row' = <<>>
        /\ Funnel' => pc' # "exclusive"
        /\ UNCHANGED <<pool, batches>>
    BY <1>4 DEF Resolve, Funnel
  <2>2. DOMAIN pool = {} /\ batches = <<>>
    BY <2>1 DEF Eligible
  <2>3. \A b \in DOMAIN batches' : Ids(batches'[b]) \subseteq vouched'
    BY <2>1, <2>2
  <2> QED BY <1>2, <2>1, <2>2, <2>3 DEF Eligible, Answered
<1>5. CASE ExclusiveLane
  <2>1. /\ pc = "exclusive" /\ pc' = pc /\ UNCHANGED <<request, batches>>
    BY <1>5 DEF ExclusiveLane
  <2>2. Funnel' = Funnel /\ ~Funnel
    BY <1>2, <2>1 DEF Eligible, Funnel, request
  <2>3. /\ \A b \in DOMAIN batches : Ids(batches[b]) \subseteq vouched
        /\ \A r \in DOMAIN pool : Ids(pool[r]) \subseteq vouched
    BY <2>1 DEF Eligible
  <2>4. /\ vouched \subseteq vouched'
        /\ \/ pool' = pool
           \/ \E type, batch : Ids(batch) \subseteq vouched' /\ PoolGrows(type, batch)
    BY <1>1, <1>2, <1>5, <2>1, LaneFillsPool
  <2>5. \A r \in DOMAIN pool' : Ids(pool'[r]) \subseteq vouched'
    <3>1. CASE pool' = pool
      BY <2>3, <2>4, <3>1
    <3>2. ASSUME NEW type, NEW batch, Ids(batch) \subseteq vouched', PoolGrows(type, batch)
          PROVE  \A r \in DOMAIN pool' : Ids(pool'[r]) \subseteq vouched'
      <4>1. \A r \in DOMAIN pool' : pool'[r] = batch \/ (r \in DOMAIN pool /\ pool'[r] = pool[r])
        BY <3>2 DEF PoolGrows
      <4> QED BY <2>3, <2>4, <3>2, <4>1
    <3> QED BY <2>4, <3>1, <3>2
  <2>6. \A b \in DOMAIN batches' : Ids(batches'[b]) \subseteq vouched'
    BY <2>1, <2>3, <2>4
  <2> QED BY <2>1, <2>2, <2>5, <2>6 DEF Eligible, Answered
<1>6. CASE ExclusiveEnd
  <2>1. /\ pc = "exclusive" /\ pc' = "main"
        /\ UNCHANGED <<request, pool, batches, vouched>>
    BY <1>6 DEF ExclusiveEnd, history
  <2>2. Funnel' = Funnel
    BY <2>1 DEF Funnel, request
  <2> QED BY <1>2, <2>1, <2>2 DEF Eligible, Answered
<1>7. CASE pc' = "failed"
  BY <1>2, <1>7 DEF Eligible, Answered
<1>8. CASE RecallLane /\ ~Fail
  <2>1. pc = "main"
    BY <1>8 DEF RecallLane
  <2>2. PICK batch :
          /\ batches' = Append(batches, batch) /\ vouched \subseteq vouched'
          /\ batch \in Seq(ItemInfo) /\ Ids(batch) \subseteq vouched'
          /\ UNCHANGED <<pc, request, pool>>
    BY <1>1, <1>2, <1>8, <2>1, LaneFillsBatch
  <2>3. Funnel' = Funnel
    BY <2>2 DEF Funnel, request
  <2>4. /\ \A b \in DOMAIN batches : Ids(batches[b]) \subseteq vouched
        /\ \A r \in DOMAIN pool : Ids(pool[r]) \subseteq vouched
        /\ Funnel => DOMAIN pool = {}
    BY <1>2, <2>1 DEF Eligible
  <2>5. \A b \in DOMAIN batches' : batches'[b] = batch \/ (b \in DOMAIN batches /\ batches'[b] = batches[b])
    <3> DEFINE S == Seq(ItemInfo)
    <3>1. batches \in Seq(S) /\ batch \in S
      BY <1>1, <2>2
    <3> HIDE DEF S
    <3> QED BY <2>2, <3>1
  <2>6. \A b \in DOMAIN batches' : Ids(batches'[b]) \subseteq vouched'
    BY <2>2, <2>4, <2>5
  <2>7. \A r \in DOMAIN pool' : Ids(pool'[r]) \subseteq vouched'
    BY <2>2, <2>4
  <2> QED BY <2>1, <2>2, <2>3, <2>4, <2>6, <2>7 DEF Eligible, Answered
<1>9. CASE Merge
  <2>1. /\ pc = "main" /\ pc' = "filter" /\ list' = MergeRecallLanes(batches, Row[1].AllMergeNum)
        /\ UNCHANGED <<request, pool, batches, vouched>>
    BY <1>9 DEF Merge, history
  <2>2. Funnel' = Funnel
    BY <2>1 DEF Funnel, request
  <2>3. /\ \A b \in DOMAIN batches : Ids(batches[b]) \subseteq vouched
        /\ \A r \in DOMAIN pool : Ids(pool[r]) \subseteq vouched
        /\ Funnel => DOMAIN pool = {}
    BY <1>2, <2>1 DEF Eligible
  <2>4. Row[1].AllMergeNum \in Int
    BY <1>1, <1>2, <2>1, RowIsSound DEF IsRecallRow
  <2>5. \A it \in ToSet(list') : \E b \in DOMAIN batches : it \in ToSet(batches[b])
    BY <1>1, <2>1, <2>4, Merged
  <2>6. \A it \in ToSet(list') : it.id \in vouched
    BY <2>3, <2>5, IdsOfItems
  <2>7. Ids(list') \subseteq vouched'
    BY <2>1, <2>6, IdsOfItems
  <2> QED BY <2>1, <2>2, <2>3, <2>7 DEF Eligible, Answered
<1>10. CASE Filter
  <2>1. /\ pc = "filter" /\ Center /\ pc' \in {"answered", "rank"}
        /\ pc' = "answered" => resp' = Cap(<<>>, 0)
        /\ UNCHANGED <<request, vouched>>
    BY <1>10 DEF Filter, Answer
  <2>2. Row' = Row /\ Funnel' = Funnel /\ ~Funnel
    BY <2>1 DEF request, Row, Funnel, Center
  <2>3. Ids(list) \subseteq vouched /\ \A r \in DOMAIN pool : Ids(pool[r]) \subseteq vouched
    BY <2>1 DEF Eligible
  <2>4. /\ ToSet(list') \subseteq ToSet(list)
        /\ \A it \in ToSet(list') : Passes(it, exposure')
        /\ DOMAIN pool' \subseteq DOMAIN pool
        /\ \A r \in DOMAIN pool' : /\ ToSet(pool'[r]) \subseteq ToSet(pool[r])
                                   /\ \A it \in ToSet(pool'[r]) : Passes(it, exposure')
    BY <1>1, <1>2, <1>10, <2>1, FilterKeeps
  <2>5. \A it : Passes(it, exposure') /\ it.id \in vouched' => Good(it)'
    BY <1>1, <1>2, <2>1, PassedIsGood
  <2>6. \A it \in ToSet(list') : Good(it)'
    BY <2>1, <2>3, <2>4, <2>5, IdsOfItems
  <2>7. ASSUME NEW r \in DOMAIN pool', NEW it \in ToSet(pool'[r]) PROVE Good(it)'
    <3>1. it.id \in vouched
      BY <2>3, <2>4, <2>7, IdsOfItems
    <3> QED BY <2>1, <2>4, <2>5, <2>7, <3>1
  <2>8. pc' = "answered" => ToSet(resp') = {}
    BY <2>1 DEF Cap, ToSet
  <2> QED BY <2>1, <2>2, <2>6, <2>7, <2>8 DEF Eligible, Answered
<1>11. CASE FunnelFilter
  <2>1. /\ pc = "filter" /\ Funnel /\ pc' \in {"answered", "rank"}
        /\ pc' = "answered" => resp' = Cap(<<>>, 0)
        /\ UNCHANGED <<request, pool>>
    BY <1>11 DEF FunnelFilter, Answer
  <2>2. Row' = Row /\ Funnel' = Funnel
    BY <2>1 DEF request, Row, Funnel, Center
  <2>3. Ids(list) \subseteq vouched /\ DOMAIN pool = {}
    BY <1>2, <2>1 DEF Eligible
  <2>4. /\ Ids(list') \subseteq vouched'
        /\ \A it \in ToSet(list') : \A n \in DOMAIN FunnelPolicies :
             FunnelPolicies[n].type = "exposure_backoff" =>
               FilterExposureBackoff(it, exposure', FunnelPolicies[n].after)
    BY <1>1, <1>2, <1>11, <2>1, <2>3, FunnelKeeps
  <2>5. \A it \in ToSet(list') : Good(it)'
    BY <1>1, <1>2, <2>1, <2>4, PassedIsGood, IdsOfItems
  <2>6. pc' = "answered" => ToSet(resp') = {}
    BY <2>1 DEF Cap, ToSet
  <2> QED BY <2>1, <2>2, <2>3, <2>5, <2>6 DEF Eligible, Answered
<1>12. CASE RankMain /\ ~Fail
  <2>1. pc = "rank"
    BY <1>12 DEF RankMain
  <2>2. PICK scores \in Seq([id : ItemIds, score : Int]) :
          UniqueIds(scores) /\ list' = ReorderByRank(list, scores)
    BY <1>1, <1>2, <1>12, <2>1, RankReorders
  <2>3. pc' = "ranked" /\ UNCHANGED <<request, pool, exposure, vouched>>
    BY <1>1, <1>2, <1>12, <2>1, RankReorders
  <2>4. \A it \in ToSet(list') : IsScored(it, list, scores)
    BY <1>1, <1>2, <2>1, <2>2, Reordered
  <2>5. \A it \in ToSet(list') : \E x \in ToSet(list) : Same(it, x)
    BY <2>4 DEF IsScored, Same
  <2> QED BY <2>1, <2>3, <2>5, GoodItemsStay
<1>13. CASE RankNothing
  <2>1. pc = "rank" /\ pc' = "ranked" /\ UNCHANGED <<request, pool, exposure, vouched, list>>
    BY <1>13 DEF RankNothing, history
  <2> QED BY <2>1, GoodItemsStay DEF Same
<1>14. CASE ShowBegin
  <2>1. /\ pc = "ranked" /\ pc' = "show"
        /\ UNCHANGED <<request, pool, exposure, vouched>>
    BY <1>14 DEF ShowBegin
  <2>2. ToSet(list') \subseteq ToSet(list)
    <3>1. CASE Funnel
      <4> DEFINE n == ResolvedShowControl(Row[1], req.ExpIDs)
      <4>1. n \in Int
        BY <1>1, <1>2, <2>1, <3>1, FunnelIsSound
      <4>2. list' = Cap(list, n)
        BY <1>14, <3>1 DEF ShowBegin
      <4> HIDE DEF n
      <4> QED BY <1>1, <4>1, <4>2, CapHasItems
    <3>2. CASE ~Funnel
      BY <1>14, <3>2 DEF ShowBegin
    <3> QED BY <3>1, <3>2
  <2> QED BY <2>1, <2>2, GoodItemsStay DEF Same
<1>15. CASE Show
  <2>1. /\ pc = "show" /\ pc' = pc /\ UNCHANGED <<request, pool, exposure, vouched>>
    BY <1>15 DEF Show, history
  <2>2. PICK exchange : /\ IsExchange(exchange) /\ IsStrategy(strategies[k])
                        /\ list' \in ApplyStrategy(list, pool, exchange, strategies[k])
    BY <1>1, <1>15, ShowApplies
  <2> DEFINE st == strategies[k]
  <2>3. IsStrategy(st) /\ list' \in ApplyStrategy(list, pool, exchange, st)
    BY <2>2
  <2> HIDE DEF st
  <2>4. /\ st.type = "MMRRearrange" => ToSet(list') \subseteq ToSet(list)
        /\ st.type # "MMRRearrange" => Follows(list', list, pool, st)
    BY <1>1, <2>2, <2>3, Strategies
  <2>5. ASSUME NEW it \in ToSet(list')
        PROVE  \/ Swapped(it)
               \/ \E x \in ToSet(list) : Same(it, x)
               \/ \E r \in DOMAIN pool : it \in ToSet(pool[r])
    <3>1. CASE st.type = "MMRRearrange"
      BY <2>4, <2>5, <3>1 DEF Same
    <3>2. CASE st.type # "MMRRearrange"
      <4>1. PICK n \in DOMAIN list' : it = list'[n]
        BY <2>5 DEF ToSet
      <4>2. PICK from : /\ from[n] \in 0 .. Len(list)
                        /\ from[n] = 0 => Strange(list'[n], list, pool, st)
                        /\ from[n] # 0 => IsAfter(list'[n], list[from[n]], st)
        BY <2>4, <3>2, <4>1 DEF Follows
      <4>3. CASE from[n] = 0
        BY <4>1, <4>2, <4>3 DEF Strange, Alternatives, Swapped, Same
      <4>4. CASE from[n] # 0
        <5>1. from[n] \in DOMAIN list
          BY <1>1, <4>2, <4>4
        <5> QED BY <4>1, <4>2, <4>4, <5>1 DEF ToSet, IsAfter
      <4> QED BY <4>3, <4>4
    <3> QED BY <3>1, <3>2
  <2> QED BY <2>1, <2>5, GoodItemsStay
<1>16. CASE Respond
  <2>1. /\ pc = "show" /\ pc' = "answered" /\ resp' = Cap(list, ret)
        /\ UNCHANGED <<request, exposure, vouched>>
    BY <1>16 DEF Respond, Answer, history
  <2>2. ToSet(resp') \subseteq ToSet(list)
    BY <1>1, <2>1, CapHasItems DEF Shape
  <2>3. \A it \in ToSet(list) : Good(it)
    BY <2>1 DEF Eligible
  <2>4. \A it : Good(it)' <=> Good(it)
    BY <2>1, GoodStays
  <2>5. \A it \in ToSet(resp') : Good(it)'
    BY <2>2, <2>3, <2>4
  <2> QED BY <1>2, <2>1, <2>5 DEF Eligible
<1>17. CASE Stub /\ ~Fail
  <2>1. pc = "stub" /\ pc' = "answered" /\ UNCHANGED request
    BY <1>17 DEF Stub, Answer, request
  <2>2. Row' = Row /\ Row = <<>>
    BY <2>1 DEF request, Row, Center, Funnel, Eligible
  <2> QED BY <1>2, <2>1, <2>2 DEF Eligible, Answered
<1>18. CASE UNCHANGED vars
  <2>1. (\A it : Good(it)' <=> Good(it)) /\ Row' = Row /\ Funnel' = Funnel
    BY <1>18, GoodStays DEF vars, history
  <2> QED BY <1>18, <2>1 DEF vars, history, Eligible, Answered
<1>19. Fail => pc' = "failed"
  BY DEF Fail
<1> QED
  BY <1>3, <1>4, <1>5, <1>6, <1>7, <1>8, <1>9, <1>10, <1>11, <1>12, <1>13, <1>14, <1>15,
     <1>16, <1>17, <1>18, <1>19
     DEF Next, Work, Ended

\* A shown item had its portrait and is let pass by every rule, whichever way it
\* came into the answer, unless HomogenContent put it in.
THEOREM ShownWereEligible == Spec => []ShownAreEligible
<1>1. Eligible => ShownAreEligible
  BY DEF Eligible, ShownAreEligible, Good
<1> QED BY <1>1, InitSound, NextSound, InitEligible, NextEligible, PTL DEF Spec

-----------------------------------------------------------------------------
(* What is forced in first is on top *)

\* the strategies of the request
Chain == IF ShowRow = <<>> THEN <<>> ELSE ResolvedStrategyList(ShowRow[1], req.ExpIDs)

\* the strategy forces in what an exclusive lane found, and s begins with it
Forces(st) ==
  /\ st.type = "ForcedInsert" /\ st.PageSize = 0 /\ st.rules # <<>>
  /\ st.rules[1].count > 0 /\ st.rules[1].recall \in DOMAIN pool
Begins(s, st) == s # <<>> /\ Head(s).id \in Ids(pool[st.rules[1].recall])

\* the strategies are those of the show row, and what the last one that was
\* applied forced in is on top
Topped ==
  /\ pc \in (Stages \ {"show"}) \cup {"boot", "start"} => strategies = <<>>
  /\ pc = "show" =>
       /\ Center => strategies = Chain
       /\ k <= Len(strategies) + 1
       /\ k > 1 /\ Forces(strategies[k - 1]) => Begins(list, strategies[k - 1])
  /\ Answered /\ Center /\ Chain # <<>> /\ Forces(Last(Chain)) => Begins(resp, Last(Chain))

LEMMA ToppedIsForced == Topped => ForcedShown
<1> SUFFICES ASSUME Topped, Answered, Center, Chain # <<>>, Forces(Last(Chain))
             PROVE  resp # <<>> /\ Head(resp).id \in Ids(pool[Last(Chain).rules[1].recall])
  BY DEF ForcedShown, Chain, Forces
<1>1. Begins(resp, Last(Chain))
  BY DEF Topped
<1> QED BY <1>1 DEF Begins

\* A step within the request changes neither its row nor its chain.
LEMMA ChainStays ==
  ASSUME UNCHANGED request
  PROVE  Chain' = Chain /\ Center' = Center /\ Funnel' = Funnel /\ Row' = Row
BY DEF request, Chain, ShowRow, Center, Funnel, Row

\* A capped list begins as the list does.
LEMMA CapBegins ==
  ASSUME NEW s \in Seq(ItemInfo), NEW n \in Int, s # <<>>
  PROVE  Cap(s, n) # <<>> /\ Head(Cap(s, n)) = Head(s)
<1>1. CASE n > 0 /\ Len(s) > n
  <2>1. n \in 1 .. Len(s)
    BY <1>1
  <2>2. Cap(s, n) = SubSeq(s, 1, n)
    BY <1>1 DEF Cap
  <2> QED BY <2>1, <2>2
<1>2. CASE ~(n > 0 /\ Len(s) > n)
  BY <1>2 DEF Cap
<1> QED BY <1>1, <1>2

LEMMA InitTopped == Init => Topped
BY DEF Init, Topped, Stages, Answered

LEMMA NextTopped == Sound /\ Eligible /\ Topped /\ [Next]_vars => Topped'
<1> SUFFICES ASSUME Sound, Eligible, Topped, [Next]_vars PROVE Topped'
  OBVIOUS
<1>1. /\ Shape /\ list \in Seq(ItemInfo) /\ IsPool(pool) /\ ret \in Int
      /\ k \in Nat \ {0} /\ AreStrategies(strategies)
      /\ \A r \in DOMAIN pool : pool[r] # <<>>
  BY DEF Sound, Shape
<1>2. Stages = {"exclusive", "main", "filter", "rank", "ranked", "show"}
  BY DEF Stages
<1>3. CASE Fail
  BY <1>2, <1>3 DEF Fail, Topped, Answered
<1>4. CASE Boot \/ Resolve
  <2>1. /\ pc \in {"boot", "start"} /\ UNCHANGED strategies
        /\ pc' \in {"refused", "start", "stub", "main", "exclusive"}
    BY <1>4 DEF Boot, Resolve
  <2> QED BY <1>2, <2>1 DEF Topped, Answered
<1>5. CASE ExclusiveLane \/ ExclusiveEnd \/ (RecallLane /\ ~Fail) \/ Merge \/ RankMain \/ RankNothing
  <2>1. /\ pc \in Stages \ {"show"} /\ UNCHANGED strategies
        /\ pc' \in (Stages \ {"show"}) \cup {"failed"}
    BY <1>2, <1>5 DEF ExclusiveLane, ExclusiveEnd, RecallLane, Merge, RankMain, RankNothing, Fail
  <2> QED BY <1>2, <2>1 DEF Topped, Answered
<1>6. CASE Filter \/ FunnelFilter
  <2>1. /\ pc = "filter" /\ UNCHANGED <<request, strategies>> /\ pc' \in {"answered", "rank"}
        /\ Center /\ pc' = "answered" => DOMAIN pool' = {}
    BY <1>6 DEF Filter, FunnelFilter, Answer, Center, Funnel
  <2>2. Center' = Center
    BY <2>1, ChainStays
  <2>3. Center' /\ Chain' # <<>> /\ Forces(Last(Chain))' /\ pc' = "answered" => Begins(resp, Last(Chain))'
    BY <2>1, <2>2 DEF Forces
  <2>4. pc' = "rank" => strategies' = <<>>
    BY <1>2, <2>1 DEF Topped
  <2> QED BY <1>2, <2>1, <2>3, <2>4 DEF Topped, Answered
<1>7. CASE ShowBegin
  <2>1. pc = "ranked" /\ pc' = "show" /\ k' = 1 /\ UNCHANGED request
    BY <1>7 DEF ShowBegin
  <2>2. Chain' = Chain /\ Center' = Center
    BY <2>1, ChainStays
  <2>3. strategies = <<>>
    BY <1>2, <2>1 DEF Topped
  <2>4. Center => strategies' = Chain
    BY <1>7, <2>3 DEF ShowBegin, Chain, Center, Funnel
  <2>5. Len(strategies') \in Nat
    <3>1. AreStrategies(strategies')
      BY <1>7, NextSound DEF Sound, Shape
    <3>2. PICK T : strategies' \in Seq(T)
      BY <3>1 DEF AreStrategies
    <3> QED BY <3>2
  <2>6. k' <= Len(strategies') + 1 /\ ~(k' > 1)
    BY <2>1, <2>5
  <2> QED BY <1>2, <2>1, <2>2, <2>4, <2>6 DEF Topped, Answered
<1>8. CASE Show
  <2>1. /\ pc = "show" /\ pc' = pc /\ k <= Len(strategies) /\ k' = k + 1
        /\ UNCHANGED <<request, pool, strategies>>
    BY <1>8 DEF Show
  <2>2. Chain' = Chain /\ Center' = Center
    BY <2>1, ChainStays
  <2> DEFINE st == strategies[k]
  <2>3. PICK exchange : /\ IsExchange(exchange) /\ IsStrategy(st)
                        /\ list' \in ApplyStrategy(list, pool, exchange, st)
    BY <1>1, <1>8, ShowApplies
  <2> HIDE DEF st
  <2>4. Forces(st) => Begins(list', st)
    <3> SUFFICES ASSUME Forces(st) PROVE Begins(list', st)
      OBVIOUS
    <3>1. list' # <<>> /\ list'[1] \in ToSet(pool[st.rules[1].recall])
      BY <1>1, <2>3, FirstForced DEF Forces
    <3>2. list' \in Seq(ItemInfo)
      BY <1>1, <2>3, Strategies
    <3>3. Head(list') = list'[1]
      BY <3>1, <3>2
    <3> QED BY <3>1, <3>3, IdsOfItems DEF Begins
  <2>5. k' - 1 = k /\ k' <= Len(strategies) + 1
    <3>1. PICK T : strategies \in Seq(T)
      BY <1>1 DEF AreStrategies
    <3> QED BY <1>1, <2>1, <3>1
  <2>6. strategies'[k' - 1] = st
    BY <2>1, <2>5 DEF st
  <2>7. Forces(strategies[k - 1])' => Begins(list, strategies[k - 1])'
    BY <2>1, <2>4, <2>6 DEF Forces, Begins
  <2>8. Center' => strategies' = Chain'
    BY <2>1, <2>2 DEF Topped
  <2> QED BY <1>2, <2>1, <2>5, <2>7, <2>8 DEF Topped, Answered
<1>9. CASE Respond
  <2>1. /\ pc = "show" /\ pc' = "answered" /\ k > Len(strategies) /\ resp' = Cap(list, ret)
        /\ UNCHANGED <<request, pool>>
    BY <1>9 DEF Respond, Answer
  <2>2. Chain' = Chain /\ Center' = Center
    BY <2>1, ChainStays
  <2>3. ASSUME Center, Chain # <<>>, Forces(Last(Chain)) PROVE Begins(resp', Last(Chain))
    <3>1. strategies = Chain /\ k <= Len(strategies) + 1
      BY <2>1, <2>3 DEF Topped
    <3>2. k > 1 /\ strategies[k - 1] = Last(Chain)
      <4>1. PICK T : strategies \in Seq(T)
        BY <1>1 DEF AreStrategies
      <4>2. Len(strategies) \in Nat \ {0} /\ k - 1 = Len(strategies)
        BY <1>1, <2>1, <2>3, <3>1, <4>1
      <4> QED BY <1>1, <3>1, <4>2 DEF Last
    <3>3. Begins(list, Last(Chain))
      BY <2>1, <2>3, <3>2 DEF Topped
    <3>4. list # <<>> /\ Head(list).id \in Ids(pool[Last(Chain).rules[1].recall])
      BY <3>3 DEF Begins
    <3>5. resp' # <<>> /\ Head(resp') = Head(list)
      BY <1>1, <2>1, <3>4, CapBegins
    <3> QED BY <3>4, <3>5 DEF Begins
  <2>4. Center' /\ Chain' # <<>> /\ Forces(Last(Chain))' => Begins(resp, Last(Chain))'
    BY <2>1, <2>2, <2>3 DEF Forces, Begins
  <2> QED BY <1>2, <2>1, <2>4 DEF Topped
<1>10. CASE Stub
  <2>1. pc = "stub" /\ UNCHANGED request /\ pc' \in {"answered", "failed"}
    BY <1>10 DEF Stub, Answer, Fail, request
  <2>2. Row' = Row /\ Row = <<>>
    BY <2>1, ChainStays DEF Eligible
  <2> QED BY <1>2, <2>1, <2>2 DEF Topped, Answered
<1>11. CASE UNCHANGED vars
  <2>1. UNCHANGED <<pc, request, pool, strategies, k, list, resp>>
    BY <1>11 DEF vars
  <2>2. Chain' = Chain /\ Center' = Center /\ Row' = Row
    BY <2>1, ChainStays
  <2> QED BY <2>1, <2>2 DEF Topped, Answered, Forces, Begins
<1> QED
  BY <1>3, <1>4, <1>5, <1>6, <1>7, <1>8, <1>9, <1>10, <1>11 DEF Next, Work, Ended

\* What an exclusive lane found and the filters let through is on top when the
\* last strategy forces it in first.
THEOREM ForcedItemsShown == Spec => []ForcedShown
BY InitSound, NextSound, InitEligible, NextEligible, InitTopped, NextTopped, ToppedIsForced,
   PTL DEF Spec

-----------------------------------------------------------------------------
(* What rank scored is ahead of what it cut *)

Plain(it) == ~Swapped(it) /\ ~Forced(it)
InFront(s) ==
  \A m, n \in DOMAIN s :
    m < n /\ Plain(s[m]) /\ Plain(s[n]) /\ s[n].id \in DOMAIN scored => s[m].id \in DOMAIN scored
Rearranging == \E n \in DOMAIN strategies : strategies[n].type = "MMRRearrange"

\* rank puts all that it scored in front, and no strategy but MMRRearrange
\* changes the order of what it does not put in
Ranked ==
  /\ pc = "ranked" => \A m, n \in DOMAIN list :
                        m < n /\ list[n].id \in DOMAIN scored => list[m].id \in DOMAIN scored
  /\ pc = "show" /\ ~Rearranging => InFront(list)
  /\ Answered /\ ~Rearranging => InFront(resp)

LEMMA RankedComeFirst == Ranked => ScoredComeFirst
<1> SUFFICES ASSUME Ranked, Answered, ~Rearranging
             PROVE  \A m, n \in DOMAIN resp :
                      m < n /\ Plain(resp[m]) /\ Plain(resp[n]) /\ resp[n].id \in DOMAIN scored
                        => resp[m].id \in DOMAIN scored
  BY DEF ScoredComeFirst, Rearranging, Plain
<1> QED BY DEF Ranked, InFront

\* The front of a list keeps what is in front of what.
LEMMA CapInFront ==
  ASSUME NEW s \in Seq(ItemInfo), NEW n \in Int, InFront(s)
  PROVE  InFront(Cap(s, n))
<1> DEFINE t == Cap(s, n)
<1>1. \A p \in DOMAIN t : p \in DOMAIN s /\ t[p] = s[p]
  BY CapKeepsFront
<1> HIDE DEF t
<1>2. InFront(t)
  BY <1>1 DEF InFront
<1> QED BY <1>2 DEF t

LEMMA InitRanked == Init => Ranked
BY DEF Init, Ranked, Answered

LEMMA NextRanked == Sound /\ Eligible /\ Ranked /\ [Next]_vars => Ranked'
<1> SUFFICES ASSUME Sound, Eligible, Ranked, [Next]_vars PROVE Ranked'
  OBVIOUS
<1>1. /\ Shape /\ list \in Seq(ItemInfo) /\ IsPool(pool) /\ ret \in Int
      /\ pc \in Stages => Row # <<>> /\ Wired
      /\ pc \in Listed => UniqueIds(list)
  BY DEF Sound, Shape, Stages
<1>2. "rank" \in Listed /\ "ranked" \in Stages
  BY DEF Listed, Stages
<1>3. CASE pc' \notin {"ranked", "show", "answered"}
  BY <1>3 DEF Ranked, Answered
<1>4. CASE Filter \/ FunnelFilter
  <2>1. pc' = "answered" => resp' = Cap(<<>>, 0)
    BY <1>4 DEF Filter, FunnelFilter, Answer
  <2>2. pc' = "answered" => InFront(resp)'
    BY <2>1 DEF InFront, Cap
  <2>3. pc' \in {"rank", "answered"}
    BY <1>4 DEF Filter, FunnelFilter, Answer
  <2> QED BY <2>2, <2>3 DEF Ranked, Answered
<1>5. CASE RankMain /\ ~Fail
  <2>1. pc = "rank"
    BY <1>5 DEF RankMain
  <2>2. PICK scores \in Seq([id : ItemIds, score : Int]) :
          UniqueIds(scores) /\ scored' = ScoreOf(scores) /\ list' = ReorderByRank(list, scores)
    BY <1>1, <1>2, <1>5, <2>1, RankReorders
  <2>3. pc' = "ranked"
    BY <1>1, <1>2, <1>5, <2>1, RankReorders
  <2>4. \A m, n \in DOMAIN list' :
          m < n /\ list'[n].id \in Ids(scores) => list'[m].id \in Ids(scores)
    BY <1>1, <1>2, <2>1, <2>2, Reordered
  <2>5. DOMAIN scored' = Ids(scores)
    BY <2>2 DEF ScoreOf
  <2> QED BY <2>3, <2>4, <2>5 DEF Ranked, Answered
<1>6. CASE RankNothing
  <2>1. list' = <<>> /\ pc' = "ranked"
    BY <1>6 DEF RankNothing
  <2> QED BY <2>1 DEF Ranked, Answered
<1>7. CASE ShowBegin
  <2>1. pc = "ranked" /\ pc' = "show" /\ UNCHANGED <<request, scored>>
    BY <1>7 DEF ShowBegin
  <2>2. \A m, n \in DOMAIN list :
          m < n /\ list[n].id \in DOMAIN scored => list[m].id \in DOMAIN scored
    BY <2>1 DEF Ranked
  <2>3. \A p \in DOMAIN list' : p \in DOMAIN list /\ list'[p] = list[p]
    <3>1. CASE Funnel
      <4> DEFINE n == ResolvedShowControl(Row[1], req.ExpIDs)
      <4>1. n \in Int
        BY <1>1, <1>2, <2>1, <3>1, FunnelIsSound
      <4>2. list' = Cap(list, n)
        BY <1>7, <3>1 DEF ShowBegin
      <4> HIDE DEF n
      <4> QED BY <1>1, <4>1, <4>2, CapKeepsFront
    <3>2. CASE ~Funnel
      BY <1>7, <3>2 DEF ShowBegin
    <3> QED BY <3>1, <3>2
  <2>4. InFront(list)'
    BY <2>1, <2>2, <2>3 DEF InFront
  <2> QED BY <2>1, <2>4 DEF Ranked, Answered
<1>8. CASE Show
  <2>1. /\ pc = "show" /\ pc' = pc /\ UNCHANGED <<strategies, pool, scored>>
    BY <1>8 DEF Show, history
  <2>2. (\A it : Plain(it)' <=> Plain(it)) /\ Rearranging' = Rearranging
    BY <2>1 DEF Plain, Forced, Pooled, Rearranging
  <2> SUFFICES ASSUME ~Rearranging PROVE InFront(list)'
    BY <2>1, <2>2 DEF Ranked, Answered
  <2>3. PICK exchange : /\ IsExchange(exchange) /\ IsStrategy(strategies[k])
                        /\ list' \in ApplyStrategy(list, pool, exchange, strategies[k])
    BY <1>1, <1>8, ShowApplies
  <2>4. k \in DOMAIN strategies
    BY <1>1, <1>8, ShowApplies
  <2> DEFINE st == strategies[k]
  <2>5. st.type # "MMRRearrange" /\ \A it : it.recall \in Types(st) => ~Plain(it)
    BY <2>4 DEF Rearranging, Plain, Forced
  <2>6. IsStrategy(st) /\ list' \in ApplyStrategy(list, pool, exchange, st)
    BY <2>3
  <2> HIDE DEF st
  <2>7. Follows(list', list, pool, st)
    BY <1>1, <2>3, <2>5, <2>6, Strategies
  <2>8. PICK from :
          /\ \A n \in DOMAIN list' : /\ from[n] \in 0 .. Len(list)
                                     /\ from[n] = 0 => Strange(list'[n], list, pool, st)
                                     /\ from[n] # 0 => IsAfter(list'[n], list[from[n]], st)
          /\ \A m, n \in DOMAIN list' : m < n /\ from[m] # 0 /\ from[n] # 0 => from[m] < from[n]
    BY <2>7 DEF Follows
  <2>9. \A it : Strange(it, list, pool, st) => ~Plain(it)
    <3> SUFFICES ASSUME NEW it, Strange(it, list, pool, st) PROVE ~Plain(it)
      OBVIOUS
    <3>1. CASE it \in Alternatives
      BY <3>1 DEF Alternatives, Plain, Swapped
    <3>2. CASE \E r \in DOMAIN pool : it \in ToSet(pool[r])
      BY <3>2, IdsOfItems DEF Plain, Forced, Pooled
    <3>3. CASE it.recall \in Named(st)
      BY <2>5, <3>3 DEF Named, Types
    <3> QED BY <3>1, <3>2, <3>3 DEF Strange
  <2>10. \A x, y : Same(x, y) => (Plain(x) <=> Plain(y)) /\ x.id = y.id
    BY DEF Same, Plain, Swapped, Forced
  <2>11. InFront(list)
    BY <2>1 DEF Ranked
  <2>12. ASSUME NEW m \in DOMAIN list', NEW n \in DOMAIN list', m < n,
                Plain(list'[m]), Plain(list'[n]), list'[n].id \in DOMAIN scored
         PROVE  list'[m].id \in DOMAIN scored
    <3>1. from[m] # 0 /\ from[n] # 0
      BY <2>8, <2>9, <2>12
    <3>2. from[m] \in DOMAIN list /\ from[n] \in DOMAIN list /\ from[m] < from[n]
      BY <1>1, <2>8, <2>12, <3>1
    <3>3. Same(list'[m], list[from[m]]) /\ Same(list'[n], list[from[n]])
      BY <2>8, <2>12, <3>1 DEF IsAfter
    <3> QED BY <2>10, <2>11, <2>12, <3>2, <3>3 DEF InFront
  <2> QED BY <2>1, <2>2, <2>12 DEF InFront
<1>9. CASE Respond
  <2>1. /\ pc = "show" /\ pc' = "answered" /\ resp' = Cap(list, ret)
        /\ UNCHANGED <<strategies, pool, scored>>
    BY <1>9 DEF Respond, Answer, history
  <2>2. (\A it : Plain(it)' <=> Plain(it)) /\ Rearranging' = Rearranging
    BY <2>1 DEF Plain, Forced, Pooled, Rearranging
  <2>3. ~Rearranging => InFront(resp')
    BY <1>1, <2>1, CapInFront DEF Ranked
  <2>4. ~Rearranging => InFront(resp)'
    BY <2>1, <2>2, <2>3 DEF InFront
  <2> QED BY <2>1, <2>2, <2>4 DEF Ranked
<1>10. CASE Stub
  <2>1. pc = "stub" /\ UNCHANGED request /\ pc' \in {"answered", "failed"}
    BY <1>10 DEF Stub, Answer, Fail, request
  <2>2. Row' = Row /\ Row = <<>>
    BY <2>1, ChainStays DEF Eligible
  <2> QED BY <2>1, <2>2 DEF Ranked, Answered
<1>11. CASE UNCHANGED vars
  <2>1. UNCHANGED <<pc, request, pool, strategies, list, resp, scored>>
    BY <1>11 DEF vars, history
  <2>2. Row' = Row /\ Rearranging' = Rearranging /\ (\A it : Plain(it)' <=> Plain(it))
    BY <2>1, ChainStays DEF Plain, Forced, Pooled, Rearranging
  <2> QED BY <2>1, <2>2 DEF Ranked, Answered, InFront
<1>12. (Boot \/ Resolve \/ ExclusiveLane \/ ExclusiveEnd \/ RecallLane \/ Merge \/ Fail)
       => pc' \notin {"ranked", "show", "answered"}
  BY DEF Boot, Resolve, ExclusiveLane, ExclusiveEnd, RecallLane, Merge, Fail
<1> QED
  BY <1>3, <1>4, <1>5, <1>6, <1>7, <1>8, <1>9, <1>10, <1>11, <1>12 DEF Next, Work, Ended

\* What rank cut never gets ahead of what it scored.
THEOREM ScoredAreFirst == Spec => []ScoredComeFirst
BY InitSound, NextSound, InitEligible, NextEligible, InitRanked, NextRanked, RankedComeFirst,
   PTL DEF Spec

-----------------------------------------------------------------------------
(* The scores that are logged *)

\* The score of a recall type after each strategy of the chain.
LEMMA BoostedStep ==
  ASSUME NEW chain, AreStrategies(chain), NEW recall, NEW score \in Int
  PROVE  LET f == Boosted(chain, recall, score)
         IN  /\ f[0] = score
             /\ \A n \in DOMAIN chain :
                  f[n] = IF Boosts(chain[n], recall) THEN f[n - 1] * chain[n].factor ELSE f[n - 1]
<1> DEFINE L == Len(chain)
           After(n, x) == IF Boosts(chain[n], recall) THEN x * chain[n].factor ELSE x
           step == [p \in (1 .. L) \X Int |-> After(p[1], p[2])]
           Round(g) == [n \in 0 .. L |->
                          IF n = 0 THEN score
                          ELSE LET st == chain[n]
                               IN  IF st.type = "ScoreControl" /\ st.method = "RecallType" /\ st.factor > 0
                                        /\ recall \in st.recalls
                                     THEN g[n - 1] * st.factor ELSE g[n - 1]]
           f == CHOOSE g : g = Round(g)
<1>1. Boosted(chain, recall, score) = f
  BY DEF Boosted
<1>2. L \in Nat /\ DOMAIN chain = 1 .. L
  <2>1. PICK T : chain \in Seq(T)
    BY DEF AreStrategies
  <2> QED BY <2>1
<1>3. \A n \in 1 .. L, x \in Int : After(n, x) \in Int
  <2>1. \A n \in 1 .. L : Boosts(chain[n], recall) => chain[n].factor \in Int
    BY <1>2 DEF AreStrategies, IsStrategy, Boosts
  <2> QED BY <2>1
<1>4. \A g : Round(g) = [n \in 0 .. L |-> IF n = 0 THEN score ELSE After(n, g[n - 1])]
  BY DEF Boosts
<1> HIDE DEF L, After, Round
<1>5. step \in [(1 .. L) \X Int -> Int]
  <2>1. \A p \in (1 .. L) \X Int : p[1] \in 1 .. L /\ p[2] \in Int
    OBVIOUS
  <2> QED BY <1>3, <2>1
<1>6. \A n \in 1 .. L, x \in Int : step[<<n, x>>] = After(n, x)
  OBVIOUS
<1> HIDE DEF step
<1>7. PICK g : IsLoop(g, L, score, step)
  BY <1>2, <1>5, LoopFunction
<1>8. Runs(g, L, Int, score, step)
  BY <1>2, <1>5, <1>7, LoopStays
<1>9. /\ g \in [0 .. L -> Int] /\ g[0] = score
      /\ \A n \in 1 .. L : g[n] = After(n, g[n - 1])
  <2>1. g \in [0 .. L -> Int] /\ g[0] = score /\ \A n \in 1 .. L : g[n] = step[<<n, g[n - 1]>>]
    BY <1>8 DEF Runs
  <2>2. \A n \in 1 .. L : n - 1 \in 0 .. L
    BY <1>2
  <2> QED BY <1>6, <2>1, <2>2
<1>10. g = [n \in 0 .. L |-> IF n = 0 THEN score ELSE After(n, g[n - 1])]
  <2>1. \A n \in 0 .. L : g[n] = IF n = 0 THEN score ELSE After(n, g[n - 1])
    BY <1>2, <1>9
  <2>2. g = [n \in 0 .. L |-> g[n]]
    BY <1>9
  <2> QED BY <2>1, <2>2
<1>11. f = [n \in 0 .. L |-> IF n = 0 THEN score ELSE After(n, f[n - 1])]
  <2>1. g = Round(g)
    BY <1>4, <1>10
  <2>2. f = Round(f)
    BY <2>1
  <2> QED BY <1>4, <2>2
<1> HIDE DEF f
<1>12. f[0] = score /\ \A n \in 1 .. L : f[n] = After(n, f[n - 1])
  BY <1>2, <1>11
<1> QED BY <1>1, <1>2, <1>12 DEF After

\* The score rank gave an item is the one that is counted for it, 0 if it gave
\* none.
LEMMA ScoreIsCounted ==
  ASSUME NEW scores \in Seq([id : ItemIds, score : Int]), UniqueIds(scores)
  PROVE  /\ \A sc \in ToSet(scores) : Count(ScoreOf(scores), sc.id) = sc.score
         /\ \A id : id \notin Ids(scores) => Count(ScoreOf(scores), id) = 0
         /\ \A id : Count(ScoreOf(scores), id) \in Int
<1> DEFINE f == ScoreOf(scores)
<1>1. DOMAIN f = Ids(scores) /\ Ids(scores) = {sc.id : sc \in ToSet(scores)}
  BY IdsOfItems DEF ScoreOf
<1>2. \A sc \in ToSet(scores) : sc.score \in Int
  <2> DEFINE S == [id : ItemIds, score : Int]
  <2>1. scores \in Seq(S) /\ \A sc \in S : sc.score \in Int
    OBVIOUS
  <2> HIDE DEF S
  <2>2. \A p \in DOMAIN scores : scores[p] \in S
    BY <2>1
  <2> QED BY <2>1, <2>2 DEF ToSet
<1>3. ASSUME NEW sc \in ToSet(scores) PROVE f[sc.id] = sc.score
  <2>1. \A x \in ToSet(scores) : x.id = sc.id => x = sc
    BY <1>3 DEF ToSet, UniqueIds
  <2>2. (CHOOSE x \in ToSet(scores) : x.id = sc.id) = sc
    BY <1>3, <2>1
  <2>3. f[sc.id] = (CHOOSE x \in ToSet(scores) : x.id = sc.id).score
    BY <1>1, <1>3 DEF ScoreOf
  <2> QED BY <2>2, <2>3
<1> HIDE DEF f
<1> QED BY <1>1, <1>2, <1>3 DEF f, Count

\* it has the score rank gave it after n strategies, or was never scored
Tallies(it, n) ==
  ~Swapped(it) =>
    \/ it.score = Boosted(strategies, it.recall, Count(scored, it.id))[n]
    \/ it.score = 0 /\ it.id \in Pooled

\* nothing has a score before rank; rank scores the list; then every strategy
\* changes scores as ScoreControl says and puts in what was never scored
Scored ==
  /\ \A r \in DOMAIN pool : \A it \in ToSet(pool[r]) : it.score = 0
  /\ \A b \in DOMAIN batches : \A it \in ToSet(batches[b]) : it.score = 0
  /\ pc \in {"filter", "rank"} => \A it \in ToSet(list) : it.score = 0
  /\ pc \in Stages \cup {"boot", "start"} => \A id : Count(scored, id) \in Int
  /\ pc = "ranked" => \A it \in ToSet(list) : it.score = Count(scored, it.id)
  /\ pc = "show" => \A it \in ToSet(list) : Tallies(it, k - 1)
  /\ Answered => \A r \in DOMAIN log : \A it \in ToSet(log[r]) : Tallies(it, Len(strategies))

LEMMA ScoredSurvives == Scored => ScoresSurvive
BY DEF Scored, ScoresSurvive, Tallies

LEMMA InitScored == Init => Scored
<1> SUFFICES ASSUME Init PROVE Scored
  OBVIOUS
<1>1. pc = "boot" /\ DOMAIN pool = {} /\ batches = <<>> /\ scored = NoCounts
  BY DEF Init
<1>2. \A id : Count(scored, id) = 0
  BY <1>1 DEF Count, NoCounts
<1> QED BY <1>1, <1>2 DEF Scored, Answered

\* Before rank nothing changes what it will count.
LEMMA UnscoredStays ==
  ASSUME Scored, pc \in {"boot", "start", "exclusive", "main", "filter"},
         UNCHANGED scored, pc' \notin {"ranked", "show"},
         Answered' => log' = <<>> \/ log' = <<Cap(<<>>, LogCap)>>,
         \A r \in DOMAIN pool' : \A it \in ToSet(pool'[r]) : it.score = 0,
         \A b \in DOMAIN batches' : \A it \in ToSet(batches'[b]) : it.score = 0,
         pc' \in {"filter", "rank"} => \A it \in ToSet(list') : it.score = 0
  PROVE  Scored'
<1>1. \A id : Count(scored, id) \in Int
  BY DEF Scored, Stages
<1>2. Cap(<<>>, LogCap) = <<>>
  BY DataAssumption DEF Cap
<1>3. Answered' => \A r \in DOMAIN log' : log'[r] = <<>>
  BY <1>2
<1>4. Answered' => \A r \in DOMAIN log' : ToSet(log'[r]) = {}
  BY <1>3 DEF ToSet
<1> QED BY <1>1, <1>4 DEF Scored

LEMMA NextScored == Sound /\ Eligible /\ Silent /\ Topped /\ Scored /\ [Next]_vars => Scored'
<1> SUFFICES ASSUME Sound, Eligible, Silent, Topped, Scored, [Next]_vars PROVE Scored'
  OBVIOUS
<1>1. /\ Shape
      /\ pc \in Stages => Row # <<>> /\ Wired
      /\ pc \in Listed => UniqueIds(list)
      /\ list \in Seq(ItemInfo) /\ IsPool(pool) /\ batches \in Seq(Seq(ItemInfo)) /\ ret \in Int
      /\ AreStrategies(strategies)
  BY DEF Sound, Shape, Stages
<1>2. /\ Stages = {"exclusive", "main"} \cup Listed
      /\ Listed = {"filter", "rank", "ranked", "show"}
  BY DEF Stages, Listed
<1>3. /\ \A r \in DOMAIN pool : \A it \in ToSet(pool[r]) : it.score = 0
      /\ \A b \in DOMAIN batches : \A it \in ToSet(batches[b]) : it.score = 0
  BY DEF Scored
<1>4. \A raw : IsRecalled(raw) => \A it \in ToSet(raw) : it.score = 0
  BY DEF IsRecalled, ToSet
<1>5. CASE Boot \/ Resolve \/ ExclusiveEnd
  <2>1. /\ pc \in {"boot", "start", "exclusive"} /\ UNCHANGED <<scored, pool, batches>>
        /\ pc' \in {"refused", "start", "stub", "main", "exclusive"}
    BY <1>5 DEF Boot, Resolve, ExclusiveEnd, history
  <2> QED BY <1>3, <2>1, UnscoredStays DEF Answered
<1>6. CASE Fail
  <2>1. pc' = "failed" /\ UNCHANGED <<pool, batches>>
    BY <1>6 DEF Fail
  <2> QED BY <1>2, <1>3, <2>1 DEF Scored, Answered
<1>7. CASE ExclusiveLane
  <2>1. /\ pc = "exclusive" /\ pc' = pc /\ UNCHANGED <<batches, scored>>
    BY <1>7 DEF ExclusiveLane
  <2>2. \/ pool' = pool
        \/ \E type, raw, batch : /\ IsRecalled(raw) /\ ToSet(batch) \subseteq ToSet(raw)
                                 /\ PoolGrows(type, batch)
    BY <1>1, <1>2, <1>7, <2>1, LaneFillsPool
  <2>3. \A r \in DOMAIN pool' : \A it \in ToSet(pool'[r]) : it.score = 0
    <3>1. CASE pool' = pool
      BY <1>3, <3>1
    <3>2. ASSUME NEW type, NEW raw, NEW batch,
                 IsRecalled(raw), ToSet(batch) \subseteq ToSet(raw), PoolGrows(type, batch)
          PROVE  \A r \in DOMAIN pool' : \A it \in ToSet(pool'[r]) : it.score = 0
      <4>1. \A r \in DOMAIN pool' : pool'[r] = batch \/ (r \in DOMAIN pool /\ pool'[r] = pool[r])
        BY <3>2 DEF PoolGrows
      <4> QED BY <1>3, <1>4, <3>2, <4>1
    <3> QED BY <2>2, <3>1, <3>2
  <2> QED BY <1>3, <2>1, <2>3, UnscoredStays DEF Answered
<1>8. CASE RecallLane /\ ~Fail
  <2>1. pc = "main"
    BY <1>8 DEF RecallLane
  <2>2. PICK raw, batch :
          /\ IsRecalled(raw) /\ batches' = Append(batches, batch)
          /\ batch \in Seq(ItemInfo) /\ ToSet(batch) \subseteq ToSet(raw)
          /\ UNCHANGED <<pc, pool, scored>>
    BY <1>1, <1>2, <1>8, <2>1, LaneFillsBatch
  <2>3. \A b \in DOMAIN batches' : batches'[b] = batch \/ (b \in DOMAIN batches /\ batches'[b] = batches[b])
    <3> DEFINE S == Seq(ItemInfo)
    <3>1. batches \in Seq(S) /\ batch \in S
      BY <1>1, <2>2
    <3> HIDE DEF S
    <3> QED BY <2>2, <3>1
  <2>4. \A b \in DOMAIN batches' : \A it \in ToSet(batches'[b]) : it.score = 0
    BY <1>3, <1>4, <2>2, <2>3
  <2> QED BY <1>3, <2>1, <2>2, <2>4, UnscoredStays DEF Answered
<1>9. CASE Merge
  <2>1. /\ pc = "main" /\ pc' = "filter" /\ list' = MergeRecallLanes(batches, Row[1].AllMergeNum)
        /\ UNCHANGED <<pool, batches, scored>>
    BY <1>9 DEF Merge, history
  <2>2. Row[1].AllMergeNum \in Int
    BY <1>1, <1>2, <2>1, RowIsSound DEF IsRecallRow
  <2>3. \A it \in ToSet(list') : \E b \in DOMAIN batches : it \in ToSet(batches[b])
    BY <1>1, <2>1, <2>2, Merged
  <2>4. \A it \in ToSet(list') : it.score = 0
    BY <1>3, <2>3
  <2> QED BY <1>3, <2>1, <2>4, UnscoredStays DEF Answered
<1>10. CASE Filter \/ FunnelFilter
  <2>1. /\ pc = "filter" /\ pc' \in {"answered", "rank"} /\ UNCHANGED <<batches, scored>>
    BY <1>10 DEF Filter, FunnelFilter, Answer
  <2>2. log = <<>> /\ \A it \in ToSet(list) : it.score = 0
    BY <2>1 DEF Silent, Scored
  <2>3. pc' = "answered" => log' = <<>> \/ log' = <<Cap(<<>>, LogCap)>>
    <3>1. Append(<<>>, Cap(<<>>, LogCap)) = <<Cap(<<>>, LogCap)>>
      OBVIOUS
    <3> QED BY <1>10, <2>2, <3>1 DEF Filter, FunnelFilter, Answer, PushAlgoLog, MaterialList
  <2>4. /\ ToSet(list') \subseteq ToSet(list)
        /\ \A r \in DOMAIN pool' : r \in DOMAIN pool /\ ToSet(pool'[r]) \subseteq ToSet(pool[r])
    <3>1. CASE Filter
      BY <1>1, <1>2, <2>1, <3>1, FilterKeeps
    <3>2. CASE FunnelFilter
      <4>1. pool' = pool
        BY <3>2 DEF FunnelFilter
      <4> QED BY <1>1, <1>2, <2>1, <3>2, <4>1, FunnelKeeps
    <3> QED BY <1>10, <3>1, <3>2
  <2> QED BY <1>3, <2>1, <2>2, <2>3, <2>4, UnscoredStays DEF Answered
<1>11. CASE RankMain /\ ~Fail
  <2>1. pc = "rank"
    BY <1>11 DEF RankMain
  <2>2. PICK scores \in Seq([id : ItemIds, score : Int]) :
          UniqueIds(scores) /\ scored' = ScoreOf(scores) /\ list' = ReorderByRank(list, scores)
    BY <1>1, <1>2, <1>11, <2>1, RankReorders
  <2>3. pc' = "ranked" /\ UNCHANGED <<pool, batches>>
    BY <1>1, <1>2, <1>11, <2>1, RankReorders
  <2>4. \A it \in ToSet(list') : IsScored(it, list, scores)
    BY <1>1, <1>2, <2>1, <2>2, Reordered
  <2>5. /\ \A sc \in ToSet(scores) : Count(scored', sc.id) = sc.score
        /\ \A id : id \notin Ids(scores) => Count(scored', id) = 0
        /\ \A id : Count(scored', id) \in Int
    BY <2>2, ScoreIsCounted
  <2>6. \A it \in ToSet(list) : it.score = 0
    BY <2>1 DEF Scored
  <2>7. \A it \in ToSet(list') : it.score = Count(scored', it.id)
    BY <2>4, <2>5, <2>6 DEF IsScored
  <2> QED BY <1>3, <2>3, <2>5, <2>7 DEF Scored, Answered
<1>12. CASE RankNothing
  <2>1. /\ pc = "rank" /\ pc' = "ranked" /\ list' = <<>> /\ UNCHANGED <<pool, batches, scored>>
    BY <1>12 DEF RankNothing, history
  <2>2. \A id : Count(scored, id) \in Int
    BY <1>2, <2>1 DEF Scored
  <2>3. ToSet(list') = {}
    BY <2>1 DEF ToSet
  <2> QED BY <1>3, <2>1, <2>2, <2>3 DEF Scored, Answered
<1>13. CASE ShowBegin
  <2>1. pc = "ranked" /\ pc' = "show" /\ k' = 1 /\ UNCHANGED <<pool, batches, scored>>
    BY <1>13 DEF ShowBegin
  <2>2. /\ \A it \in ToSet(list) : it.score = Count(scored, it.id)
        /\ \A id : Count(scored, id) \in Int
    BY <1>2, <2>1 DEF Scored
  <2>3. ToSet(list') \subseteq ToSet(list)
    <3>1. CASE Funnel
      <4> DEFINE n == ResolvedShowControl(Row[1], req.ExpIDs)
      <4>1. n \in Int
        BY <1>1, <1>2, <2>1, <3>1, FunnelIsSound
      <4>2. list' = Cap(list, n)
        BY <1>13, <3>1 DEF ShowBegin
      <4> HIDE DEF n
      <4> QED BY <1>1, <4>1, <4>2, CapHasItems
    <3>2. CASE ~Funnel
      BY <1>13, <3>2 DEF ShowBegin
    <3> QED BY <3>1, <3>2
  <2>4. AreStrategies(strategies')
    BY <1>13, NextSound DEF Sound, Shape
  <2>5. ASSUME NEW it \in ToSet(list') PROVE Tallies(it, k - 1)'
    <3>1. it.score = Count(scored, it.id) /\ Count(scored, it.id) \in Int
      BY <2>2, <2>3, <2>5
    <3>2. Boosted(strategies', it.recall, Count(scored, it.id))[0] = Count(scored, it.id)
      BY <2>4, <3>1, BoostedStep
    <3>3. k' - 1 = 0 /\ scored' = scored
      BY <2>1
    <3> QED BY <3>1, <3>2, <3>3 DEF Tallies
  <2> QED BY <1>3, <2>1, <2>2, <2>5 DEF Scored, Answered
<1>14. CASE Show
  <2>1. /\ pc = "show" /\ pc' = pc /\ k' = k + 1 /\ UNCHANGED <<strategies, pool, batches, scored>>
    BY <1>14 DEF Show, history
  <2>2. /\ \A it \in ToSet(list) : Tallies(it, k - 1)
        /\ \A id : Count(scored, id) \in Int
    BY <1>2, <2>1 DEF Scored
  <2>3. /\ k \in DOMAIN strategies /\ k \in Nat /\ k' - 1 = k
    BY <1>1, <1>14, <2>1, ShowApplies DEF Shape
  <2>4. PICK exchange : /\ IsExchange(exchange) /\ IsStrategy(strategies[k])
                        /\ list' \in ApplyStrategy(list, pool, exchange, strategies[k])
    BY <1>1, <1>14, ShowApplies
  <2> DEFINE st == strategies[k]
  <2>5. IsStrategy(st) /\ list' \in ApplyStrategy(list, pool, exchange, st)
    BY <2>4
  <2>6. ASSUME NEW recall, NEW score \in Int
        PROVE  LET f == Boosted(strategies, recall, score)
               IN  f[k] = IF Boosts(st, recall) THEN f[k - 1] * st.factor ELSE f[k - 1]
    BY <1>1, <2>3, <2>6, BoostedStep
  <2> HIDE DEF st
  <2>7. /\ st.type = "MMRRearrange" => ToSet(list') \subseteq ToSet(list)
        /\ st.type # "MMRRearrange" => Follows(list', list, pool, st)
    BY <1>1, <2>4, <2>5, Strategies
  <2>8. ASSUME NEW it \in ToSet(list')
        PROVE  \/ Swapped(it)
               \/ \E x \in ToSet(list) : IsAfter(it, x, st)
               \/ \E r \in DOMAIN pool : it \in ToSet(pool[r])
    <3>1. CASE st.type = "MMRRearrange"
      BY <2>7, <2>8, <3>1 DEF IsAfter, Same, Boosts
    <3>2. CASE st.type # "MMRRearrange"
      <4>1. PICK n \in DOMAIN list' : it = list'[n]
        BY <2>8 DEF ToSet
      <4>2. PICK from : /\ from[n] \in 0 .. Len(list)
                        /\ from[n] = 0 => Strange(list'[n], list, pool, st)
                        /\ from[n] # 0 => IsAfter(list'[n], list[from[n]], st)
        BY <2>7, <3>2, <4>1 DEF Follows
      <4>3. CASE from[n] = 0
        <5>1. CASE it \in Alternatives
          BY <5>1 DEF Alternatives, Swapped
        <5>2. CASE it \in ToSet(list) /\ it.recall \in Named(st)
          BY <5>2 DEF Named, IsAfter, Same, Boosts
        <5> QED BY <4>1, <4>2, <4>3, <5>1, <5>2 DEF Strange
      <4>4. CASE from[n] # 0
        <5>1. from[n] \in DOMAIN list
          BY <1>1, <4>2, <4>4
        <5> QED BY <4>1, <4>2, <4>4, <5>1 DEF ToSet
      <4> QED BY <4>3, <4>4
    <3> QED BY <3>1, <3>2
  <2>9. ASSUME NEW it \in ToSet(list') PROVE Tallies(it, k)
    <3>1. CASE Swapped(it)
      BY <3>1 DEF Tallies
    <3>2. ASSUME NEW r \in DOMAIN pool, it \in ToSet(pool[r]) PROVE Tallies(it, k)
      BY <1>3, <3>2, IdsOfItems DEF Tallies, Pooled
    <3>3. ASSUME NEW x \in ToSet(list), IsAfter(it, x, st), ~Swapped(it) PROVE Tallies(it, k)
      <4> DEFINE f == Boosted(strategies, it.recall, Count(scored, it.id))
      <4>1. it.recall = x.recall /\ it.id = x.id /\ ~Swapped(x)
        BY <3>3 DEF IsAfter, Same, Swapped
      <4>2. f[k] = IF Boosts(st, it.recall) THEN f[k - 1] * st.factor ELSE f[k - 1]
        BY <2>2, <2>6
      <4>3. x.score = f[k - 1] \/ (x.score = 0 /\ x.id \in Pooled)
        BY <2>2, <4>1 DEF Tallies
      <4>4. it.score = IF Boosts(st, it.recall) THEN x.score * st.factor ELSE x.score
        BY <3>3, <4>1 DEF IsAfter
      <4> HIDE DEF f
      <4>5. CASE x.score = f[k - 1]
        <5>1. it.score = f[k]
          BY <4>2, <4>4, <4>5
        <5> QED BY <5>1 DEF Tallies, f
      <4>6. CASE x.score = 0 /\ x.id \in Pooled
        <5>1. Boosts(st, it.recall) => st.factor \in Int
          BY <2>4, <2>5 DEF Boosts, IsStrategy
        <5>2. it.score = 0
          BY <4>4, <4>6, <5>1
        <5> QED BY <4>1, <4>6, <5>2 DEF Tallies
      <4> QED BY <4>3, <4>5, <4>6
    <3> QED BY <2>8, <2>9, <3>1, <3>2, <3>3
  <2>10. \A it \in ToSet(list') : Tallies(it, k - 1)'
    BY <2>1, <2>3, <2>9 DEF Tallies, Pooled
  <2> QED BY <1>3, <2>1, <2>2, <2>10 DEF Scored, Answered
<1>15. CASE Respond
  <2>1. /\ pc = "show" /\ pc' = "answered" /\ k > Len(strategies) /\ PushAlgoLog(list)
        /\ UNCHANGED <<strategies, pool, batches, scored>>
    BY <1>15 DEF Respond, Answer, history
  <2>2. \A it \in ToSet(list) : Tallies(it, k - 1)
    BY <2>1 DEF Scored
  <2>3. k - 1 = Len(strategies)
    <3>1. PICK T : strategies \in Seq(T)
      BY <1>1 DEF AreStrategies
    <3>2. k <= Len(strategies) + 1 /\ k \in Nat
      BY <1>1, <2>1 DEF Topped, Shape
    <3> QED BY <2>1, <3>1, <3>2
  <2> DEFINE t == Cap(list, LogCap)
  <2>4. ToSet(t) \subseteq ToSet(list)
    BY <1>1, DataAssumption, CapHasItems
  <2>5. log = <<>>
    BY <2>1 DEF Silent
  <2>6. log' = <<>> \/ log' = Append(<<>>, t)
    BY <2>1, <2>5 DEF PushAlgoLog, MaterialList
  <2> HIDE DEF t
  <2>7. \A r \in DOMAIN log' : log'[r] = t
    BY <2>6
  <2>8. \A r \in DOMAIN log' : \A it \in ToSet(log'[r]) : Tallies(it, Len(strategies))
    BY <2>2, <2>3, <2>4, <2>7
  <2>9. \A r \in DOMAIN log' : \A it \in ToSet(log'[r]) : Tallies(it, Len(strategies))'
    BY <2>1, <2>8 DEF Tallies, Pooled
  <2> QED BY <1>2, <1>3, <2>1, <2>9 DEF Scored
<1>16. CASE Stub
  <2>1. pc = "stub" /\ UNCHANGED <<request, pool, batches>> /\ pc' \in {"answered", "failed"}
    BY <1>16 DEF Stub, Answer, Fail
  <2>2. Row' = Row /\ Row = <<>>
    BY <2>1, ChainStays DEF Eligible
  <2> QED BY <1>2, <1>3, <2>1, <2>2 DEF Scored, Answered
<1>17. CASE UNCHANGED vars
  <2>1. UNCHANGED <<pc, request, pool, batches, strategies, k, list, log, scored>>
    BY <1>17 DEF vars, history
  <2>2. Row' = Row
    BY <2>1, ChainStays
  <2> QED BY <2>1, <2>2 DEF Scored, Answered, Tallies, Pooled
<1> QED
  BY <1>5, <1>6, <1>7, <1>8, <1>9, <1>10, <1>11, <1>12, <1>13, <1>14, <1>15, <1>16, <1>17
     DEF Next, Work, Ended

\* The score in the log is the one rank gave, times the factors of ScoreControl.
THEOREM LoggedScoresSurvive == Spec => []ScoresSurvive
BY InitSound, NextSound, InitEligible, NextEligible, InitSilent, NextSilent, InitTopped, NextTopped,
   InitScored, NextScored, ScoredSurvives, PTL DEF Spec
=============================================================================
