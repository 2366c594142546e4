--------------------------- MODULE CenterPipeline ---------------------------
(***************************************************************************)
(* recommend from its start to the end of one request (Recommend.Handle),  *)
(* in center mode (pipeline.Center.Run), in funnel mode (handleFunnel) or  *)
(* without either: resolution, the exclusive lanes, the main lanes, merge, *)
(* exposure and filters, rank, the show strategies, the response and its   *)
(* algorithm log.  Every read of Redis and every answer of the rank        *)
(* service is a choice made when the code asks, so what one step read may  *)
(* be stale or contradicted at a later one.  A request shares nothing with *)
(* another but the balancer of Upstream and the queue of KafkaPool.        *)
(***************************************************************************)
EXTENDS ShowControl, ServiceWiring

CONSTANTS
  Configs,       \* the yaml and the files it names
  Environments,  \* the variables of the environment
  Requests,      \* [ExpIDs, UserGroup, RetCount]
  LaneLists,     \* recall type -> the lists Redis or the stub may have for it
  UnknownTypes,  \* recall types no stub is written for
  PortraitSets,  \* the ids that may have a portrait at a read
  Exposures,     \* the exposure maps that may be read, id -> count
  Exchanges,     \* the homogen exchange maps that may be read
  RankCuts,      \* the truncations of the rank service (0: none)
  RankScores,    \* the scores it may give, id -> score
  StubItems,     \* the ids ranked when no row is found
  LogCap         \* entries of the log's material list: 18 in the code

ASSUME RequestsAssumption == \A r \in Requests : r.ExpIDs \in Seq(Int) /\ r.RetCount \in Int

\* recall does not score what it finds
IsRecalled(s) == s \in Seq(ItemInfo) /\ \A n \in DOMAIN s : s[n].score = 0

ASSUME DataAssumption ==
  /\ \A type \in DOMAIN LaneLists : \A s \in LaneLists[type] : IsRecalled(s)
  /\ IsRecalled(StubItems) /\ UniqueIds(StubItems)
  /\ \A exchange \in Exchanges : IsExchange(exchange)
  /\ RankCuts \subseteq Int /\ RankScores \subseteq [ItemIds -> Int] /\ LogCap \in Int

\* what the files of each layer have in their rows
IsRule(rule) ==
  /\ rule.RecallType \in DOMAIN LaneLists
  /\ {rule.RecallNum, rule.MergeMaxNum, rule.UseTopKIndex, rule.SampleFold} \subseteq Int
AreRules(rules) == rules \in Seq(ToSet(rules)) /\ \A n \in DOMAIN rules : IsRule(rules[n])
IsVariants(ab) == ab \in Seq(ToSet(ab))
IsRecallRow(row) ==
  /\ row.AllMergeNum \in Int /\ row.FinalRetCount \in Int
  /\ AreRules(row.exclusive) /\ AreRules(row.main)
  /\ IsVariants(row.RecallAb)
  /\ \A v \in ToSet(row.RecallAb) : AreRules(v.exclusive) /\ AreRules(v.main)
AreLimits(rules) == \A n \in DOMAIN rules : rules[n].type = "LiveExposure" => rules[n].limit \in Int
IsFilterRow(row) ==
  /\ row.KeepItemNum \in Int /\ AreLimits(row.rules)
  /\ IsVariants(row.FilterAb) /\ \A v \in ToSet(row.FilterAb) : AreLimits(v.rules)
IsShowRow(row) ==
  /\ AreStrategies(row.StrategyList)
  /\ IsVariants(row.ShowAb) /\ \A v \in ToSet(row.ShowAb) : AreStrategies(v.StrategyList)
AreBackoffs(policies) ==
  \A n \in DOMAIN policies : policies[n].type = "exposure_backoff" => policies[n].after \in Int
IsFunnelRow(row) ==
  /\ IsRecallRow(row) /\ row.MaxItems \in Int /\ AreBackoffs(row.FilterPolicies)
  /\ IsVariants(row.ShowAb) /\ \A v \in ToSet(row.ShowAb) : v.MaxItems \in Int
  /\ IsVariants(row.FilterAb) /\ \A v \in ToSet(row.FilterAb) : AreBackoffs(v.FilterPolicies)
Rows(path) == UNION {ToSet(Library(path)[b].rows) : b \in DOMAIN Library(path)}

ASSUME ConfigsAssumption ==
  \A c \in Configs :
    /\ {"CenterRecall", "CenterFilter", "CenterShow", "Funnel"} \subseteq DOMAIN c
    /\ \A row \in Rows(c.CenterRecall) : IsRecallRow(row)
    /\ \A row \in Rows(c.CenterFilter) : IsFilterRow(row)
    /\ \A row \in Rows(c.CenterShow) : IsShowRow(row)
    /\ \A row \in Rows(c.Funnel) : IsFunnelRow(row)

VARIABLES
  pc, svc, req,
  group,       \* rctx.UserGroup
  strategies,  \* the show strategies of the request
  k,           \* index of the next lane or strategy
  pool,        \* exclusive pool: recall type -> items
  batches,     \* what the main lanes returned
  exposure,    \* rctx.Exposure
  list,        \* the main list, merged, filtered, ranked, shown
  ret,         \* the cap of the response
  resp, log,   \* the response, and the logs pushed
  served,      \* history: layer -> the group of the row it served
  vouched,     \* history: ids some lane found a portrait for
  scored       \* history: id -> the score rank gave it

request == <<svc, req, group>>
history == <<served, vouched, scored>>
vars == <<pc, request, strategies, k, pool, batches, exposure, list, ret, resp, log, history>>

NoCounts == [id \in {} |-> 0]
NoService ==
  [hasRank |-> FALSE, features |-> FALSE, mode |-> "stub", logs |-> FALSE,
   recall |-> "", filter |-> "", show |-> "", funnel |-> ""]

Init ==
  /\ pc = "boot" /\ svc = NoService
  /\ req = [ExpIDs |-> <<>>, UserGroup |-> "", RetCount |-> 0] /\ group = ""
  /\ strategies = <<>> /\ k = 1
  /\ pool = [r \in {} |-> <<>>] /\ batches = <<>> /\ exposure = NoCounts
  /\ list = <<>> /\ ret = 0 /\ resp = <<>> /\ log = <<>>
  /\ served = [layer \in {} |-> ""] /\ vouched = {} /\ scored = NoCounts

\* main: the service is wired and starts, or ends; Redis is pinged when it is
\* not disabled
Boot ==
  /\ pc = "boot"
  /\ \E c \in Configs, env \in Environments :
       LET conf == ApplyEnvOverrides(c, env)
       IN  \E fetch \in IF conf.Disabled THEN {"none"} ELSE {"redis", "error"} :
             LET context == NewServiceContext(conf, fetch)
             IN  IF context = <<>> THEN pc' = "refused" /\ UNCHANGED svc
                 ELSE pc' = "start" /\ svc' = context[1]
  /\ UNCHANGED <<req, group, strategies, k, pool, batches, exposure, list, ret, resp, log, history>>

-----------------------------------------------------------------------------
Fail ==
  /\ pc' = "failed"
  /\ UNCHANGED <<request, strategies, k, pool, batches, exposure, list, ret, resp, log, history>>

MaterialList(items) == Cap(items, LogCap)

\* pushAlgoLog
PushAlgoLog(items) == log' = IF svc.logs THEN Append(log, MaterialList(items)) ELSE log

\* buildResponse, then the log
Answer(items, cap) ==
  /\ pc' = "answered"
  /\ resp' = Cap(items, cap)
  /\ PushAlgoLog(items)

Center == svc.mode = "center"
Funnel == svc.mode = "funnel"

\* the row of recall, and of everything in funnel mode
Row ==
  CASE Center -> ResolveRecall(Library(svc.recall), req.ExpIDs, group)
    [] Funnel -> ResolveFunnel(Library(svc.funnel), req.ExpIDs, group)
    [] OTHER -> <<>>
Lists == ResolvedRecallLists(Row[1], req.ExpIDs)

Serve(layer, g) ==
  served' = [l \in DOMAIN served \cup {layer} |-> IF l = layer THEN g ELSE served[l]]

\* Handle: center mode asks the user's features for a group, and goes on
\* without them; without a row the stub is ranked
Resolve ==
  /\ pc = "start"
  /\ UNCHANGED <<svc, strategies, k, pool, batches, exposure, list, ret, resp, log, vouched, scored>>
  /\ req' \in Requests
  /\ \E isNew \in IF svc.features THEN BOOLEAN ELSE {FALSE} :
       group' = IF Center THEN ResolveUserGroup(req'.UserGroup, [isNew |-> isNew])
                ELSE req'.UserGroup
  /\ IF Row' = <<>> THEN pc' = "stub" /\ UNCHANGED served
     ELSE /\ pc' = IF Funnel THEN "main" ELSE "exclusive"
          /\ Serve(svc.mode, Row'[1].group)

\* the answers of Registry.Lane that are not an error
Lane(rule) ==
  IF rule.RecallNum <= 0 THEN {<<>>}
  ELSE {Cap(s, rule.RecallNum) : s \in LaneLists[rule.RecallType]}
LaneMayFail(rule) == rule.RecallNum > 0 /\ rule.RecallType \in UnknownTypes

\* the ids MarkItemPortraits may mark: without a feature store it marks them all
MarkItemPortraits(s) == IF svc.features THEN PortraitSets ELSE {Ids(s)}

\* one turn of runExclusiveLanes: an error of the lane or of the portrait read
\* skips the lane
ExclusiveLane ==
  /\ pc = "exclusive" /\ k <= Len(Lists.exclusive)
  /\ k' = k + 1
  /\ LET rule == Lists.exclusive[k]
     IN  \/ \E raw \in Lane(rule) : \E portraits \in MarkItemPortraits(TopOf(raw, rule)) :
              LET batch == LaneBatch(raw, rule, portraits)
              IN  /\ pool' = IF batch = <<>> THEN pool
                             ELSE [r \in DOMAIN pool \cup {rule.RecallType} |->
                                  IF r = rule.RecallType THEN batch ELSE pool[r]]
                  /\ vouched' = vouched \cup (Ids(TopOf(raw, rule)) \cap portraits)
         \/ /\ svc.features \/ LaneMayFail(rule)
            /\ UNCHANGED <<pool, vouched>>
  /\ UNCHANGED <<pc, request, strategies, batches, exposure, list, ret, resp, log, served, scored>>

ExclusiveEnd ==
  /\ pc = "exclusive" /\ k > Len(Lists.exclusive)
  /\ pc' = "main" /\ k' = 1
  /\ UNCHANGED <<request, strategies, pool, batches, exposure, list, ret, resp, log, history>>

\* funnel mode runs its exclusive lanes as it runs the main ones, ahead of them
MainRules == IF Funnel THEN Lists.exclusive \o Lists.main ELSE Lists.main

\* one turn of runRecallLanes, or of runRules: an error of the lane or of the
\* portrait read fails the request
RecallLane ==
  /\ pc = "main" /\ k <= Len(MainRules)
  /\ LET rule == MainRules[k]
     IN  \/ \E raw \in Lane(rule) : \E portraits \in MarkItemPortraits(TopOf(raw, rule)) :
              /\ batches' = Append(batches, LaneBatch(raw, rule, portraits))
              /\ vouched' = vouched \cup (Ids(TopOf(raw, rule)) \cap portraits)
              /\ k' = k + 1
              /\ UNCHANGED <<pc, request, strategies, pool, exposure, list, ret, resp, log, served, scored>>
         \/ /\ LaneMayFail(rule) \/ (svc.features /\ \E raw \in Lane(rule) : raw # <<>>)
            /\ Fail

\* merge.MainOnly; in funnel mode the exclusive batches come first
Merge ==
  /\ pc = "main" /\ k > Len(MainRules)
  /\ list' = MergeRecallLanes(batches, Row[1].AllMergeNum)
  /\ pc' = "filter"
  /\ UNCHANGED <<request, strategies, k, pool, batches, exposure, ret, resp, log, history>>

\* loadExposure: nothing without a store, a key or a map
LoadExposure == IF svc.features THEN Exposures \cup {NoCounts} ELSE {NoCounts}

\* one rule after the other: an item stays when every one lets it
ApplyRuleFilters(s, counts, rules) ==
  Keep(s, {p \in DOMAIN s : \A n \in DOMAIN rules :
             rules[n].type = "LiveExposure" => FilterLiveExposure(s[p], counts, rules[n].limit)})

\* every item has its portrait by now, and no lane sets the label a white list
\* asks for
ApplyFeatureFilters(s, feats) ==
  IF \E n \in DOMAIN feats : feats[n].type = "LabelTypeWhiteList" /\ feats[n].label # ""
    THEN <<>> ELSE s

FilterRow == ResolveFilter(Library(svc.filter), req.ExpIDs, group)
FilterLists == ResolvedRuleAndFeature(FilterRow[1], req.ExpIDs)
Filtered(s, counts, lists) == ApplyFeatureFilters(ApplyRuleFilters(s, counts, lists.rules), lists.feats)

\* mutant: the exclusive lanes are not filtered
ApplyToExclusivePool_Off(counts, lists) == pool
ApplyToExclusivePool(counts, lists) ==
  LET kept == {r \in DOMAIN pool : Filtered(pool[r], counts, lists) # <<>>}
  IN  [r \in kept |-> Filtered(pool[r], counts, lists)]

EffectiveRet ==
  IF req.RetCount <= 0 /\ Row[1].FinalRetCount > 0 THEN Row[1].FinalRetCount ELSE req.RetCount

\* loadExposure, the filters and KeepItemNum; with nothing left the response
\* is empty
Filter ==
  /\ pc = "filter" /\ Center
  /\ exposure' \in LoadExposure
  /\ IF FilterRow = <<>> THEN UNCHANGED <<list, pool, served>>
     ELSE /\ list' = Cap(Filtered(list, exposure', FilterLists), FilterRow[1].KeepItemNum)
          /\ pool' = ApplyToExclusivePool(exposure', FilterLists)
          /\ Serve("filter", FilterRow[1].group)
  /\ ret' = EffectiveRet
  /\ IF list' = <<>> /\ DOMAIN pool' = {}
       THEN Answer(<<>>, 0)
       ELSE pc' = "rank" /\ UNCHANGED <<resp, log>>
  /\ UNCHANGED <<request, strategies, k, batches, vouched, scored>>

\* exposure_backoff: unlike the limit of center mode, the limit is too often
FilterExposureBackoff(it, counts, after) == after <= 0 \/ Count(counts, it.id) < after
ApplyFilterPolicies(s, counts, policies) ==
  Keep(s, {p \in DOMAIN s : \A n \in DOMAIN policies :
             policies[n].type = "exposure_backoff" =>
               FilterExposureBackoff(s[p], counts, policies[n].after)})

\* handleFunnel after the merge: portraits are read again, and an error of that
\* read leaves the list as it is; the policies follow
FunnelPolicies == ResolvedFilterPolicies(Row[1], req.ExpIDs)
FunnelFilter ==
  /\ pc = "filter" /\ Funnel
  /\ exposure' \in LoadExposure
  /\ \E portraits \in MarkItemPortraits(list) \cup {Ids(list)} :
       /\ list' = ApplyFilterPolicies(OfIds(list, portraits), exposure', FunnelPolicies)
       /\ vouched' = vouched \cap portraits
  /\ ret' = EffectiveRet
  /\ IF list' = <<>>
       THEN Answer(<<>>, 0)
       ELSE pc' = "rank" /\ UNCHANGED <<resp, log>>
  /\ UNCHANGED <<request, strategies, k, pool, batches, served, scored>>

-----------------------------------------------------------------------------
\* the answers of the rank service for the items of s, at most n of them: the
\* order is that of the re-rank scores, the score is that of rank
MultiRank(s, n) ==
  {[p \in 1 .. Len(Cap(Cap(f, cut), n)) |-> [id |-> s[f[p]].id, score |-> scores[s[f[p]].id]]] :
     f \in {g \in [DOMAIN s -> DOMAIN s] : IsInjective(g)}, cut \in RankCuts, scores \in RankScores}
ScoreOf(scores) ==
  [id \in Ids(scores) |-> (CHOOSE sc \in ToSet(scores) : sc.id = id).score]

\* the rank call of rankAndShow or rankAndShowFunnel: an error fails the
\* request, and so does the panic of a nil client (the HTTP server recovers it)
RankMain ==
  /\ pc = "rank" /\ list # <<>>
  /\ \/ Fail
     \/ /\ svc.hasRank
        /\ ret' = IF ret <= 0 THEN Len(list) ELSE ret
        /\ \E scores \in MultiRank(list, ret') :
             /\ scored' = ScoreOf(scores)
             /\ list' = ReorderByRank(list, scores)
        /\ pc' = "ranked"
        /\ UNCHANGED <<request, strategies, k, pool, batches, exposure, resp, log, served, vouched>>

\* mutant: with no ranked item left the response is empty
RankNothing_Answers ==
  /\ pc = "rank" /\ list = <<>>
  /\ Answer(<<>>, 0)
  /\ UNCHANGED <<request, strategies, k, pool, batches, exposure, list, ret, history>>

\* only exclusive items are left: rank is not called
RankNothing ==
  /\ pc = "rank" /\ list = <<>>
  /\ pc' = "ranked"
  /\ UNCHANGED <<request, strategies, k, pool, batches, exposure, list, ret, resp, log, history>>

\* mutant: the show layer looks for the group the request came with
ShowRow_AsRequested == ResolveShow(Library(svc.show), req.ExpIDs, req.UserGroup)
ShowRow == ResolveShow(Library(svc.show), req.ExpIDs, group)

\* center mode resolves its strategies; the show control of funnel mode is one
\* more cap
ShowBegin ==
  /\ pc = "ranked"
  /\ pc' = "show" /\ k' = 1
  /\ list' = IF Funnel THEN Cap(list, ResolvedShowControl(Row[1], req.ExpIDs)) ELSE list
  /\ IF Funnel \/ ShowRow = <<>> THEN UNCHANGED <<strategies, served>>
     ELSE /\ strategies' = ResolvedStrategyList(ShowRow[1], req.ExpIDs)
          /\ Serve("show", ShowRow[1].group)
  /\ UNCHANGED <<request, pool, batches, exposure, ret, resp, log, vouched, scored>>

\* one turn of ApplyShowStrategiesWithExclusive
Show ==
  /\ pc = "show" /\ k <= Len(strategies)
  /\ \E exchange \in IF svc.features THEN Exchanges ELSE {NoCounts} :
       list' \in ApplyStrategy(list, pool, exchange, strategies[k])
  /\ k' = k + 1
  /\ UNCHANGED <<pc, request, strategies, pool, batches, exposure, ret, resp, log, history>>

\* mutant: the candidates are logged instead of the shown list
Respond_LogsRecall ==
  /\ pc = "show" /\ k > Len(strategies)
  /\ pc' = "answered"
  /\ resp' = Cap(list, ret)
  /\ PushAlgoLog(DedupeKeepFirst(FlattenSeq(batches)))
  /\ UNCHANGED <<request, strategies, k, pool, batches, exposure, list, ret, history>>

Respond ==
  /\ pc = "show" /\ k > Len(strategies)
  /\ Answer(list, ret)
  /\ UNCHANGED <<request, strategies, k, pool, batches, exposure, list, ret, history>>

\* Pipeline.Run over the stub, with the scores it used: it has no stages but rank
PipelineRun ==
  {[scores |-> scores, items |-> ReorderByRank(StubItems, scores)] :
     scores \in IF svc.hasRank THEN MultiRank(StubItems, Len(StubItems)) ELSE {<<>>}}

\* Handle without a row, or stubRankResponse
Stub ==
  /\ pc = "stub"
  /\ \/ svc.hasRank /\ Fail
     \/ \E run \in PipelineRun :
          /\ scored' = ScoreOf(run.scores)
          /\ list' = run.items
          /\ Answer(run.items, req.RetCount)
          /\ UNCHANGED <<request, strategies, k, pool, batches, exposure, ret, served, vouched>>

Ended == pc \in {"refused", "answered", "failed"} /\ UNCHANGED vars

\* what the goroutine of the request does once it has it
Work ==
  \/ ExclusiveLane \/ ExclusiveEnd \/ RecallLane \/ Merge \/ Filter \/ FunnelFilter
  \/ RankMain \/ RankNothing \/ ShowBegin \/ Show \/ Respond \/ Stub
Next == Boot \/ Resolve \/ Work \/ Ended

Spec == Init /\ [][Next]_vars

\* Redis and rank answer or time out, and no step waits for another request;
\* a request need not come
FairSpec == Spec /\ WF_vars(Boot) /\ WF_vars(Work)

-----------------------------------------------------------------------------
Answered == pc = "answered" /\ Row # <<>>
Swapped(it) == it.recall = "HomogeneityContent"
Pooled == UNION {Ids(pool[r]) : r \in DOMAIN pool}

\* where the request is, to the one who waits for it
Status ==
  IF pc = "boot" THEN "starting" ELSE IF pc = "start" THEN "open"
  ELSE IF pc \in {"refused", "answered", "failed"} THEN pc ELSE "busy"
\* What recommend promises (RequestLife): it starts or refuses, and then every
\* request it takes is answered or failed; an answer shows no item twice,
\* whatever the lanes, the pool and the exchange map have in common; and it
\* leaves one record, which tells of it, exactly when the log pool is on.
Life == INSTANCE RequestLife WITH
  status <- Status,
  logging <- svc.logs,
  shown <- [n \in DOMAIN resp |-> resp[n].id],
  records <- [r \in DOMAIN log |-> [n \in DOMAIN log[r] |-> log[r][n].id]]
IsRequestLife == Life!Spec

\* A shown item was eligible when it was read: some lane found its portrait,
\* and the exposure map of the request does not exclude it under any of its
\* rules, whether it came by a main lane or was forced in from an exclusive
\* one.  Alternatives put in by HomogenContent are exempt: nothing checks them.
\* In funnel mode its portrait was also there, or could not be read, after the
\* merge.
Allowed(id) ==
  IF Funnel THEN \A n \in DOMAIN FunnelPolicies :
                   LET policy == FunnelPolicies[n]
                   IN  policy.type = "exposure_backoff" /\ policy.after > 0 =>
                         Count(exposure, id) < policy.after
  ELSE FilterRow = <<>> \/
       \A n \in DOMAIN FilterLists.rules :
         LET rule == FilterLists.rules[n]
         IN  rule.type = "LiveExposure" /\ rule.limit > 0 => Count(exposure, id) <= rule.limit
ShownAreEligible ==
  Answered => \A it \in ToSet(resp) : ~Swapped(it) => it.id \in vouched /\ Allowed(it.id)

\* Merge gives up a candidate only to the cap: an item of a batch is missing
\* only when AllMergeNum others are there, once each.
MergeFills ==
  pc = "filter" =>
    /\ UniqueIds(list)
    /\ \/ Ids(list) = UNION {Ids(batches[b]) : b \in DOMAIN batches}
       \/ Len(list) = Row[1].AllMergeNum

\* What rank cut never gets ahead of what rank scored: among the items of the
\* main list that no strategy forced in or swapped, the scored ones come first
\* (strategies that do not rearrange).
Types(st) == IF st.type = "ForcedInsert" THEN {st.rules[r].recall : r \in DOMAIN st.rules} ELSE {}
Forced(it) ==
  it.id \in Pooled \/ \E n \in DOMAIN strategies : it.recall \in Types(strategies[n])
ScoredComeFirst ==
  Answered /\ (\A n \in DOMAIN strategies : strategies[n].type # "MMRRearrange") =>
    LET Plain(it) == ~Swapped(it) /\ ~Forced(it)
    IN  \A m, n \in DOMAIN resp :
          m < n /\ Plain(resp[m]) /\ Plain(resp[n]) /\ resp[n].id \in DOMAIN scored
            => resp[m].id \in DOMAIN scored

\* The score a log entry carries is the one rank gave the item, times the factor
\* of every ScoreControl that names its recall type and of no other, although
\* the list is reordered, cut and rearranged around them; an item rank did not
\* score has 0, and so may one that was forced in, as the copy in the pool was
\* never scored.
Boosted(chain, recall, score) ==
  LET boosted[n \in 0 .. Len(chain)] ==
        IF n = 0 THEN score
        ELSE LET st == chain[n]
             IN  IF st.type = "ScoreControl" /\ st.method = "RecallType" /\ st.factor > 0
                      /\ recall \in st.recalls
                   THEN boosted[n - 1] * st.factor ELSE boosted[n - 1]
  IN  boosted
ScoresSurvive ==
  Answered =>
    \A r \in DOMAIN log : \A it \in ToSet(log[r]) : ~Swapped(it) =>
      \/ it.score = Boosted(strategies, it.recall, Count(scored, it.id))[Len(strategies)]
      \/ it.score = 0 /\ it.id \in Pooled

\* One audience serves a request: recall, filter and show resolve their rows
\* each on its own, but where the bucket of the experiment has a row for the
\* group of the request, if it has one, that row is served and no other.
OneGroupServes ==
  \A layer \in DOMAIN served :
    LET lib == Library(IF layer = "center" THEN svc.recall ELSE svc[layer])
        rows == lib[PickABVariantIndex(req.ExpIDs, lib)].rows
    IN  group # "" /\ (\E r \in DOMAIN rows : rows[r].group = group) => served[layer] = group

\* What an exclusive lane found and the filters let through is shown, on top,
\* when the last strategy forces its recall type in first: no empty, cut or
\* unranked main list and no failure of another exclusive lane keeps it out.
ForcedShown ==
  Answered /\ Center =>
    LET chain == IF ShowRow = <<>> THEN <<>> ELSE ResolvedStrategyList(ShowRow[1], req.ExpIDs)
        last == Last(chain)
    IN  chain # <<>> /\ last.type = "ForcedInsert" /\ last.PageSize = 0 /\ last.rules # <<>>
          /\ last.rules[1].count > 0 /\ last.rules[1].recall \in DOMAIN pool
        => resp # <<>> /\ Head(resp).id \in Ids(pool[last.rules[1].recall])
=============================================================================
