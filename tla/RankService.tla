---------------------------- MODULE RankService -----------------------------
(***************************************************************************)
(* services/rank from its start to the answer for one item group of a      *)
(* MultiRank request: the feature store, the files of every engine, the    *)
(* choice of an engine, FM coarse rank, the truncations, the calls to      *)
(* TF-Serving, one per item and each on its own, and re-rank.  Scores are  *)
(* integers in units of 0.00001; sort.Slice leaves equal scores in any     *)
(* order.                                                                  *)
(***************************************************************************)
EXTENDS ItemLists, Resolution, FMScoring, FeatureRedis

CONSTANTS
  Configs,    \* [redis, exp, RankEngine, RankModelBundles, RankProfiles], exp a
              \* file with [PreRankExp, RankExp], tables of [exp, strategies], a
              \* strategy being [model, trunc]
  Requests,   \* [ids, ExpIDs, RetCount, PreRankTrunc, RankTrunc, profile]
  Documents,  \* what Redis may hold for a group: [user, items]
  TFAnswers   \* what TF-Serving may answer: [kind, score]

\* the items of a group are distinct: recommend merged them
ASSUME RequestsAssumption ==
  \A r \in Requests :
    /\ r.ids \in Seq(Int) /\ ToSet(r.ids) \subseteq Int64 /\ IsInjective(r.ids)
    /\ r.ExpIDs \in Seq(Int)
    /\ {r.RetCount, r.PreRankTrunc, r.RankTrunc} \subseteq Int
ASSUME DocumentsAssumption ==
  \A d \in Documents : IsDocument(d.user) /\ \A id \in DOMAIN d.items : IsDocument(d.items[id])
ASSUME AnswersAssumption == \A answer \in TFAnswers : answer.score \in Int

Default == <<"default">>
Unit == 100000  \* a score of 1

VARIABLES
  pc, conf, req,
  svc,      \* the service context: [features, exp, engines]
  docs,     \* the documents read for the group
  eng,      \* the engine that serves the request
  preN,     \* truncation after coarse rank, 0: none
  rankN,    \* truncation before fine rank, 0: none
  work,     \* the items with their features and scores, in their current order
  k,        \* index of the next item of the fine stage
  coarse,   \* history: id -> coarse score
  sent      \* history: id -> the vector TF-Serving got

vars == <<pc, conf, req, svc, docs, eng, preN, rankN, work, k, coarse, sent>>

NoDocs == [user |-> NoDoc, items |-> [id \in {} |-> NoDoc]]
NoRequest ==
  [ids |-> <<>>, ExpIDs |-> <<>>, RetCount |-> 0, PreRankTrunc |-> 0, RankTrunc |-> 0,
   profile |-> <<>>]
MockEngine ==
  [pipeline |-> FALSE, trans |-> NoTrans, fm |-> <<>>, tf |-> <<>>, PreRankTrunc |-> 0,
   RankTrunc |-> 0]
NoContext ==
  [features |-> FALSE, exp |-> [PreRankExp |-> <<>>, RankExp |-> <<>>],
   engines |-> (Default :> MockEngine)]

Init ==
  /\ pc = "boot" /\ conf \in Configs
  /\ req = NoRequest /\ svc = NoContext /\ docs = NoDocs
  /\ eng = MockEngine /\ preN = 0 /\ rankN = 0
  /\ work = <<>> /\ k = 1
  /\ coarse = [id \in {} |-> 0] /\ sent = [id \in {} |-> <<>>]

-----------------------------------------------------------------------------
\* NewTFPredictor: nothing without an endpoint or a model name
NewTFPredictor(c) ==
  IF ResolveEndpoints(c) = <<>> \/ c.ModelName = "" THEN <<>>
  ELSE <<[dim |-> IF c.FeatureDim <= 0 THEN 8 ELSE c.FeatureDim]>>

\* NewEngine: the engine, or nothing when a file of it is not sound; an engine
\* that is no pipeline opens none
NewEngine(c) ==
  LET factor == IF c.Factor <= 0 THEN 8 ELSE c.Factor
      trans == LoadFMTrans(c.trans)
      fm == LoadFMModel(c.model, factor)
      hasModel == c.model.status # "unset"
      engine(t, m) ==
        [pipeline |-> c.pipeline, trans |-> t, fm |-> m, tf |-> NewTFPredictor(c.tf),
         PreRankTrunc |-> c.PreRankTrunc, RankTrunc |-> c.RankTrunc]
  IN  IF ~c.pipeline THEN <<engine(NoTrans, <<>>)>>
      ELSE IF trans = <<>> THEN <<>>
      ELSE IF ~hasModel THEN <<engine(trans[1], <<>>)>>
      ELSE IF fm = <<>> THEN <<>> ELSE <<engine(trans[1], fm)>>

\* the engines by name: a bundle replaces the default engine when it is called
\* so, a profile is passed over when its name is taken
EngineConfigs(c) ==
  [name \in DOMAIN c.RankModelBundles \cup {Default} \cup DOMAIN c.RankProfiles |->
     IF name \in DOMAIN c.RankModelBundles THEN c.RankModelBundles[name]
     ELSE IF name = Default THEN c.RankEngine ELSE c.RankProfiles[name]]

ASSUME ConfigsAssumption ==
  \A c \in Configs :
    /\ \A name \in DOMAIN EngineConfigs(c) :
         LET engine == EngineConfigs(c)[name]
         IN  /\ {engine.PreRankTrunc, engine.RankTrunc, engine.Factor} \subseteq Int
             /\ IsTransFile(engine.trans) /\ IsModelFile(engine.model)
    /\ c.redis.password \in Seq(0 .. 1)
    /\ c.exp.status \in {"unset", "read", "broken"}
    /\ c.exp.status = "read" =>
         \A table \in {c.exp.conf.PreRankExp, c.exp.conf.RankExp} :
           /\ table \in Seq(ToSet(table))
           /\ \A e \in DOMAIN table :
                /\ table[e].strategies \in Seq(ToSet(table[e].strategies))
                /\ \A n \in DOMAIN table[e].strategies : table[e].strategies[n].trunc \in Int

\* NewServiceContext, or nothing when any part of it fails
NewServiceContext(c, fetch) ==
  LET engines == EngineConfigs(c)
      built == [name \in DOMAIN engines |-> NewEngine(engines[name])]
  IN  IF \/ fetch = "error" \/ c.exp.status = "broken"
         \/ NewEngine(c.RankEngine) = <<>> \/ \E name \in DOMAIN built : built[name] = <<>>
        THEN <<>>
        ELSE <<[features |-> fetch = "redis",
                exp |-> IF c.exp.status = "unset" THEN NoContext.exp ELSE c.exp.conf,
                engines |-> [name \in DOMAIN built |-> built[name][1]]]>>

\* main: the service starts or ends
Boot ==
  /\ pc = "boot"
  /\ \E reachable \in BOOLEAN :
       LET context == NewServiceContext(conf, NewFetcher(conf.redis, reachable))
       IN  IF context = <<>> THEN pc' = "refused" /\ UNCHANGED svc
           ELSE pc' = "start" /\ svc' = context[1]
  /\ UNCHANGED <<conf, req, docs, eng, preN, rankN, work, k, coarse, sent>>

PreRankStage(exps) == ResolveStage(svc.exp.PreRankExp, exps)
RankStage(exps) == ResolveStage(svc.exp.RankExp, exps)

\* the profile of the request, else the bundle of the two models of its
\* experiments
Profile(r) ==
  LET pre == PreRankStage(r.ExpIDs).model
      fine == RankStage(r.ExpIDs).model
  IN  IF r.profile # <<>> THEN r.profile
      ELSE IF pre # "" /\ fine # "" THEN <<pre, fine>> ELSE Default

\* a profile nobody configured is served by the default engine
EngineFor(profile) ==
  IF profile \in DOMAIN svc.engines THEN svc.engines[profile] ELSE svc.engines[Default]

\* the request overrides the experiment, which overrides the engine
FirstPositive(request, experiment, engine) ==
  IF request > 0 THEN request ELSE IF experiment > 0 THEN experiment ELSE engine

Scored(id, features, pre, rank, re) ==
  [id |-> id, sparse |-> features.sparse, dense |-> features.dense, pre |-> pre, rank |-> rank,
   re |-> re]

\* an engine that is not a pipeline scores the items by their position, the
\* last one highest
MockRankGroup(ids) ==
  [p \in DOMAIN ids |->
     LET place == Len(ids) + 1 - p
     IN  Scored(ids[place], [sparse |-> <<>>, dense |-> <<>>], place * Unit, place * Unit,
                place * Unit)]

\* Handle chooses the engine and the truncations; RankGroupExt starts
Handle ==
  /\ pc = "start"
  /\ req' \in Requests
  /\ eng' = EngineFor(Profile(req'))
  /\ preN' = FirstPositive(req'.PreRankTrunc, PreRankStage(req'.ExpIDs).trunc, eng'.PreRankTrunc)
  /\ rankN' = FirstPositive(req'.RankTrunc, RankStage(req'.ExpIDs).trunc, eng'.RankTrunc)
  /\ IF eng'.pipeline /\ req'.ids # <<>>
       THEN pc' = "coarse" /\ UNCHANGED work
       ELSE pc' = "done" /\ work' = Cap(MockRankGroup(req'.ids), req'.RetCount)
  /\ UNCHANGED <<conf, svc, docs, k, coarse, sent>>

\* the coarse score: FM's, or the mock score when there is no model
CoarseScore(features, id) ==
  IF eng.fm = <<>> THEN MockScore(id, 1) ELSE Predict(eng.fm[1], features.sparse)

\* the items of the group with the features and the coarse scores that the
\* documents d give
Coarse(d) ==
  [p \in DOMAIN req.ids |->
     LET id == req.ids[p]
         item == IF id \in DOMAIN d.items THEN d.items[id] ELSE NoDoc
         features == Features(d.user, item, id, eng.trans)
     IN  Scored(id, features, CoarseScore(features, id), 0, 0)]

\* mutant: the items keep the order of the request
PreRank_Unsorted ==
  /\ pc = "coarse"
  /\ docs' \in IF svc.features THEN Documents ELSE {NoDocs}
  /\ work' = Coarse(docs')
  /\ coarse' = [id \in ToSet(req.ids) |-> (CHOOSE w \in ToSet(work') : w.id = id).pre]
  /\ pc' = "cut"
  /\ UNCHANGED <<conf, req, svc, eng, preN, rankN, k, sent>>

\* the documents are read, and one that cannot be read is one that is missing;
\* FM scores every item; the items are sorted by it
PreRank ==
  /\ pc = "coarse"
  /\ docs' \in IF svc.features THEN Documents ELSE {NoDocs}
  /\ work' \in SortedBy(Coarse(docs'), LAMBDA w : w.pre)
  /\ coarse' = [id \in ToSet(req.ids) |-> (CHOOSE w \in ToSet(work') : w.id = id).pre]
  /\ pc' = "cut"
  /\ UNCHANGED <<conf, req, svc, eng, preN, rankN, k, sent>>

\* both truncations come before fine rank
Truncate ==
  /\ pc = "cut"
  /\ work' = Cap(Cap(work, preN), rankN)
  /\ pc' = "fine"
  /\ UNCHANGED <<conf, req, svc, docs, eng, preN, rankN, k, coarse, sent>>

\* mutant: an item TF-Serving failed for is left out
FineScore_Drops ==
  /\ pc = "fine" /\ k <= Len(work) /\ UNCHANGED sent
  /\ \/ \E answer \in TFAnswers :
          TFScore(answer) # <<>> /\ work' = [work EXCEPT ![k].rank = TFScore(answer)[1]] /\ k' = k + 1
     \/ work' = RemoveAt(work, k) /\ UNCHANGED k
  /\ UNCHANGED <<pc, conf, req, svc, docs, eng, preN, rankN, coarse>>

\* one turn of the fine loop: TF-Serving's score, the mock score when the call
\* or its answer fails, the coarse score when TF is not configured
FineScore ==
  /\ pc = "fine" /\ k <= Len(work)
  /\ LET w == work[k]
     IN  IF eng.tf = <<>>
           THEN work' = [work EXCEPT ![k].rank = w.pre] /\ UNCHANGED sent
           ELSE /\ \E answer \in TFAnswers :
                     work' = [work EXCEPT ![k].rank =
                                IF TFScore(answer) = <<>> THEN MockScore(w.id, 2)
                                ELSE TFScore(answer)[1]]
                /\ sent' = (w.id :> FeatureVector(w.dense, eng.tf[1].dim)) @@ sent
  /\ k' = k + 1
  /\ UNCHANGED <<pc, conf, req, svc, docs, eng, preN, rankN, coarse>>

FineSort ==
  /\ pc = "fine" /\ k > Len(work)
  /\ work' \in SortedBy(work, LAMBDA w : w.rank)
  /\ pc' = "rerank"
  /\ UNCHANGED <<conf, req, svc, docs, eng, preN, rankN, k, coarse, sent>>

\* mutant: the mock score is added whole
ReRanked_Whole(w) == w.rank + MockScore(w.id, 3)
ReRanked(w) == w.rank + (MockScore(w.id, 3) \div 100)

\* re-rank, the last sort, and the cap of the request
ReRank ==
  /\ pc = "rerank"
  /\ \E sorted \in SortedBy([p \in DOMAIN work |-> [work[p] EXCEPT !.re = ReRanked(work[p])]],
                            LAMBDA w : w.re) :
       work' = Cap(sorted, req.RetCount)
  /\ pc' = "done"
  /\ UNCHANGED <<conf, req, svc, docs, eng, preN, rankN, k, coarse, sent>>

Done == pc \in {"done", "refused"} /\ UNCHANGED vars

Step == Boot \/ Handle \/ PreRank \/ Truncate \/ FineScore \/ FineSort \/ ReRank
Next == Step \/ Done

Spec == Init /\ [][Next]_vars

\* every TF call ends by its timeout at the latest
FairSpec == Spec /\ WF_vars(Step)

-----------------------------------------------------------------------------
Requested == ToSet(req.ids)

\* Whatever TF-Serving does, the answer has as many of the requested items as
\* the tightest limit in force allows, each once: failures change scores and
\* never lose an item.
AnswersAll ==
  pc = "done" =>
    LET whole == Len(Cap(req.ids, req.RetCount))
    IN  /\ Ids(work) \subseteq Requested /\ Cardinality(Ids(work)) = Len(work)
        /\ Len(work) = IF eng.pipeline THEN Len(Cap(Cap(Cap(req.ids, preN), rankN), req.RetCount))
                       ELSE whole

\* Truncation keeps the best: no item the coarse score ranks above one that
\* went on to fine rank was cut.  Both truncations come before fine rank
\* (engine.go:106-121), RankTrunc as config.go:40 says and not as README.md:191
\* draws it.
CutsTheWorst ==
  pc \in {"fine", "rerank"} =>
    \A kept \in Ids(work), cut \in Requested \ Ids(work) : coarse[kept] >= coarse[cut]

\* Re-rank only settles near ties: in the answer no item stands behind one whose
\* fine score is lower by more than the noise of mockFloat64 can make up,
\* whether that score came from TF-Serving, FM or the mock.  That is 0.00999
\* for an item whose own noise is not negative, as ids that are positive and do
\* not overflow make sure, and twice as much for any other: the noise of an
\* item that is negative or overflows may count against it.
MaxNoise == 999
NoiseIsPlain(id) == UserID >= 0 /\ id >= 0 /\ (UserID * 31) + (id * 17) + 39 < Half
Swing(id) == IF NoiseIsPlain(id) THEN MaxNoise ELSE 2 * MaxNoise
ReRankIsMarginal ==
  pc = "done" /\ eng.pipeline =>
    \A p, q \in DOMAIN work : p < q => work[p].rank + Swing(work[q].id) >= work[q].rank

\* An experiment touches only the requests that name it: a stage whose table has
\* no entry for any id of the request runs as if the baseline were its only
\* entry, whatever the other stage resolves to.
BaselineUntouched ==
  pc \notin {"boot", "refused", "start"} =>
    LET Unnamed(table) ==
          /\ \A e \in DOMAIN table : table[e].exp \notin ToSet(req.ExpIDs)
          /\ \E e \in DOMAIN table : table[e].exp = 0
        baseline(table) ==
          CHOOSE b \in DOMAIN table :
            table[b].exp = 0 /\ \A e \in DOMAIN table : table[e].exp = 0 => b <= e
        Base(table) == ResolveStage(<<table[baseline(table)]>>, <<>>).trunc
    IN  /\ Unnamed(svc.exp.PreRankExp) =>
             preN = FirstPositive(req.PreRankTrunc, Base(svc.exp.PreRankExp), eng.PreRankTrunc)
        /\ Unnamed(svc.exp.RankExp) =>
             rankN = FirstPositive(req.RankTrunc, Base(svc.exp.RankExp), eng.RankTrunc)

\* The field table in service is the whole table: of a file whose first line
\* tells its total, no engine runs with a field left out because reading stopped
\* early.
TellsTotal(file) ==
  LET counts == [n \in DOMAIN file.lines |-> file.lines[n].count]
  IN  file.total = Total(counts) /\ \A n \in DOMAIN counts : counts[n] >= 0
TransIsWhole ==
  pc \notin {"boot", "refused"} =>
    \A name \in DOMAIN svc.engines :
      LET c == EngineConfigs(conf)[name]
      IN  c.pipeline /\ c.trans.status = "read" /\ TellsTotal(c.trans) =>
            \A n \in DOMAIN c.trans.lines :
              c.trans.lines[n].count > 0 =>
                c.trans.lines[n].field \in DOMAIN svc.engines[name].trans

\* The coarse score is the factorization machine of the model file: with every
\* feature weighted by the last line that names its field and value, in the
\* legacy or the new form of an index, it is the sum over the features and over
\* every pair of them.  (A negative index is taken for value 0 of field 0.)
ScoreIsPairwise ==
  pc = "cut" /\ eng.fm # <<>> =>
    LET name == IF Profile(req) \in DOMAIN svc.engines THEN Profile(req) ELSE Default
        file == EngineConfigs(conf)[name].model
        Names(line, key) ==
          \/ line.index >= Hi /\ key = line.index
          \/ /\ line.index \in 0 .. Hi - 1
             /\ key \div Hi = line.index \div Lo /\ key % Hi = line.index % Lo
          \/ line.index < 0 /\ key = 0
        Lines(key) == {n \in 1 .. file.readable : Names(file.lines[n], key)}
        W(fe, Part(_)) ==
          IF Lines(fe.key) = {} THEN 0 ELSE fe.weight * Part(file.lines[Max(Lines(fe.key))])
        Score(s) ==
          Sigmoid((20000 * file.w0)
            + (200 * Total([p \in DOMAIN s |-> W(s[p], LAMBDA line : line.w1)]))
            + Total([f \in 1 .. eng.fm[1].factor |->
                Total([p \in DOMAIN s |->
                  Total([q \in DOMAIN s |->
                    IF p = q THEN 0
                    ELSE W(s[p], LAMBDA line : line.w2[f]) * W(s[q], LAMBDA line : line.w2[f])])])]))
    IN  \A p \in DOMAIN work : work[p].pre = Score(work[p].sparse)

\* A wrapped password gets in: a service whose PasswordHex is the password of
\* Redis as EncryptPassword wraps it presents that password, of whatever length.
PasswordSurvives ==
  LET c == conf.redis
  IN  c.Crypto /\ ~c.Disabled /\ c.password # <<>> /\ c.PasswordHex = EncryptPassword(c.password)
        => Login(c) = <<c.password>>

\* What README.md:196 says, that raw fields of a document are supported
\* ('亦支持 `fm_sparse` / `tf_dense` 原始字段'): the tf_dense vector of two sound
\* documents is what TF-Serving gets.
DenseReachesTF ==
  \A id \in DOMAIN sent :
    LET item == IF id \in DOMAIN docs.items THEN docs.items[id] ELSE NoDoc
        dense == MergeUserItem(docs.user, item).dense
    IN  dense # <<>> => sent[id] = FeatureVector(dense, eng.tf[1].dim)
=============================================================================
