# recsys_go in TLA+

`recsys_go` is a recommendation system of two HTTP services and a set of
packages they share.  `recommend` takes a request, recalls candidates from
Redis, merges and filters them, asks `rank` for scores, applies show control,
answers and logs what it showed; `rank` scores a group of items with an FM
model, TF-Serving and a re-rank.  This directory models what the two services
do, checks it with TLC and proves the parts that hold for every size with
TLAPS.  `PROJECT.json` lists, for every definition, the lines it stands for.

## 1. Inventory

| Component | Where | State | Operations | Talks to |
|---|---|---|---|---|
| Upstream load balancer | `pkg/upstream` | the shared counter of `roundRobin` or generator of `randomPick`; per call the attempts and the URLs tried | `Next`, `PostBytes` | called by the rank client of recommend and the TF client of rank, from every request goroutine |
| Algorithm log pool | `pkg/kafkapush` | the buffered channel, the worker, the `sync.Once` of Close, the writer and the batches it holds | `Push`, `loop`, `Close` | pushed by every request of recommend, writes to Kafka |
| Center pipeline | `recommend/internal/pipeline`, `logic` | per request: exclusive pool, lane batches, exposure, the list, the response | recall, merge, filter, rank, show, log | Redis, rank, show control, log pool |
| Show control | `recommend/internal/centerconfig/show.go`, `apply.go` | the list handed from strategy to strategy | ScoreControl, HomogenContent, MMRRearrange, ForcedInsert | Redis (exchange map) |
| Rank service | `rank/internal/logic`, `rankengine`, `svc` | per group: the items, their three scores and their order | engine choice, FM, truncations, TF, re-rank | Redis, TF-Serving through `pkg/upstream` |
| Recall lanes | `recommend/internal/recall`, `featurestore/recall_tag.go`, `liveredirect.go` | none | the user's own data, then Redis, then lists of the code; tag budgets, expiry | Redis |
| AB and user group resolution | `centerconfig/resolve.go`, `recsyskit/funnel_config.go`, `rank_exp_conf.go` | none | pick an entry by experiment, then by group | configuration |
| Service wiring | `recommend/main.go`, `svc`, `config/env.go`, `rank/main.go`, `svc` | the mode, the libraries, which parts are there | environment over yaml, load files, connect, start or refuse | Redis, configuration files |
| Funnel mode | `recommendlogic.go`, `recsyskit/funnel_*.go` | per request: batches, list | as center mode, without exclusive pool | Redis, rank |
| Feature store | `pkg/featurestore` | the connection | connect with a password, reads of Redis, feature merging | Redis |
| Password codec | `pkg/redisdecrypt` | none | wrap and unwrap a password in AES blocks | feature store |
| FM and TF scoring | `rankengine/fm.go`, `tf_rest.go`, `trans.go`, `features.go` | the loaded model and field table | load files, features of an item, score, read an answer | TF-Serving |
| Algorithm log record | `pkg/algolog`, `logic/algopush.go` | none | one line per answered request | log pool |
| Scripts, protocol file | `scripts`, `api` | none | installation | |

What makes these parts correct, and hard:

* **Balancer.** The only state that requests share, with the log pool.  Load
  must stay even and failover complete while calls, failures and failovers of
  many goroutines interleave on one counter; the counter wraps; the random
  generator has no lock.
* **Log pool.** A bounded queue that must not block a request, must drop only
  when it is full, keep the order of the rest, and drain on Close, which several
  goroutines may call while others push and the process may end at any time.  The
  writer is asynchronous: what it was handed it batches in the process, and only its
  Close waits for the batches to be sent.
* **Center pipeline.** A sequence of reads each of which may fail on its own:
  some failures end the request, others are swallowed.  What was read at one
  step (portraits, exposure) is used at another; caps are applied at six places;
  the exclusive pool bypasses merge and rank and comes back at show control.
* **Show control.** Strategies are composed by configuration; each is local and
  the list they produce together must still show every item once, keep what
  was ranked, and put inserts where the configuration wants them.
* **Recall lanes.** Each lane falls through up to four sources, and a failed read
  is taken for a missing key; shares of a budget are rounded; entries expire;
  the same unknown lane is skipped in one loop and ends the request in another.
* **Resolution.** Three fallbacks in a row (experiment, baseline, first entry;
  then group, first row) that each layer of configuration takes on its own.
* **Rank service.** Three sorts and three caps in a row, over scores some of
  which are stand-ins for calls that failed.
* **Scoring.** Model and field table are text files whose read may stop early; two
  forms of an index share one key space; documents give any subset of the features,
  and what they lack is made up.
* **Wiring.** A start succeeds with parts missing (no Redis, no rank address, no
  log topic, no filter file), and every combination has to serve requests or fail them.

`PROJECT.json` lists these as hazards, at their lines, with the properties that
would catch each of them going wrong.

## 2. Modules

| Module | Models |
|---|---|
| `Upstream` | `HTTPDoer.PostBytes` by any number of goroutines over one `roundRobin` or `randomPick` |
| `FailoverCall` | abstract: what a caller of the doer may rely on |
| `UpstreamProofs` | theorems about `Upstream` |
| `KafkaPool` | `kafkapush.Pool`: pushers, the worker, closers, the end of the process |
| `LossyFifo` | abstract: what the pool promises of the logs |
| `KafkaPoolProofs` | theorems about `KafkaPool` |
| `ItemLists` | the pure list functions of recommend: caps, dedupe, merge, fold, exposure filter, reorder by rank |
| `ShowControl` | the four show strategies as operators on lists |
| `ShowChain` | `ApplyShowStrategiesWithExclusive`: strategies one after the other |
| `CenterPipeline` | recommend from its start to the response and log of one request, in every mode |
| `RequestLife` | abstract: what recommend promises of its start and of a request |
| `ServiceWiring` | the configuration of recommend under its environment, and the service made of it |
| `Resolution` | the choice of an entry by experiment, of a row by user group, of the endpoints of a service |
| `ResolutionProofs` | lemmas on what these choices return |
| `ListProofs` | lemmas on what the operators of `ItemLists` and `ShowControl` do to a list |
| `ShowChainProofs` | theorems about chains of strategies |
| `CenterPipelineProofs` | theorems about a request of recommend, and that it implements `RequestLife` |
| `RecallLanes` | recall of one request: resolution, then every lane from its first source to its last |
| `RecallLanesProofs` | lemmas on the shares of tags, theorems about `RecallLanes` |
| `RankService` | the rank service from its start to the answer for one item group |
| `RankServiceProofs` | lemmas on sorts and cuts, theorems about `RankService` |
| `FMScoring` | files of the FM model and field table, features, FM score, the vector for TF-Serving and its answers |
| `FeatureRedis` | the password codec and the connection to the feature store |
| `MC...` | instances for TLC |

`CenterPipeline` extends `ShowControl`, which extends `ItemLists`, and
`ServiceWiring`, which extends `Resolution`; it uses the same operators `ShowChain`
checks on their own over many more lists.  It resolves its rows, variants and
strategies itself and implements `RequestLife`.  `RecallLanes` extends `ItemLists`
and `Resolution`, `FMScoring` extends `ItemLists`, and `RankService` all three and `FeatureRedis`.  What a lane
of `RecallLanes` answers is a choice from `LaneLists` in `CenterPipeline`, which
adds the portraits, the fold and the caps that follow a lane.  What
`Upstream` and `KafkaPool` do to a request is a choice in `CenterPipeline`: the
rank call answers or fails, and the log is pushed.  `CenterPipeline` takes the
outcome of the connection to Redis as a choice; `FeatureRedis`, which both services
run, is composed with the start of rank.

**State and actions.**  The correspondence is kept as direct as the code allows.

* `Upstream`: `i` is `roundRobin.i`, `a`, `base` and `tried` are the locals of
  `PostBytes`.  Each action is the code between two points where goroutines
  can interleave: `Call`, the balancer's atomic add together with the local
  code that follows it (`PickRoundRobin`), the outcome of an attempt
  (`AttemptFails`: no request could be made, network error, timeout, short body,
  status >= 500; `AttemptSettles`: any other status), `GiveUp`, `Return`.  An endpoint
  `http.NewRequest` refuses is in `Unusable`: it costs an attempt and nothing is sent,
  so `posts`, the requests a call has sent (history), is not its attempts.
  `rand.Rand.Intn` is not atomic, so a draw is two actions; draws that overlap
  are undefined behaviour, and the outcomes are any index or the panic of
  `rngSource` indexing out of range.  The counter is `% CounterMod` for 2^64.
* `KafkaPool`: `ch` is the channel, `loop` and `cur` the worker, `once` the
  `sync.Once`, `closer` where each caller of `Close` is.  `Push` is one action:
  a `select` with a default is atomic for the channel; a send on a closed
  channel panics in it.  `out` is what was handed to `WriteMessages`, whose
  error the worker ignores; `batch` is what of it the asynchronous writer (`pool.go:51`)
  still holds.  `Flush` sends some of it, to a broker or to nowhere after the last
  attempt; `writer.Close` waits until nothing is left, and `Exit` takes all of it along.
* `CenterPipeline`: `svc` is the `ServiceContext`: `Boot` merges the environment into
  the yaml, selects the mode (a recall file means center mode, else a funnel file
  means funnel mode, else the stub), opens the files the mode names and connects to
  Redis, and any of these may refuse the start.  `pc` is then the position in
  `Recommend.Handle` and in `Center.Run` or `handleFunnel`, one action per stage or
  per turn of a loop over lanes or strategies.  `Resolve` is the arrival of a
  request, its user group (from the request, else from the user's features, which
  may be unreadable) and its recall row; filter and show rows are resolved where the
  code does.  Each read of Redis and each answer of rank is chosen when the code asks
  for it; without a feature store (`svc.features`) nothing is read, without a rank
  client (`svc.hasRank`) the call panics and the request fails.  `served`, `vouched`
  and `scored` are history: the group each layer's row was of, ids of a lane's
  list, cut to its `UseTopKIndex`, that had a portrait, scores rank gave.
  Funnel mode shares the actions of the lanes, the merge, rank and the response; `FunnelFilter` replaces `Filter`, with its second read of
  portraits whose error is ignored, and the exclusive lanes run ahead of the
  main ones in `MainRules`, where an error ends the request.  `Stub` is
  `Pipeline.Run` over the list of the code, with rank as its only stage.
* `ServiceWiring`: functions from a configuration, an environment and a set of sound
  files to the service.  A library is a sequence of experiment buckets of rows,
  as `Resolution` reads them.
* `RecallLanes`: `rules` and `k` are the lanes and the loop over them; `pc` is the
  source `Registry.Lane` has come to (`user`, `interest` and `tags`, `list`,
  `stub`).  One action per read.  `now` is the clock `ParseLiveRedirectItems`
  reads; it may advance between the lanes.  Weights are integers and a share is
  `(2wb + s) div 2s`, which is `int(w * (b/s) + 0.5)` without its rounding error.
* `RankService`: `Boot` connects to Redis, loads the experiment file and builds every
  engine (the default one, bundles, profiles); any broken part refuses the start.
  `work` is the slice of `itemWork`, `preN` and `rankN` the two
  truncations, one action per stage and one per turn of the TF loop.  `docs` are
  the documents `PreRank` read: whole, empty, malformed.  Scores are
  integers in units of 0.00001; the mock's is computed in int64, with `Half` for 2^63:
  the sum wraps around and its remainder has the sign of the dividend, as `%` has in Go.
  `sort.Slice` is not stable, so a sort is any
  permutation that is ordered.  `coarse` and `sent` are history.
* `FMScoring`: a file is its lines and how many of them a scan gets to see.  A key
  is `field * Hi + value`; `Hi` stands for 2^32 and `Lo` for 2^24.  Weights of the model
  are integers and those of features hundredths, so the score is exact up to the
  sigmoid, a constant operator, as is the hash of placeholder features.
* `FeatureRedis`: a byte is one bit, a block `BlockSize` of them, AES any permutation of
  blocks (`Cipher`), so chaining, padding, the length byte and the refusals of
  `DecryptPassword` are as in the code.

Scores of show control are small integers and the MMR weight is in tenths, so
that its comparisons are exact; that the code's floats may round is not
modelled.

## 3. Runs

| Run | Shows | Bounds |
|---|---|---|
| `upstream_safety` | fair rotation, complete failover of an undisturbed call, the contract, every call returns | 2 callers, 3 instances, 2 calls each, counter modulo 6 |
| `upstream_random` | the random policy keeps the contract and returns | 2 callers, 3 endpoints of which two are one instance and the third cannot be posted to, 1 call each |
| `upstream_moves_on` | violated: a failure moves on to another instance | 2 callers |
| `upstream_draw_panics` | violated: the random balancer always answers | 2 callers |
| `kafka_pool` | order, one fate for every log, drain of queue and batches, refinement of `LossyFifo`, Close and every accepted log get through | 2 pushers of 2 logs, 2 closers, channel of 2 |
| `show_chain` | every chain of two strategies | every list of up to 4 items, with scores above and below zero, 5 pools, 4 exchange maps |
| `show_insert_keeps_ranked` | violated: a paged insert loses nothing that was ranked | as above |
| `recall_lanes` | shares of tags, expiry, fallbacks, in both modes | 7 requests, 7 rows or experiment arms, 4 interests, 4 tags |
| `recall_tag_empty` | violated: a tag lane is empty without a tag interest | one request of center mode |
| `center_pipeline` | what a response and its log may hold, in every mode, and that recommend implements `RequestLife` | 5 configurations, 3 environments, 6 requests, 3 audiences, 4 experiments, 3 lanes, 5 items |
| `rank_service` | what an answer of rank may hold, that experiments stay apart, that files, scores and passwords come through | 3 items, 6 requests, 8 configurations of engines and 11 of passwords, 12 pairs of documents, 5 answers of TF-Serving |
| `rank_dense_dropped` | violated: a `tf_dense` vector reaches TF-Serving | one engine, one request |

**Why the bounds are enough.**  Two callers show every race on the counter, as
an action reads nothing but the counter and the caller's own locals; twelve
picks at most go through a counter of 6 twice, so the wrap is covered for a
modulus the length divides.  (2^64 is a multiple of the number of endpoints only
when that is a power of two: otherwise the rotation jumps once per wrap, which
`Steady` excludes and the proof treats in general.)  A channel of two with
four logs fills, drops, drains and is closed at every fill.  Chains of two
strategies include every ordered pair, and a strategy depends on earlier ones
only through the list it gets, of which all small ones are initial.  The
configurations of `center_pipeline` select every mode, one names a broken file the mode
does not open and one a broken file it does; the environments take Redis away, turn
the log on, and blank or replace the rank address.  Its requests name an experiment
only some layers know, one whose bucket is empty, one that selects a variant
inside a row, and an audience by name or by the user's features; two audiences
differ in every layer.  Its lists repeat ids within and across lanes and include
ids of the exclusive lane.  In `rank_service` scores tie, nearly tie and differ by more
than the re-rank noise, one id is so large that its mock scores wrap around (`Half` is 2^16;
only that a sum may pass it, and that the remainder then is negative, matters), a table lists an experiment ahead of its baseline, a
field table is whole, cut short or not there, a model repeats a
key in both forms of an index and is read to its end, in part or with a line too
short, documents give flat and nested slots beyond their range, raw keys that do
not parse, or nothing, and passwords have every length modulo the block.
In `recall_lanes` interests tie, have more
tags than the budget has places and give one tag more than a tag may have
(`ShareCap`, 2 for 50); redirect entries are expired, about to expire, undated
and invalid, and one id comes twice; lanes are switched off, unknown, exclusive and main.

**Fairness.**  `Upstream`: weak fairness of the steps of a call once entered,
not of entering one; an HTTP client timeout ends each attempt and a goroutine
that can run is scheduled.  `KafkaPool`: weak fairness of the worker, whose
write is bounded by a context of 3 s, of `Flush`, as a batch is sent 200 ms after it was
begun (`BatchTimeout`) and each attempt ends in 5 s (`WriteTimeout`), and of a closer that can resume; pushes,
Close and the end of the process may never happen.  `CenterPipeline`: weak
fairness of `Boot` and of `Work`, everything the goroutine of a request does once it
has it: its reads of Redis and its calls to rank time out, and it waits for nothing
else; `Resolve`, the arrival of a request, is not fair.  `RequestLife` needs it for
its promise that a start and a request end.  `ShowChain` and
`RankService` state the same of their single thread; only safety is checked of them.

## 4. Properties

* `FairShare`: no index of the endpoint list is ever two answers ahead of
  another, under every interleaving of callers and failovers.
* `SoloCoversAll`: a call that failed and with which no other call interleaved has
  tried every endpoint.  The side condition is needed: see `FailoverMovesOn`.
* `KeepsContract`: `Upstream` implements `FailoverCall`: at most Budget attempts, at
  most one post in each, none after a settled one, no verdict of an instance without a
  post, and failure only with the budget spent.
* `FifoOnce`, `PushesAccounted`, `CloseDrains`, `IsLossyFifo`,
  `CloseCompletes`, `AcceptedAreWritten`: the promises of the log pool; for every caller of
  `Close`, not just the first, its return means that all accepted logs were
  handed over and that no batch waits in the writer; a log is lost only to a full channel or, after a close has begun, with
  a sender that panics.
* `ShownOnce`, `HomogenReplaces`, `InsertsOnTop`, `PagesKeepOrder`, `MMRRearranges`:
  what strategies may do to a list, alone and after one another.  The search of
  MMRRearrange for its next item starts at -1 (`apply.go:164`): it leaves items out before its
  dimension is reached only when each of them has a score as far below zero as the highest is
  above it.
* `IsRequestLife`: `CenterPipeline` implements `RequestLife`.  Recommend starts or
  refuses; a request it takes ends; an answer shows no item twice whatever lanes,
  pool, exchange map and strategies have in common; an answer leaves one record that
  agrees with it exactly when the log pool is on, and a failure leaves none.
* `ShownAreEligible`: a shown item had a portrait and was under the exposure limit
  when it was read, also when it came through the exclusive pool.  The two
  modes differ at the boundary: center mode shows an item with as many exposures
  as its limit (`apply.go`), funnel mode does not (`funnel_filter.go`).
* `MergeFills`, `ScoredComeFirst`, `ForcedShown`: caps count distinct items, unscored
  items stay behind scored ones, and what an exclusive lane found is shown although
  ranking had nothing to do.
* `ScoresSurvive`: the score logged for an item is the one rank gave it times the
  boosts that name its lane; only an item that was also in the exclusive pool may
  lose it, as a forced insert keeps the pool's copy.
* `OneGroupServes`: recall, filter and show resolve the audience on their own, yet
  where the bucket has a row for the request's group no layer serves another.  (A
  funnel request may come without a group, and then every layer serves its first row.)
* `AnswersAll`, `CutsTheWorst`, `ReRankIsMarginal`: failures of TF-Serving never
  lose an item, both truncations cut the lowest coarse scores (see the end of section 5),
  and re-rank only settles near ties.  Its noise is worth 0.00999 against an item whose
  own noise is not negative, which positive ids that do not overflow make sure, and twice as
  much against any other.
* `BaselineUntouched`: an experiment has no effect on a request that does not name
  it, in either stage and whatever the other stage resolves to.
* `TransIsWhole`: no engine runs with a field of its table left out because the read
  of the file stopped early.
* `ScoreIsPairwise`: the coarse score, which the code computes by a sum of squares, is
  the sum over all pairs of features with the weights of the last line of each key,
  in either form of the index.
* `PasswordSurvives`: a password of any length that `EncryptPassword` wrapped is the one
  the service presents.
* `SharesAreFair`, `HeaviestIsServed`: the shares of the tags of a lane stay within
  its budget and follow the weights, and the heaviest tag is served first.
  With more than twice as many equal tags as places every share may round to 0,
  which the second property excepts: the lane then falls through to Redis.
* `NewestFirst`: a redirect lane answers with the newest fresh entries of the user,
  as many as the rule asks for, and with something else only when none is fresh.
  The list is not freed of repeated ids, so the property counts places, not ids.
* `RedisNeverFails`: a read that fails or finds nothing ends a request only in a
  lane the code has no list for, and in center mode only in a main one.

## 5. What the violated runs show

* `FailoverMovesOn`: README.md:426 says a failure moves on to the next
  instance.  Two calls that fail over at once take each other's turns of the
  shared counter, and one posts again to the instance that failed it.
* `NextAnswers`: `randomPick.Next` draws from an unguarded `rand.Rand`.
* `InsertKeepsRanked`: a paged ForcedInsert whose queue ends before its pages
  resumes the list after pages it never built and drops the items between.
* `TagLaneIsEmpty`: README.md:211 says of a user without a tag interest that the
  lane is empty.  `Registry.Lane` goes on to the Redis list of the recall type
  and then to the list of the code, and answers with items.
* `DenseReachesTF`: README.md:196 says raw `fm_sparse` and `tf_dense` fields are
  supported.  `RankGroupExt` keeps a dense vector only when the documents also give a
  sparse key (`engine.go:88`); with `tf_dense` alone TF-Serving gets a synthetic one.

Two more places where words and code part are not runs of their own.  README.md:187-192 draws
`RankTrunc` behind TF-Serving and behind the sort by its scores.  `RankGroupExt` applies it
before (`engine.go:115-121`), to the list sorted by coarse score, so an item it cuts never gets
a fine score; `config.go:40` ("before TF") sides with the code.  `CutsTheWorst` states what
the code does: it is about coarse scores, and says nothing of the cut the figure draws.
recommend-showcontrol.json:19 calls HomogenContent a replacement within TopN; without an
exchange map the code cuts the list to TopN (`show.go:43`), and what was ranked behind
is gone.  `HomogenReplaces` is about the turns that had a map.

## 6. Proofs

`UpstreamProofs`, for any set of callers, any non-empty list of endpoints (which
may repeat an instance), any counter modulus not below its length and any number
of calls:

* `TypeCorrect`: `Spec => []TypeOK`.
* `RoundRobinIsFair`: `Spec => []FairShare`.
* `SoloFailoverIsComplete`: `Spec => []SoloCoversAll`.
* `ContractKept`: `Spec => KeepsContract`.

The inductive invariant has three parts beside the type.  `Counted`: where a call
stands bounds its attempts, and it has tried no more URLs than it made attempts (so
the early exit at `httpcall.go:116` never fires: the budget ends first), and it has posted when
its instance may answer.  `Balanced`:
until a wrap breaks the rotation, the counter modulo the length determines
exactly which indices were handed out once more than the others; `FairShare`
alone is not inductive, since it does not say which index comes next.  `Covered`:
while no other call interleaved, the indices handed to a call are a run of
consecutive ones that ends at the counter, as long as the attempts it made.  The
arithmetic of the counter is in lemmas of its own; the step through the wrap is
the case where the modulus is a multiple of the length.

`KafkaPoolProofs`, for any sets of pushers and closers, any capacity and any
number of pushes:

* `TypeCorrect`: `Spec => []TypeOK`.
* `EveryPushHasOneFate`: `Spec => []PushesAccounted`.
* `LogsKeepTheirOrder`: `Spec => []FifoOnce`.
* `CloseLeavesNothing`: `Spec => []CloseDrains`.
* `PoolIsLossyFifo`: `Spec => IsLossyFifo`.

Its invariant is `TypeOK`, `FifoOnce` and `Phases`, which ties the state of
the `sync.Once`, the channel, the worker and the closers together: a closer
is past the join only when the worker is gone, and the worker goes only with the
channel closed and empty; the once is done only with the writer closed and its batches
sent, and with no worker left to fill them again.  With `FifoOnce` that is `CloseDrains`.  `PushesAccounted` is
inductive with `Fates` beside it: what a sender has not pushed yet is nowhere, so
a new log cannot already have a fate.

`ListProofs` has what the lists of recommend are reasoned about with, for lists of any
length.  A sort, a filter or a cut selects places: `Keep` gives the chosen places
in order (`KeptItems`, `KeepsDistinct`) and is the only sequence that does (`KeepIsUnique`).  That
one list keeps the order of another is `Woven`: concatenation, caps and inserts keep it
(`BehindIsWoven`, `FollowedIsWoven`).  From these follow what each operator does:
`DedupedItems`, `Flattened`, `PrependedOnTop`, `Homogenized`, `ScoreControlled`, `Rearranged`
(with `LeftOut`: below what score the MMR search finds nothing), `QueuesFilled`, and one lemma for each shape of a forced insert.

`ShowChainProofs`, for any list of distinct items, any exclusive pool, exchange map
and chain of strategies:

* `NothingShownTwice`: `Spec => []ShownOnce`.
* `AlternativesReplace`: `Spec => HomogenReplaces`.
* `InsertedOnTop`: `Spec => InsertsOnTop`.
* `PagesInOrder`: `Spec => PagesKeepOrder`.
* `RearrangedOnly`: `Spec => MMRRearranges`.

The invariant, `ChainInv`, has the list without repetitions and the strategy one of a chain the
configuration may give; `HomogenReplaces` needs it, as an item that stood twice in the
list could give way once and stay once.  For the pages the lemmas follow `InPages`, which
says of every inserted item where it is in the queue and what of the list is in front of
it, from the pages laid one behind the other through what is appended to them and the
removal of duplicates; `PagesCounted` then counts two disjoint sets of places, the
inserted ones and those of the full pages before the last of them.

`CenterPipelineProofs`, for any files, libraries, strategies, lists of Redis, exchange maps, answers
of rank and requests:

* `LayersServeTheGroup`: `Spec => []OneGroupServes`.
* `MergeLosesNothing`: `Spec => []MergeFills`.
* `RequestsLive`: `Spec => Life!Safety`, the refinement of `RequestLife` without its fairness.
* `ShownWereEligible`: `Spec => []ShownAreEligible`.
* `ForcedItemsShown`: `Spec => []ForcedShown`.
* `ScoredAreFirst`: `Spec => []ScoredComeFirst`.
* `LoggedScoresSurvive`: `Spec => []ScoresSurvive`.

Each speaks of the answer, and says nothing of the stages that make it; its
invariant says what each stage has achieved so far.

* `Serving`: every layer that has served served the row `Resolution` gives for the
  group and the experiments of the request as they are now: no later step changes
  what the choice depends on.  That the choice prefers the group's own row is
  `OwnRowServes` in `ResolutionProofs`, which rests on `PickIsEntry` (an entry is picked from a
  table that has one) and on the least element of a set of indices.
* `Sound`: the lists are lists of items, the rows are rows of the configured files
  (`Shape`), and from the merge on no id repeats.  `Silent`: nothing is shown or logged
  before the answer.  The two give `RequestsLive`, one action of `RequestLife` at a time.
* `Eligible`: what was recalled has its portrait until the filters, then it is allowed,
  and nothing later brings in anything else but alternatives.  In funnel mode the
  pool is empty: without that the second read of portraits, which replaces the first,
  would leave the pool behind with portraits nobody asked for.
* `Topped`: the strategies are those of the show row, and what the last one applied
  forced in is on top; the lemmas on `ApplyForcedInsert` say that it finds what is in the pool.
* `Ranked`: after rank the scored items are in front; every strategy but `MMRRearrange`
  weaves its list from the one it got and what it puts in.
* `Scored`: nothing has a score before rank, rank scores the list, and after n
  strategies an item has its score times the factors of the first n.

`RecallLanesProofs`, for any rules, interests, lists and indexes of Redis and any clock:

* `SharesStayFair`: `Spec => []SharesAreFair`.
* `HeaviestTagIsServed`: `Spec => HeaviestIsServed`.
* `NewestAreShown`: `Spec => NewestFirst`.
* `RedisNeverEndsRequest`: `Spec => []RedisNeverFails`.

The shares are computed one tag after the other, each at most what the tags before it
left.  `FairShare` is the arithmetic of one of them: a heavier tag's rounded part is no
smaller, and with at most two tags for each place the heaviest one's is at least 1.  `Allocated` takes it
through the loop; its invariant says that what is left only shrinks, so a later share that
is cut short is not above an earlier one.  The invariant of the lane is `Sound`: `Asked` (a lane on
its way asks for at least one item), `Tagged` (what `Allocated` gives, that the tags are sorted,
and that what the first tag brought is in front of what the others did) and `Answered`.
`NewestShown` follows an entry of a redirect lane from the list through the filter, the sort
and the cut: the places it goes through give the injection `NewestFirst` asks for.

`RankServiceProofs`, for any group of distinct items, any engines, experiment tables,
documents and answers of TF-Serving:

* `EveryItemIsAnswered`: `Spec => []AnswersAll`.
* `BestAreKept`: `Spec => []CutsTheWorst`.
* `BaselineStays`: `Spec => []BaselineUntouched`.
* `ReRankStaysMarginal`: `Spec => []ReRankIsMarginal`, if the sigmoid gives integers,
  as the scores of the model are.
* `TablesAreWhole`: `Spec => []TransIsWhole`.
* `ScoresArePairwise`: `Spec => []ScoreIsPairwise`, if the hash of a placeholder feature is
  a number.
* `PasswordsSurvive`: `Spec => []PasswordSurvives`.

The invariant of the lists has three parts.  `ServiceOK`: what the service was built of has
numbers for its truncations, which the checks of `NewServiceContext` do not
say but the files' format does.  `Chosen`: the truncations in force are the ones the
request, its experiments and the engine give, so that `BaselineUntouched` is a
statement on `ResolveStage` alone (`UnnamedIsBase`).  `Ranking`: before the cut the list is
the request's items, in the order of the coarse score; after it, a list without
repeats, of the length the limits say, no item of which was ranked below one that was
cut.  Neither `AnswersAll` nor `CutsTheWorst` is inductive: nothing in them says
that the list is sorted when it is cut, or that no id repeats while the loop runs.
`ReRankStaysMarginal` adds `Scores`: from which stage on which score is a number.  How far the
noise may reach is `NoiseBounds`: a sum below `Half` does not wrap (`WrapKeeps`), and
`MockScoreBounds` gives the range of a remainder with and without its sign.
A sort is a set of bijections of the places, so `PermutedList` gives all that a
sort keeps without induction.

The last three rest on `Built`: every engine in service is what `NewEngine` makes of its
configuration.  Then `TransIsWhole` is a fact about `LoadFMTrans` (`ReadIsWhole`): counts are not
negative, so when the lines that were read come to the total (`FrontHasTotal`), the
lines that were not read count nothing.  `ScoreIsPairwise` needs `Predicted` beside it: the
engine is the one of the profile, and until the cut every score is `Predict` of the features
the item carries, which are numbers however they were come by
(`FeaturesAreFeatures`).  `KeyOfLine` shows that the repacked key of a line is the field
and value its index names, `LastLineCounts` that the model has for a key what the last of its
lines says, and `PairsOf` is the algebra: the square of a sum less the sum of the squares is the sum
over the pairs.  `PasswordSurvives` is `RoundTrip`: `Chained` says of the first m blocks
that each is the cipher of the one before mixed with its text, which the loop of
`EncryptPassword` carries from block to block (`ChainGrows`), and which is enough for
`DecryptPassword` to undo each block on its own; the length byte gives back the length of
the last.

The proofs assume only the named assumptions of the modules, which TLC evaluates on
the runs: of `Upstream` and `KafkaPool` that sizes are numbers and the list of endpoints is
not empty; of `ShowControl`, `ShowChain`, `CenterPipeline`, `ServiceWiring` and `RecallLanes` that a list holds items
(a recalled one without scores), an exchange map gives ids, the list of the code repeats none, and a file
decodes to buckets of rows whose numbers are numbers (of any sign), whose lane types have
lists and whose strategies are the four known ones or unknown; of `RecallLanes` that weights are
positive, as `filterPositiveTagWeights` leaves them; of `RankService` with `FMScoring` that the items of a
group are distinct int64s, as recommend merged them, that the user id is one and `Half` is
a positive number, that scores and truncations are integers, that files and documents have numbers where they have anything, and that the cipher
is a permutation of the blocks.  They rest on no bound of the instances: `MaxCalls` and `MaxPush` are
arbitrary naturals, lists and tables have any length.

The provers cannot instantiate the library's induction theorems.  Where a list is built by
a loop, the model has a function on `0 .. n` instead of a recursive operator or a fold; the proof names
it with `CHOOSE`, shows with the lemma `LoopFunction` that a function with that
equation exists, and carries an invariant from each number to the next with
`LoopStays`, which rests on `Induction`: a set that holds 0 and the
successor of each of its members below n holds n, as there is no least number
outside it.  Every loop of the models is proved about
in this way: the sums, the shares of tags, the blocks of a password, the exchange of items, the
MMR rounds and the queues of a forced insert.  No module uses `RECURSIVE` or a fold of
its own.

Only model-checked:

* every liveness property (`CallReturns`, `CloseCompletes`, `AcceptedAreWritten`, the promise
  of `RequestLife` that a start and a request end): fairness and ENABLED are out of the
  prover's reach;
* that the model of a sort or of a float is exact (section 2), which no proof can say.

## 7. Not modelled

* JSON decoding and the names of its keys, the format of a log line, HTTP routing
  and status codes: data transformations or I/O without control of their own.
  Their results are inputs of the models: documents that are whole, empty or
  malformed, answers in each form `tf_rest.go` reads.
* Floating-point rounding of scores, MMR and tag shares; scores are integers
  or exact fractions, so a tie in the model may be a near tie in the code.
* What a broker does with a batch it is sent (taken and given up look the same), and what TF-Serving and Redis do
  inside: they answer or fail.
* How much an exit without Close loses.  The model has the exit, at any step, but nothing
  bounds the batches the writer may hold then, so there is no property to state; `main`
  never calls Close.
* Two requests at once in `CenterPipeline`: a request shares nothing with another
  but the balancer and the log queue, which have their own models.
* Reloading: configuration, models and libraries are read once at start-up.
* Installation and test scripts, the protocol file, and `pkg/featurekit`, whose types have
  no operations that change state.

## 8. Plan

Done: every component with control of its own, from start-up to the response.  Every
invariant and every action property of a run is also a theorem; what the models leave to
the runs alone is liveness, for the reason section 6 gives.  What is left is to keep them
true to the code: a change of a mapped function changes the definition `PROJECT.json`
maps to it, its run and its proof.
