-------------------------- MODULE MCCenterPipeline ---------------------------
(* Three recall types over five items: an exclusive lane and two main lanes  *)
(* whose lists overlap, portraits and exposure maps that drop some of them.  *)
(* Center mode with three audiences and two experiments, one of which only   *)
(* recall and one of which no audience has a row for; the funnel; neither;   *)
(* a broken file; and an environment that takes Redis or rank away, turns    *)
(* the log on or names an instance.                                          *)
EXTENDS CenterPipeline

MCItemIds == 1 .. 5 \cup 10001 .. 10003
MCRecallTypes ==
  {"LiveRedirect", "CrossTag7d", "CollaborativeFiltering", "stub_hot", "HomogeneityContent"}

Of(recall, ids) == [p \in DOMAIN ids |-> [id |-> ids[p], recall |-> recall, score |-> 0]]
MCLaneLists ==
  [LiveRedirect |-> {Of("LiveRedirect", <<1, 5>>), Of("LiveRedirect", <<5>>)},
   CrossTag7d |-> {Of("CrossTag7d", <<1, 2>>), Of("CrossTag7d", <<3>>)},
   CollaborativeFiltering |-> {Of("CollaborativeFiltering", <<2, 3, 4>>),
                               Of("CollaborativeFiltering", <<4, 4, 1>>)}]
MCUnknown == {"CrossTag7d"}

Rule(type, num, max, top, fold) ==
  [RecallType |-> type, RecallNum |-> num, MergeMaxNum |-> max, UseTopKIndex |-> top,
   SampleFold |-> fold]
Live == Rule("LiveRedirect", 2, 0, 0, 1)
Tag == Rule("CrossTag7d", 2, 2, 0, 0)
CF == Rule("CollaborativeFiltering", 3, 2, 0, 1)
CFThinned == Rule("CollaborativeFiltering", 3, 0, 3, 2)

RecallRow(g, exclusive, main, all, final) ==
  [group |-> g, exclusive |-> exclusive, main |-> main, RecallAb |-> <<>>,
   AllMergeNum |-> all, FinalRetCount |-> final]
NewUsers == RecallRow(NewUserGroup, <<>>, <<CFThinned, Tag>>, 2, 0)
Arms == <<[exp |-> 8, exclusive |-> <<>>, main |-> <<CFThinned>>],
          [exp |-> 0, exclusive |-> <<Live>>, main |-> <<Tag>>]>>
Partner == [RecallRow("partner", <<>>, <<>>, 0, 0) EXCEPT !.RecallAb = Arms]
MCRecall ==
  <<[exp |-> 0, rows |-> <<RecallRow(DefaultGroup, <<Live>>, <<Tag, CF>>, 3, 2), NewUsers, Partner>>],
    [exp |-> 7, rows |-> <<RecallRow(DefaultGroup, <<Live>>, <<Tag>>, 0, 0)>>],
    [exp |-> 9, rows |-> <<>>]>>

Exposed(limit) == [type |-> "LiveExposure", limit |-> limit]
Less == [type |-> "FeatureLess", label |-> ""]
Label == [type |-> "LabelTypeWhiteList", label |-> "vip"]
FilterRowOf(g, keep, rules, feats, ab) ==
  [group |-> g, KeepItemNum |-> keep, rules |-> rules, feats |-> feats, FilterAb |-> ab]
MCFilter ==
  <<[exp |-> 0, rows |->
       <<FilterRowOf(DefaultGroup, 3, <<>>, <<>>,
                   <<[exp |-> 0, rules |-> <<Exposed(2), Exposed(1)>>, feats |-> <<Less>>],
                     [exp |-> 7, rules |-> <<Exposed(1)>>, feats |-> <<>>]>>),
         FilterRowOf("partner", 0, <<Exposed(1)>>, <<Label>>, <<>>),
         FilterRowOf(NewUserGroup, 0, <<>>, <<Less>>, <<>>)>>]>>

Boost ==
  [type |-> "ScoreControl", method |-> "RecallType", recalls |-> {"LiveRedirect", "CrossTag7d"},
   factor |-> 2]
Unmethodical == [Boost EXCEPT !.method = "", !.factor = 3]
Homogen == [type |-> "HomogenContent", topN |-> 2]
Top == [type |-> "ForcedInsert", PageNum |-> 0, PageSize |-> 0, PageInsertCount |-> 0,
        rules |-> <<[recall |-> "LiveRedirect", count |-> 1, method |-> "TopNOrder"]>>]
MMR == [type |-> "MMRRearrange", lambda |-> 5, dimension |-> 0]
ShowRowOf(g, strats, ab) == [group |-> g, StrategyList |-> strats, ShowAb |-> ab]
MCShow ==
  <<[exp |-> 0, rows |->
       <<ShowRowOf(DefaultGroup, <<>>, <<[exp |-> 7, StrategyList |-> <<Top>>],
                                         [exp |-> 0, StrategyList |-> <<Boost, Homogen, Top>>]>>),
         ShowRowOf(NewUserGroup, <<MMR, Boost, Unmethodical>>, <<>>), ShowRowOf("partner", <<Top>>, <<>>)>>]>>

FunnelRow(g, all) ==
  [group |-> g, exclusive |-> <<Live>>, main |-> <<Tag, CF>>, RecallAb |-> <<>>,
   AllMergeNum |-> all, FinalRetCount |-> 0, MaxItems |-> 2,
   ShowAb |-> <<[exp |-> 8, MaxItems |-> 1], [exp |-> 0, MaxItems |-> 2]>>,
   FilterPolicies |-> <<[type |-> "exposure_backoff", after |-> 3],
                        [type |-> "exposure_backoff", after |-> 2]>>, FilterAb |-> <<>>]
MCFunnel == <<[exp |-> 0, rows |-> <<FunnelRow(DefaultGroup, 3)>>], [exp |-> 9, rows |-> <<>>]>>

MCFiles == [recall |-> MCRecall, filter |-> MCFilter, show |-> MCShow, funnel |-> MCFunnel]
At(host) == [host |-> host]
Shipped ==
  [rank |-> [Endpoints |-> <<At("r1")>>, BaseURL |-> At("")], Disabled |-> FALSE,
   kafka |-> [Enabled |-> FALSE, Brokers |-> <<"b1">>, Topic |-> "algo"],
   CenterRecall |-> "recall", CenterFilter |-> "filter", CenterShow |-> "show",
   Funnel |-> "funnel"]
Funneled == [Shipped EXCEPT !.CenterRecall = "", !.CenterFilter = "broken"]
Legacy == [Funneled EXCEPT !.Funnel = "", !.kafka.Topic = ""]
Unfiltered == [Shipped EXCEPT !.CenterFilter = "", !.kafka.Enabled = TRUE, !.Disabled = TRUE]
Unreadable == [Shipped EXCEPT !.CenterShow = "broken"]
MCConfigs == {Shipped, Funneled, Legacy, Unfiltered, Unreadable}

Env(rank, push, off) ==
  [rank |-> rank, push |-> push, brokers |-> <<>>, topic |-> "", redisOff |-> off]
MCEnvironments ==
  {Env(<<>>, TRUE, FALSE), Env(<<At("")>>, FALSE, TRUE), Env(<<At("r2")>>, FALSE, FALSE)}

Request(exps, g, n) == [ExpIDs |-> exps, UserGroup |-> g, RetCount |-> n]
MCRequests ==
  {Request(<<>>, "", 0), Request(<<>>, "", 3), Request(<<7>>, "", 0), Request(<<9>>, "", 2),
   Request(<<>>, "partner", 0), Request(<<8>>, "partner", 3)}

MCPortraits == {1 .. 5, {1, 3, 4}}
MCExposures == {[id \in {1, 3} |-> 2], [id \in {2, 4, 5} |-> 3]}
MCExchanges == {[x \in {} |-> 0], [x \in {2, 4} |-> 5]}
MCRankScores ==
  {[id \in MCItemIds |-> 1 + (id % 2)],
   [id \in MCItemIds |-> IF id \in {2, 3, 10002} THEN 3 ELSE 1]}
MCStub == Of("stub_hot", <<10001, 10002, 10003>>)
=============================================================================
