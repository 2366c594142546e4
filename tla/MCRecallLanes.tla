--------------------------- MODULE MCRecallLanes ----------------------------
(* Libraries of both modes with experiments, rows and lanes of every kind;   *)
(* tag interests with ties, with more tags than places and with a tag that   *)
(* takes everything; redirect entries around the day they are good for.      *)
EXTENDS RecallLanes

Lanes(type, num, top, fold) ==
  [RecallType |-> type, RecallNum |-> num, UseTopKIndex |-> top, SampleFold |-> fold]
Lists(ex, main) == [exclusive |-> ex, main |-> main]
Row(g, ex, main, ab) == [group |-> g, exclusive |-> ex, main |-> main, RecallAb |-> ab]
Live == Lanes("LiveRedirect", 2, 0, 0)
Tag == Lanes("CrossTag7d", 2, 3, 2)
WideTag == Lanes("CrossTag7d", 3, 0, 0)
Unknown == Lanes("Partner", 2, 0, 0)
Off == Lanes("LiveTag", 0, 0, 0)
Deep == Lanes("CollaborativeFiltering", 3, 0, 0)
Arm == [exp |-> 8, exclusive |-> <<>>, main |-> <<WideTag, Deep>>]
Base == [exp |-> 0, exclusive |-> <<Live>>, main |-> <<Tag, Deep>>]
NewUsers ==
  Row(NewUserGroup, <<Live>>,
      <<Lanes("HotMap", 3, 0, 0), Lanes("NewUser_Hot", 2, 0, 0),
        Lanes("NewUser_HighRetention", 4, 0, 0), Lanes("HotSearch", 1, 0, 0)>>, <<>>)
MCLibraries ==
  [center |-> <<[exp |-> 5, rows |-> <<Row("g", <<Unknown, Live>>, <<Off, Unknown>>, <<>>)>>],
               [exp |-> 0, rows |-> <<Row(DefaultGroup, <<>>, <<>>, <<Arm, Base>>), NewUsers>>],
               [exp |-> 6, rows |-> <<>>]>>,
   funnel |-> <<[exp |-> 0, rows |-> <<Row("f", <<Live, Unknown>>,
                                           <<Lanes("LiveTag", 6, 0, 0)>>, <<>>), NewUsers>>]>>]

Request(mode, exps, g, redis) == [mode |-> mode, ExpIDs |-> exps, group |-> g, hasRedis |-> redis]
MCRequests ==
  {Request("center", exps, "", TRUE) : exps \in {<<>>, <<8>>, <<5>>, <<6>>}} \cup
  {Request("center", <<>>, "", FALSE), Request("funnel", <<5>>, "", TRUE),
   Request("funnel", <<>>, NewUserGroup, TRUE)}
NewTagUser == {Request("center", <<>>, "", TRUE)}

Entry(id, ts) == [id |-> id, ts |-> ts]
MCFeatures ==
  {[isNew |-> TRUE, live |-> <<Entry(21, 4)>>],
   [isNew |-> FALSE, live |-> <<Entry(0, 9), Entry(21, 1), Entry(22, 5), Entry(22, 4), Entry(24, 5),
                                Entry(25, 0)>>]}

T(tag, weight) == [tag |-> tag, weight |-> weight]
MCInterests ==
  {<<T(1, 3), T(2, 7)>>, <<T(1, 4), T(2, 4)>>, <<T(1, 2), T(2, 2), T(3, 2), T(4, 2)>>, <<T(3, 9)>>}
MCIndexes ==
  [t \in 1 .. 4 |->
     {<<>>, CASE t = 1 -> <<31, 32>> [] t = 2 -> <<32, 33, 34>> [] OTHER -> <<34, 35, 36, 37>>}]
RedisTypes == KnownTypes \cup {"Partner"}
MCRedisLists ==
  [type \in RedisTypes |->
     CASE type \in {"LiveRedirect", "CrossTag7d"} -> {<<>>, <<41, 42, 43, 44>>}
       [] type = "Partner" -> {<<>>, <<42>>}
       [] OTHER -> {<<>>}]
=============================================================================
