---------------------------- MODULE RecallLanes -----------------------------
(***************************************************************************)
(* The recall of one request (Registry.Lane under the loops of Center.Run  *)
(* and of handleFunnel): the group and the lanes are resolved, then the    *)
(* exclusive and the main lanes run one after the other, each on the data  *)
(* of the user, on Redis, and at last on the lists of the code.  Every     *)
(* read may find nothing.  Ids of the code's own lists are less 910000;    *)
(* weights are integers; the portraits and caps that follow a lane are in  *)
(* CenterPipeline.                                                         *)
(***************************************************************************)
EXTENDS ItemLists, Resolution

CONSTANTS
  Requests,    \* [mode, ExpIDs, group, hasRedis]
  Libraries,   \* mode -> MapRecommend
  Features,    \* what UserJSON may give: [isNew, live], live a sequence of [id, ts]
  Times,       \* the clock when live_redirect is read
  Validity,    \* seconds an entry of it is good for (86400)
  Interests,   \* tag interests that may be read, sequences of [tag, weight]
  Indexes,     \* tag -> lists its inverted index may have
  RedisLists,  \* recall type -> lists that may be read
  ShareCap     \* items one tag may bring (50)

\* any of them may be missing
ASSUME RedisAssumption ==
  /\ \A t \in DOMAIN Indexes : Indexes[t] \subseteq Seq(Int) /\ <<>> \in Indexes[t]
  /\ \A t \in DOMAIN RedisLists : RedisLists[t] \subseteq Seq(Int) /\ <<>> \in RedisLists[t]

\* filterPositiveTagWeights drops the weights that are not positive
ASSUME UserAssumption ==
  /\ Interests \subseteq Seq([tag : DOMAIN Indexes, weight : Nat \ {0}]) \ {<<>>}
  /\ \A feat \in Features : feat.live \in Seq([id : Int, ts : Int])
  /\ ShareCap \in Nat \ {0} /\ Times \subseteq Int

\* numbers of the configuration may have any sign
IsRule(rule) ==
  /\ rule.RecallType \in DOMAIN RedisLists
  /\ {rule.RecallNum, rule.UseTopKIndex, rule.SampleFold} \subseteq Int
AreRules(list) == list \in Seq(ToSet(list)) /\ \A n \in DOMAIN list : IsRule(list[n])
IsRow(row) ==
  /\ AreRules(row.exclusive) /\ AreRules(row.main)
  /\ row.RecallAb \in Seq(ToSet(row.RecallAb))
  /\ \A v \in ToSet(row.RecallAb) : AreRules(v.exclusive) /\ AreRules(v.main)
IsLibrary(lib) ==
  /\ lib \in Seq(ToSet(lib))
  /\ \A b \in ToSet(lib) : b.rows \in Seq(ToSet(b.rows)) /\ \A row \in ToSet(b.rows) : IsRow(row)

ASSUME RequestsAssumption ==
  \A r \in Requests : r.ExpIDs \in Seq(Int) /\ IsLibrary(Libraries[r.mode])

VARIABLES
  pc, req, feat, group,
  rules, exclusive, k,   \* the lanes, how many of them are exclusive, the next one
  now,                   \* the clock
  tags, shares, found,   \* of a tag lane: the tags, their counts, the lists read
  interest,              \* of a tag lane: the user has one
  pooled,                \* what its tags have brought
  answers                \* history: what the lanes answered, [rule, ids, source]

setup == <<req, feat, group, rules, exclusive>>
tagged == <<tags, shares, found, interest, pooled>>
vars == <<pc, setup, k, now, tagged, answers>>

NoFeature == [isNew |-> FALSE, live |-> <<>>]
CrossTags == {"CrossTag7d", "CrossTag14d", "CrossTag30d"}
Rule == rules[k]

Init ==
  /\ pc = "start" /\ req \in Requests
  /\ feat = NoFeature /\ group = "" /\ rules = <<>> /\ exclusive = 0 /\ k = 1
  /\ now \in Times
  /\ tags = <<>> /\ shares = <<>> /\ found = <<>> /\ interest = TRUE /\ pooled = <<>>
  /\ answers = <<>>

-----------------------------------------------------------------------------
\* center mode reads the user's features, and goes on without them; funnel mode
\* has the group of the request only
Resolve ==
  /\ pc = "start"
  /\ IF req.mode = "center"
       THEN /\ feat' \in Features \cup {NoFeature}
            /\ group' = ResolveUserGroup(req.group, feat')
       ELSE UNCHANGED feat /\ group' = req.group
  /\ LET row == ResolveMapRecommend(Libraries[req.mode], req.ExpIDs, group')
         lists == ResolvedRecallLists(row[1], req.ExpIDs)
     IN  IF row = <<>>
           THEN pc' = "no profile" /\ UNCHANGED <<rules, exclusive>>
           ELSE /\ rules' = lists.exclusive \o lists.main
                /\ exclusive' = Len(lists.exclusive)
                /\ pc' = "lane"
  /\ UNCHANGED <<req, k, now, tagged, answers>>

\* the lane answers; the loop goes on
Answer(ids, source) ==
  /\ answers' = Append(answers, [rule |-> Rule, ids |-> ids, source |-> source])
  /\ pc' = "lane" /\ k' = k + 1

\* Redis, if there is one
AfterUser ==
  IF ~req.hasRedis THEN "stub"
  ELSE IF Rule.RecallType \in CrossTags THEN "interest" ELSE "list"

\* Registry.Lane is entered
Lane ==
  /\ pc = "lane" /\ k <= Len(rules)
  /\ tags' = <<>> /\ shares' = <<>> /\ found' = <<>> /\ interest' = TRUE /\ pooled' = <<>>
  /\ IF Rule.RecallNum <= 0
       THEN Answer(<<>>, "none")
       ELSE /\ pc' = IF Rule.RecallType = "LiveRedirect" THEN "user" ELSE AfterUser
            /\ UNCHANGED <<k, answers>>
  /\ UNCHANGED <<setup, now>>

\* an entry without a time stamp never expires
Fresh(entry, time) ==
  entry.id > 0 /\ (entry.ts > 0 => time - entry.ts < Validity)
FreshOf(live, time) == Keep(live, {p \in DOMAIN live : Fresh(live[p], time)})

\* mutant: the list is cut before what has expired is dropped
LiveItems_CutFirst(live, time, n) ==
  {FreshOf(Cap(s, n), time) : s \in SortedBy(live, LAMBDA e : e.ts)}
\* ParseLiveRedirectItems: what is fresh, newest first, at most n
LiveItems(live, time, n) ==
  {Cap(s, n) : s \in SortedBy(FreshOf(live, time), LAMBDA e : e.ts)}

LiveRedirect ==
  /\ pc = "user"
  /\ now' \in {t \in Times : t >= now}
  /\ \E items \in LiveItems(feat.live, now', Rule.RecallNum) :
       IF items # <<>>
         THEN Answer([p \in DOMAIN items |-> items[p].id], "user")
         ELSE pc' = AfterUser /\ UNCHANGED <<k, answers>>
  /\ UNCHANGED <<setup, tagged>>

-----------------------------------------------------------------------------
Budget == Rule.RecallNum * (IF Rule.SampleFold <= 0 THEN 1 ELSE Rule.SampleFold)

\* mutant: the share is rounded down
Rounded_Down(weight, sum, budget) == (weight * budget) \div sum
Rounded(weight, sum, budget) == ((2 * weight * budget) + sum) \div (2 * sum)

\* mutant: what is given away is not taken off the budget
Remaining_Whole(given, budget) == budget
Remaining(given, budget) == budget - Total(given)

\* every tag gets its part of the budget, rounded, while the budget lasts
AllocateTagRecallCounts(weights, budget) ==
  LET given[n \in 0 .. Len(weights)] ==
        IF n = 0 THEN <<>>
        ELSE Append(given[n - 1],
                    Min({Rounded(weights[n], Total(weights), budget), ShareCap,
                         Remaining(given[n - 1], budget)}))
  IN  given[Len(weights)]

\* crossTagLane: the interest is read, its heaviest tags get their shares
TagInterest ==
  /\ pc = "interest"
  /\ \/ /\ \E raw \in Interests :
             tags' \in {Cap(s, Rule.UseTopKIndex) : s \in SortedBy(raw, LAMBDA t : t.weight)}
        /\ shares' = AllocateTagRecallCounts([p \in DOMAIN tags' |-> tags'[p].weight], Budget)
        /\ pc' = "tags"
        /\ UNCHANGED interest
     \/ interest' = FALSE /\ pc' = "list" /\ UNCHANGED <<tags, shares>>
  /\ UNCHANGED <<setup, k, now, found, pooled, answers>>

\* one turn of its loop: an index that is missing or cannot be read is passed
\* over
TagIndex ==
  /\ pc = "tags" /\ Len(found) < Len(tags)
  /\ LET n == Len(found) + 1
     IN  \E ids \in Indexes[tags[n].tag] :
           /\ found' = Append(found, ids)
           /\ pooled' = IF shares[n] <= 0 THEN pooled ELSE pooled \o Cap(ids, shares[n])
  /\ UNCHANGED <<pc, setup, k, now, tags, shares, interest, answers>>

DedupeItemIDsStable(ids) == Keep(ids, {p \in DOMAIN ids : \A q \in 1 .. p - 1 : ids[q] # ids[p]})

TagEnd ==
  /\ pc = "tags" /\ Len(found) = Len(tags)
  /\ IF pooled = <<>>
       THEN pc' = "list" /\ UNCHANGED <<k, answers>>
       ELSE Answer(Cap(DedupeItemIDsStable(pooled), Rule.RecallNum), "tags")
  /\ UNCHANGED <<setup, now, tagged>>

\* mutant: a list that cannot be read ends the request
RedisList_Fails ==
  /\ pc = "list"
  /\ \E ids \in RedisLists[Rule.RecallType] :
       IF ids = <<>> THEN pc' = "failed" /\ UNCHANGED <<k, answers>>
       ELSE Answer(Cap(ids, Rule.RecallNum), "list")
  /\ UNCHANGED <<setup, now, tagged>>

\* laneFromRedisList
RedisList ==
  /\ pc = "list"
  /\ \E ids \in RedisLists[Rule.RecallType] :
       IF ids = <<>> THEN pc' = "stub" /\ UNCHANGED <<k, answers>>
       ELSE Answer(Cap(ids, Rule.RecallNum), "list")
  /\ UNCHANGED <<setup, now, tagged>>

-----------------------------------------------------------------------------
NewUserLane(type) ==
  CASE type = "NewUser_Hot" -> <<2, 3, 4>>
    [] type = "NewUser_HighRetention" -> <<1, 10>>
    [] type = "HotMap" -> <<2, 3, 4, 10>>
    [] OTHER -> <<2, 3>>

HotTypes == {"HotMap", "HotSearch", "NewUser_Hot", "NewUser_HighRetention"}
KnownTypes ==
  HotTypes \cup CrossTags \cup {"LiveRedirect", "CollaborativeFiltering", "LiveTag",
                                "ExtendTag", "RandMap"}

\* laneStub, for a user whose id is a multiple of 7
Stub(type, n) ==
  CASE type = "LiveRedirect" -> Cap(<<1, 2, 3>>, n)
    [] type = "CollaborativeFiltering" -> [p \in 1 .. n |-> 4 + ((p - 1) % 7)]
    [] type = "LiveTag" -> Cap(<<6, 7, 8, 9, 10>>, n)
    [] type \in HotTypes /\ group = NewUserGroup -> Cap(NewUserLane(type), n)
    [] OTHER -> [p \in 1 .. n |-> 10001 + ((p - 1) * 11)]

\* an unknown lane is skipped where center mode runs its exclusive lanes, and
\* ends the request elsewhere
LaneStub ==
  /\ pc = "stub"
  /\ IF Rule.RecallType \in KnownTypes
       THEN Answer(Stub(Rule.RecallType, Rule.RecallNum), "stub")
       ELSE IF req.mode = "center" /\ k <= exclusive
         THEN Answer(<<>>, "error")
         ELSE pc' = "failed" /\ UNCHANGED <<k, answers>>
  /\ UNCHANGED <<setup, now, tagged>>

Ended ==
  /\ pc \in {"failed", "no profile"} \/ (pc = "lane" /\ k > Len(rules))
  /\ UNCHANGED vars

Next ==
  \/ Resolve \/ Lane \/ LiveRedirect \/ TagInterest \/ TagIndex \/ TagEnd
  \/ RedisList \/ LaneStub \/ Ended

Spec == Init /\ [][Next]_vars

-----------------------------------------------------------------------------
\* The shares of the tags stay within the budget of the lane and follow the
\* weights: a heavier tag never brings less than a lighter one, and no lane that
\* answers with items has more than RecallNum of them.
SharesAreFair ==
  /\ pc \in {"tags", "list"} /\ tags # <<>> =>
       /\ Total(shares) <= Budget
       /\ \A p, q \in DOMAIN tags : tags[p].weight > tags[q].weight => shares[p] >= shares[q]
  /\ \A n \in DOMAIN answers :
       answers[n].ids # <<>> => Len(answers[n].ids) <= answers[n].rule.RecallNum

\* The strongest interest of the user is served first: when the index of the
\* heaviest tag has items the lane begins with them, unless there are more than
\* twice as many tags as the budget has places (then its share may round to 0).
HeaviestIsServed ==
  [][(pc = "tags" /\ pc' # "tags" /\ found[1] # <<>> /\ Len(tags) <= 2 * Budget) =>
       answers' # answers /\ Head(Last(answers').ids) = Head(found[1])]_vars

\* A redirect lane shows the user's own entries while any is fresh: as many as
\* its rule asks for, each entry once, newest first, and none that is fresh and
\* left out is newer than one shown.
NewestFirst ==
  [][(pc = "user" /\ pc' # "user") =>
       LET live == feat.live
           fresh == {e \in DOMAIN live : Fresh(live[e], now')}
           ids == Last(answers').ids
       IN  fresh # {} =>
             /\ answers' # answers
             /\ Len(ids) = Min({Cardinality(fresh), Rule.RecallNum})
             /\ \E shown \in Injection(DOMAIN ids, fresh) :
                  /\ \A p \in DOMAIN ids : ids[p] = live[shown[p]].id
                  /\ \A p, q \in DOMAIN ids : p < q => live[shown[p]].ts >= live[shown[q]].ts
                  /\ \A p \in DOMAIN ids, e \in fresh \ Range(shown) :
                       live[shown[p]].ts >= live[e].ts]_vars

\* Redis never ends a request: only a lane that neither Redis nor the code has
\* items for does, and in center mode only a main one.
RedisNeverFails ==
  pc = "failed" =>
    Rule.RecallType \notin KnownTypes /\ (req.mode = "center" => k > exclusive)

\* What README.md:211 says of a user without a tag interest: the lane is empty.
TagLaneIsEmpty ==
  [][(pc \in {"list", "stub"} /\ ~interest /\ answers' # answers) =>
       Last(answers').ids = <<>>]_vars
=============================================================================
