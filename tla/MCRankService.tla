--------------------------- MODULE MCRankService ----------------------------
(* A service with three engines and one that replaces the default, files     *)
(* that are sound, short or truncated, and passwords of every length modulo  *)
(* the block; three items with documents that give all, some or no features; *)
(* truncations from the request, the experiment and the engine; scores       *)
(* closer to each other and farther apart than the noise of re-rank.         *)
EXTENDS RankService

a == 1
b == 53
c == 4356  \* far enough for its mock scores to wrap around
Request(ids, exps, ret, pre, rank, profile) ==
  [ids |-> ids, ExpIDs |-> exps, RetCount |-> ret, PreRankTrunc |-> pre,
   RankTrunc |-> rank, profile |-> profile]
MCRequests ==
  {Request(<<a, b, c>>, <<>>, 0, 0, 0, <<>>), Request(<<c, a, b>>, <<7, 102>>, 2, 0, 0, <<>>),
   Request(<<b, a, c>>, <<101, 102>>, 0, 0, 0, <<>>),
   Request(<<a, b, c>>, <<>>, 2, 2, 1, <<"mock">>),
   Request(<<a, b, c>>, <<101>>, 0, 3, 2, <<"unknown">>), Request(<<>>, <<0>>, 2, 0, 0, <<>>)}
DenseRequests == {Request(<<a, c>>, <<>>, 0, 0, 0, <<>>)}

Entry(exp, model, trunc) == [exp |-> exp, strategies |-> <<[model |-> model, trunc |-> trunc]>>]
Tables(pre, rank) ==
  [status |-> "read", conf |-> [PreRankExp |-> pre, RankExp |-> rank]]
Shipped == Tables(<<Entry(0, "fm", 0), Entry(101, "fm", 2)>>,
                  <<Entry(0, "tf", 2), Entry(102, "tf_alt", 1)>>)
Late == Tables(<<Entry(101, "fm", 1), Entry(0, "fm", 3)>>, <<[exp |-> 0, strategies |-> <<>>]>>)

Field(f, n) == [field |-> f, count |-> n]
Trans(total, lines, readable) ==
  [status |-> "read", total |-> total, lines |-> lines, readable |-> readable]
Whole == Trans(2, <<Field(1, 1), Field(4, 1)>>, 2)
CutShort == Trans(2, <<Field(1, 1), Field(4, 1)>>, 1)
Broken == [status |-> "broken"]

\* field 1 by its new index, fields 4 and 2 by legacy ones, field 4 twice
Line(index, w1, w2) == [index |-> index, w1 |-> w1, w2 |-> w2]
Model(readable) ==
  [status |-> "read", w0 |-> 0, readable |-> readable,
   lines |-> <<Line(64, 1, <<1, 0>>), Line(4 * 8, -2, <<0, 0>>), Line(4 * 8, 1, <<-1, 1>>),
               Line((2 * 8) + 3, 1, <<1, 1>>), Line(-5, 2, <<1, 0, 7>>)>>]
ShortLine ==
  [status |-> "read", w0 |-> 0, readable |-> 1, lines |-> <<Line(64, 1, <<1>>)>>]

Host(name) == [host |-> name]
TF(hosts, base, model) ==
  [Endpoints |-> hosts, BaseURL |-> Host(base), ModelName |-> model, FeatureDim |-> 2]
NoTF == TF(<<Host("")>>, "", "tf")
Engine(pipeline, trans, model, tf, pre, rank) ==
  [pipeline |-> pipeline, trans |-> trans, model |-> model, Factor |-> 2, tf |-> tf,
   PreRankTrunc |-> pre, RankTrunc |-> rank]
FM == Engine(TRUE, Whole, Model(5), NoTF, 2, 0)
Full == Engine(TRUE, NoFile, Model(3), TF(<<Host(""), Host("tf-1")>>, "", "tf"), 0, 0)
NoModel == Engine(TRUE, CutShort, NoFile, TF(<<>>, "tf-2", ""), 0, 0)
Mock == Engine(FALSE, Broken, Broken, NoTF, 0, 0)
Bundle == <<"fm", "tf">>

NoRedis ==
  [Disabled |-> TRUE, Crypto |-> FALSE, PasswordHex |-> <<>>, env |-> <<>>, password |-> <<>>]
Plain == [NoRedis EXCEPT !.Disabled = FALSE, !.env = <<1, 0>>, !.password = <<1, 0>>]
Wrapped(password) ==
  [Disabled |-> FALSE, Crypto |-> TRUE, PasswordHex |-> EncryptPassword(password), env |-> <<>>,
   password |-> password]
Garbled(hex) == [Wrapped(<<1>>) EXCEPT !.PasswordHex = hex]

Config(redis, exp, engine, bundles, profiles) ==
  [redis |-> redis, exp |-> exp, RankEngine |-> engine, RankModelBundles |-> bundles,
   RankProfiles |-> profiles]
None == [name \in {} |-> Mock]
WithBundle(exp) ==
  Config(Plain, exp, FM, Bundle :> Full, (<<"mock">> :> Mock) @@ (Bundle :> NoModel))
MCConfigs ==
  {WithBundle(Shipped), WithBundle(Late), WithBundle(Broken),
   Config(Plain, NoFile, Mock, Default :> FM, None),
   Config(NoRedis, NoFile, Full, None, None),
   Config(Plain, NoFile, NoModel, None, None),
   Config(Plain, NoFile, [NoModel EXCEPT !.trans = Whole], None, None),
   Config(Plain, NoFile, [FM EXCEPT !.model = ShortLine], None, None)} \cup
  {Config(redis, NoFile, Mock, None, None) :
     redis \in {Wrapped(s) : s \in {<<1>>, <<0, 1>>, <<1, 1, 0>>, <<1, 0, 1, 1>>, <<0, 1, 1, 0, 1>>,
                                    <<1, 0, 0, 0, 1, 1>>}} \cup
               {Garbled(s) : s \in {<<1>>, <<1, 0, -1>>, <<1, 0, 1, 3>>, <<1, 0, 1, 1, 1>>}}}
OneFull == {Config(Plain, NoFile, Full, None, None)}

Doc(sparse, dense, flat, nested) ==
  [ok |-> TRUE, sparse |-> sparse, dense |-> dense, flat |-> flat, nested |-> nested]
Malformed == [NoDoc EXCEPT !.ok = FALSE]
User == Doc(<<>>, <<>>, (1 :> 120) @@ (2 :> 100), (1 :> 30) @@ (3 :> 0))
Item(ctr) == Doc(<<>>, <<7, 8, 9>>, NoTrans, (4 :> ctr) @@ (5 :> -1))
Raw == Doc(<<[key |-> (2 * 64) + 3, weight |-> 100], [key |-> -1, weight |-> 100],
             [key |-> 0, weight |-> 50]>>, <<5>>, NoTrans, NoTrans)
OnlyDense == Doc(<<>>, <<4>>, NoTrans, NoTrans)
MCItems ==
  {(a :> Item(90)) @@ (b :> Item(40)) @@ (c :> Raw), (a :> Raw) @@ (b :> Malformed) @@ (c :> OnlyDense),
   (a :> Item(40)) @@ (b :> Item(40))}
MCDocuments ==
  {[user |-> user, items |-> items] : user \in {User, NoDoc, Raw, Malformed}, items \in MCItems}

Answer(kind, score) == [kind |-> kind, score |-> score]
MCTFAnswers ==
  {Answer("scalar", 700), Answer("list", 1500), Answer("lists", 90000), Answer("null", 7),
   Answer("missing", 7)}

\* a line through 1/2 with the slope 1/4 of the sigmoid at 0, cut at 0 and 1
MCSigmoid(z) == Max({0, Min({Unit, (Unit \div 2) + ((5 * z) \div 4)})})
MCHash(id, f, n) == ((id * 5) + (f * 3) + n) % 4
MCCipher == [x \in Block |-> [i \in 1 .. 3 |-> IF i = 2 THEN 1 - x[1] ELSE x[IF i = 1 THEN 3 ELSE 2]]]
=============================================================================
