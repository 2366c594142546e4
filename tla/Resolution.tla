----------------------------- MODULE Resolution -----------------------------
(***************************************************************************)
(* The choice of configuration by experiment and user group.  A library is *)
(* a sequence of buckets [exp, rows], a row has its group and, for each    *)
(* layer, a sequence of variants [exp, ...] that may be empty; the rank    *)
(* service has one table of [exp, strategies] per stage.  exps are the     *)
(* experiment ids of the request, 0 is the baseline.                       *)
(***************************************************************************)
EXTENDS Integers, SequencesExt

\* EndpointsConfig.Resolve: the endpoints that are left when blanks around them
\* and slashes behind them are taken off (host ""), else the one address
ResolveEndpoints(c) ==
  LET Hosts(urls) == SelectSeq([n \in DOMAIN urls |-> urls[n].host], LAMBDA host : host # "")
  IN  IF Hosts(c.Endpoints) # <<>> THEN Hosts(c.Endpoints) ELSE Hosts(<<c.BaseURL>>)

NewUserGroup == "T0_NewUser"
DefaultGroup == "def_group"

\* the group of the request, else what the user's features say
ResolveUserGroup(reqGroup, feat) ==
  IF reqGroup # "" THEN reqGroup
  ELSE IF feat.isNew THEN NewUserGroup ELSE DefaultGroup

\* mutant: without an experiment the first entry serves, baseline or not
PickABVariantIndex_FirstEntry(exps, entries) ==
  LET known == {v \in DOMAIN entries : entries[v].exp \in ToSet(exps)}
  IN  IF known = {} THEN 1 ELSE Min(known)
\* the first entry of the first experiment of the request that has one, else
\* the baseline, else the first entry
PickABVariantIndex(exps, entries) ==
  LET Of(e) == {v \in DOMAIN entries : entries[v].exp = e}
      known == {r \in DOMAIN exps : Of(exps[r]) # {}}
  IN  IF known # {} THEN Min(Of(exps[Min(known)]))
      ELSE IF Of(0) # {} THEN Min(Of(0)) ELSE 1

\* the row of the group in the bucket of the experiment, else the first row,
\* as a sequence: empty for nil
ResolveMapRecommend(lib, exps, group) ==
  LET rows == lib[PickABVariantIndex(exps, lib)].rows
      own == {r \in DOMAIN rows : rows[r].group = group}
  IN  IF lib = <<>> THEN <<>>
      ELSE IF rows = <<>> THEN <<>>
      ELSE <<rows[IF group # "" /\ own # {} THEN Min(own) ELSE 1]>>

ResolveRecall(lib, exps, group) == ResolveMapRecommend(lib, exps, group)
ResolveFilter(lib, exps, group) == ResolveMapRecommend(lib, exps, group)
ResolveShow(lib, exps, group) == ResolveMapRecommend(lib, exps, group)
\* the funnel has a copy of the same code
ResolveFunnel(lib, exps, group) == ResolveMapRecommend(lib, exps, group)

\* what a layer of a row says: the row itself, or as a whole the variant of the
\* experiment when the layer has some
Variant(row, ab, exps) == IF ab = <<>> THEN row ELSE ab[PickABVariantIndex(exps, ab)]

ResolvedRecallLists(row, exps) ==
  LET lists == Variant(row, row.RecallAb, exps)
  IN  [exclusive |-> lists.exclusive, main |-> lists.main]
ResolvedRuleAndFeature(row, exps) ==
  LET lists == Variant(row, row.FilterAb, exps) IN [rules |-> lists.rules, feats |-> lists.feats]
ResolvedStrategyList(row, exps) == Variant(row, row.ShowAb, exps).StrategyList
ResolvedFilterPolicies(row, exps) == Variant(row, row.FilterAb, exps).FilterPolicies
ResolvedShowControl(row, exps) == Variant(row, row.ShowAb, exps).MaxItems

Missing == [model |-> "", trunc |-> 0]

\* the first strategy of the stage's entry
ResolveStage(table, exps) ==
  LET strategies == table[PickABVariantIndex(exps, table)].strategies
  IN  IF table = <<>> THEN Missing
      ELSE IF strategies = <<>> THEN Missing ELSE Head(strategies)
=============================================================================
