----------------------------- MODULE ItemLists ------------------------------
(***************************************************************************)
(* Lists of recalled items, and the operations of recommend that build and *)
(* cut them before rank: merge, sample fold, caps, filters.  An item is a  *)
(* record [id, recall, score]; the portrait of an item is the set of ids   *)
(* that had one when the feature store was asked.                          *)
(***************************************************************************)
EXTENDS Integers, SequencesExt

\* a sum over the entries of a list
Total(s) ==
  LET sum[n \in 0 .. Len(s)] == IF n = 0 THEN 0 ELSE sum[n - 1] + s[n]
  IN  sum[Len(s)]

Ids(s) == {s[k].id : k \in DOMAIN s}

UniqueIds(s) == \A p, q \in DOMAIN s : s[p].id = s[q].id => p = q

\* s[:n] where n > 0 bounds the list and n <= 0 does not
Cap(s, n) == IF n > 0 /\ Len(s) > n THEN SubSeq(s, 1, n) ELSE s

\* what s has at the places I, in order
Keep(s, I) ==
  LET kept[J \in SUBSET DOMAIN s] ==
        IF J = {} THEN <<>> ELSE Append(kept[J \ {Max(J)}], s[Max(J)])
  IN  kept[I]
OfIds(s, ids) == Keep(s, {p \in DOMAIN s : s[p].id \in ids})

\* the orders sort.Slice, which is not stable, may leave s in, by descending
\* Score
SortedBy(s, Score(_)) ==
  {t \in {[p \in DOMAIN s |-> s[f[p]]] : f \in Bijection(DOMAIN s, DOMAIN s)} :
     \A p, q \in DOMAIN t : p < q => Score(t[p]) >= Score(t[q])}

\* the first item of every id, in order (the seen map of every merge)
DedupeKeepFirst(s) == Keep(s, {p \in DOMAIN s : \A q \in 1 .. p - 1 : s[q].id # s[p].id})

\* mutant: the cap is applied to the lanes before duplicates are removed
MergeRecallLanes_CapFirst(batches, allMergeNum) ==
  DedupeKeepFirst(Cap(FlattenSeq(batches), allMergeNum))
\* MergeRecallLanes over the exclusive batches followed by the main ones
MergeRecallLanes(batches, allMergeNum) ==
  Cap(DedupeKeepFirst(FlattenSeq(batches)), allMergeNum)

\* every fold-th item, at most mergeMax of them
ApplySampleFoldAndCap(s, sampleFold, mergeMax) ==
  LET fold == IF sampleFold <= 0 THEN 1 ELSE sampleFold
  IN  Cap([k \in 1 .. ((Len(s) + fold - 1) \div fold) |-> s[((k - 1) * fold) + 1]],
          mergeMax)

\* the part of a lane's list whose portraits are asked for
TopOf(raw, rule) == Cap(raw, rule.UseTopKIndex)

\* what the loops of runExclusiveLanes and runRecallLanes make of one lane
LaneBatch(raw, rule, portraits) ==
  LET marked == OfIds(TopOf(raw, rule), portraits)
      mergeMax == IF rule.MergeMaxNum <= 0 THEN rule.RecallNum ELSE rule.MergeMaxNum
  IN  ApplySampleFoldAndCap(marked, rule.SampleFold, mergeMax)

\* a missing count reads as 0
Count(exposure, id) == IF id \in DOMAIN exposure THEN exposure[id] ELSE 0

\* LiveExposure drops what was shown more often than the limit
FilterLiveExposure(it, exposure, limit) == limit <= 0 \/ Count(exposure, it.id) <= limit

ItemOf(items, id) == CHOOSE it \in ToSet(items) : it.id = id
\* the items that were scored, with their scores, in the order of the rank service
WithScores(items, scores) ==
  [p \in DOMAIN scores |-> [ItemOf(items, scores[p].id) EXCEPT !.score = scores[p].score]]
\* mutant: unscored items come first
ReorderByRank_TailFirst(items, scores) ==
  OfIds(items, Ids(items) \ Ids(scores)) \o WithScores(items, scores)
\* the scored items, then the unscored ones
ReorderByRank(items, scores) ==
  LET known == OfIds(scores, Ids(items))
  IN  WithScores(items, known) \o OfIds(items, Ids(items) \ Ids(known))
=============================================================================
