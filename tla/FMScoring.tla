----------------------------- MODULE FMScoring ------------------------------
(***************************************************************************)
(* The scores of the rank service: the files of the FM model and of its    *)
(* field table, the features of a user and an item, the FM score, and what *)
(* TF-Serving is sent and answers.  A file is [status, lines, readable,    *)
(* ...], readable being the number of lines a scan gets before a line      *)
(* longer than its buffer, or a read error between lines, ends it.  Model  *)
(* weights are integers, feature weights are hundredths, a key of -1 in a  *)
(* document is one that does not parse; what may be missing is a sequence, *)
(* empty when it is.                                                       *)
(***************************************************************************)
EXTENDS ItemLists

CONSTANTS
  Lo,                \* values of a field in a legacy index: 2^24
  Fields,            \* fields of a legacy index: 2^8
  Sigmoid(_),        \* score of 20000 times a logit, increasing
  Hash(_, _, _),     \* the placeholder value of an item, a field and a slot
  Half,              \* 2^63: an int64 is a number from -Half to Half - 1
  UserID

Hi == Lo * Fields    \* 2^32: a key is field * Hi + value
Int64 == -Half .. Half - 1
Synthetic == -1      \* stands for a number of denseFeatures
NoFile == [status |-> "unset"]

ASSUME KeyAssumption == Lo \in Nat \ {0} /\ Fields \in Nat \ {0}
ASSUME WidthAssumption == Half \in Nat \ {0}
ASSUME UserAssumption == UserID \in Int64

\* a file that is read has lines of numbers, and a document numbers by numbers
Statuses == {"unset", "read", "broken"}
IsTransFile(file) ==
  /\ file.status \in Statuses
  /\ file.status = "read" =>
       /\ file.lines \in Seq([field : Int, count : Int]) /\ file.total \in Int
       /\ file.readable \in 0 .. Len(file.lines)
IsModelFile(file) ==
  /\ file.status \in Statuses
  /\ file.status = "read" =>
       /\ file.lines \in Seq([index : Int, w1 : Int, w2 : Seq(Int)]) /\ file.w0 \in Int
       /\ file.readable \in 0 .. Len(file.lines)
IsDocument(doc) ==
  /\ doc.sparse \in Seq([key : Int, weight : Int])
  /\ \A slots \in {doc.flat, doc.nested} : \A f \in DOMAIN slots : slots[f] \in Int

Read(file) == SubSeq(file.lines, 1, file.readable)

PackFieldValue(field, value) == (field * Hi) + value

\* the key of a line: a legacy index is repacked, a negative one is key 0
FieldValueFromIndex(index) ==
  IF index < 0 THEN 0
  ELSE IF index < Hi THEN PackFieldValue(index \div Lo, index % Lo) ELSE index

\* mutant: whatever was read is the table
TransComplete_Off(file) == TRUE
\* the counts that were read sum up to the first line
TransComplete(file) == Total([n \in 1 .. file.readable |-> file.lines[n].count]) = file.total

\* the last of the lines that say something of x
LastOf(lines, Of(_), x) == Max({n \in DOMAIN lines : Of(lines[n]) = x})

NoTrans == [f \in {} |-> 0]

\* LoadFMTrans: field -> slots, or nothing
LoadFMTrans(file) ==
  IF file.status = "unset" THEN <<NoTrans>>
  ELSE IF \/ file.status = "broken"
          \/ \E n \in DOMAIN Read(file) : Read(file)[n].field <= 0 \/ Read(file)[n].count < 0
          \/ ~TransComplete(file)
    THEN <<>>
    ELSE <<[f \in {line.field : line \in ToSet(Read(file))} |->
              Read(file)[LastOf(Read(file), LAMBDA line : line.field, f)].count]>>

\* LoadFMModel: the weights by key, or nothing when a line has too few; the end
\* of the scan is not asked for its cause
LoadFMModel(file, factor) ==
  LET Key(line) == FieldValueFromIndex(line.index)
      LineOf(key) == Read(file)[LastOf(Read(file), Key, key)]
      keys == {Key(line) : line \in ToSet(Read(file))}
  IN  IF file.status = "broken" \/ \E line \in ToSet(Read(file)) : Len(line.w2) < factor
        THEN <<>>
        ELSE <<[factor |-> factor, w0 |-> file.w0,
                w1 |-> [key \in keys |-> LineOf(key).w1],
                w2 |-> [key \in keys |-> SubSeq(LineOf(key).w2, 1, factor)]]>>

-----------------------------------------------------------------------------
\* a missing document, a read error and an empty one are the same
NoDoc == [ok |-> TRUE, sparse |-> <<>>, dense |-> <<>>, flat |-> NoTrans, nested |-> NoTrans]

\* the slots of a document, in hundredths of their full weight before clamping:
\* 1 age, 2 gender, 3 income, 4 ctr_7d, 5 revenue_7d; a flat one wins over one
\* of a segment
Slots(doc, fields) ==
  LET slot == [f \in DOMAIN doc.flat \cup DOMAIN doc.nested |->
                 IF f \in DOMAIN doc.flat THEN doc.flat[f] ELSE doc.nested[f]]
      Low(f) == IF f = 3 THEN 10 ELSE 0
      Clamped(f) == Max({Low(f), IF f = 5 THEN slot[f] ELSE Min({slot[f], 100})})
      there == Keep(fields, {p \in DOMAIN fields : fields[p] \in DOMAIN slot})
  IN  [p \in DOMAIN there |-> [key |-> there[p] * Hi, weight |-> Clamped(there[p])]]

\* MergeUserItemJSON: a malformed document spoils both
MergeUserItem(user, item) ==
  LET Parsed(s) == Keep(s, {p \in DOMAIN s : s[p].key >= 0})
  IN  IF ~user.ok \/ ~item.ok THEN [sparse |-> <<>>, dense |-> <<>>]
      ELSE [sparse |-> Parsed(user.sparse) \o Parsed(item.sparse)
                         \o Slots(user, <<1, 2, 3>>) \o Slots(item, <<4, 5>>),
            dense |-> IF item.dense = <<>> THEN user.dense ELSE item.dense]

\* one key per slot of the field table, or one for the pair
BuildPlaceholderSparse(id, trans) ==
  LET Slot(f, n) == [key |-> (f * Hi) + Hash(id, f, n), weight |-> 100]
  IN  IF DOMAIN trans = {} THEN <<Slot(1, 0)>>
      ELSE FlattenSeq([f \in 1 .. Max(DOMAIN trans) |->
                         IF f \in DOMAIN trans THEN [n \in 1 .. trans[f] |-> Slot(f, n)] ELSE <<>>])

\* features only where there is a key: a document with no more than a dense
\* vector counts as none
Features(user, item, id, trans) ==
  LET merged == MergeUserItem(user, item)
  IN  IF merged.sparse # <<>> THEN merged
      ELSE [sparse |-> BuildPlaceholderSparse(id, trans), dense |-> <<>>]

\* mutant: the squares are not taken off
Logit_Squares(fm, features) ==
  LET W2(fe, f) == IF fe.key \in DOMAIN fm.w2 THEN fm.w2[fe.key][f] * fe.weight ELSE 0
      Vec(f) == Total([p \in DOMAIN features |-> W2(features[p], f)])
  IN  (20000 * fm.w0) + Total([f \in 1 .. fm.factor |-> Vec(f) * Vec(f)])
\* the linear part, and the pairs of features by the square of the sum less the
\* sum of the squares; 20000 times the logit
Logit(fm, features) ==
  LET W1(fe) == IF fe.key \in DOMAIN fm.w1 THEN fm.w1[fe.key] * fe.weight ELSE 0
      W2(fe, f) == IF fe.key \in DOMAIN fm.w2 THEN fm.w2[fe.key][f] * fe.weight ELSE 0
      linear == Total([p \in DOMAIN features |-> W1(features[p])])
      Vec(f) == Total([p \in DOMAIN features |-> W2(features[p], f)])
      Sqr(f) == Total([p \in DOMAIN features |-> W2(features[p], f) * W2(features[p], f)])
  IN  (20000 * fm.w0) + (200 * linear)
        + Total([f \in 1 .. fm.factor |-> (Vec(f) * Vec(f)) - Sqr(f)])

\* FMModel.Predict
Predict(fm, features) == Sigmoid(Logit(fm, features))

\* the sums and products of int64 wrap around
Wrap(n) == ((n + Half) % (2 * Half)) - Half
\* the % of Go has the sign of the dividend
GoRem(n, d) == IF n >= 0 THEN n % d ELSE -((-n) % d)

\* mockFloat64, in units of 0.00001, below zero when the sum is
MockScore(id, salt) == 100 * GoRem(Wrap((UserID * 31) + (id * 17) + (salt * 13)), 1000)

-----------------------------------------------------------------------------
\* what TF-Serving is sent: the vector of the documents or a synthetic one,
\* padded or cut to the dimension of the model
FeatureVector(dense, dim) ==
  IF dense = <<>> THEN [p \in 1 .. dim |-> Synthetic]
  ELSE [p \in 1 .. dim |-> IF p <= Len(dense) THEN dense[p] ELSE 0]

\* the score in an answer, or nothing: a number, the first of a list, the first
\* of a list of lists, and null, which parses as the number 0
TFScore(answer) ==
  CASE answer.kind \in {"scalar", "list", "lists"} -> <<answer.score>>
    [] answer.kind = "null" -> <<0>>
    [] OTHER -> <<>>
=============================================================================
