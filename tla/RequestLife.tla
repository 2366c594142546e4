---------------------------- MODULE RequestLife -----------------------------
(***************************************************************************)
(* What recommend promises of its start and of a request, whatever happens *)
(* on the way: it starts or refuses to; the request it takes is answered   *)
(* or failed; an answer shows no item twice and leaves, when logs are on,  *)
(* one record that tells of it; a failure leaves none.                     *)
(***************************************************************************)
EXTENDS SequencesExt

VARIABLES
  status,   \* "starting", "refused", "open", "busy", "answered" or "failed"
  logging,  \* the log pool takes records
  shown,    \* the ids of the answer, in order
  records   \* the id lists pushed to the log

vars == <<status, logging, shown, records>>

Init == status = "starting" /\ ~logging /\ shown = <<>> /\ records = <<>>

Start ==
  /\ status = "starting"
  /\ \/ status' = "refused" /\ UNCHANGED logging
     \/ status' = "open" /\ logging' \in BOOLEAN
  /\ UNCHANGED <<shown, records>>

Take == status = "open" /\ status' = "busy" /\ UNCHANGED <<logging, shown, records>>

Fail == status = "busy" /\ status' = "failed" /\ UNCHANGED <<logging, shown, records>>

\* of the record and the answer one begins the other: each is cut on its own
Tells(record, answer) == IsPrefix(record, answer) \/ IsPrefix(answer, record)

Answer ==
  /\ status = "busy" /\ status' = "answered"
  /\ IsInjective(shown')
  /\ IF logging THEN Len(records') = 1 /\ Tells(records'[1], shown') ELSE records' = <<>>
  /\ UNCHANGED logging

Next == Start \/ Take \/ Fail \/ Answer

Safety == Init /\ [][Next]_vars
Spec ==
  /\ Safety
  /\ status \in {"starting", "busy"} ~> status \notin {"starting", "busy"}
=============================================================================
