---------------------------- MODULE FailoverCall ----------------------------
(***************************************************************************)
(* What a caller of pkg/upstream may rely on, whatever balances the load:  *)
(* a call makes at most Budget attempts, each of which posts its body at   *)
(* most once, makes no more once an instance settled it, is settled by an  *)
(* instance it posted to, and reports failure only with the whole budget   *)
(* spent.                                                                  *)
(***************************************************************************)
EXTENDS Naturals

CONSTANTS Clients, Budget

VARIABLES stage, tries, posts, answer

vars == <<stage, tries, posts, answer>>

Init ==
  /\ stage = [c \in Clients |-> "idle"]
  /\ tries = [c \in Clients |-> 0]
  /\ posts = [c \in Clients |-> 0]
  /\ answer = [c \in Clients |-> "none"]

Open(c) ==
  /\ stage[c] = "idle"
  /\ stage' = [stage EXCEPT ![c] = "open"]
  /\ tries' = [tries EXCEPT ![c] = 0]
  /\ posts' = [posts EXCEPT ![c] = 0]
  /\ answer' = [answer EXCEPT ![c] = "none"]

Attempt(c) ==
  /\ stage[c] = "open" /\ tries[c] < Budget
  /\ tries' = [tries EXCEPT ![c] = @ + 1]
  /\ posts' \in {posts, [posts EXCEPT ![c] = @ + 1]}
  /\ UNCHANGED <<stage, answer>>

Close(c, verdict) ==
  /\ stage[c] = "open"
  /\ stage' = [stage EXCEPT ![c] = "closed"]
  /\ answer' = [answer EXCEPT ![c] = verdict]
  /\ UNCHANGED <<tries, posts>>

Settle(c) == posts[c] > 0 /\ \E v \in {"ok", "rejected"} : Close(c, v)
Fail(c) == tries[c] = Budget /\ Close(c, "failed")
Abort(c) == tries[c] < Budget /\ Close(c, "panic")

Hand(c) ==
  /\ stage[c] = "closed"
  /\ stage' = [stage EXCEPT ![c] = "idle"]
  /\ UNCHANGED <<tries, posts, answer>>

Next ==
  \E c \in Clients :
    Open(c) \/ Attempt(c) \/ Settle(c) \/ Fail(c) \/ Abort(c) \/ Hand(c)

Spec == Init /\ [][Next]_vars
=============================================================================
