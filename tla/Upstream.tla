------------------------------ MODULE Upstream ------------------------------
(***************************************************************************)
(* pkg/upstream: one HTTPDoer shared by every goroutine that posts to a    *)
(* downstream service (recommend -> rank, rank -> TF-Serving).  A caller   *)
(* runs PostBytes: it asks the balancer for an instance, posts, and fails  *)
(* over to the balancer's next answer after a network error, a read error  *)
(* or a status >= 500.  The balancer is the only state callers share: the  *)
(* atomic counter of roundRobin, or the unguarded generator of randomPick. *)
(***************************************************************************)
EXTENDS Naturals, Sequences, FiniteSets

CONSTANTS
  Callers,      \* goroutines that share the doer
  urls,         \* the resolved endpoints, in order, duplicates kept
  Unusable,     \* the endpoints http.NewRequest refuses to make a request for
  LoadBalance,  \* the policy of the configuration
  CounterMod,   \* 2^64 in the code: the modulus of the counter roundRobin.i
  MaxCalls      \* bound: calls each caller makes

ASSUME UrlsAssumption == urls \in Seq(STRING) /\ Len(urls) > 0
ASSUME CounterAssumption == CounterMod \in Nat /\ CounterMod >= Len(urls)
ASSUME BoundAssumption == MaxCalls \in Nat

VARIABLES
  i,        \* roundRobin.i
  pc,       \* where each caller is in PostBytes
  a,        \* its loop counter
  base,     \* the instance its attempt goes to
  tried,    \* its map of base URLs already used
  reply,    \* what its last call returned
  calls,    \* calls it has started
  clash,    \* the callers whose draw from the generator overlaps another
  hits,     \* history: how often each index of urls was handed out
  wrapped,  \* history: i has gone through CounterMod
  picked,   \* history: the indices this call was handed
  posts,    \* history: the requests this call has sent
  shared    \* history: the calls another caller was served in the midst of

code == <<i, pc, a, base, tried, reply, calls, clash>>
history == <<hits, wrapped, picked, posts, shared>>
vars == <<code, history>>

Slots == 1 .. Len(urls)
Instances == {urls[s] : s \in Slots}
MaxAttempts == Len(urls)

\* NewBalancer: one endpoint is always served by roundRobin
Random == Len(urls) > 1 /\ LoadBalance = "random"

\* the index roundRobin.Next returns for the value n that AddUint64 left
\* mutant: the modulus of the wrong length
NextIndex_OffByOne(n) ==
  (((n + CounterMod - 1) % CounterMod) % (IF Len(urls) > 1 THEN Len(urls) - 1 ELSE 1)) + 1
NextIndex(n) == (((n + CounterMod - 1) % CounterMod) % Len(urls)) + 1

Replies == {"none", "ok", "rejected", "failed", "panic"}

TypeOK ==
  /\ i \in 0 .. CounterMod - 1
  /\ pc \in [Callers -> {"idle", "next", "draw", "sent", "done"}]
  /\ a \in [Callers -> 0 .. MaxAttempts]
  /\ base \in [Callers -> Instances \cup {"none"}]
  /\ tried \in [Callers -> SUBSET STRING]
  /\ reply \in [Callers -> Replies]
  /\ calls \in [Callers -> 0 .. MaxCalls]
  /\ clash \subseteq Callers
  /\ hits \in [Slots -> Nat]
  /\ wrapped \in BOOLEAN
  /\ picked \in [Callers -> SUBSET Slots]
  /\ posts \in [Callers -> Nat]
  /\ shared \subseteq Callers

Init ==
  /\ i = 0
  /\ pc = [c \in Callers |-> "idle"]
  /\ a = [c \in Callers |-> 0]
  /\ base = [c \in Callers |-> "none"]
  /\ tried = [c \in Callers |-> {}]
  /\ reply = [c \in Callers |-> "none"]
  /\ calls = [c \in Callers |-> 0]
  /\ clash = {}
  /\ hits = [s \in Slots |-> 0]
  /\ wrapped = FALSE
  /\ picked = [c \in Callers |-> {}]
  /\ posts = [c \in Callers |-> 0]
  /\ shared = {}

-----------------------------------------------------------------------------
\* PostBytes is entered
Call(c) ==
  /\ pc[c] = "idle" /\ calls[c] < MaxCalls
  /\ calls' = [calls EXCEPT ![c] = @ + 1]
  /\ pc' = [pc EXCEPT ![c] = "next"]
  /\ a' = [a EXCEPT ![c] = 0]
  /\ tried' = [tried EXCEPT ![c] = {}]
  /\ reply' = [reply EXCEPT ![c] = "none"]
  /\ picked' = [picked EXCEPT ![c] = {}]
  /\ posts' = [posts EXCEPT ![c] = 0]
  /\ shared' = shared \ {c}
  /\ UNCHANGED <<i, base, clash, hits, wrapped>>

\* the early exit of the loop: every endpoint was used and one comes again
Exhausted(c, url) == url \in tried[c] /\ Cardinality(tried[c]) >= Len(urls)

\* the caller takes what the balancer answered, index s, and posts to it when
\* a request can be made
Take(c, s) ==
  /\ base' = [base EXCEPT ![c] = urls[s]]
  /\ IF Exhausted(c, urls[s])
       THEN /\ pc' = [pc EXCEPT ![c] = "done"]
            /\ reply' = [reply EXCEPT ![c] = "failed"]
            /\ UNCHANGED <<tried, posts>>
       ELSE /\ pc' = [pc EXCEPT ![c] = "sent"]
            /\ tried' = [tried EXCEPT ![c] = @ \cup {urls[s]}]
            /\ posts' = IF urls[s] \in Unusable THEN posts ELSE [posts EXCEPT ![c] = @ + 1]
            /\ UNCHANGED reply
  /\ hits' = [hits EXCEPT ![s] = @ + 1]
  /\ picked' = [picked EXCEPT ![c] = @ \cup {s}]
  /\ shared' = shared \cup
                 {d \in Callers \ {c} : pc[d] # "idle" /\ picked[d] # {}}
  /\ UNCHANGED <<a, calls>>

\* mutant: the loop runs once more than there are endpoints
PickRoundRobin_OnceMore(c) ==
  /\ ~Random
  /\ pc[c] = "next" /\ a[c] <= MaxAttempts
  /\ i' = (i + 1) % CounterMod
  /\ wrapped' = IF i' = 0 THEN TRUE ELSE wrapped
  /\ Take(c, NextIndex(i'))
  /\ UNCHANGED clash

\* roundRobin.Next: one atomic AddUint64, the rest is local to the caller
PickRoundRobin(c) ==
  /\ ~Random
  /\ pc[c] = "next" /\ a[c] < MaxAttempts
  /\ i' = (i + 1) % CounterMod
  /\ wrapped' = IF i' = 0 THEN TRUE ELSE wrapped
  /\ Take(c, NextIndex(i'))
  /\ UNCHANGED clash

\* randomPick.Next: rng.Intn reads and writes the generator unguarded
DrawBegin(c) ==
  /\ Random
  /\ pc[c] = "next" /\ a[c] < MaxAttempts
  /\ pc' = [pc EXCEPT ![c] = "draw"]
  /\ LET others == {d \in Callers : pc[d] = "draw"}
     IN  clash' = IF others = {} THEN clash ELSE clash \cup others \cup {c}
  /\ UNCHANGED <<i, a, base, tried, reply, calls, history>>

DrawEnd(c) ==
  /\ pc[c] = "draw"
  /\ \E s \in Slots : Take(c, s)
  /\ clash' = clash \ {c}
  /\ UNCHANGED <<i, wrapped>>

\* overlapping draws may index the generator's table out of range
DrawPanic(c) ==
  /\ pc[c] = "draw" /\ c \in clash
  /\ pc' = [pc EXCEPT ![c] = "done"]
  /\ reply' = [reply EXCEPT ![c] = "panic"]
  /\ clash' = clash \ {c}
  /\ UNCHANGED <<i, a, base, tried, calls, history>>

\* mutant: the same instance is posted to again and the loop starts over when
\* its budget is spent
AttemptFails_StartsOver(c) ==
  /\ pc[c] = "sent"
  /\ a' = [a EXCEPT ![c] = (@ + 1) % MaxAttempts]
  /\ UNCHANGED <<i, pc, base, tried, reply, calls, clash, history>>

\* the loop goes on: no request could be made, or there was a network error, a
\* timeout, a body cut short, or a status >= 500
AttemptFails(c) ==
  /\ pc[c] = "sent"
  /\ a' = [a EXCEPT ![c] = @ + 1]
  /\ pc' = [pc EXCEPT ![c] = "next"]
  /\ UNCHANGED <<i, base, tried, reply, calls, clash, history>>

\* status 200, or another status below 500, ends the call
AttemptSettles(c) ==
  /\ pc[c] = "sent" /\ base[c] \notin Unusable
  /\ \E r \in {"ok", "rejected"} : reply' = [reply EXCEPT ![c] = r]
  /\ pc' = [pc EXCEPT ![c] = "done"]
  /\ UNCHANGED <<i, a, base, tried, calls, clash, history>>

\* mutant: the last attempt of the budget is skipped
GiveUp_Early(c) ==
  /\ pc[c] = "next" /\ a[c] + 1 >= MaxAttempts
  /\ pc' = [pc EXCEPT ![c] = "done"]
  /\ reply' = [reply EXCEPT ![c] = "failed"]
  /\ UNCHANGED <<i, a, base, tried, calls, clash, history>>

\* the loop is over: the last error, or "all endpoints failed", is returned
GiveUp(c) ==
  /\ pc[c] = "next" /\ a[c] >= MaxAttempts
  /\ pc' = [pc EXCEPT ![c] = "done"]
  /\ reply' = [reply EXCEPT ![c] = "failed"]
  /\ UNCHANGED <<i, a, base, tried, calls, clash, history>>

Return(c) ==
  /\ pc[c] = "done"
  /\ pc' = [pc EXCEPT ![c] = "idle"]
  /\ UNCHANGED <<i, a, base, tried, reply, calls, clash, history>>

Step(c) ==
  \/ PickRoundRobin(c)
  \/ DrawBegin(c) \/ DrawEnd(c) \/ DrawPanic(c)
  \/ AttemptFails(c) \/ AttemptSettles(c)
  \/ GiveUp(c) \/ Return(c)

\* every caller has made its calls
Rest ==
  /\ \A c \in Callers : pc[c] = "idle" /\ calls[c] = MaxCalls
  /\ UNCHANGED vars

Next == (\E c \in Callers : Call(c) \/ Step(c)) \/ Rest

\* a goroutine that can run does, and Client.Timeout ends every attempt
Fairness == \A c \in Callers : WF_vars(Step(c))

Spec == Init /\ [][Next]_vars
FairSpec == Spec /\ Fairness

-----------------------------------------------------------------------------
\* the counter did not wrap, or a wrap does not break the rotation
Steady == wrapped => CounterMod % Len(urls) = 0

\* Round robin is fair under any interleaving of callers and failovers: no
\* index of the endpoint list is ever two answers ahead of another
\* (roundRobin.Next), up to the wrap of its counter.
FairShare ==
  ~Random /\ Steady => \A s, t \in Slots : hits[s] <= hits[t] + 1

\* A call that reports failure and that no other caller interleaved with has
\* tried every endpoint: the failover of PostBytes is complete for it.
SoloCoversAll ==
  \A c \in Callers :
    pc[c] = "done" /\ reply[c] = "failed" /\ c \notin shared /\ ~Random /\ Steady
      => picked[c] = Slots

\* Every call of PostBytes returns, whatever the instances do.
CallReturns == \A c \in Callers : pc[c] # "idle" ~> pc[c] = "idle"

\* What README.md:426 says of the doer: a failed attempt moves on to another
\* instance (while there is one this call has not used).
FailoverMovesOn ==
  [][\A c \in Callers :
       (pc[c] = "next" /\ pc'[c] = "sent" /\ tried[c] # Instances)
         => tried'[c] # tried[c]]_vars

\* What balancer.go:10 says of a balancer: it picks the next upstream, for
\* every caller that asks.
NextAnswers == \A c \in Callers : reply[c] # "panic"

-----------------------------------------------------------------------------
\* the attempts of the current call, for the refinement of FailoverCall
Tries(c) ==
  a[c] + (IF pc[c] = "sent" \/ reply[c] \in {"ok", "rejected"} THEN 1 ELSE 0)

Phase(c) ==
  CASE pc[c] = "idle" -> "idle"
    [] pc[c] = "done" -> "closed"
    [] OTHER -> "open"

\* PostBytes keeps the contract its callers rely on, whatever the policy.
Contract ==
  INSTANCE FailoverCall WITH
    Clients <- Callers, Budget <- MaxAttempts,
    stage <- [c \in Callers |-> Phase(c)],
    tries <- [c \in Callers |-> Tries(c)],
    answer <- reply
KeepsContract == Contract!Spec
=============================================================================
