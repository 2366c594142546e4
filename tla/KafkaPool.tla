----------------------------- MODULE KafkaPool ------------------------------
(***************************************************************************)
(* pkg/kafkapush: request goroutines push algorithm logs into a buffered   *)
(* channel without blocking; one worker goroutine takes them out and hands *)
(* them to the Kafka writer, which is Async: it queues them in batches of  *)
(* its own and sends those later; Close, guarded by a sync.Once, closes    *)
(* the channel, waits for the worker and closes the writer.                *)
(*                                                                         *)
(* The pool is enabled: a disabled one has no channel and Push returns at  *)
(* once.  recommend's main never calls Close: its pool is the instance     *)
(* with Closers = {}, and Exit is how it ends.                             *)
(***************************************************************************)
EXTENDS Integers, Sequences, FiniteSets

CONSTANTS
  Senders,    \* request goroutines
  Closers,    \* goroutines that call Close
  QueueSize,  \* capacity of the channel (2048 unless configured)
  MaxPush     \* bound: logs each sender pushes

ASSUME QueueAssumption == QueueSize \in Nat \ {0}
ASSUME PushAssumption == MaxPush \in Nat

VARIABLES
  ch,        \* the channel's buffer
  open,      \* the channel is not closed
  loop,      \* where the worker is
  cur,       \* the log it holds, as a sequence of at most one
  batch,     \* the logs in the writer's batches, not yet sent
  writer,    \* the Kafka writer is open
  once,      \* state of the sync.Once
  closer,    \* where each caller of Close is
  pushed,    \* how many logs each sender has pushed
  panicked,  \* senders whose push hit the closed channel
  alive,     \* the process runs
  accepted,  \* history: logs that entered the channel, in order
  out,       \* history: logs the worker passed to WriteMessages, in order
  dropped    \* history: logs refused by a full channel

pool == <<ch, open, loop, cur, batch, writer, once, closer, pushed, panicked, alive>>
history == <<accepted, out, dropped>>
vars == <<pool, history>>

Messages == Senders \X (1 .. MaxPush)

TypeOK ==
  /\ ch \in Seq(Messages) /\ Len(ch) <= QueueSize
  /\ cur \in Seq(Messages) /\ Len(cur) <= 1
  /\ batch \subseteq Messages
  /\ open \in BOOLEAN /\ writer \in BOOLEAN /\ alive \in BOOLEAN
  /\ loop \in {"recv", "write", "gone"}
  /\ once \in {"new", "running", "done"}
  /\ closer \in [Closers -> {"idle", "join", "follow", "closed"}]
  /\ pushed \in [Senders -> 0 .. MaxPush]
  /\ panicked \subseteq Senders
  /\ accepted \in Seq(Messages) /\ out \in Seq(Messages)
  /\ dropped \subseteq Messages

Init ==
  /\ ch = <<>> /\ cur = <<>> /\ batch = {}
  /\ open = TRUE /\ writer = TRUE /\ alive = TRUE
  /\ loop = "recv" /\ once = "new"
  /\ closer = [k \in Closers |-> "idle"]
  /\ pushed = [s \in Senders |-> 0]
  /\ panicked = {}
  /\ accepted = <<>> /\ out = <<>> /\ dropped = {}

-----------------------------------------------------------------------------
\* mutant: the last slot of the channel is never used
HasRoom_KeepsSlot == Len(ch) < QueueSize - 1
\* mutant: the channel has one slot more than is configured
HasRoom_OneMore == Len(ch) <= QueueSize
\* the select of Push finds room in the channel
HasRoom == Len(ch) < QueueSize

\* mutant: a push on a closed channel returns as if nothing had happened
Push_Swallows(s) ==
  /\ alive /\ ~open /\ pushed[s] < MaxPush
  /\ pushed' = [pushed EXCEPT ![s] = @ + 1]
  /\ UNCHANGED <<ch, open, loop, cur, batch, writer, once, closer, panicked, alive, history>>

\* Push: a send on a closed channel panics, even in a select with a default
Push(s) ==
  /\ alive /\ s \notin panicked /\ pushed[s] < MaxPush
  /\ pushed' = [pushed EXCEPT ![s] = @ + 1]
  /\ LET m == <<s, pushed'[s]>>
     IN  \/ /\ open /\ HasRoom
            /\ ch' = Append(ch, m) /\ accepted' = Append(accepted, m)
            /\ UNCHANGED <<panicked, dropped>>
         \/ /\ open /\ ~HasRoom
            /\ dropped' = dropped \cup {m}
            /\ UNCHANGED <<ch, accepted, panicked>>
         \/ /\ ~open
            /\ panicked' = panicked \cup {s}
            /\ UNCHANGED <<ch, accepted, dropped>>
  /\ UNCHANGED <<open, loop, cur, batch, writer, once, closer, alive, out>>

\* mutant: the newest log is taken first
LoopRecv_Newest ==
  /\ alive /\ loop = "recv" /\ ch # <<>>
  /\ cur' = <<ch[Len(ch)]>>
  /\ ch' = SubSeq(ch, 1, Len(ch) - 1)
  /\ loop' = "write"
  /\ UNCHANGED <<open, batch, writer, once, closer, pushed, panicked, alive, history>>

\* the worker receives from the channel, closed or not
LoopRecv ==
  /\ alive /\ loop = "recv" /\ ch # <<>>
  /\ cur' = <<Head(ch)>>
  /\ ch' = Tail(ch)
  /\ loop' = "write"
  /\ UNCHANGED <<open, batch, writer, once, closer, pushed, panicked, alive, history>>

\* WriteMessages returns without waiting for Kafka: the log is in a batch, or an
\* error, which the worker ignores, has lost it
LoopWrite ==
  /\ alive /\ loop = "write"
  /\ out' = out \o cur
  /\ batch' = batch \cup {Head(cur)} \/ UNCHANGED batch
  /\ cur' = <<>>
  /\ loop' = "recv"
  /\ UNCHANGED <<ch, open, writer, once, closer, pushed, panicked, alive,
                 accepted, dropped>>

\* the writer sends a batch when its 200 ms are over or it is full: some of the
\* logs leave the process, taken by a broker or given up after the last attempt
Flush ==
  /\ alive
  /\ \E sent \in SUBSET batch \ {{}} : batch' = batch \ sent
  /\ UNCHANGED <<ch, open, loop, cur, writer, once, closer, pushed, panicked, alive,
                 history>>

\* mutant: the loop ends as soon as the channel is closed
LoopExit_Early ==
  /\ alive /\ loop = "recv" /\ ~open
  /\ loop' = "gone"
  /\ UNCHANGED <<ch, open, cur, batch, writer, once, closer, pushed, panicked, alive,
                 history>>

\* the range over a closed and empty channel ends
LoopExit ==
  /\ alive /\ loop = "recv" /\ ch = <<>> /\ ~open
  /\ loop' = "gone"
  /\ UNCHANGED <<ch, open, cur, batch, writer, once, closer, pushed, panicked, alive,
                 history>>

\* mutant: the channel is left open
Close_LeavesOpen(k) ==
  /\ alive /\ closer[k] = "idle" /\ once = "new"
  /\ once' = "running"
  /\ closer' = [closer EXCEPT ![k] = "join"]
  /\ UNCHANGED <<ch, open, loop, cur, batch, writer, pushed, panicked, alive, history>>

\* Close: the first caller runs the body of once.Do and closes the channel
Close(k) ==
  /\ alive /\ closer[k] = "idle" /\ once = "new"
  /\ once' = "running"
  /\ open' = FALSE
  /\ closer' = [closer EXCEPT ![k] = "join"]
  /\ UNCHANGED <<ch, loop, cur, batch, writer, pushed, panicked, alive, history>>

\* wg.Wait returns
WorkerDone == loop = "gone"

\* writer.Close returns when the batches it holds are sent
WriterDone == batch = {}

\* the worker has ended: the writer is closed and once.Do returns
CloseJoin(k) ==
  /\ alive /\ closer[k] = "join" /\ WorkerDone /\ WriterDone
  /\ writer' = FALSE
  /\ once' = "done"
  /\ closer' = [closer EXCEPT ![k] = "closed"]
  /\ UNCHANGED <<ch, open, loop, cur, batch, pushed, panicked, alive, history>>

\* a later caller of Close waits in once.Do for the first to finish
CloseAgain(k) ==
  /\ alive /\ closer[k] = "idle" /\ once # "new"
  /\ closer' = [closer EXCEPT ![k] = "follow"]
  /\ UNCHANGED <<ch, open, loop, cur, batch, writer, once, pushed, panicked, alive,
                 history>>

\* mutant: a later caller does not wait
OnceDone_Running == once # "new"
\* once.Do returns to a caller that did not run it
OnceDone == once = "done"

CloseFollow(k) ==
  /\ alive /\ closer[k] = "follow" /\ OnceDone
  /\ closer' = [closer EXCEPT ![k] = "closed"]
  /\ UNCHANGED <<ch, open, loop, cur, batch, writer, once, pushed, panicked, alive,
                 history>>

\* the process ends, whatever is queued in the channel or batched in the writer
Exit ==
  /\ alive
  /\ alive' = FALSE
  /\ UNCHANGED <<ch, open, loop, cur, batch, writer, once, closer, pushed, panicked,
                 history>>

Rest == ~alive /\ UNCHANGED vars

Worker == LoopRecv \/ LoopWrite \/ LoopExit
Closing(k) == CloseJoin(k) \/ CloseFollow(k)

Next ==
  \/ \E s \in Senders : Push(s)
  \/ Worker
  \/ Flush
  \/ \E k \in Closers : Close(k) \/ CloseAgain(k) \/ Closing(k)
  \/ Exit
  \/ Rest

\* the worker is scheduled (its write returns within its 3 s context), the
\* writer's batches are sent (200 ms after they are begun, each attempt within
\* 5 s), and a goroutine that Close can resume runs on; nothing makes a request
\* arrive
Fairness == WF_vars(Worker) /\ WF_vars(Flush) /\ \A k \in Closers : WF_vars(Closing(k))

Spec == Init /\ [][Next]_vars
FairSpec == Spec /\ Fairness

-----------------------------------------------------------------------------
\* No log is lost, duplicated or overtaken between Push and WriteMessages: what
\* was accepted is what was written, then the log the worker holds, then the
\* channel.
FifoOnce == accepted = out \o cur \o ch

\* "Close drains and shuts down the producer" (pool.go:84), for every caller of
\* Close, the first or a later one: when it returns, the worker has passed
\* every accepted log to the writer, none of them waits in a batch, and the
\* writer is closed.
CloseDrains ==
  \A k \in Closers : closer[k] = "closed" => out = accepted /\ batch = {} /\ ~writer

\* Every log has one fate: it was accepted, or a full channel refused it, or the
\* channel was closed and its sender panicked, which only the log in hand is
\* lost by, and which happens only once some caller has begun to close.
Accepted == {accepted[j] : j \in DOMAIN accepted}
PushesAccounted ==
  /\ panicked # {} => once # "new"
  /\ \A s \in Senders :
       {n \in 1 .. pushed[s] : <<s, n>> \notin Accepted} =
         {n \in 1 .. pushed[s] : <<s, n>> \in dropped \/ (s \in panicked /\ n = pushed[s])}

\* Close returns.
CloseCompletes ==
  \A k \in Closers :
    closer[k] \in {"join", "follow"} ~> closer[k] = "closed" \/ ~alive

\* Every accepted log is passed to the writer and leaves its batch while the
\* process lives, whoever closes the pool meanwhile.
AcceptedAreWritten ==
  \A n \in 1 .. Cardinality(Messages) :
    Len(accepted) >= n ~> (Len(out) >= n /\ accepted[n] \notin batch) \/ ~alive

\* The pool is a lossy FIFO that refuses a log only when its channel is full.
Fifo ==
  INSTANCE LossyFifo WITH
    Capacity <- QueueSize, released <- out \o cur, lost <- dropped
IsLossyFifo == Fifo!Spec
=============================================================================
