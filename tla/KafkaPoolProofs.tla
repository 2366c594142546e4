-------------------------- MODULE KafkaPoolProofs ---------------------------
(***************************************************************************)
(* The pool keeps every accepted log, in order and once, and Close drains  *)
(* it, for every number of senders, closers and slots of the channel.      *)
(***************************************************************************)
EXTENDS KafkaPool, SequenceTheorems, TLAPS

\* how the phases of the worker, of once.Do and of its callers fit together
Phases ==
  /\ loop = "recv" => cur = <<>>
  /\ loop = "write" => cur # <<>>
  /\ loop = "gone" => ~open /\ ch = <<>> /\ cur = <<>>
  /\ once = "new" => \A k \in Closers : closer[k] = "idle"
  /\ once = "done" => loop = "gone" /\ batch = {} /\ ~writer
  /\ \A k \in Closers : closer[k] = "closed" => once = "done"

IInv == TypeOK /\ FifoOnce /\ Phases

-----------------------------------------------------------------------------
(* Sequences *)

\* An element moves from the head of a suffix to the end of the part before.
LEMMA MoveHead ==
  ASSUME NEW S, NEW s \in Seq(S), s # <<>>
  PROVE  /\ s = <<Head(s)>> \o Tail(s)
         /\ <<Head(s)>> \in Seq(S) /\ Len(<<Head(s)>>) = 1
<1>1. Head(s) \in S /\ Tail(s) \in Seq(S) /\ Len(Tail(s)) = Len(s) - 1
  BY HeadTailProperties
<1> DEFINE t == <<Head(s)>> \o Tail(s)
<1>2. <<Head(s)>> \in Seq(S) /\ Len(<<Head(s)>>) = 1
  BY <1>1
<1>3. t \in Seq(S) /\ Len(t) = Len(s)
  BY <1>1, <1>2, ConcatProperties, LenProperties
<1>4. ASSUME NEW j \in 1 .. Len(s) PROVE s[j] = t[j]
  BY <1>1, <1>2, ConcatProperties
<1> HIDE DEF t
<1>5. s = t
  BY <1>3, <1>4, SeqEqual
<1> QED BY <1>2, <1>5 DEF t

\* Appending is concatenating one element.
LEMMA AppendConcat ==
  ASSUME NEW S, NEW s \in Seq(S), NEW t \in Seq(S), NEW x \in S
  PROVE  /\ Append(s \o t, x) = s \o Append(t, x)
         /\ Append(s, x) = s \o <<x>>
<1>1. ASSUME NEW u \in Seq(S) PROVE Append(u, x) = u \o <<x>>
  BY <1>1
<1>2. <<x>> \in Seq(S) /\ s \o t \in Seq(S)
  BY ConcatProperties
<1>3. (s \o t) \o <<x>> = s \o (t \o <<x>>)
  BY <1>2, ConcatAssociative
<1> QED BY <1>1, <1>2, <1>3

-----------------------------------------------------------------------------
(* The inductive invariant *)

LEMMA InitInv == Init => IInv
<1> SUFFICES ASSUME Init PROVE IInv
  OBVIOUS
<1>1. TypeOK
  BY QueueAssumption, PushAssumption DEF Init, TypeOK
<1>2. FifoOnce
  BY DEF Init, FifoOnce
<1>3. Phases
  BY DEF Init, Phases
<1> QED BY <1>1, <1>2, <1>3 DEF IInv

LEMMA NextInv == IInv /\ [Next]_vars => IInv'
<1> SUFFICES ASSUME IInv, [Next]_vars PROVE IInv'
  OBVIOUS
<1> USE DEF IInv
<1> QueueSize \in Nat \ {0} /\ MaxPush \in Nat
  BY QueueAssumption, PushAssumption
<1>1. ASSUME NEW s \in Senders, Push(s) PROVE IInv'
  <2> DEFINE m == <<s, pushed[s] + 1>>
  <2>1. m \in Messages /\ pushed' = [pushed EXCEPT ![s] = @ + 1] /\ m = <<s, pushed'[s]>>
    BY <1>1 DEF Push, Messages, TypeOK
  <2>2. CASE open /\ HasRoom /\ ch' = Append(ch, m) /\ accepted' = Append(accepted, m)
             /\ UNCHANGED <<panicked, dropped>>
    <3>1. TypeOK'
      BY <1>1, <2>1, <2>2, AppendProperties DEF Push, TypeOK, HasRoom
    <3>2. FifoOnce'
      <4>1. /\ out \o cur \in Seq(Messages)
            /\ accepted = (out \o cur) \o ch
        BY ConcatProperties, ConcatAssociative DEF TypeOK, FifoOnce
      <4> DEFINE front == out \o cur
      <4>2. Append(front \o ch, m) = front \o Append(ch, m)
        <5>1. front \in Seq(Messages) /\ ch \in Seq(Messages)
          BY <4>1 DEF TypeOK
        <5>2. m \in Messages
          BY <2>1
        <5> HIDE DEF front, m
        <5> QED BY <5>1, <5>2, AppendConcat
      <4> QED BY <4>1, <4>2, <1>1, <2>2, <3>1 DEF Push, FifoOnce, TypeOK
    <3>3. Phases'
      BY <1>1, <2>2 DEF Push, Phases
    <3> QED BY <3>1, <3>2, <3>3
  <2>3. CASE open /\ dropped' = dropped \cup {m} /\ UNCHANGED <<ch, accepted, panicked>>
    <3>0. dropped' \subseteq Messages
      BY <2>1, <2>3 DEF TypeOK
    <3>1. TypeOK'
      BY <1>1, <2>1, <2>3, <3>0 DEF Push, TypeOK
    <3>2. FifoOnce' /\ Phases'
      BY <1>1, <2>3 DEF Push, FifoOnce, Phases
    <3> QED BY <3>1, <3>2
  <2>4. CASE ~open /\ panicked' = panicked \cup {s} /\ UNCHANGED <<ch, accepted, dropped>>
    BY <1>1, <2>1, <2>4 DEF Push, TypeOK, FifoOnce, Phases
  <2> QED BY <1>1, <2>1, <2>2, <2>3, <2>4 DEF Push
<1>2. CASE LoopRecv
  <2>1. /\ ch = <<Head(ch)>> \o Tail(ch) /\ cur = <<>>
        /\ Head(ch) \in Messages /\ Tail(ch) \in Seq(Messages)
        /\ Len(Tail(ch)) = Len(ch) - 1
        /\ <<Head(ch)>> \in Seq(Messages) /\ Len(<<Head(ch)>>) = 1
    BY <1>2, MoveHead, HeadTailProperties DEF LoopRecv, TypeOK, Phases
  <2>2. TypeOK'
    BY <1>2, <2>1 DEF LoopRecv, TypeOK, history
  <2>3. FifoOnce'
    <3>1. accepted = out \o (<<Head(ch)>> \o Tail(ch))
      BY <2>1, ConcatEmptySeq DEF FifoOnce, TypeOK
    <3>2. accepted = (out \o <<Head(ch)>>) \o Tail(ch)
      BY <3>1, <2>1, ConcatAssociative DEF TypeOK
    <3> QED BY <3>2, <1>2 DEF LoopRecv, FifoOnce, history
  <2>4. Phases'
    BY <1>2 DEF LoopRecv, Phases
  <2> QED BY <2>2, <2>3, <2>4
<1>3. CASE LoopWrite
  <2>1. out \o cur \in Seq(Messages) /\ <<>> \in Seq(Messages)
    BY ConcatProperties DEF TypeOK
  <2>2. TypeOK'
    <3>1. Head(cur) \in Messages
      BY <1>3, HeadTailProperties DEF LoopWrite, TypeOK, Phases
    <3> QED BY <1>3, <2>1, <3>1 DEF LoopWrite, TypeOK
  <2>3. (out \o cur) \o <<>> = out \o cur
    BY <2>1, ConcatEmptySeq
  <2>4. FifoOnce'
    BY <1>3, <2>3 DEF LoopWrite, FifoOnce
  <2>5. Phases'
    BY <1>3 DEF LoopWrite, Phases
  <2> QED BY <2>2, <2>4, <2>5
<1>4. CASE LoopExit
  BY <1>4 DEF LoopExit, TypeOK, FifoOnce, Phases, history
<1>5. ASSUME NEW k \in Closers, Close(k) PROVE IInv'
  BY <1>5 DEF Close, TypeOK, FifoOnce, Phases, history
<1>6. ASSUME NEW k \in Closers, CloseAgain(k) PROVE IInv'
  BY <1>6 DEF CloseAgain, TypeOK, FifoOnce, Phases, history
<1>7. ASSUME NEW k \in Closers, CloseJoin(k) PROVE IInv'
  BY <1>7 DEF CloseJoin, WorkerDone, WriterDone, TypeOK, FifoOnce, Phases, history
<1>8. ASSUME NEW k \in Closers, CloseFollow(k) PROVE IInv'
  BY <1>8 DEF CloseFollow, OnceDone, TypeOK, FifoOnce, Phases, history
<1>9. CASE Exit
  BY <1>9 DEF Exit, TypeOK, FifoOnce, Phases, history
<1>10. CASE Flush
  <2>1. batch' \subseteq batch
    BY <1>10 DEF Flush
  <2> QED BY <1>10, <2>1 DEF Flush, TypeOK, FifoOnce, Phases, history
<1>11. CASE UNCHANGED vars
  BY <1>11 DEF vars, pool, history, TypeOK, FifoOnce, Phases
<1> QED
  BY <1>1, <1>2, <1>3, <1>4, <1>5, <1>6, <1>7, <1>8, <1>9, <1>10, <1>11
     DEF Next, Worker, Closing, Rest

LEMMA Inductive == Spec => []IInv
BY InitInv, NextInv, PTL DEF Spec

\* No log is lost, duplicated or overtaken inside the pool.
THEOREM LogsKeepTheirOrder == Spec => []FifoOnce
<1>1. IInv => FifoOnce
  BY DEF IInv
<1> QED BY <1>1, Inductive, PTL

\* When Close returns to any of its callers, every accepted log was written and
\* has left the writer's batches.
THEOREM CloseLeavesNothing == Spec => []CloseDrains
<1>1. IInv => CloseDrains
  <2> SUFFICES ASSUME IInv, NEW k \in Closers, closer[k] = "closed"
               PROVE  out = accepted /\ batch = {} /\ ~writer
    BY DEF CloseDrains
  <2>1. ~writer /\ batch = {} /\ cur = <<>> /\ ch = <<>>
    BY DEF IInv, Phases
  <2>2. (out \o <<>>) \o <<>> = out
    BY ConcatEmptySeq DEF IInv, TypeOK
  <2> QED BY <2>1, <2>2 DEF IInv, FifoOnce
<1> QED BY <1>1, Inductive, PTL

-----------------------------------------------------------------------------
(* The fate of every log *)

\* what a sender has not pushed yet is nowhere, and a panic follows the close
Fates ==
  /\ open <=> once = "new"
  /\ panicked # {} => ~open
  /\ \A s \in Senders, n \in 1 .. MaxPush :
       <<s, n>> \in Accepted \/ <<s, n>> \in dropped => n <= pushed[s]

\* A log that is accepted joins those that were.
LEMMA AcceptedGrows ==
  ASSUME TypeOK, NEW m \in Messages, accepted' = Append(accepted, m)
  PROVE  Accepted' = Accepted \cup {m}
<1>1. accepted \in Seq(Messages) /\ Len(accepted) \in Nat
  BY LenProperties DEF TypeOK
<1>2. /\ Len(accepted') = Len(accepted) + 1 /\ accepted'[Len(accepted) + 1] = m
      /\ \A j \in 1 .. Len(accepted) : accepted'[j] = accepted[j]
      /\ accepted' \in Seq(Messages)
  BY <1>1, AppendProperties
<1>3. DOMAIN accepted = 1 .. Len(accepted) /\ DOMAIN accepted' = 1 .. Len(accepted')
  BY <1>1, <1>2, LenProperties
<1>4. ASSUME NEW x \in Accepted' PROVE x \in Accepted \cup {m}
  <2>1. PICK j \in DOMAIN accepted' : x = accepted'[j]
    BY <1>4 DEF Accepted
  <2>2. j \in 1 .. Len(accepted) \/ j = Len(accepted) + 1
    BY <2>1, <1>1, <1>2, <1>3
  <2> QED BY <2>1, <2>2, <1>2, <1>3 DEF Accepted
<1>5. ASSUME NEW x \in Accepted \cup {m} PROVE x \in Accepted'
  <2>1. CASE x \in Accepted
    <3>1. PICK j \in 1 .. Len(accepted) : x = accepted[j]
      BY <2>1, <1>3 DEF Accepted
    <3>2. j \in DOMAIN accepted' /\ accepted'[j] = x
      BY <3>1, <1>1, <1>2, <1>3
    <3> QED BY <3>2 DEF Accepted
  <2>2. CASE x = m
    <3>1. Len(accepted) + 1 \in DOMAIN accepted'
      BY <1>1, <1>2, <1>3
    <3> QED BY <2>2, <3>1, <1>2 DEF Accepted
  <2> QED BY <1>5, <2>1, <2>2
<1> QED BY <1>4, <1>5

LEMMA InitFates == Init => Fates /\ PushesAccounted
<1> SUFFICES ASSUME Init PROVE Fates /\ PushesAccounted
  OBVIOUS
<1>1. Accepted = {}
  BY DEF Init, Accepted
<1>2. \A s \in Senders : 1 .. pushed[s] = {}
  BY DEF Init
<1> QED BY <1>1, <1>2 DEF Init, Fates, PushesAccounted

LEMMA NextFates ==
  IInv /\ Fates /\ PushesAccounted /\ [Next]_vars => Fates' /\ PushesAccounted'
<1> SUFFICES ASSUME TypeOK, Phases, Fates, PushesAccounted, [Next]_vars
             PROVE  Fates' /\ PushesAccounted'
  BY DEF IInv
<1>1. ASSUME NEW s \in Senders, Push(s) PROVE Fates' /\ PushesAccounted'
  <2> DEFINE m == <<s, pushed[s] + 1>>
             Lost(t) == {n \in 1 .. pushed[t] : <<t, n>> \notin Accepted}
             Told(t) == {n \in 1 .. pushed[t] :
                           <<t, n>> \in dropped \/ (t \in panicked /\ n = pushed[t])}
  <2>1. /\ pushed[s] \in Nat /\ pushed'[s] = pushed[s] + 1 /\ pushed[s] + 1 \in 1 .. MaxPush
        /\ \A t \in Senders : t # s => pushed'[t] = pushed[t]
        /\ s \notin panicked /\ UNCHANGED <<open, once>>
    BY <1>1, PushAssumption DEF Push, TypeOK
  <2>2. m \in Messages /\ m \notin Accepted /\ m \notin dropped
    BY <2>1 DEF Messages, Fates
  <2>3. /\ m \in Accepted' \/ m \in dropped' \/ s \in panicked'
        /\ \/ Accepted' = Accepted \cup {m} /\ open /\ UNCHANGED <<dropped, panicked>>
           \/ dropped' = dropped \cup {m} /\ open /\ Accepted' = Accepted /\ UNCHANGED panicked
           \/ panicked' = panicked \cup {s} /\ ~open /\ Accepted' = Accepted /\ UNCHANGED dropped
    <3>1. m = <<s, pushed'[s]>>
      BY <2>1
    <3>2. CASE accepted' = Append(accepted, m) /\ open /\ UNCHANGED <<dropped, panicked>>
      BY <3>2, <2>2, AcceptedGrows
    <3>3. CASE dropped' = dropped \cup {m} /\ open /\ UNCHANGED <<accepted, panicked>>
      BY <3>3 DEF Accepted
    <3>4. CASE panicked' = panicked \cup {s} /\ ~open /\ UNCHANGED <<accepted, dropped>>
      BY <3>4 DEF Accepted
    <3> QED BY <1>1, <3>1, <3>2, <3>3, <3>4 DEF Push
  <2>4. Fates'
    <3> SUFFICES ASSUME NEW t \in Senders, NEW n \in 1 .. MaxPush,
                        <<t, n>> \in Accepted' \/ <<t, n>> \in dropped'
                 PROVE  n <= pushed'[t]
      BY <2>1, <2>3 DEF Fates
    <3>1. <<t, n>> = m \/ <<t, n>> \in Accepted \/ <<t, n>> \in dropped
      BY <2>3
    <3>2. CASE <<t, n>> = m
      BY <3>2, <2>1
    <3>3. CASE <<t, n>> \in Accepted \/ <<t, n>> \in dropped
      BY <3>3, <2>1, PushAssumption DEF Fates, TypeOK
    <3> QED BY <3>1, <3>2, <3>3
  <2>5. ASSUME NEW t \in Senders PROVE Lost(t)' = Told(t)'
    <3>0. Lost(t) = Told(t)
      BY DEF PushesAccounted
    <3>1. CASE t # s
      <4>1. pushed'[t] = pushed[t] /\ (t \in panicked' <=> t \in panicked)
        BY <3>1, <2>1, <2>3
      <4>2. ASSUME NEW n
            PROVE  /\ <<t, n>> \in Accepted' <=> <<t, n>> \in Accepted
                   /\ <<t, n>> \in dropped' <=> <<t, n>> \in dropped
        BY <3>1, <2>3
      <4> QED BY <3>0, <4>1, <4>2
    <3>2. CASE t = s
      <4>1. ASSUME NEW n \in 1 .. pushed[s]
            PROVE  /\ <<s, n>> \in Accepted' <=> <<s, n>> \in Accepted
                   /\ <<s, n>> \in dropped' <=> <<s, n>> \in dropped
                   /\ n # pushed'[s]
                   /\ <<s, n>> \notin Accepted <=> <<s, n>> \in dropped
        <5>1. n # pushed[s] + 1
          BY <2>1
        <5>2. <<s, n>> # m
          BY <5>1
        <5>3. n \in Lost(s) <=> n \in Told(s)
          BY <3>0, <3>2
        <5> HIDE DEF m
        <5> QED BY <5>1, <5>2, <5>3, <2>1, <2>3
      <4>2. <<s, pushed'[s]>> \notin Accepted'
              <=> <<s, pushed'[s]>> \in dropped' \/ s \in panicked'
        BY <2>1, <2>2, <2>3
      <4>3. ASSUME NEW n \in 1 .. pushed'[s] PROVE n \in 1 .. pushed[s] \/ n = pushed'[s]
        BY <2>1
      <4>4. ASSUME NEW n \in 1 .. pushed'[s]
            PROVE  <<s, n>> \notin Accepted'
                     <=> <<s, n>> \in dropped' \/ (s \in panicked' /\ n = pushed'[s])
        BY <4>1, <4>2, <4>3
      <4> QED BY <3>2, <4>4
    <3> QED BY <3>1, <3>2
  <2>6. panicked' # {} => once' # "new"
    BY <2>1, <2>3 DEF Fates
  <2> QED BY <2>4, <2>5, <2>6 DEF PushesAccounted
<1>2. ASSUME NEW k \in Closers, Close(k) PROVE Fates' /\ PushesAccounted'
  BY <1>2 DEF Close, history, Fates, PushesAccounted, Accepted
<1>3. CASE UNCHANGED <<open, once, accepted, dropped, panicked, pushed>>
  BY <1>3 DEF Fates, PushesAccounted, Accepted
<1>4. ASSUME NEW k \in Closers, CloseJoin(k) PROVE Fates' /\ PushesAccounted'
  <2>1. once # "new"
    BY <1>4 DEF CloseJoin, Phases
  <2> QED BY <1>4, <2>1 DEF CloseJoin, history, Fates, PushesAccounted, Accepted
<1> QED
  BY <1>1, <1>2, <1>3, <1>4
     DEF Next, Worker, Closing, Rest, LoopRecv, LoopWrite, LoopExit, Flush,
         CloseAgain, CloseFollow, Exit, vars, pool, history

\* Every variable of the pool keeps its type: the channel never holds more than
\* its capacity.
THEOREM TypeCorrect == Spec => []TypeOK
<1>1. IInv => TypeOK
  BY DEF IInv
<1> QED BY <1>1, Inductive, PTL

\* Every log is accepted, refused by a full channel, or lost by a sender that
\* panics after a close has begun; it has one of these fates and no other.
THEOREM EveryPushHasOneFate == Spec => []PushesAccounted
<1> QED BY Inductive, InitFates, NextFates, PTL DEF Spec

-----------------------------------------------------------------------------
(* The pool implements LossyFifo *)

\* The backlog of the abstract queue is the channel, its next log the head.
LEMMA BacklogIsChannel ==
  ASSUME IInv
  PROVE  /\ out \o cur \in Seq(Messages)
         /\ Fifo!Backlog = Len(ch)
         /\ ch # <<>> => accepted[Len(out \o cur) + 1] = Head(ch)
<1> DEFINE front == out \o cur
<1>1. front \in Seq(Messages) /\ ch \in Seq(Messages)
  BY ConcatProperties DEF IInv, TypeOK
<1>2. accepted = front \o ch
  BY DEF IInv, FifoOnce
<1>3. Fifo!Backlog = Len(accepted) - Len(front)
  BY DEF Fifo!Backlog
<1> HIDE DEF front
<1>4. Len(accepted) = Len(front) + Len(ch) /\ Len(front) \in Nat /\ Len(ch) \in Nat
  BY <1>1, <1>2, ConcatProperties, LenProperties
<1>5. ASSUME ch # <<>> PROVE accepted[Len(front) + 1] = Head(ch)
  <2>1. Len(ch) >= 1
    BY <1>1, <1>5, EmptySeq
  <2>2. Len(front) + 1 \in 1 .. Len(front) + Len(ch)
    BY <2>1, <1>4
  <2>3. (front \o ch)[Len(front) + 1] = ch[(Len(front) + 1) - Len(front)]
    BY <2>2, <1>1, <1>4, ConcatProperties
  <2>4. (Len(front) + 1) - Len(front) = 1
    BY <1>4
  <2>5. Head(ch) = ch[1]
    BY <1>1, <1>5
  <2> QED BY <2>3, <2>4, <2>5, <1>2
<1> QED BY <1>1, <1>3, <1>4, <1>5 DEF front

LEMMA StepIsFifo == IInv /\ [Next]_vars => [Fifo!Next]_Fifo!vars
<1> SUFFICES ASSUME IInv, [Next]_vars PROVE [Fifo!Next]_Fifo!vars
  OBVIOUS
<1> QueueSize \in Nat \ {0} /\ ch \in Seq(Messages) /\ Len(ch) <= QueueSize
  BY QueueAssumption DEF IInv, TypeOK
<1>1. ASSUME NEW s \in Senders, Push(s) PROVE [Fifo!Next]_Fifo!vars
  <2> DEFINE m == <<s, pushed'[s]>>
  <2>1. m \in Messages
    <3>1. pushed'[s] = pushed[s] + 1 /\ pushed[s] + 1 \in 1 .. MaxPush
      BY <1>1, PushAssumption DEF Push, IInv, TypeOK
    <3> QED BY <3>1 DEF Messages
  <2>2. out' = out /\ cur' = cur
    BY <1>1 DEF Push
  <2>3. CASE HasRoom /\ accepted' = Append(accepted, m) /\ UNCHANGED dropped
    <3>1. Fifo!Accept(m)
      BY <2>2, <2>3, BacklogIsChannel DEF Fifo!Accept, HasRoom
    <3> QED BY <2>1, <3>1 DEF Fifo!Next
  <2>4. CASE ~HasRoom /\ dropped' = dropped \cup {m} /\ UNCHANGED accepted
    <3>1. Fifo!Backlog >= QueueSize
      BY <2>4, BacklogIsChannel, LenProperties DEF HasRoom
    <3>2. Fifo!Refuse(m)
      BY <2>2, <2>4, <3>1 DEF Fifo!Refuse
    <3> QED BY <2>1, <3>2 DEF Fifo!Next
  <2>5. CASE UNCHANGED <<accepted, dropped>>
    BY <2>2, <2>5 DEF Fifo!vars
  <2> QED BY <1>1, <2>3, <2>4, <2>5 DEF Push
<1>2. CASE LoopRecv
  <2>1. ch # <<>> /\ cur = <<>> /\ cur' = <<Head(ch)>> /\ UNCHANGED <<out, accepted, dropped>>
    BY <1>2 DEF LoopRecv, IInv, Phases, history
  <2>2. Head(ch) \in Messages /\ out \in Seq(Messages)
    BY <2>1, HeadTailProperties DEF IInv, TypeOK
  <2>3. out \o cur = out /\ (out \o cur)' = Append(out, Head(ch))
    BY <2>1, <2>2, ConcatEmptySeq, AppendConcat
  <2>4. Fifo!Backlog > 0
    BY <2>1, BacklogIsChannel, EmptySeq
  <2>5. Fifo!Release
    BY <2>1, <2>3, <2>4, BacklogIsChannel DEF Fifo!Release
  <2> QED BY <2>5 DEF Fifo!Next
<1>3. CASE LoopWrite
  <2>1. out \o cur \in Seq(Messages)
    BY BacklogIsChannel
  <2>2. (out \o cur)' = out \o cur
    BY <1>3, <2>1, ConcatEmptySeq DEF LoopWrite
  <2> QED BY <1>3, <2>2 DEF LoopWrite, Fifo!vars
<1>4. CASE UNCHANGED <<accepted, out, cur, dropped>>
  BY <1>4 DEF Fifo!vars
<1> QED
  BY <1>1, <1>2, <1>3, <1>4
     DEF Next, Worker, Closing, Rest, LoopExit, Flush, Close, CloseAgain, CloseJoin,
         CloseFollow, Exit, vars, pool, history

\* The pool is a lossy FIFO: logs leave in the order they were accepted, each
\* once, and a log is refused only when the channel is full.
THEOREM PoolIsLossyFifo == Spec => IsLossyFifo
<1>1. Init => Fifo!Init
  BY DEF Init, Fifo!Init
<1> QED BY <1>1, Inductive, StepIsFifo, PTL DEF Spec, IsLossyFifo, Fifo!Spec
=============================================================================
