--------------------------- MODULE PyQueueProofs ----------------------------
(***************************************************************************)
(* Proofs about PyQueue for every set of events, threads that shut down     *)
(* and threads that flush, every size of the queue and of a batch, and      *)
(* every number of attempts.                                                *)
(*                                                                          *)
(* QueueInv adds to the invariants of the run where an event may be         *)
(* (Places), what the thread holds at each point (Running), the sizes       *)
(* (Bounded), that the events due at a shutdown stay ahead of every         *)
(* sentinel and that the thread drains only past one (Sentinels), and what  *)
(* a flush waits for (Promises).                                            *)
(***************************************************************************)
EXTENDS PyQueue, SequenceTheorems, FiniteSetTheorems, TLAPS

Flushing == pc \in {"send", "posted", "backoff"}

\* An event is in the queue once at most.
Distinct == \A i, j \in DOMAIN q : q[i] = q[j] /\ q[i] # Sentinel => i = j

\* An event taken is in one place until it settles.
Places ==
  /\ Distinct
  /\ accepted = Queued \cup batch \cup Settled
  /\ Queued \cap batch = {}
  /\ (Queued \cup batch) \cap Settled = {}
  /\ accepted \cap overflow = {}

\* The thread flushes batches that are not empty, and none is left when it exits.
Running ==
  /\ Flushing => batch # {} /\ attempt >= 1
  /\ pc \in {"sentinel", "exit", "done"} => batch = {}
  /\ drained <=> pc = "done"

\* What is queued and what the thread holds.
Tasks == unfinished = Len(q) + Cardinality(batch) + (IF HoldsSentinel THEN 1 ELSE 0)

\* The queue and the batch are bounded.
Bounded ==
  /\ Len(q) <= MaxQueue
  /\ Cardinality(batch) <= BatchSize
  /\ pc \in {"get", "drain"} => Cardinality(batch) < BatchSize

\* The thread took a sentinel out of the queue.
Past ==
  \/ pc \in {"sentinel", "drain", "exit", "done"}
  \/ Flushing /\ back \in {"sentinel", "drain", "exit"}

\* The events due are ahead of every sentinel, whichever one comes first.
DueAhead == \A i, j \in DOMAIN q : q[i] \in due /\ q[j] = Sentinel => i < j

\* Before a sentinel landed nothing is due; past one nothing due is in the queue.
Sentinels ==
  /\ due \subseteq accepted
  /\ DueAhead
  /\ landed = {} => due = {} /\ ~Past /\ \A i \in DOMAIN q : q[i] # Sentinel
  /\ Past => Queued \cap due = {}

\* A flush waits for events the queue took; after true they are settled.
Promises ==
  \A w \in Waiter :
    /\ promised[w] \subseteq accepted
    /\ waiter[w] = "true" => promised[w] \subseteq Settled

QueueInv ==
  /\ TypeOK
  /\ Places
  /\ Running
  /\ Tasks
  /\ Bounded
  /\ Sentinels
  /\ Promises

-----------------------------------------------------------------------------
(* The queue, its head and its end.                                         *)

Items == Event \cup {Sentinel}

\* Sets of events are finite, so that their cardinalities are numbers.
LEMMA EventSets ==
  ASSUME NEW S, S \subseteq Event
  PROVE  IsFiniteSet(S) /\ Cardinality(S) \in Nat
  BY PyQueueAssumption, FS_Subset, FS_CardinalityType

\* get: the head leaves, and the others keep their order.
LEMMA GetHead ==
  ASSUME TypeOK, q # <<>>, q' = Tail(q)
  PROVE  /\ q' \in Seq(Items) /\ Len(q') = Len(q) - 1 /\ Len(q) \in Nat \ {0}
         /\ Head(q) \in Items /\ Head(q) = q[1] /\ 1 \in DOMAIN q
         /\ \A i \in DOMAIN q' : i + 1 \in DOMAIN q /\ q'[i] = q[i + 1] /\ i \in Nat \ {0}
         /\ \A i \in DOMAIN q : i \in Nat /\ (i # 1 => i - 1 \in DOMAIN q' /\ q'[i - 1] = q[i])
  <1>1. q \in Seq(Items)
    BY DEF TypeOK, Items
  <1>2. Len(q) \in Nat \ {0} /\ DOMAIN q = 1..Len(q)
    BY <1>1, LenProperties, EmptySeq
  <1>3. /\ q' \in Seq(Items) /\ Len(q') = Len(q) - 1 /\ Head(q) \in Items
        /\ \A i \in 1..Len(q') : q'[i] = q[i + 1]
    BY <1>1, HeadTailProperties
  <1>4. DOMAIN q' = 1..(Len(q) - 1)
    BY <1>3, LenProperties
  <1>5. Head(q) = q[1]
    BY <1>1
  <1>6. 1 \in DOMAIN q
    BY <1>2
  <1>7. \A i \in DOMAIN q' : i + 1 \in DOMAIN q /\ q'[i] = q[i + 1] /\ i \in Nat \ {0}
    BY <1>2, <1>3, <1>4
  <1>8. ASSUME NEW i \in DOMAIN q, i # 1
        PROVE  i - 1 \in DOMAIN q' /\ q'[i - 1] = q[i]
    <2>1. i - 1 \in 1..Len(q') /\ (i - 1) + 1 = i
      BY <1>2, <1>3, <1>8
    <2> QED
      BY <1>3, <1>4, <2>1
  <1> QED
    BY <1>2, <1>3, <1>5, <1>6, <1>7, <1>8

\* put_nowait: the item is the last one.
LEMMA PutLast ==
  ASSUME TypeOK, NEW item \in Items, Put(item)
  PROVE  /\ q' \in Seq(Items) /\ Len(q') = Len(q) + 1 /\ Len(q) \in Nat
         /\ Len(q') <= MaxQueue /\ unfinished' = unfinished + 1
         /\ \A i \in DOMAIN q : i \in DOMAIN q' /\ q'[i] = q[i] /\ i \in Nat /\ i < Len(q')
         /\ \A i \in DOMAIN q' : i \in DOMAIN q \/ i = Len(q')
         /\ Len(q') \in DOMAIN q' /\ q'[Len(q')] = item
  <1>1. q \in Seq(Items)
    BY DEF TypeOK, Items
  <1>2. Len(q) \in Nat /\ DOMAIN q = 1..Len(q) /\ ~(Len(q) >= MaxQueue)
    BY <1>1, LenProperties DEF Put, Full
  <1>3. /\ q' \in Seq(Items) /\ Len(q') = Len(q) + 1
        /\ \A i \in 1..Len(q) : q'[i] = q[i]
        /\ q'[Len(q) + 1] = item
    BY <1>1, AppendProperties DEF Put
  <1>4. DOMAIN q' = 1..(Len(q) + 1)
    BY <1>3, LenProperties
  <1>5. Len(q') <= MaxQueue
    BY <1>2, <1>3, PyQueueAssumption
  <1>6. unfinished' = unfinished + 1
    BY DEF Put
  <1> QED
    BY <1>2, <1>3, <1>4, <1>5, <1>6

\* What get takes out of the queue, if it is an event, is in it no more.
LEMMA GetQueued ==
  ASSUME TypeOK, Distinct, q # <<>>, q' = Tail(q)
  PROVE  /\ Distinct'
         /\ Queued' = Queued \ {Head(q)}
         /\ Head(q) # Sentinel => Head(q) \in Queued
  <1>1. /\ Head(q) \in Items /\ Head(q) = q[1] /\ 1 \in DOMAIN q
        /\ \A i \in DOMAIN q' : i + 1 \in DOMAIN q /\ q'[i] = q[i + 1] /\ i \in Nat \ {0}
        /\ \A i \in DOMAIN q : i \in Nat /\ (i # 1 => i - 1 \in DOMAIN q' /\ q'[i - 1] = q[i])
    BY GetHead
  <1>2. Distinct'
    <2> SUFFICES ASSUME NEW i \in DOMAIN q', NEW j \in DOMAIN q', q'[i] = q'[j], q'[i] # Sentinel
                 PROVE  i = j
      BY DEF Distinct
    <2>1. i + 1 = j + 1
      BY <1>1 DEF Distinct
    <2> QED
      BY <1>1, <2>1
  <1>3. ASSUME NEW e, e \in Queued' PROVE e \in Queued \ {Head(q)}
    <2>1. PICK i \in DOMAIN q' : q'[i] = e /\ e # Sentinel
      BY <1>3 DEF Queued
    <2>2. i + 1 \in DOMAIN q /\ q[i + 1] = e /\ i + 1 # 1
      BY <1>1, <2>1
    <2>3. e # q[1]
      BY <1>1, <2>1, <2>2 DEF Distinct
    <2> QED
      BY <1>1, <2>1, <2>2, <2>3 DEF Queued
  <1>4. ASSUME NEW e, e \in Queued \ {Head(q)} PROVE e \in Queued'
    <2>1. PICK i \in DOMAIN q : q[i] = e /\ e # Sentinel
      BY <1>4 DEF Queued
    <2>2. i # 1
      BY <1>1, <1>4, <2>1
    <2> QED
      BY <1>1, <2>1, <2>2 DEF Queued
  <1>5. Head(q) # Sentinel => Head(q) \in Queued
    BY <1>1 DEF Queued
  <1> QED
    BY <1>2, <1>3, <1>4, <1>5

\* What put_nowait adds; an event is not in the queue yet.
LEMMA PutQueued ==
  ASSUME TypeOK, Distinct, NEW item \in Items, item \notin Queued, Put(item)
  PROVE  Distinct' /\ Queued' = Queued \cup ({item} \ {Sentinel})
  <1>1. /\ \A i \in DOMAIN q : i \in DOMAIN q' /\ q'[i] = q[i] /\ i \in Nat /\ i < Len(q')
        /\ \A i \in DOMAIN q' : i \in DOMAIN q \/ i = Len(q')
        /\ Len(q') \in DOMAIN q' /\ q'[Len(q')] = item
    BY PutLast
  <1>2. Distinct'
    <2> SUFFICES ASSUME NEW i \in DOMAIN q', NEW j \in DOMAIN q', q'[i] = q'[j], q'[i] # Sentinel
                 PROVE  i = j
      BY DEF Distinct
    <2>1. CASE i \in DOMAIN q /\ j \in DOMAIN q
      BY <1>1, <2>1 DEF Distinct
    <2>2. CASE i \in DOMAIN q /\ j = Len(q')
      BY <1>1, <2>2 DEF Queued
    <2>3. CASE i = Len(q') /\ j \in DOMAIN q
      BY <1>1, <2>3 DEF Queued
    <2> QED
      BY <1>1, <2>1, <2>2, <2>3
  <1>3. Queued' = Queued \cup ({item} \ {Sentinel})
    BY <1>1 DEF Queued
  <1> QED
    BY <1>2, <1>3

\* What is due stays ahead of the sentinels when the head leaves.
LEMMA GetDue ==
  ASSUME TypeOK, DueAhead, q # <<>>, q' = Tail(q), due' = due
  PROVE  DueAhead'
  <1>1. \A i \in DOMAIN q' : i + 1 \in DOMAIN q /\ q'[i] = q[i + 1] /\ i \in Nat \ {0}
    BY GetHead
  <1> SUFFICES ASSUME NEW i \in DOMAIN q', NEW j \in DOMAIN q', q'[i] \in due, q'[j] = Sentinel
               PROVE  i < j
    BY DEF DueAhead
  <1>2. i + 1 < j + 1
    BY <1>1 DEF DueAhead
  <1> QED
    BY <1>1, <1>2

\* A sentinel at the head has nothing due behind it.
LEMMA HeadSentinel ==
  ASSUME TypeOK, DueAhead, q # <<>>, Head(q) = Sentinel
  PROVE  Queued \cap due = {}
  <1>1. q \in Seq(Items)
    BY DEF TypeOK, Items
  <1>2. Len(q) \in Nat \ {0} /\ DOMAIN q = 1..Len(q) /\ Head(q) = q[1]
    BY <1>1, LenProperties, EmptySeq
  <1> SUFFICES ASSUME NEW i \in DOMAIN q, q[i] \in due PROVE FALSE
    BY DEF Queued
  <1>3. i < 1
    BY <1>2 DEF DueAhead
  <1> QED
    BY <1>2, <1>3

-----------------------------------------------------------------------------
(* Each part of the invariant is kept by every step.                        *)

\* The initial state satisfies the inductive invariant.
LEMMA InitQueueInv == Init => QueueInv
  <1> SUFFICES ASSUME Init PROVE QueueInv
    OBVIOUS
  <1>0. /\ <<>> \in Seq(Event \cup {Sentinel}) /\ Len(<<>>) = 0 /\ Cardinality({}) = 0
        /\ DOMAIN q = {}
    BY EmptySeq, FS_EmptySet DEF Init
  <1>1. TypeOK
    <2>1. /\ closer \in [Closer -> {"out", "set", "put", "room", "again", "wait", "returned"}]
          /\ waiter \in [Waiter -> {"idle", "poll", "true"}]
          /\ promised \in [Waiter -> SUBSET Event]
      BY DEF Init
    <2>2. attempt \in 0..MaxRetries
      BY PyQueueAssumption DEF Init
    <2> QED
      BY <1>0, <2>1, <2>2 DEF TypeOK, Init
  <1>2. Places
    BY <1>0 DEF Init, Places, Distinct, Queued, Settled
  <1>3. Running /\ Promises
    BY DEF Init, Running, Promises, Flushing
  <1>4. Tasks
    BY <1>0 DEF Init, Tasks, HoldsSentinel
  <1>5. Bounded
    BY <1>0, PyQueueAssumption DEF Init, Bounded
  <1>6. Sentinels
    BY <1>0 DEF Init, Sentinels, DueAhead, Past, Flushing, Queued
  <1> QED
    BY <1>1, <1>2, <1>3, <1>4, <1>5, <1>6 DEF QueueInv

\* The steps that take an item out of the queue.
Gets ==
  \/ TakeEvent \/ TakeSentinel \/ DrainTake \/ DrainSentinel
  \/ \E c \in Closer : MakeRoom(c)

\* The steps that settle the batch.
Settles == Answer202 \/ AnswerRejected \/ GiveUp

\* The thread's steps that move no event.
Moves == Tick \/ SentinelDone \/ DrainEnd \/ Drained \/ Post \/ AnswerRetryable \/ RetryAgain

\* The steps of callers that leave the queue alone.
Calls ==
  \/ \E e \in Event : EnqueueFull(e)
  \/ \E c \in Closer : Shutdown(c) \/ SetStop(c) \/ PutFull(c) \/ NoRoomNeeded(c) \/ CloseSender(c)
  \/ \E w \in Waiter : Flush(w)

\* The disjuncts of Next, grouped by what they do to the queue: put an event, put a
\* sentinel, take, settle, or neither.
LEMMA NextSplits ==
  ASSUME Next
  PROVE  \/ \E e \in Event : EnqueueOk(e)
         \/ \E c \in Closer : PutSentinel(c)
         \/ Gets \/ Settles \/ Moves \/ Calls
  BY DEF Next, Run, Closing, Gets, Settles, Moves, Calls

\* What the counter of unfinished tasks allows to subtract.
LEMMA Countable ==
  ASSUME TypeOK, Tasks
  PROVE  /\ Len(q) \in Nat /\ Cardinality(batch) \in Nat /\ unfinished \in Nat
         /\ unfinished - Cardinality(batch) \in Nat
         /\ q # <<>> => unfinished - 1 \in Nat
         /\ HoldsSentinel => unfinished - 1 \in Nat
  <1>1. Len(q) \in Nat /\ Cardinality(batch) \in Nat /\ unfinished \in Nat /\ (q # <<>> => Len(q) # 0)
    BY LenProperties, EmptySeq, EventSets DEF TypeOK
  <1> QED
    BY <1>1 DEF Tasks

\* The types: task_done takes nothing off that was not counted before.
LEMMA StepTypeOK ==
  ASSUME TypeOK, Running, Tasks, Next
  PROVE  TypeOK'
  <1> USE DEF TypeOK, Items, threadVars, fateVars, offerVars, closeVars, flushVars
  <1>0. /\ unfinished - Cardinality(batch) \in Nat
        /\ q # <<>> => unfinished - 1 \in Nat
        /\ HoldsSentinel => unfinished - 1 \in Nat
    BY Countable
  <1>1. ASSUME NEW e \in Event, EnqueueOk(e)
        PROVE  TypeOK'
    <2>1. q' \in Seq(Items) /\ unfinished' \in Nat
      BY <1>1, PutLast DEF EnqueueOk
    <2> QED
      BY <1>1, <2>1 DEF EnqueueOk
  <1>2. ASSUME NEW c \in Closer, PutSentinel(c)
        PROVE  TypeOK'
    <2>1. q' \in Seq(Items) /\ unfinished' \in Nat
      BY <1>2, PutLast DEF PutSentinel
    <2> QED
      BY <1>2, <2>1 DEF PutSentinel, CloserGoto
  <1>3. CASE Gets
    <2>1. q # <<>> /\ q' = Tail(q)
      BY <1>3 DEF Gets, TakeEvent, TakeSentinel, DrainTake, DrainSentinel, MakeRoom
    <2>2. q' \in Seq(Items) /\ Head(q) \in Items /\ 1 \in 0..MaxRetries
      BY <2>1, GetHead, PyQueueAssumption
    <2>3. CASE TakeEvent
      BY <2>2, <2>3 DEF TakeEvent, FlushThen
    <2>4. CASE TakeSentinel
      BY <2>2, <2>4 DEF TakeSentinel, FlushThen
    <2>5. CASE DrainTake
      BY <2>2, <2>5 DEF DrainTake, FlushThen
    <2>6. CASE DrainSentinel
      BY <1>0, <2>2, <2>6 DEF DrainSentinel, TasksDone
    <2>7. ASSUME NEW c \in Closer, MakeRoom(c)
          PROVE  TypeOK'
      BY <1>0, <2>2, <2>7 DEF MakeRoom, TasksDone, CloserGoto
    <2> QED
      BY <1>3, <2>3, <2>4, <2>5, <2>6, <2>7 DEF Gets
  <1>4. CASE Settles
    <2>1. dropped + Cardinality(batch) \in Nat
      BY EventSets
    <2> QED
      BY <1>0, <1>4, <2>1 DEF Settles, Answer202, AnswerRejected, GiveUp, EndFlush, TasksDone
  <1>5. CASE Moves
    <2>1. 1 \in 0..MaxRetries /\ (attempt < MaxRetries => attempt + 1 \in 0..MaxRetries)
      BY PyQueueAssumption
    <2>2. CASE Tick \/ DrainEnd \/ Drained
      BY <2>1, <2>2 DEF Tick, DrainEnd, Drained, FlushThen
    <2>3. CASE SentinelDone
      BY <1>0, <2>3 DEF SentinelDone, TasksDone, HoldsSentinel
    <2>4. CASE Post \/ AnswerRetryable \/ RetryAgain
      BY <2>1, <2>4 DEF Post, AnswerRetryable, RetryAgain
    <2> QED
      BY <1>5, <2>2, <2>3, <2>4 DEF Moves
  <1>6. CASE Calls
    <2>1. ASSUME NEW e \in Event, EnqueueFull(e)
          PROVE  TypeOK'
      BY <2>1 DEF EnqueueFull
    <2>2. ASSUME NEW c \in Closer,
                 Shutdown(c) \/ SetStop(c) \/ PutFull(c) \/ NoRoomNeeded(c) \/ CloseSender(c)
          PROVE  TypeOK'
      BY <2>2 DEF Shutdown, SetStop, PutFull, NoRoomNeeded, CloseSender, CloserGoto
    <2>3. ASSUME NEW w \in Waiter, Flush(w)
          PROVE  TypeOK'
      BY <2>3 DEF Flush, FlushCall, FlushTrue, FlushTimeout
    <2> QED
      BY <1>6, <2>1, <2>2, <2>3 DEF Calls
  <1> QED
    BY <1>1, <1>2, <1>3, <1>4, <1>5, <1>6, NextSplits

\* Events move from the end of the queue to its head, into the batch, and to their
\* fate; a shutdown may evict one on the way.
LEMMA StepPlaces ==
  ASSUME TypeOK, Places, Next
  PROVE  Places'
  <1> USE DEF threadVars, fateVars, offerVars, closeVars, flushVars
  <1>1. ASSUME NEW e \in Event, EnqueueOk(e)
        PROVE  Places'
    <2>1. Distinct /\ e \in Items /\ e \notin Queued /\ Put(e) /\ e # Sentinel
      BY <1>1, PyQueueAssumption DEF EnqueueOk, Places, Items
    <2>2. Distinct' /\ Queued' = Queued \cup {e}
      BY <2>1, PutQueued
    <2> QED
      BY <1>1, <2>2 DEF EnqueueOk, Places, Settled
  <1>2. ASSUME NEW c \in Closer, PutSentinel(c)
        PROVE  Places'
    <2>1. Distinct /\ Sentinel \in Items /\ Sentinel \notin Queued /\ Put(Sentinel)
      BY <1>2 DEF PutSentinel, Places, Items, Queued
    <2>2. Distinct' /\ Queued' = Queued
      BY <2>1, PutQueued
    <2> QED
      BY <1>2, <2>2 DEF PutSentinel, Places, Settled
  <1>3. CASE Gets
    <2>1. q # <<>> /\ q' = Tail(q) /\ Distinct
      BY <1>3 DEF Gets, TakeEvent, TakeSentinel, DrainTake, DrainSentinel, MakeRoom, Places
    <2>2. Distinct' /\ Queued' = Queued \ {Head(q)} /\ (Head(q) # Sentinel => Head(q) \in Queued)
      BY <2>1, GetQueued
    <2>3. Head(q) = Sentinel => Queued' = Queued
      BY <2>2 DEF Queued
    <2>4. CASE TakeEvent \/ DrainTake
      BY <2>2, <2>4 DEF TakeEvent, DrainTake, Places, Settled
    <2>5. CASE TakeSentinel \/ DrainSentinel
      BY <2>2, <2>3, <2>5 DEF TakeSentinel, DrainSentinel, Places, Settled
    <2>6. ASSUME NEW c \in Closer, MakeRoom(c)
          PROVE  Places'
      BY <2>2, <2>3, <2>6 DEF MakeRoom, Places, Settled
    <2> QED
      BY <1>3, <2>4, <2>5, <2>6 DEF Gets
  <1>4. CASE Settles
    BY <1>4 DEF Settles, Answer202, AnswerRejected, GiveUp, EndFlush, Places, Distinct, Queued, Settled
  <1>5. ASSUME NEW e \in Event, EnqueueFull(e)
        PROVE  Places'
    BY <1>5 DEF EnqueueFull, Places, Distinct, Queued, Settled
  <1>6. CASE UNCHANGED <<q, batch, accepted, overflow, fateVars>>
    BY <1>6 DEF Places, Distinct, Queued, Settled
  <1>7. Moves => UNCHANGED <<q, batch, accepted, overflow, fateVars>>
    BY DEF Moves, Tick, SentinelDone, DrainEnd, Drained, Post, AnswerRetryable, RetryAgain
  <1>8. Calls => UNCHANGED <<q, batch, accepted, overflow, fateVars>> \/ \E e \in Event : EnqueueFull(e)
    BY DEF Calls, Shutdown, SetStop, PutFull, NoRoomNeeded, CloseSender, Flush, FlushCall, FlushTrue,
           FlushTimeout
  <1> QED
    BY <1>1, <1>2, <1>3, <1>4, <1>5, <1>6, <1>7, <1>8, NextSplits

\* A flush begins on a batch and ends with none.
LEMMA StepRunning ==
  ASSUME TypeOK, Running, Next
  PROVE  Running'
  <1> USE DEF TypeOK, Running, Flushing, threadVars, fateVars, offerVars, closeVars, flushVars
  <1>1. CASE TakeEvent \/ DrainTake
    <2>1. pc \in {"get", "drain"} /\ drained' = drained /\ batch' = batch \cup {Head(q)}
      BY <1>1 DEF TakeEvent, DrainTake
    <2>2. (pc' = "send" /\ attempt' = 1) \/ (pc' = pc /\ attempt' = attempt)
      BY <1>1 DEF TakeEvent, DrainTake, FlushThen
    <2> QED
      BY <2>1, <2>2
  <1>2. CASE TakeSentinel
    BY <1>2 DEF TakeSentinel, FlushThen
  <1>3. CASE Settles
    BY <1>3 DEF Settles, Answer202, AnswerRejected, GiveUp, EndFlush
  <1>4. CASE Moves
    <2>1. CASE Tick \/ DrainEnd \/ SentinelDone
      BY <2>1 DEF Tick, SentinelDone, DrainEnd, FlushThen
    <2>2. CASE Drained
      BY <2>2 DEF Drained
    <2>3. CASE Post \/ AnswerRetryable \/ RetryAgain
      BY <2>3 DEF Post, AnswerRetryable, RetryAgain
    <2> QED
      BY <1>4, <2>1, <2>2, <2>3 DEF Moves
  <1>5. CASE UNCHANGED <<pc, batch, attempt, drained>>
    BY <1>5
  <1> QED
    BY <1>1, <1>2, <1>3, <1>4, <1>5, NextSplits
    DEF Gets, Calls, EnqueueOk, EnqueueFull, PutSentinel, DrainSentinel, MakeRoom, Shutdown, SetStop,
        PutFull, NoRoomNeeded, CloseSender, Flush, FlushCall, FlushTrue, FlushTimeout

\* unfinished_tasks counts what is queued and what the thread holds.
LEMMA StepTasks ==
  ASSUME TypeOK, Places, Running, Tasks, Next
  PROVE  Tasks'
  <1> USE DEF threadVars, fateVars, offerVars, closeVars, flushVars
  <1>0. Len(q) \in Nat /\ Cardinality(batch) \in Nat /\ unfinished \in Nat /\ Cardinality({}) = 0
    BY Countable, FS_EmptySet
  <1>1. CASE (\E e \in Event : EnqueueOk(e)) \/ \E c \in Closer : PutSentinel(c)
    <2>1. Len(q') = Len(q) + 1 /\ unfinished' = unfinished + 1
      <3>1. \E item \in Items : Put(item)
        BY <1>1 DEF EnqueueOk, PutSentinel, Items
      <3> QED
        BY <3>1, PutLast
    <2>2. batch' = batch /\ (HoldsSentinel' <=> HoldsSentinel)
      BY <1>1 DEF EnqueueOk, PutSentinel, HoldsSentinel
    <2> QED
      BY <1>0, <2>1, <2>2 DEF Tasks
  <1>2. CASE Gets
    <2>1. q # <<>> /\ q' = Tail(q)
      BY <1>2 DEF Gets, TakeEvent, TakeSentinel, DrainTake, DrainSentinel, MakeRoom
    <2>2. Len(q') = Len(q) - 1
      BY <2>1, GetHead
    <2>3. CASE TakeEvent \/ DrainTake
      <3>1. batch' = batch \cup {Head(q)} /\ UNCHANGED unfinished /\ ~HoldsSentinel /\ ~HoldsSentinel'
        BY <2>3 DEF TakeEvent, DrainTake, HoldsSentinel, FlushThen
      <3>2. Head(q) \notin batch
        <4>1. Head(q) # Sentinel
          BY <2>3 DEF TakeEvent, DrainTake
        <4> QED
          BY <2>1, <4>1, GetQueued DEF Places
      <3>3. Cardinality(batch \cup {Head(q)}) = Cardinality(batch) + 1
        BY <3>2, EventSets, FS_AddElement DEF TypeOK
      <3> QED
        BY <1>0, <2>2, <3>1, <3>3 DEF Tasks
    <2>4. CASE TakeSentinel
      <3>1. batch' = batch /\ UNCHANGED unfinished /\ ~HoldsSentinel /\ HoldsSentinel'
        BY <2>4 DEF TakeSentinel, HoldsSentinel, FlushThen
      <3> QED
        BY <1>0, <2>2, <3>1 DEF Tasks
    <2>5. CASE DrainSentinel \/ \E c \in Closer : MakeRoom(c)
      <3>1. batch' = batch /\ unfinished' = unfinished - 1 /\ (HoldsSentinel' <=> HoldsSentinel)
        BY <2>5 DEF DrainSentinel, MakeRoom, TasksDone, HoldsSentinel
      <3> QED
        BY <1>0, <2>2, <3>1 DEF Tasks
    <2> QED
      BY <1>2, <2>3, <2>4, <2>5 DEF Gets
  <1>3. CASE Settles
    <2>1. /\ q' = q /\ batch' = {} /\ unfinished' = unfinished - Cardinality(batch)
          /\ HoldsSentinel' <=> HoldsSentinel
      BY <1>3 DEF Settles, Answer202, AnswerRejected, GiveUp, EndFlush, TasksDone, HoldsSentinel, TypeOK
    <2> QED
      BY <1>0, <2>1 DEF Tasks
  <1>4. CASE SentinelDone
    <2>1. q' = q /\ batch' = batch /\ unfinished' = unfinished - 1 /\ HoldsSentinel /\ ~HoldsSentinel'
      BY <1>4 DEF SentinelDone, TasksDone, HoldsSentinel
    <2> QED
      BY <1>0, <2>1 DEF Tasks
  <1>5. CASE Moves /\ ~SentinelDone
    <2>1. q' = q /\ batch' = batch /\ unfinished' = unfinished
      BY <1>5 DEF Moves, Tick, DrainEnd, Drained, Post, AnswerRetryable, RetryAgain
    <2>2. HoldsSentinel' <=> HoldsSentinel
      BY <1>5 DEF Moves, Tick, DrainEnd, Drained, Post, AnswerRetryable, RetryAgain, FlushThen, HoldsSentinel
    <2> QED
      BY <2>1, <2>2 DEF Tasks
  <1>6. CASE Calls
    <2>1. UNCHANGED <<q, batch, unfinished, pc, back>>
      BY <1>6 DEF Calls, EnqueueFull, Shutdown, SetStop, PutFull, NoRoomNeeded, CloseSender, Flush,
                  FlushCall, FlushTrue, FlushTimeout
    <2> QED
      BY <2>1 DEF Tasks, HoldsSentinel
  <1> QED
    BY <1>1, <1>2, <1>3, <1>4, <1>5, <1>6, NextSplits

\* put looks at the room in the queue, and the thread at the size of its batch.
LEMMA StepBounded ==
  ASSUME TypeOK, Places, Running, Bounded, Next
  PROVE  Bounded'
  <1> USE DEF threadVars, fateVars, offerVars, closeVars, flushVars
  <1>0. /\ Len(q) \in Nat /\ Cardinality(batch) \in Nat /\ Cardinality({}) = 0
        /\ MaxQueue \in Nat /\ BatchSize \in Nat /\ BatchSize > 0
    BY LenProperties, EventSets, FS_EmptySet, PyQueueAssumption DEF TypeOK
  <1>1. CASE (\E e \in Event : EnqueueOk(e)) \/ \E c \in Closer : PutSentinel(c)
    <2>1. Len(q') <= MaxQueue
      <3>1. \E item \in Items : Put(item)
        BY <1>1 DEF EnqueueOk, PutSentinel, Items
      <3> QED
        BY <3>1, PutLast
    <2>2. batch' = batch /\ pc' = pc
      BY <1>1 DEF EnqueueOk, PutSentinel
    <2> QED
      BY <2>1, <2>2 DEF Bounded
  <1>2. CASE Gets
    <2>1. q # <<>> /\ q' = Tail(q)
      BY <1>2 DEF Gets, TakeEvent, TakeSentinel, DrainTake, DrainSentinel, MakeRoom
    <2>2. Len(q') <= MaxQueue
      <3>1. Len(q') = Len(q) - 1
        BY <2>1, GetHead
      <3> QED
        BY <1>0, <3>1 DEF Bounded
    <2>3. CASE TakeEvent \/ DrainTake
      <3>1. /\ batch' = batch \cup {Head(q)} /\ Cardinality(batch) < BatchSize
            /\ \/ pc' = "send"
               \/ ~(Cardinality(batch') >= BatchSize)
               \/ Cardinality(batch') < BatchSize
        BY <2>3 DEF TakeEvent, DrainTake, FlushThen, Bounded
      <3>2. Cardinality(batch') \in Nat /\ Cardinality(batch') <= Cardinality(batch) + 1
        <4>1. IsFiniteSet(batch)
          BY EventSets DEF TypeOK
        <4>2. Cardinality(batch \cup {Head(q)}) = IF Head(q) \in batch THEN Cardinality(batch) ELSE Cardinality(batch) + 1
          BY <4>1, FS_AddElement
        <4> QED
          BY <1>0, <3>1, <4>2
      <3>3. Cardinality(batch') <= BatchSize /\ (pc' = "send" \/ Cardinality(batch') < BatchSize)
        BY <1>0, <3>1, <3>2
      <3> QED
        BY <2>2, <3>3 DEF Bounded
    <2>4. CASE ~(TakeEvent \/ DrainTake)
      <3>1. batch' = batch /\ (pc' \in {"get", "drain"} => pc \in {"get", "drain"})
        BY <1>2, <2>4 DEF Gets, TakeSentinel, DrainSentinel, MakeRoom, FlushThen
      <3> QED
        BY <2>2, <3>1 DEF Bounded
    <2> QED
      BY <2>3, <2>4
  <1>3. CASE Settles
    <2>1. q' = q /\ batch' = {}
      BY <1>3 DEF Settles, Answer202, AnswerRejected, GiveUp, EndFlush
    <2> QED
      BY <1>0, <2>1 DEF Bounded
  <1>4. CASE Moves
    <2>1. q' = q /\ batch' = batch
      BY <1>4 DEF Moves, Tick, SentinelDone, DrainEnd, Drained, Post, AnswerRetryable, RetryAgain
    <2>2. pc' \in {"get", "drain"} => batch = {}
      BY <1>4 DEF Moves, Tick, SentinelDone, DrainEnd, Drained, Post, AnswerRetryable, RetryAgain, FlushThen,
                  Running
    <2> QED
      BY <1>0, <2>1, <2>2 DEF Bounded
  <1>5. CASE Calls
    <2>1. UNCHANGED <<q, batch, pc>>
      BY <1>5 DEF Calls, EnqueueFull, Shutdown, SetStop, PutFull, NoRoomNeeded, CloseSender, Flush,
                  FlushCall, FlushTrue, FlushTimeout
    <2> QED
      BY <2>1 DEF Bounded
  <1> QED
    BY <1>1, <1>2, <1>3, <1>4, <1>5, NextSplits

\* The events due are ahead of the sentinels, and gone from the queue past one.
LEMMA StepSentinels ==
  ASSUME TypeOK, Places, Sentinels, Next
  PROVE  Sentinels'
  <1> USE DEF threadVars, fateVars, offerVars, closeVars, flushVars
  <1>1. ASSUME NEW e \in Event, EnqueueOk(e)
        PROVE  Sentinels'
    <2>1. /\ e \in Items /\ e \notin Queued /\ Put(e) /\ e # Sentinel /\ e \notin due /\ e \notin accepted
          /\ Distinct
      BY <1>1, PyQueueAssumption DEF EnqueueOk, Places, Items, Sentinels
    <2>2. /\ \A i \in DOMAIN q : i \in DOMAIN q' /\ q'[i] = q[i] /\ i \in Nat /\ i < Len(q')
          /\ \A i \in DOMAIN q' : i \in DOMAIN q \/ i = Len(q')
          /\ Len(q') \in DOMAIN q' /\ q'[Len(q')] = e
      BY <2>1, PutLast
    <2>3. Queued' = Queued \cup {e}
      BY <2>1, PutQueued
    <2>4. accepted' = accepted \cup {e} /\ UNCHANGED <<due, landed, pc, back>>
      BY <1>1 DEF EnqueueOk
    <2>5. DueAhead'
      BY <2>1, <2>2, <2>4 DEF DueAhead, Sentinels
    <2>6. landed' = {} => \A i \in DOMAIN q' : q'[i] # Sentinel
      BY <2>1, <2>2, <2>4 DEF Sentinels
    <2> QED
      BY <2>1, <2>3, <2>4, <2>5, <2>6 DEF Sentinels, Past, Flushing
  <1>2. ASSUME NEW c \in Closer, PutSentinel(c)
        PROVE  Sentinels'
    <2>1. Sentinel \in Items /\ Sentinel \notin Queued /\ Put(Sentinel) /\ Distinct
      BY <1>2 DEF PutSentinel, Places, Items, Queued
    <2>2. /\ \A i \in DOMAIN q : i \in DOMAIN q' /\ q'[i] = q[i] /\ i \in Nat /\ i < Len(q')
          /\ \A i \in DOMAIN q' : i \in DOMAIN q \/ i = Len(q')
          /\ Len(q') \in DOMAIN q' /\ q'[Len(q')] = Sentinel
      BY <2>1, PutLast
    <2>3. Queued' = Queued
      BY <2>1, PutQueued
    <2>4. /\ landed' # {} /\ UNCHANGED <<accepted, pc, back>>
          /\ due' = IF landed = {} THEN accepted ELSE due
      BY <1>2 DEF PutSentinel
    <2>5. Sentinel \notin due'
      BY <2>4, PyQueueAssumption DEF Sentinels, TypeOK
    <2>6. DueAhead'
      <3>1. ASSUME NEW i \in DOMAIN q', NEW j \in DOMAIN q', q'[i] \in due', q'[j] = Sentinel
            PROVE  i < j
        <4>1. i \in DOMAIN q
          BY <2>2, <2>5, <3>1
        <4>2. CASE j = Len(q')
          BY <2>2, <4>1, <4>2
        <4>3. CASE j \in DOMAIN q
          <5>1. q[i] = q'[i] /\ q[j] = Sentinel
            BY <2>2, <3>1, <4>1, <4>3
          <5>2. landed # {}
            BY <4>3, <5>1 DEF Sentinels
          <5>3. q[i] \in due
            BY <2>4, <3>1, <5>1, <5>2
          <5> QED
            BY <4>1, <4>3, <5>1, <5>3 DEF Sentinels, DueAhead
        <4> QED
          BY <2>2, <4>2, <4>3
      <3> QED
        BY <3>1 DEF DueAhead
    <2>7. due' \subseteq accepted'
      BY <2>4 DEF Sentinels
    <2>8. Past' => Queued' \cap due' = {}
      BY <2>3, <2>4 DEF Sentinels, Past, Flushing
    <2> QED
      BY <2>4, <2>6, <2>7, <2>8 DEF Sentinels
  <1>3. CASE Gets
    <2>1. q # <<>> /\ q' = Tail(q) /\ Distinct /\ UNCHANGED <<accepted, due, landed>>
      BY <1>3 DEF Gets, TakeEvent, TakeSentinel, DrainTake, DrainSentinel, MakeRoom, Places
    <2>2. Queued' = Queued \ {Head(q)}
      BY <2>1, GetQueued
    <2>3. DueAhead'
      BY <2>1, GetDue DEF Sentinels
    <2>4. (\A i \in DOMAIN q : q[i] # Sentinel) => (Head(q) # Sentinel /\ \A i \in DOMAIN q' : q'[i] # Sentinel)
      BY <2>1, GetHead
    <2>5. Past' => Past \/ (Head(q) = Sentinel /\ Queued \cap due = {})
      <3>1. CASE TakeSentinel
        BY <2>1, <3>1, HeadSentinel DEF TakeSentinel, Sentinels
      <3>2. CASE TakeEvent \/ DrainTake \/ DrainSentinel \/ \E c \in Closer : MakeRoom(c)
        BY <3>2 DEF TakeEvent, DrainTake, DrainSentinel, MakeRoom, FlushThen, Past, Flushing
      <3> QED
        BY <1>3, <3>1, <3>2 DEF Gets
    <2>6. Past' => Queued' \cap due' = {}
      BY <2>1, <2>2, <2>5 DEF Sentinels
    <2>7. landed' = {} => due' = {} /\ ~Past' /\ \A i \in DOMAIN q' : q'[i] # Sentinel
      BY <2>1, <2>4, <2>5 DEF Sentinels
    <2> QED
      BY <2>1, <2>3, <2>6, <2>7 DEF Sentinels
  <1>4. CASE Settles \/ Moves
    <2>1. UNCHANGED <<q, accepted, due, landed>>
      BY <1>4 DEF Settles, Answer202, AnswerRejected, GiveUp, EndFlush, Moves, Tick, SentinelDone,
                  DrainEnd, Drained, Post, AnswerRetryable, RetryAgain
    <2>2. Past' => Past
      <3>1. CASE Settles
        BY <3>1 DEF TypeOK, Settles, Answer202, AnswerRejected, GiveUp, EndFlush, Past, Flushing
      <3>2. CASE Tick \/ SentinelDone \/ DrainEnd \/ Drained
        BY <3>2 DEF Tick, SentinelDone, DrainEnd, Drained, FlushThen, Past, Flushing
      <3>3. CASE Post \/ AnswerRetryable \/ RetryAgain
        BY <3>3 DEF Post, AnswerRetryable, RetryAgain, Past, Flushing
      <3> QED
        BY <1>4, <3>1, <3>2, <3>3 DEF Moves
    <2> QED
      BY <2>1, <2>2 DEF Sentinels, DueAhead, Queued
  <1>5. CASE Calls
    <2>1. UNCHANGED <<q, accepted, due, landed, pc, back>>
      BY <1>5 DEF Calls, EnqueueFull, Shutdown, SetStop, PutFull, NoRoomNeeded, CloseSender, Flush,
                  FlushCall, FlushTrue, FlushTimeout
    <2> QED
      BY <2>1 DEF Sentinels, DueAhead, Queued, Past, Flushing
  <1> QED
    BY <1>1, <1>2, <1>3, <1>4, <1>5, NextSplits

\* With no task unfinished every event taken is settled.
LEMMA NoTaskLeft ==
  ASSUME TypeOK, Places, Tasks, unfinished = 0
  PROVE  accepted = Settled
  <1>1. Len(q) \in Nat /\ Cardinality(batch) \in Nat
    BY Countable
  <1>2. Len(q) = 0 /\ Cardinality(batch) = 0
    BY <1>1 DEF Tasks
  <1>3. batch = {}
    BY <1>2, EventSets, FS_EmptySet DEF TypeOK
  <1>4. Queued = {}
    <2>1. q = <<>>
      BY <1>2, EmptySeq DEF TypeOK
    <2> QED
      BY <2>1 DEF Queued
  <1> QED
    BY <1>3, <1>4 DEF Places

\* What a flush waits for stays taken, and what is settled stays settled.
LEMMA StepPromises ==
  ASSUME TypeOK, Places, Tasks, Promises, Next
  PROVE  Promises'
  <1> USE DEF threadVars, fateVars, offerVars, closeVars, flushVars
  <1>1. ASSUME NEW w \in Waiter, FlushCall(w) \/ FlushTimeout(w)
        PROVE  Promises'
    BY <1>1 DEF FlushCall, FlushTimeout, Promises, Settled, TypeOK
  <1>2. ASSUME NEW w \in Waiter, FlushTrue(w)
        PROVE  Promises'
    <2>1. accepted = Settled
      BY <1>2, NoTaskLeft DEF FlushTrue
    <2> QED
      BY <1>2, <2>1 DEF FlushTrue, Promises, Settled, TypeOK
  <1>3. CASE UNCHANGED <<waiter, promised>> /\ accepted \subseteq accepted' /\ Settled \subseteq Settled'
    BY <1>3 DEF Promises
  <1> QED
    BY <1>1, <1>2, <1>3
    DEF Next, Run, Closing, Flush, Settled, EnqueueOk, EnqueueFull, TakeEvent, Tick, TakeSentinel, SentinelDone,
        DrainTake, DrainSentinel, DrainEnd, Drained, Post, Answer202, AnswerRejected, AnswerRetryable,
        RetryAgain, GiveUp, Shutdown, SetStop, PutSentinel, PutFull, MakeRoom, NoRoomNeeded, CloseSender

\* Every step keeps the inductive invariant.
LEMMA StepQueueInv == QueueInv /\ [Next]_vars => QueueInv'
  <1>1. ASSUME QueueInv, Next
        PROVE  QueueInv'
    BY <1>1, StepTypeOK, StepPlaces, StepRunning, StepTasks, StepBounded, StepSentinels, StepPromises
    DEF QueueInv
  <1>2. ASSUME QueueInv, UNCHANGED vars
        PROVE  QueueInv'
    BY <1>2
    DEF QueueInv, TypeOK, Places, Distinct, Running, Tasks, Bounded, Sentinels, DueAhead, Past, Promises,
        Flushing, HoldsSentinel, Queued, Settled, vars, threadVars, fateVars, offerVars, closeVars, flushVars
  <1> QED
    BY <1>1, <1>2

-----------------------------------------------------------------------------
(* Theorems.                                                                *)

\* The inductive invariant holds in every reachable state of the Python queue.
THEOREM PyQueueInductive == Spec => []QueueInv
  BY InitQueueInv, StepQueueInv, PTL DEF Spec

\* unfinished_tasks is exact, although shutdown takes items out behind the thread's
\* back; among the types, _flush never exceeds its attempts.
THEOREM PyQueueTasksExact == Spec => []TasksExact
  <1>1. QueueInv => TasksExact
    BY DEF QueueInv, TasksExact, Tasks
  <1> QED
    BY <1>1, PyQueueInductive, PTL

\* When flush returned True, what was recorded before the call is settled.
THEOREM PyQueueFlushShips == Spec => []FlushShips
  <1>1. QueueInv => FlushShips
    BY DEF QueueInv, FlushShips, Promises
  <1> QED
    BY <1>1, PyQueueInductive, PTL

\* When _drained is set, what was recorded before the first sentinel is settled,
\* whichever sentinel the thread found and whatever shutdowns evicted.
THEOREM PyQueueDrainComplete == Spec => []DrainComplete
  <1>1. QueueInv => DrainComplete
    BY DEF QueueInv, DrainComplete, Running, Sentinels, Past, Places
  <1> QED
    BY <1>1, PyQueueInductive, PTL

-----------------------------------------------------------------------------
(* PyQueue implements Sink.                                                 *)

\* A queue and a batch within their sizes hold so many events together.
LEMMA Fits ==
  ASSUME NEW s \in Seq(Items), NEW b, b \subseteq Event,
         Len(s) <= MaxQueue, Cardinality(b) <= BatchSize
  PROVE  Cardinality(({s[i] : i \in DOMAIN s} \ {Sentinel}) \cup b) <= MaxQueue + BatchSize
  <1> DEFINE all == {s[i] : i \in DOMAIN s}
             some == all \ {Sentinel}
  <1>1. Len(s) \in Nat /\ DOMAIN s = 1..Len(s) /\ s \in [1..Len(s) -> Items]
    BY LenProperties
  <1>2. s \in Surjection(1..Len(s), all)
    BY <1>1 DEF Surjection
  <1>3. IsFiniteSet(1..Len(s)) /\ Cardinality(1..Len(s)) = Len(s)
    <2>1. 1 \in Int /\ Len(s) \in Int
      BY <1>1
    <2>2. IsFiniteSet(1..Len(s)) /\ Cardinality(1..Len(s)) = IF 1 > Len(s) THEN 0 ELSE Len(s)-1+1
      BY <2>1, FS_Interval
    <2> QED
      BY <1>1, <2>2
  <1> HIDE DEF all
  <1>4. IsFiniteSet(all) /\ Cardinality(all) <= Len(s)
    BY <1>2, <1>3, FS_Surjection
  <1>5. IsFiniteSet(some) /\ Cardinality(some) <= Cardinality(all)
    BY <1>4, FS_Subset
  <1> HIDE DEF some
  <1>6. IsFiniteSet(b) /\ Cardinality(b) \in Nat
    BY EventSets
  <1>7. /\ Cardinality(some \cup b) = Cardinality(some) + Cardinality(b) - Cardinality(some \cap b)
        /\ IsFiniteSet(some \cap b)
    BY <1>5, <1>6, FS_Union, FS_Intersection
  <1>8. /\ Cardinality(some) \in Nat /\ Cardinality(all) \in Nat /\ Cardinality(some \cap b) \in Nat
        /\ MaxQueue \in Nat /\ BatchSize \in Nat
    BY <1>4, <1>5, <1>7, FS_CardinalityType, PyQueueAssumption
  <1>9. Cardinality(some \cup b) <= MaxQueue + BatchSize
    BY <1>1, <1>4, <1>5, <1>6, <1>7, <1>8
  <1> QED
    BY <1>9 DEF some, all

\* The initial state of the queue is one of Sink.
LEMMA InitSink == Init => SinkView!Init
  BY DEF Init, SinkView!Init, Queued

\* Every step is a step of Sink or leaves its variables alone: a put of an event
\* accepts it, a 202 writes the batch, giving it up and making room lose, and the
\* rest stutters.
LEMMA StepSink ==
  ASSUME QueueInv, QueueInv', [Next]_vars
  PROVE  [SinkView!Next]_SinkView!vars
  <1> USE DEF SinkView!vars, SinkView!Next, threadVars, fateVars, offerVars, closeVars, flushVars
  <1>0. TypeOK /\ Places /\ Distinct /\ Running
    BY DEF QueueInv, Places
  <1>1. ASSUME NEW e \in Event, EnqueueOk(e)
        PROVE  SinkView!Accept
    <2>1. e \in Items /\ e \notin Queued /\ Put(e) /\ e # Sentinel /\ e \notin accepted
      BY <1>0, <1>1, PyQueueAssumption DEF EnqueueOk, Places, Items
    <2>2. Queued' = Queued \cup {e}
      BY <1>0, <2>1, PutQueued
    <2>3. {e} \in (SUBSET SinkView!Fresh) \ {{}}
      BY <1>0, <2>1 DEF SinkView!Fresh, Places, Settled
    <2>4. (Queued \cup batch)' = (Queued \cup batch) \cup {e}
      BY <1>1, <2>2 DEF EnqueueOk
    <2>5. UNCHANGED <<shipped, rejected \cup exhausted \cup evicted>>
      BY <1>1 DEF EnqueueOk
    <2>6. Cardinality((Queued \cup batch) \cup {e}) <= MaxQueue + BatchSize
      <3>1. q' \in Seq(Items) /\ batch' \subseteq Event /\ Len(q') <= MaxQueue /\ Cardinality(batch') <= BatchSize
        BY DEF QueueInv, TypeOK, Bounded, Items
      <3>2. Cardinality(Queued' \cup batch') <= MaxQueue + BatchSize
        BY <3>1, Fits DEF Queued
      <3> QED
        BY <2>4, <3>2
    <2>7. SinkView!Cardinality((Queued \cup batch) \cup {e}) = Cardinality((Queued \cup batch) \cup {e})
      BY DEF SinkView!Cardinality, Cardinality
    <2> QED
      BY <2>3, <2>4, <2>5, <2>6, <2>7 DEF SinkView!Accept
  <1>2. CASE \E c \in Closer : PutSentinel(c)
    <2>1. Sentinel \in Items /\ Sentinel \notin Queued /\ Put(Sentinel)
      BY <1>2 DEF PutSentinel, Items, Queued
    <2>2. Queued' = Queued
      BY <1>0, <2>1, PutQueued
    <2> QED
      BY <1>2, <2>2 DEF PutSentinel
  <1>3. CASE Gets
    <2>1. q # <<>> /\ q' = Tail(q)
      BY <1>3 DEF Gets, TakeEvent, TakeSentinel, DrainTake, DrainSentinel, MakeRoom
    <2>2. Queued' = Queued \ {Head(q)} /\ (Head(q) # Sentinel => Head(q) \in Queued)
      BY <1>0, <2>1, GetQueued
    <2>3. Head(q) = Sentinel => Queued' = Queued
      BY <2>2 DEF Queued
    <2>4. CASE TakeEvent \/ DrainTake
      <3>1. (Queued \cup batch)' = Queued \cup batch /\ UNCHANGED fateVars
        BY <2>2, <2>4 DEF TakeEvent, DrainTake
      <3> QED
        BY <3>1
    <2>5. CASE TakeSentinel \/ DrainSentinel
      BY <2>3, <2>5 DEF TakeSentinel, DrainSentinel
    <2>6. ASSUME NEW c \in Closer, MakeRoom(c)
          PROVE  [SinkView!Next]_SinkView!vars
      <3>1. CASE Head(q) = Sentinel
        BY <2>3, <2>6, <3>1 DEF MakeRoom
      <3>2. CASE Head(q) # Sentinel
        <4>1. Head(q) \in Queued /\ Head(q) \notin batch
          BY <1>0, <2>2, <3>2 DEF Places
        <4>2. {Head(q)} \in (SUBSET (Queued \cup batch)) \ {{}}
          BY <4>1
        <4>3. (Queued \cup batch)' = (Queued \cup batch) \ {Head(q)}
          BY <2>2, <2>6, <4>1 DEF MakeRoom
        <4>4. /\ (rejected \cup exhausted \cup evicted)' = (rejected \cup exhausted \cup evicted) \cup {Head(q)}
              /\ shipped' = shipped
          BY <2>6, <3>2 DEF MakeRoom
        <4> QED
          BY <4>2, <4>3, <4>4 DEF SinkView!Lose
      <3> QED
        BY <3>1, <3>2
    <2> QED
      BY <1>3, <2>4, <2>5, <2>6 DEF Gets
  <1>4. CASE Settles
    <2>1. batch \in (SUBSET (Queued \cup batch)) \ {{}}
      BY <1>0, <1>4 DEF Settles, Answer202, AnswerRejected, GiveUp, Running, Flushing
    <2>2. (Queued \cup batch)' = (Queued \cup batch) \ batch
      BY <1>0, <1>4 DEF Settles, Answer202, AnswerRejected, GiveUp, EndFlush, Queued, Places
    <2>3. CASE Answer202
      BY <2>1, <2>2, <2>3 DEF Answer202, SinkView!Write
    <2>4. CASE AnswerRejected
      BY <2>1, <2>2, <2>4 DEF AnswerRejected, SinkView!Lose
    <2>5. CASE GiveUp
      BY <2>1, <2>2, <2>5 DEF GiveUp, SinkView!Lose
    <2> QED
      BY <1>4, <2>3, <2>4, <2>5 DEF Settles
  <1>5. CASE Moves \/ Calls \/ UNCHANGED vars
    <2>1. UNCHANGED <<q, batch, fateVars>>
      BY <1>5 DEF Moves, Tick, SentinelDone, DrainEnd, Drained, Post, AnswerRetryable, RetryAgain, Calls,
                  EnqueueFull, Shutdown, SetStop, PutFull, NoRoomNeeded, CloseSender, Flush, FlushCall,
                  FlushTrue, FlushTimeout, vars
    <2> QED
      BY <2>1 DEF Queued
  <1> QED
    BY <1>1, <1>2, <1>3, <1>4, <1>5, NextSplits

\* The queue, its thread and its shutdowns implement the bounded sink.
THEOREM PyQueueImplementsSink == Spec => ImplementsSink
  <1>1. QueueInv /\ QueueInv' /\ [Next]_vars => [SinkView!Next]_SinkView!vars
    BY StepSink
  <1> QED
    BY <1>1, InitSink, PyQueueInductive, PTL DEF Spec, ImplementsSink, SinkView!Spec
=============================================================================
