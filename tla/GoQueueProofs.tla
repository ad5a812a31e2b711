--------------------------- MODULE GoQueueProofs ----------------------------
(***************************************************************************)
(* Proofs about GoQueue for every set of events, closers and waiters,       *)
(* every capacity of the channel, batch size and number of attempts.        *)
(*                                                                          *)
(* The invariants of the run are not inductive.  QueueInv adds where an     *)
(* event may be (Places), what run holds at each point (Running), how       *)
(* often the server may have taken it by then (Deliveries), that the drain  *)
(* began after stop and leaves only late events (Draining), and what a      *)
(* flush waits for (Promises).                                              *)
(***************************************************************************)
EXTENDS GoQueue, FiniteSetTheorems, TLAPS

Flushing == pc \in {"flush", "ship", "backoff"}

\* An event taken is in one place until it settles, and settles one way.
Places ==
  /\ accepted = chan \cup batch \cup Settled
  /\ chan \cap batch = {}
  /\ (chan \cup batch) \cap Settled = {}
  /\ accepted \cap overflow = {}

\* run flushes batches that are not empty, and none is left when it is done.
Running ==
  /\ Flushing => batch # {}
  /\ pc = "done" => batch = {}
  /\ pc \in {"ship", "backoff"} => attempt \in 1..Retries

\* What the server took: nothing of what was not posted, and of the batch at most
\* as much as attempts have ended.
Deliveries ==
  /\ \A e \in Event \ (batch \cup Settled) : arrived[e] = 0
  /\ \A e \in batch :
       /\ pc \notin {"ship", "backoff"} => arrived[e] = 0
       /\ pc = "ship" => arrived[e] < attempt
       /\ pc = "backoff" => arrived[e] <= attempt
  /\ \A e \in shipped : arrived[e] >= 1
  /\ \A e \in Event : arrived[e] <= Retries

\* run drains, or returns to its drain or to its end, only after stop was closed;
\* what comes into the channel once the drain found it empty is late.
Draining ==
  /\ pc \in {"drain", "done"} \/ (Flushing /\ back \in {"drain", "done"}) => stop
  /\ pc = "done" \/ (Flushing /\ back = "done") => chan \subseteq late
  /\ \A c \in Closer : closer[c] = "closed" => pc = "done"

\* A flush waits for events the queue took; after true none is in the channel.
Promises ==
  \A w \in Waiter :
    /\ promised[w] \subseteq accepted
    /\ waiter[w] = "true" => promised[w] \subseteq Settled \cup batch

\* The channel and the batch are bounded; run flushes before a batch overflows.
Bounded ==
  /\ Cardinality(chan) <= ChanCap
  /\ Cardinality(batch) <= BatchSize
  /\ ~Flushing => Cardinality(batch) < BatchSize

QueueInv ==
  /\ TypeOK
  /\ Places
  /\ Running
  /\ Deliveries
  /\ Draining
  /\ Promises
  /\ Bounded

-----------------------------------------------------------------------------
\* Sets of events are finite, so that their cardinalities are numbers.
LEMMA EventSets ==
  ASSUME NEW S, S \subseteq Event
  PROVE  IsFiniteSet(S) /\ Cardinality(S) \in Nat
  BY GoQueueAssumption, FS_Subset, FS_CardinalityType

\* One more event, and one less.
LEMMA OneMore ==
  ASSUME NEW S, S \subseteq Event, NEW e \in Event
  PROVE  /\ Cardinality(S \cup {e}) \in Nat
         /\ Cardinality(S \cup {e}) <= Cardinality(S) + 1
         /\ Cardinality(S \ {e}) <= Cardinality(S)
  <1>1. IsFiniteSet(S) /\ Cardinality(S) \in Nat
    BY EventSets
  <1>2. Cardinality(S \cup {e}) = IF e \in S THEN Cardinality(S) ELSE Cardinality(S) + 1
    BY <1>1, FS_AddElement
  <1>3. Cardinality(S \ {e}) = IF e \in S THEN Cardinality(S) - 1 ELSE Cardinality(S)
    BY <1>1, FS_RemoveElement
  <1> QED
    BY <1>1, <1>2, <1>3

\* The initial state satisfies the inductive invariant.
LEMMA InitQueueInv == Init => QueueInv
  <1> SUFFICES ASSUME Init PROVE QueueInv
    OBVIOUS
  <1> USE GoQueueAssumption DEF Init
  <1>1. TypeOK
    <2>1. /\ closer \in [Closer -> {"open", "waiting", "closed"}]
          /\ waiter \in [Waiter -> {"idle", "read", "len", "true"}]
          /\ promised \in [Waiter -> SUBSET Event]
      OBVIOUS
    <2>2. sawFlight \in [Waiter -> Nat] /\ arrived \in [Event -> Nat] /\ attempt \in 0..Retries
      OBVIOUS
    <2> QED
      BY <2>1, <2>2 DEF TypeOK
  <1>2. Places /\ Running /\ Deliveries /\ Draining /\ Promises
    BY DEF Places, Running, Deliveries, Draining, Promises, Settled, Flushing
  <1>3. Bounded
    BY FS_EmptySet DEF Bounded
  <1> QED
    BY <1>1, <1>2, <1>3 DEF QueueInv

-----------------------------------------------------------------------------
(* Each part of the invariant is kept by every step.                        *)

\* The types under every step.
LEMMA StepTypeOK ==
  ASSUME TypeOK, Running, Next
  PROVE  TypeOK'
  <1> USE DEF TypeOK, runVars, callerVars, fateVars, offerVars
  <1>1. ASSUME NEW e \in Event, EnqueueOk(e) \/ EnqueueFull(e) PROVE TypeOK'
    BY <1>1 DEF EnqueueOk, EnqueueFull
  <1>2. ASSUME NEW e \in Event, Take(e) \/ DrainTake(e) PROVE TypeOK'
    BY <1>2 DEF Take, DrainTake, Batched
  <1>3. CASE Tick \/ Stopped \/ DrainEnd
    BY <1>3 DEF Tick, Stopped, DrainEnd
  <1>4. CASE BeginFlush
    BY <1>4, EventSets, GoQueueAssumption DEF BeginFlush
  <1>5. CASE Accepted202 \/ Rejected \/ Retryable
    BY <1>5 DEF Accepted202, Rejected, Retryable, EndFlush, ServerTakes
  <1>6. CASE RetryAgain
    BY <1>6, GoQueueAssumption DEF RetryAgain
  <1>7. CASE GiveUp
    BY <1>7, EventSets DEF GiveUp, EndFlush
  <1>8. ASSUME NEW c \in Closer, Close(c) \/ CloseReturn(c) PROVE TypeOK'
    BY <1>8 DEF Close, CloseReturn
  <1>9. ASSUME NEW w \in Waiter, FlushWait(w) PROVE TypeOK'
    BY <1>9 DEF FlushWait, FlushCall, FlushRead, FlushTrue, FlushFalse
  <1> QED
    BY <1>1, <1>2, <1>3, <1>4, <1>5, <1>6, <1>7, <1>8, <1>9 DEF Next, Run

\* Events move from the channel to the batch and from the batch to their fate.
LEMMA StepPlaces ==
  ASSUME TypeOK, Places, Next
  PROVE  Places'
  <1> USE DEF TypeOK, Places, Settled, runVars, callerVars, fateVars, offerVars
  <1>1. ASSUME NEW e \in Event, EnqueueOk(e) \/ EnqueueFull(e) PROVE Places'
    BY <1>1 DEF EnqueueOk, EnqueueFull
  <1>2. ASSUME NEW e \in Event, Take(e) \/ DrainTake(e) PROVE Places'
    BY <1>2 DEF Take, DrainTake, Batched
  <1>3. CASE Accepted202 \/ Rejected \/ GiveUp
    BY <1>3 DEF Accepted202, Rejected, GiveUp, EndFlush
  <1>4. CASE UNCHANGED <<chan, batch, shipped, rejected, exhausted, accepted, overflow>>
    BY <1>4
  <1> QED
    BY <1>1, <1>2, <1>3, <1>4
    DEF Next, Run, Tick, Stopped, DrainEnd, BeginFlush, Retryable, RetryAgain, Close, CloseReturn,
        FlushWait, FlushCall, FlushRead, FlushTrue, FlushFalse

\* A flush begins on a batch and ends with none.
LEMMA StepRunning ==
  ASSUME TypeOK, Running, Next
  PROVE  Running'
  <1> USE DEF TypeOK, Running, Flushing, runVars, callerVars, fateVars, offerVars
  <1>1. ASSUME NEW e \in Event, Take(e) \/ DrainTake(e) PROVE Running'
    BY <1>1 DEF Take, DrainTake, Batched
  <1>2. CASE Tick \/ Stopped \/ DrainEnd
    BY <1>2 DEF Tick, Stopped, DrainEnd
  <1>3. CASE BeginFlush \/ RetryAgain
    BY <1>3, GoQueueAssumption DEF BeginFlush, RetryAgain
  <1>4. CASE Accepted202 \/ Rejected \/ GiveUp
    BY <1>4 DEF Accepted202, Rejected, GiveUp, EndFlush
  <1>5. CASE Retryable
    BY <1>5 DEF Retryable
  <1>6. CASE UNCHANGED <<pc, batch, attempt>>
    BY <1>6
  <1> QED
    BY <1>1, <1>2, <1>3, <1>4, <1>5, <1>6
    DEF Next, Run, EnqueueOk, EnqueueFull, Close, CloseReturn,
        FlushWait, FlushCall, FlushRead, FlushTrue, FlushFalse

\* Each attempt delivers a batch at most once.
LEMMA StepDeliveries ==
  ASSUME TypeOK, Places, Running, Deliveries, Next
  PROVE  Deliveries'
  <1> USE GoQueueAssumption
      DEF TypeOK, Places, Running, Deliveries, Settled, Flushing, runVars, callerVars, fateVars, offerVars
  <1>1. ASSUME NEW e \in Event, Take(e) \/ DrainTake(e) PROVE Deliveries'
    BY <1>1 DEF Take, DrainTake, Batched
  <1>2. CASE Tick \/ Stopped \/ DrainEnd
    BY <1>2 DEF Tick, Stopped, DrainEnd
  <1>3. CASE BeginFlush
    BY <1>3 DEF BeginFlush
  <1>4. CASE Accepted202
    BY <1>4 DEF Accepted202, EndFlush, ServerTakes
  <1>5. CASE Rejected \/ GiveUp
    BY <1>5 DEF Rejected, GiveUp, EndFlush
  <1>6. CASE Retryable
    BY <1>6 DEF Retryable, ServerTakes
  <1>7. CASE RetryAgain
    BY <1>7 DEF RetryAgain
  <1>8. CASE UNCHANGED <<pc, batch, attempt, arrived, shipped, rejected, exhausted>>
    BY <1>8
  <1> QED
    BY <1>1, <1>2, <1>3, <1>4, <1>5, <1>6, <1>7, <1>8
    DEF Next, Run, EnqueueOk, EnqueueFull, Close, CloseReturn,
        FlushWait, FlushCall, FlushRead, FlushTrue, FlushFalse

\* The drain begins after stop and ends on an empty channel.
LEMMA StepDraining ==
  ASSUME TypeOK, Draining, Next
  PROVE  Draining'
  <1> USE DEF TypeOK, Draining, Flushing, runVars, callerVars, fateVars, offerVars
  <1>1. ASSUME NEW e \in Event, EnqueueOk(e) \/ EnqueueFull(e) PROVE Draining'
    BY <1>1 DEF EnqueueOk, EnqueueFull
  <1>2. ASSUME NEW e \in Event, Take(e) \/ DrainTake(e) PROVE Draining'
    BY <1>2 DEF Take, DrainTake, Batched
  <1>3. CASE Tick \/ Stopped \/ DrainEnd
    BY <1>3 DEF Tick, Stopped, DrainEnd
  <1>4. CASE BeginFlush \/ Retryable \/ RetryAgain
    BY <1>4 DEF BeginFlush, Retryable, RetryAgain
  <1>5. CASE Accepted202 \/ Rejected \/ GiveUp
    BY <1>5 DEF Accepted202, Rejected, GiveUp, EndFlush
  <1>6. ASSUME NEW c \in Closer, Close(c) \/ CloseReturn(c) PROVE Draining'
    BY <1>6 DEF Close, CloseReturn
  <1>7. ASSUME NEW w \in Waiter, FlushWait(w) PROVE Draining'
    BY <1>7 DEF FlushWait, FlushCall, FlushRead, FlushTrue, FlushFalse
  <1> QED
    BY <1>1, <1>2, <1>3, <1>4, <1>5, <1>6, <1>7 DEF Next, Run

\* What a flush waits for stays taken, and what it saw leave the channel stays out.
LEMMA StepPromises ==
  ASSUME TypeOK, Places, Promises, Next
  PROVE  Promises'
  <1> USE DEF TypeOK, Places, Promises, Settled, runVars, callerVars, fateVars, offerVars
  <1>1. ASSUME NEW w \in Waiter, FlushCall(w) PROVE Promises'
    BY <1>1 DEF FlushCall
  <1>2. ASSUME NEW w \in Waiter, FlushTrue(w) PROVE Promises'
    BY <1>2 DEF FlushTrue
  <1>3. ASSUME NEW w \in Waiter, FlushRead(w) \/ FlushFalse(w) PROVE Promises'
    BY <1>3 DEF FlushRead, FlushFalse
  <1>4. CASE /\ UNCHANGED <<waiter, promised>>
             /\ accepted \subseteq accepted' /\ Settled \cup batch \subseteq (Settled \cup batch)'
    BY <1>4
  <1> QED
    BY <1>1, <1>2, <1>3, <1>4
    DEF Next, Run, EnqueueOk, EnqueueFull, Take, DrainTake, Batched, Tick, Stopped, DrainEnd, BeginFlush,
        Accepted202, Rejected, Retryable, RetryAgain, GiveUp, EndFlush, Close, CloseReturn, FlushWait

\* enqueue looks at the channel's room, and run at the size of its batch.
LEMMA StepBounded ==
  ASSUME TypeOK, Bounded, Next
  PROVE  Bounded'
  <1>0. /\ Cardinality(chan) \in Nat /\ Cardinality(batch) \in Nat /\ Cardinality({}) = 0
        /\ ChanCap \in Nat /\ BatchSize \in Nat /\ BatchSize > 0
    BY EventSets, FS_EmptySet, GoQueueAssumption DEF TypeOK
  <1>1. ASSUME NEW e \in Event, EnqueueOk(e)
        PROVE  Bounded'
    <2>1. Cardinality(chan \cup {e}) \in Nat /\ Cardinality(chan \cup {e}) <= Cardinality(chan) + 1
      BY OneMore DEF TypeOK
    <2>2. Cardinality(chan) < ChanCap /\ chan' = chan \cup {e} /\ batch' = batch /\ pc' = pc
      BY <1>1 DEF EnqueueOk, runVars
    <2>3. Cardinality(chan \cup {e}) <= ChanCap
      BY <1>0, <2>1, <2>2
    <2> QED
      BY <2>2, <2>3 DEF Bounded, Flushing
  <1>2. ASSUME NEW e \in Event, Take(e) \/ DrainTake(e)
        PROVE  Bounded'
    <2>1. /\ Cardinality(chan \ {e}) <= Cardinality(chan) /\ Cardinality(chan \ {e}) \in Nat
          /\ Cardinality(batch \cup {e}) <= Cardinality(batch) + 1
          /\ Cardinality(batch \cup {e}) \in Nat
      BY OneMore, EventSets DEF TypeOK
    <2>2. /\ chan' = chan \ {e} /\ batch' = batch \cup {e} /\ ~Flushing
          /\ Flushing' \/ ~(Cardinality(batch \cup {e}) >= BatchSize)
      BY <1>2 DEF Take, DrainTake, Batched, Flushing
    <2>3. Cardinality(chan) <= ChanCap /\ Cardinality(batch) < BatchSize
      BY <2>2 DEF Bounded
    <2>4. Cardinality(chan \ {e}) <= ChanCap /\ Cardinality(batch \cup {e}) <= BatchSize
      BY <1>0, <2>1, <2>3
    <2>5. Flushing' \/ Cardinality(batch \cup {e}) < BatchSize
      BY <1>0, <2>1, <2>2
    <2> QED
      BY <2>2, <2>4, <2>5 DEF Bounded
  <1>3. CASE Tick \/ Stopped \/ DrainEnd \/ BeginFlush \/ Retryable \/ RetryAgain
    <2>1. chan' = chan /\ batch' = batch /\ (~Flushing' => ~Flushing)
      BY <1>3 DEF Tick, Stopped, DrainEnd, BeginFlush, Retryable, RetryAgain, Flushing
    <2> QED
      BY <2>1 DEF Bounded
  <1>4. CASE Accepted202 \/ Rejected \/ GiveUp
    <2>1. chan' = chan /\ batch' = {}
      BY <1>4 DEF Accepted202, Rejected, GiveUp, EndFlush
    <2> QED
      BY <1>0, <2>1 DEF Bounded
  <1>5. CASE UNCHANGED <<chan, batch, pc>>
    BY <1>5 DEF Bounded, Flushing
  <1> QED
    BY <1>1, <1>2, <1>3, <1>4, <1>5
    DEF Next, Run, EnqueueFull, Close, CloseReturn, FlushWait, FlushCall, FlushRead, FlushTrue,
        FlushFalse, runVars

\* Every step keeps the inductive invariant.
LEMMA StepQueueInv == QueueInv /\ [Next]_vars => QueueInv'
  <1>1. ASSUME QueueInv, Next
        PROVE  QueueInv'
    BY <1>1, StepTypeOK, StepPlaces, StepRunning, StepDeliveries, StepDraining, StepPromises, StepBounded
    DEF QueueInv
  <1>2. ASSUME QueueInv, UNCHANGED vars
        PROVE  QueueInv'
    BY <1>2
    DEF QueueInv, TypeOK, Places, Running, Deliveries, Draining, Promises, Bounded, Flushing, Settled,
        vars, runVars, callerVars, fateVars, offerVars
  <1> QED
    BY <1>1, <1>2

-----------------------------------------------------------------------------
(* Theorems.                                                                *)

\* The inductive invariant holds in every reachable state of the Go queue.
THEOREM GoQueueInductive == Spec => []QueueInv
  BY InitQueueInv, StepQueueInv, PTL DEF Spec

\* Type correctness; among others ship never exceeds its attempts.
THEOREM GoQueueTypeCorrect == Spec => []TypeOK
  <1>1. QueueInv => TypeOK
    BY DEF QueueInv
  <1> QED
    BY <1>1, GoQueueInductive, PTL

\* What the queue says of an event agrees with what the server took.
THEOREM GoQueueServerAgrees == Spec => []ServerAgrees
  <1>1. QueueInv => ServerAgrees
    BY DEF QueueInv, ServerAgrees, Deliveries, Places, TypeOK
  <1> QED
    BY <1>1, GoQueueInductive, PTL

\* When any caller's Close returned, all that was recorded before stop is settled.
THEOREM GoQueueCloseDrains == Spec => []CloseDrains
  <1>1. QueueInv => CloseDrains
    BY DEF QueueInv, CloseDrains, Draining, Places, Running
  <1> QED
    BY <1>1, GoQueueInductive, PTL

\* After a Flush that returned true only the batch of run may be unsettled.
THEOREM GoQueueFlushLeavesOneBatch == Spec => []FlushLeavesOneBatch
  <1>1. QueueInv => FlushLeavesOneBatch
    BY DEF QueueInv, FlushLeavesOneBatch, Promises
  <1> QED
    BY <1>1, GoQueueInductive, PTL

-----------------------------------------------------------------------------
(* GoQueue implements Sink.                                                 *)

\* At the start nothing is accepted: Sink's initial state.
LEMMA InitSink == Init => SinkView!Init
  BY DEF Init, SinkView!Init

\* enqueue accepts one event, a batch answered 202 is written and one refused or
\* given up is lost; what else run, close and flush do is not seen.
LEMMA StepSink ==
  ASSUME QueueInv, [Next]_vars
  PROVE  [SinkView!Next]_SinkView!vars
  <1> USE DEF SinkView!vars, SinkView!Next, runVars, callerVars, fateVars, offerVars
  <1> DEFINE pend == chan \cup batch
             gone == rejected \cup exhausted
  <1>0. TypeOK /\ Places /\ Running /\ Bounded
    BY DEF QueueInv
  <1>1. ASSUME NEW e \in Event, EnqueueOk(e)
        PROVE  SinkView!Accept
    <2>1. {e} \in (SUBSET SinkView!Fresh) \ {{}}
      BY <1>0, <1>1 DEF EnqueueOk, SinkView!Fresh, Places, Settled
    <2>2. pend' = pend \cup {e} /\ UNCHANGED <<shipped, gone>>
      BY <1>1 DEF EnqueueOk
    <2>3. Cardinality(pend \cup {e}) <= ChanCap + BatchSize
      <3> DEFINE more == chan \cup {e}
      <3>1. more \subseteq Event /\ batch \subseteq Event
        BY <1>0 DEF TypeOK
      <3>2. Cardinality(more) <= ChanCap
        <4>1. /\ Cardinality(more) \in Nat /\ Cardinality(more) <= Cardinality(chan) + 1
              /\ Cardinality(chan) \in Nat
          BY <1>0, OneMore, EventSets DEF TypeOK
        <4> QED
          BY <1>1, <4>1, GoQueueAssumption DEF EnqueueOk
      <3>3. /\ Cardinality(more \cup batch)
                 = Cardinality(more) + Cardinality(batch) - Cardinality(more \cap batch)
            /\ Cardinality(more) \in Nat /\ Cardinality(batch) \in Nat
            /\ Cardinality(more \cap batch) \in Nat
        BY <3>1, EventSets, FS_Union
      <3>4. more \cup batch = pend \cup {e}
        OBVIOUS
      <3> QED
        <4>1. Cardinality(batch) <= BatchSize /\ ChanCap \in Nat /\ BatchSize \in Nat
          BY <1>0, GoQueueAssumption DEF Bounded
        <4>2. Cardinality(more \cup batch) <= ChanCap + BatchSize
          BY <3>2, <3>3, <4>1
        <4> QED
          BY <3>4, <4>2
    <2>4. SinkView!Cardinality(pend \cup {e}) = Cardinality(pend \cup {e})
      BY DEF SinkView!Cardinality, Cardinality
    <2> QED
      BY <2>1, <2>2, <2>3, <2>4 DEF SinkView!Accept
  <1>2. CASE Accepted202
    <2>1. batch \in (SUBSET pend) \ {{}} /\ pend' = pend \ batch
      BY <1>0, <1>2 DEF Accepted202, EndFlush, Places, Running, Flushing
    <2>2. shipped' = shipped \cup batch /\ UNCHANGED gone
      BY <1>2 DEF Accepted202
    <2> QED
      BY <2>1, <2>2 DEF SinkView!Write
  <1>3. CASE Rejected \/ GiveUp
    <2>1. batch \in (SUBSET pend) \ {{}} /\ pend' = pend \ batch
      BY <1>0, <1>3 DEF Rejected, GiveUp, EndFlush, Places, Running, Flushing
    <2>2. gone' = gone \cup batch /\ UNCHANGED shipped
      BY <1>3 DEF Rejected, GiveUp
    <2> QED
      BY <2>1, <2>2 DEF SinkView!Lose
  <1>4. ASSUME NEW e \in Event, Take(e) \/ DrainTake(e)
        PROVE  UNCHANGED <<pend, shipped, gone>>
    BY <1>4 DEF Take, DrainTake, Batched
  <1>5. CASE UNCHANGED <<chan, batch, shipped, rejected, exhausted>>
    BY <1>5
  <1> QED
    BY <1>1, <1>2, <1>3, <1>4, <1>5
    DEF Next, Run, EnqueueFull, Tick, Stopped, DrainEnd, BeginFlush, Retryable, RetryAgain, Close,
        CloseReturn, FlushWait, FlushCall, FlushRead, FlushTrue, FlushFalse, vars

\* The channel and its goroutine implement the bounded sink.
THEOREM GoQueueImplementsSink == Spec => ImplementsSink
  BY InitSink, StepSink, GoQueueInductive, PTL DEF Spec, ImplementsSink, SinkView!Spec
=============================================================================
