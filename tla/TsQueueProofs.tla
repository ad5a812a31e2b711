--------------------------- MODULE TsQueueProofs ----------------------------
(***************************************************************************)
(* Proofs about TsQueue for every set of events, closers and waiters, every *)
(* size of the buffer and of a batch, and every number of attempts.         *)
(*                                                                          *)
(* QueueInv adds to the invariants of the run that one tick at most is under*)
(* way, and that flushing, inFlight and the batch say so together           *)
(* (OneTick), and that a flush waits only for what was taken (Promises).    *)
(***************************************************************************)
EXTENDS TsQueue, SequenceTheorems, TLAPS

\* tick is under way exactly when flushing says so; it then holds a batch.
OneTick ==
  /\ flushing <=> pc # "idle"
  /\ flushing <=> batch # <<>>
  /\ flushing <=> inFlight = 1
  /\ flushing => attempt >= 1

\* What the queue took, oldest first.
Ordered == order = finished \o batch \o buffer

\* The buffer is bounded.
Bounded == Len(buffer) <= MaxQueue

\* A flush waits for events the queue took; after true they are settled.
Promises ==
  \A w \in Waiter :
    /\ promised[w] \subseteq ToSet(order)
    /\ waiter[w] = "true" => promised[w] \subseteq ToSet(finished)

QueueInv ==
  /\ TypeOK
  /\ OneTick
  /\ Ordered
  /\ Bounded
  /\ Promises

-----------------------------------------------------------------------------
(* Sequences of events.                                                     *)

\* Concatenation and Append of sequences of events, and what they hold.
LEMMA Concats ==
  ASSUME NEW s \in Seq(Event), NEW t \in Seq(Event)
  PROVE  /\ s \o t \in Seq(Event)
         /\ Len(s \o t) = Len(s) + Len(t)
         /\ ToSet(s) \subseteq ToSet(s \o t)
  <1>1. /\ s \o t \in Seq(Event)
        /\ Len(s \o t) = Len(s) + Len(t)
        /\ \A i \in 1 .. Len(s) + Len(t) : (s \o t)[i] = IF i <= Len(s) THEN s[i] ELSE t[i - Len(s)]
    BY ConcatProperties
  <1>2. Len(s) \in Nat /\ Len(t) \in Nat /\ DOMAIN s = 1..Len(s) /\ DOMAIN (s \o t) = 1..Len(s \o t)
    BY <1>1, LenProperties
  <1>3. ASSUME NEW i \in DOMAIN s PROVE s[i] \in ToSet(s \o t)
    BY <1>1, <1>2 DEF ToSet
  <1> QED
    BY <1>1, <1>3 DEF ToSet

\* Concatenation is associative.
LEMMA Regroup ==
  \A s, t, u \in Seq(Event) : (s \o t) \o u = s \o (t \o u)
  BY ConcatAssociative

\* An event at the end of a sequence.
LEMMA Appended ==
  ASSUME NEW s \in Seq(Event), NEW e \in Event
  PROVE  /\ <<e>> \in Seq(Event)
         /\ Append(s, e) \in Seq(Event)
         /\ Append(s, e) = s \o <<e>>
         /\ Append(s, e) # <<>>
         /\ Len(Append(s, e)) = Len(s) + 1
  BY AppendProperties, AppendIsConcat

\* A sequence cut in two at n is its two parts.
LEMMA CutInTwo ==
  ASSUME NEW s \in Seq(Event), s # <<>>, NEW n \in 1..Len(s)
  PROVE  /\ SubSeq(s, 1, n) \in Seq(Event) /\ SubSeq(s, 1, n) # <<>>
         /\ SubSeq(s, n + 1, Len(s)) \in Seq(Event)
         /\ Len(SubSeq(s, n + 1, Len(s))) <= Len(s)
         /\ s = SubSeq(s, 1, n) \o SubSeq(s, n + 1, Len(s))
  <1>1. Len(s) \in Nat /\ \A i \in 1..Len(s) : s[i] \in Event
    BY LenProperties
  <1>2. SubSeq(s, 1, n) \in Seq(Event) /\ Len(SubSeq(s, 1, n)) = n
    BY <1>1, SubSeqProperties
  <1>3. SubSeq(s, n + 1, Len(s)) \in Seq(Event) /\ Len(SubSeq(s, n + 1, Len(s))) <= Len(s)
    BY <1>1, SubSeqProperties
  <1>4. SubSeq(s, 1, n) \o SubSeq(s, n + 1, Len(s)) = SubSeq(s, 1, Len(s))
    <2>1. 1 \in 1..Len(s)+1 /\ n \in 1-1..Len(s) /\ Len(s) \in n..Len(s)
      BY <1>1
    <2> QED
      BY <2>1, ConcatAdjacentSubSeq
  <1>5. SubSeq(s, 1, Len(s)) = s
    BY SubSeqFull
  <1>6. SubSeq(s, 1, n) # <<>>
    BY <1>2, EmptySeq
  <1> QED
    BY <1>2, <1>3, <1>4, <1>5, <1>6

-----------------------------------------------------------------------------
(* The loop of tick and its entry.                                          *)

\* The loop takes its batch off the head of the buffer.
LEMMA LoopTakes ==
  ASSUME NEW b \in Seq(Event), attempt \in 0..MaxRetries, Loop(b)
  PROVE  /\ batch' \in Seq(Event) /\ buffer' \in Seq(Event)
         /\ b = batch' \o buffer'
         /\ Len(buffer') <= Len(b)
         /\ pc' \in {"idle", "send"} /\ flushing' \in BOOLEAN /\ inFlight' \in {0, 1}
         /\ attempt' \in 0..MaxRetries
         /\ OneTick'
  <1>1. CASE b = <<>>
    <2>1. /\ batch' = <<>> /\ buffer' = <<>> /\ attempt' = attempt
          /\ pc' = "idle" /\ flushing' = FALSE /\ inFlight' = 0
      BY <1>1 DEF Loop
    <2>2. <<>> \in Seq(Event) /\ <<>> \o <<>> = <<>>
      BY ConcatEmptySeq, EmptySeq
    <2>3. b = batch' \o buffer' /\ buffer' = b
      BY <1>1, <2>1, <2>2
    <2>4. Len(buffer') <= Len(b)
      BY <2>3, LenProperties
    <2>5. OneTick'
      BY <2>1 DEF OneTick
    <2> QED
      BY <2>1, <2>2, <2>3, <2>4, <2>5
  <1>2. CASE b # <<>>
    <2> DEFINE n == IF Len(b) < BatchSize THEN Len(b) ELSE BatchSize
    <2>1. n \in 1..Len(b)
      BY <1>2, EmptySeq, TsQueueAssumption
    <2>2. /\ batch' = SubSeq(b, 1, n) /\ buffer' = SubSeq(b, n + 1, Len(b))
          /\ pc' = "send" /\ flushing' = TRUE /\ inFlight' = 1 /\ attempt' = 1
      BY <1>2 DEF Loop
    <2> HIDE DEF n
    <2>3. /\ batch' \in Seq(Event) /\ batch' # <<>> /\ buffer' \in Seq(Event)
          /\ b = batch' \o buffer' /\ Len(buffer') <= Len(b)
      BY <1>2, <2>1, <2>2, CutInTwo
    <2>4. attempt' \in 0..MaxRetries
      BY <2>2, TsQueueAssumption
    <2>5. OneTick'
      <3>1. 1 >= 1
        OBVIOUS
      <3> QED
        BY <2>2, <2>3, <3>1 DEF OneTick
    <2> QED
      BY <2>2, <2>3, <2>4, <2>5
  <1> QED
    BY <1>1, <1>2

\* tick leaves the events in their order, whether it starts or another one runs.
LEMMA TickKeeps ==
  ASSUME TypeOK, OneTick, NEW b \in Seq(Event), TickOn(b)
  PROVE  /\ batch' \in Seq(Event) /\ buffer' \in Seq(Event)
         /\ batch \o b = batch' \o buffer'
         /\ Len(buffer') <= Len(b)
         /\ pc' \in {"idle", "send", "backoff"} /\ flushing' \in BOOLEAN /\ inFlight' \in {0, 1}
         /\ attempt' \in 0..MaxRetries
         /\ OneTick'
  <1>1. CASE flushing
    <2>1. buffer' = b /\ UNCHANGED <<batch, pc, flushing, inFlight, attempt>>
      BY <1>1 DEF TickOn
    <2> QED
      BY <2>1, LenProperties DEF TypeOK, OneTick
  <1>2. CASE ~flushing
    <2>1. Loop(b) /\ batch = <<>> /\ attempt \in 0..MaxRetries
      BY <1>2 DEF TickOn, OneTick, TypeOK
    <2>2. batch \o b = b
      BY <2>1, ConcatEmptySeq
    <2> QED
      BY <2>1, <2>2, LoopTakes
  <1> QED
    BY <1>1, <1>2

\* The end of a batch is followed by the next one, with nothing in between.
LEMMA EndShipKeeps ==
  ASSUME TypeOK, Ordered, EndShip, order' = order
  PROVE  /\ finished' \in Seq(Event) /\ ToSet(finished) \subseteq ToSet(finished')
         /\ batch' \in Seq(Event) /\ buffer' \in Seq(Event)
         /\ Len(buffer') <= Len(buffer)
         /\ pc' \in {"idle", "send"} /\ flushing' \in BOOLEAN /\ inFlight' \in {0, 1}
         /\ attempt' \in 0..MaxRetries
         /\ OneTick'
         /\ Ordered'
  <1>1. finished' = finished \o batch /\ Loop(buffer)
    BY DEF EndShip
  <1>2. finished \in Seq(Event) /\ batch \in Seq(Event) /\ buffer \in Seq(Event) /\ attempt \in 0..MaxRetries
    BY DEF TypeOK
  <1>3. finished' \in Seq(Event) /\ ToSet(finished) \subseteq ToSet(finished')
    BY <1>1, <1>2, Concats
  <1>4. /\ batch' \in Seq(Event) /\ buffer' \in Seq(Event)
        /\ buffer = batch' \o buffer'
        /\ Len(buffer') <= Len(buffer)
        /\ pc' \in {"idle", "send"} /\ flushing' \in BOOLEAN /\ inFlight' \in {0, 1}
        /\ attempt' \in 0..MaxRetries
        /\ OneTick'
    BY <1>1, <1>2, LoopTakes
  <1>5. finished' \o (batch' \o buffer') = finished' \o batch' \o buffer'
    BY <1>3, <1>4, Regroup, Zenon
  <1>6. Ordered'
    BY <1>1, <1>4, <1>5 DEF Ordered
  <1> QED
    BY <1>3, <1>4, <1>6

-----------------------------------------------------------------------------
(* The steps.                                                               *)

\* The initial state satisfies the inductive invariant.
LEMMA InitQueueInv == Init => QueueInv
  <1> SUFFICES ASSUME Init PROVE QueueInv
    OBVIOUS
  <1>1. TypeOK
    <2>1. /\ closer \in [Closer -> {"out", "flush", "drained", "returned"}]
          /\ waiter \in [Waiter -> {"idle", "poll", "true"}]
          /\ promised \in [Waiter -> SUBSET Event]
      BY DEF Init
    <2>2. /\ buffer \in Seq(Event) /\ batch \in Seq(Event)
          /\ order \in Seq(Event) /\ finished \in Seq(Event)
          /\ attempt \in 0..MaxRetries /\ dropped \in Nat
      BY EmptySeq, TsQueueAssumption DEF Init
    <2> QED
      BY <2>1, <2>2 DEF TypeOK, Init
  <1>2. OneTick
    BY DEF Init, OneTick
  <1>3. Ordered
    <2>1. <<>> \o <<>> = <<>>
      BY EmptySeq, ConcatEmptySeq
    <2> QED
      BY <2>1 DEF Init, Ordered
  <1>4. Bounded
    BY EmptySeq, TsQueueAssumption DEF Init, Bounded
  <1>5. Promises
    BY DEF Init, Promises
  <1> QED
    BY <1>1, <1>2, <1>3, <1>4, <1>5 DEF QueueInv

\* A step that enters tick on the buffer as it is, and settles nothing.
LEMMA TickStep ==
  ASSUME QueueInv, TickOn(buffer), UNCHANGED <<order, finished>>
  PROVE  /\ batch' \in Seq(Event) /\ buffer' \in Seq(Event)
         /\ pc' \in {"idle", "send", "backoff"} /\ flushing' \in BOOLEAN /\ inFlight' \in {0, 1}
         /\ attempt' \in 0..MaxRetries
         /\ OneTick' /\ Ordered' /\ Bounded'
  <1>1. /\ finished \in Seq(Event) /\ batch \in Seq(Event) /\ buffer \in Seq(Event)
        /\ TypeOK /\ OneTick /\ Ordered /\ Bounded
    BY DEF QueueInv, TypeOK
  <1>2. /\ batch' \in Seq(Event) /\ buffer' \in Seq(Event)
        /\ batch \o buffer = batch' \o buffer'
        /\ Len(buffer') <= Len(buffer)
        /\ pc' \in {"idle", "send", "backoff"} /\ flushing' \in BOOLEAN /\ inFlight' \in {0, 1}
        /\ attempt' \in 0..MaxRetries
        /\ OneTick'
    BY <1>1, TickKeeps
  <1>3. Ordered'
    <2>0. /\ finished \in Seq(Event) /\ batch \in Seq(Event) /\ buffer \in Seq(Event)
          /\ batch' \in Seq(Event) /\ buffer' \in Seq(Event)
      BY <1>1, <1>2
    <2>1. finished \o batch \o buffer = finished \o (batch \o buffer)
      BY <2>0, Regroup, Zenon
    <2>2. finished \o (batch' \o buffer') = finished \o batch' \o buffer'
      BY <2>0, Regroup, Zenon
    <2> QED
      BY <1>1, <1>2, <2>1, <2>2 DEF Ordered
  <1>4. Bounded'
    <2>1. Len(buffer') \in Nat /\ Len(buffer) \in Nat
      BY <1>1, <1>2, LenProperties
    <2> QED
      BY <1>1, <1>2, <2>1, TsQueueAssumption DEF Bounded
  <1> QED
    BY <1>2, <1>3, <1>4

\* An event is taken at the end of the queue, and may start a tick.
LEMMA StepEnqueue ==
  ASSUME QueueInv, NEW e \in Event, Enqueue(e)
  PROVE  QueueInv'
  <1>1. /\ finished \in Seq(Event) /\ batch \in Seq(Event) /\ buffer \in Seq(Event) /\ order \in Seq(Event)
        /\ TypeOK /\ OneTick /\ Ordered /\ Promises
    BY DEF QueueInv, TypeOK
  <1> DEFINE b == Append(buffer, e)
  <1>2. /\ b \in Seq(Event) /\ b = buffer \o <<e>> /\ <<e>> \in Seq(Event) /\ Len(b) = Len(buffer) + 1
        /\ Append(order, e) \in Seq(Event) /\ Append(order, e) = order \o <<e>>
    BY <1>1, Appended
  <1>3. \/ TickOn(b)
        \/ buffer' = b /\ UNCHANGED <<batch, pc, flushing, inFlight, attempt>>
    BY DEF Enqueue
  <1>4. /\ order' = order \o <<e>> /\ Len(buffer) < MaxQueue
        /\ UNCHANGED <<dropped, stopped, closer, waiter, promised, overflow, ignored, finished, exhausted>>
    BY <1>2 DEF Enqueue, callVars
  <1> HIDE DEF b
  <1>5. /\ batch' \in Seq(Event) /\ buffer' \in Seq(Event)
        /\ batch \o b = batch' \o buffer'
        /\ Len(buffer') <= Len(b)
        /\ pc' \in {"idle", "send", "backoff"} /\ flushing' \in BOOLEAN /\ inFlight' \in {0, 1}
        /\ attempt' \in 0..MaxRetries
        /\ OneTick'
    <2>1. CASE TickOn(b)
      BY <1>1, <1>2, <2>1, TickKeeps
    <2>2. CASE buffer' = b /\ UNCHANGED <<batch, pc, flushing, inFlight, attempt>>
      BY <1>1, <1>2, <2>2, LenProperties DEF TypeOK, OneTick
    <2> QED
      BY <1>3, <2>1, <2>2
  <1>6. Ordered'
    <2>0. /\ finished \in Seq(Event) /\ batch \in Seq(Event) /\ buffer \in Seq(Event) /\ b \in Seq(Event)
          /\ <<e>> \in Seq(Event) /\ batch' \in Seq(Event) /\ buffer' \in Seq(Event)
      BY <1>1, <1>2, <1>5
    <2>1. finished \o batch \in Seq(Event)
      BY <2>0, ConcatProperties
    <2>2. order \o <<e>> = (finished \o batch) \o b
      <3>1. ((finished \o batch) \o buffer) \o <<e>> = (finished \o batch) \o (buffer \o <<e>>)
        BY <2>0, <2>1, Regroup, Zenon
      <3> QED
        BY <1>1, <1>2, <3>1 DEF Ordered
    <2>3. (finished \o batch) \o b = finished \o (batch \o b)
      <3>1. finished \in Seq(Event) /\ batch \in Seq(Event) /\ b \in Seq(Event)
        BY <2>0
      <3> QED
        BY <3>1, Regroup, Zenon
    <2>4. (finished \o batch') \o buffer' = finished \o (batch' \o buffer')
      <3>1. finished \in Seq(Event) /\ batch' \in Seq(Event) /\ buffer' \in Seq(Event)
        BY <2>0
      <3> QED
        BY <3>1, Regroup, Zenon
    <2> QED
      BY <1>4, <1>5, <2>2, <2>3, <2>4 DEF Ordered
  <1>7. Bounded'
    <2>1. Len(buffer') \in Nat /\ Len(buffer) \in Nat
      BY <1>1, <1>5, LenProperties
    <2> QED
      BY <1>2, <1>4, <1>5, <2>1, TsQueueAssumption DEF Bounded
  <1>8. Promises'
    BY <1>1, <1>2, <1>4, Concats DEF Promises
  <1>9. TypeOK'
    BY <1>1, <1>2, <1>4, <1>5 DEF TypeOK
  <1> QED
    BY <1>5, <1>6, <1>7, <1>8, <1>9 DEF QueueInv

\* A batch is settled.
LEMMA StepEndShip ==
  ASSUME QueueInv, Answered \/ GiveUp
  PROVE  QueueInv'
  <1>1. TypeOK /\ Ordered /\ Bounded /\ Promises /\ buffer \in Seq(Event) /\ batch \in Seq(Event)
    BY DEF QueueInv, TypeOK
  <1>2. EndShip /\ UNCHANGED <<stopped, closer, waiter, promised, order, overflow, ignored>>
    BY DEF Answered, GiveUp, callVars, offerVars
  <1>3. /\ finished' \in Seq(Event) /\ ToSet(finished) \subseteq ToSet(finished')
        /\ batch' \in Seq(Event) /\ buffer' \in Seq(Event)
        /\ Len(buffer') <= Len(buffer)
        /\ pc' \in {"idle", "send"} /\ flushing' \in BOOLEAN /\ inFlight' \in {0, 1}
        /\ attempt' \in 0..MaxRetries
        /\ OneTick'
        /\ Ordered'
    BY <1>1, <1>2, EndShipKeeps
  <1>4. dropped' \in Nat /\ exhausted' \subseteq Event
    <2>1. Len(batch) \in Nat /\ ToSet(batch) \subseteq Event
      BY <1>1, LenProperties DEF ToSet
    <2> QED
      BY <1>1, <2>1 DEF Answered, GiveUp, TypeOK
  <1>5. TypeOK'
    BY <1>1, <1>2, <1>3, <1>4 DEF TypeOK
  <1>6. Promises'
    BY <1>1, <1>2, <1>3 DEF Promises
  <1>7. Bounded'
    <2>1. Len(buffer') \in Nat /\ Len(buffer) \in Nat
      BY <1>1, <1>3, LenProperties
    <2> QED
      BY <1>1, <1>3, <2>1, TsQueueAssumption DEF Bounded
  <1> QED
    BY <1>3, <1>5, <1>6, <1>7 DEF QueueInv

\* A caller, or the timer, enters tick.
LEMMA StepEnter ==
  ASSUME QueueInv,
         \/ Timer
         \/ \E w \in Waiter : FlushCall(w) \/ FlushPoll(w)
         \/ \E c \in Closer : Shutdown(c) /\ ~stopped
  PROVE  QueueInv'
  <1>1. TypeOK /\ Promises
    BY DEF QueueInv
  <1>2. TickOn(buffer) /\ UNCHANGED <<dropped, order, overflow, ignored, finished, exhausted>>
    BY DEF Timer, FlushCall, FlushPoll, Shutdown, offerVars
  <1>3. /\ batch' \in Seq(Event) /\ buffer' \in Seq(Event)
        /\ pc' \in {"idle", "send", "backoff"} /\ flushing' \in BOOLEAN /\ inFlight' \in {0, 1}
        /\ attempt' \in 0..MaxRetries
        /\ OneTick' /\ Ordered' /\ Bounded'
    BY <1>2, TickStep
  <1>4. /\ closer' \in [Closer -> {"out", "flush", "drained", "returned"}]
        /\ waiter' \in [Waiter -> {"idle", "poll", "true"}]
        /\ promised' \in [Waiter -> SUBSET Event]
        /\ stopped' \in BOOLEAN
        /\ Promises'
    <2>1. CASE Timer \/ \E w \in Waiter : FlushPoll(w)
      BY <1>1, <1>2, <2>1 DEF Timer, FlushPoll, callVars, Promises, TypeOK
    <2>2. ASSUME NEW w \in Waiter, FlushCall(w)
          PROVE  /\ closer' \in [Closer -> {"out", "flush", "drained", "returned"}]
                 /\ waiter' \in [Waiter -> {"idle", "poll", "true"}]
                 /\ promised' \in [Waiter -> SUBSET Event]
                 /\ stopped' \in BOOLEAN
                 /\ Promises'
      <3>1. ToSet(order) \subseteq Event
        BY <1>1, LenProperties DEF TypeOK, ToSet
      <3> QED
        BY <1>1, <1>2, <2>2, <3>1 DEF FlushCall, Promises, TypeOK
    <2>3. CASE \E c \in Closer : Shutdown(c)
      BY <1>1, <1>2, <2>3 DEF Shutdown, Promises, TypeOK
    <2> QED
      BY <2>1, <2>2, <2>3
  <1>5. TypeOK'
    BY <1>1, <1>2, <1>3, <1>4 DEF TypeOK
  <1> QED
    BY <1>3, <1>4, <1>5 DEF QueueInv

\* The steps that move no event.
LEMMA StepOther ==
  ASSUME QueueInv,
         \/ \E e \in Event : EnqueueFull(e) \/ EnqueueStopped(e)
         \/ Retryable \/ RetryAgain
         \/ \E w \in Waiter : FlushTrue(w) \/ FlushTimeout(w)
         \/ \E c \in Closer : (Shutdown(c) /\ stopped) \/ ShutdownDrained(c) \/ ShutdownTimeout(c)
  PROVE  QueueInv'
  <1> USE DEF QueueInv, Ordered, Bounded, tickVars, callVars, offerVars
  <1>1. UNCHANGED <<buffer, batch, order, finished, flushing, inFlight>>
    BY DEF EnqueueFull, EnqueueStopped, Retryable, RetryAgain, FlushTrue, FlushTimeout, Shutdown,
           ShutdownDrained, ShutdownTimeout
  <1>2. CASE \E e \in Event : EnqueueFull(e) \/ EnqueueStopped(e)
    BY <1>1, <1>2 DEF EnqueueFull, EnqueueStopped, TypeOK, OneTick, Promises
  <1>3. CASE Retryable \/ RetryAgain
    BY <1>1, <1>3, TsQueueAssumption DEF Retryable, RetryAgain, TypeOK, OneTick, Promises
  <1>4. ASSUME NEW w \in Waiter, FlushTrue(w)
        PROVE  QueueInv'
    <2>1. order = finished
      <3>1. buffer = <<>> /\ batch = <<>> /\ finished \in Seq(Event)
        BY <1>4 DEF FlushTrue, Quiet, OneTick, TypeOK
      <3>2. finished \o <<>> = finished
        BY <3>1, ConcatEmptySeq
      <3> QED
        BY <3>1, <3>2
    <2> QED
      BY <1>1, <1>4, <2>1 DEF FlushTrue, TypeOK, OneTick, Promises
  <1>5. ASSUME NEW w \in Waiter, FlushTimeout(w)
        PROVE  QueueInv'
    BY <1>1, <1>5 DEF FlushTimeout, TypeOK, OneTick, Promises
  <1>6. ASSUME NEW c \in Closer, (Shutdown(c) /\ stopped) \/ ShutdownDrained(c) \/ ShutdownTimeout(c)
        PROVE  QueueInv'
    BY <1>1, <1>6 DEF Shutdown, ShutdownDrained, ShutdownTimeout, TypeOK, OneTick, Promises
  <1> QED
    BY <1>2, <1>3, <1>4, <1>5, <1>6

\* Every step keeps the inductive invariant.
LEMMA StepQueueInv == QueueInv /\ [Next]_vars => QueueInv'
  <1>1. ASSUME QueueInv, Next
        PROVE  QueueInv'
    <2>1. CASE \E e \in Event : Enqueue(e)
      BY <1>1, <2>1, StepEnqueue
    <2>2. CASE Answered \/ GiveUp
      BY <1>1, <2>2, StepEndShip
    <2>3. CASE \/ Timer
               \/ \E w \in Waiter : FlushCall(w) \/ FlushPoll(w)
               \/ \E c \in Closer : Shutdown(c) /\ ~stopped
      BY <1>1, <2>3, StepEnter
    <2>4. CASE \/ \E e \in Event : EnqueueFull(e) \/ EnqueueStopped(e)
               \/ Retryable \/ RetryAgain
               \/ \E w \in Waiter : FlushTrue(w) \/ FlushTimeout(w)
               \/ \E c \in Closer : (Shutdown(c) /\ stopped) \/ ShutdownDrained(c) \/ ShutdownTimeout(c)
      BY <1>1, <2>4, StepOther
    <2> QED
      BY <1>1, <2>1, <2>2, <2>3, <2>4 DEF Next, Ship, Flush
  <1>2. ASSUME QueueInv, UNCHANGED vars
        PROVE  QueueInv'
    BY <1>2 DEF QueueInv, TypeOK, OneTick, Ordered, Bounded, Promises, vars, tickVars, callVars, offerVars
  <1> QED
    BY <1>1, <1>2

-----------------------------------------------------------------------------
(* Theorems.                                                                *)

\* The inductive invariant holds in every reachable state of the queue.
THEOREM TsQueueInductive == Spec => []QueueInv
  BY InitQueueInv, StepQueueInv, PTL DEF Spec

\* Type correctness; among others shipWithRetry never exceeds its attempts.
THEOREM TsQueueTypeCorrect == Spec => []TypeOK
  <1>1. QueueInv => TypeOK
    BY DEF QueueInv
  <1> QED
    BY <1>1, TsQueueInductive, PTL

\* The events leave in the order they came, none lost and none twice, however
\* tick is entered.
THEOREM TsQueueInOrder == Spec => []InOrder
  <1>1. QueueInv => InOrder
    BY DEF QueueInv, InOrder, Ordered
  <1> QED
    BY <1>1, TsQueueInductive, PTL

\* When flush resolved true, what was recorded before the call is settled.
THEOREM TsQueueFlushShips == Spec => []FlushShips
  <1>1. QueueInv => FlushShips
    BY DEF QueueInv, FlushShips, Promises
  <1> QED
    BY <1>1, TsQueueInductive, PTL
=============================================================================
