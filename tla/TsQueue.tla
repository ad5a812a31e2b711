------------------------------ MODULE TsQueue -------------------------------
(***************************************************************************)
(* The telemetry queue of the TypeScript SDK                               *)
(* (sdks/typescript/src/telemetry.ts).  One thread runs it: a step is what *)
(* happens between two awaits, and the callers of enqueue, flush and       *)
(* shutdown come in between.                                               *)
(***************************************************************************)
EXTENDS Integers, Sequences, SequencesExt

CONSTANTS
  Event,       (* the events the program records, each once                *)
  Closer,      (* async callers of shutdown                                *)
  Waiter,      (* async callers of flush, again and again                  *)
  MaxQueue,    (* maxQueue                                                 *)
  BatchSize,   (* batchSize                                                *)
  MaxRetries   (* maxRetries                                               *)

ASSUME TsQueueAssumption ==
  /\ IsFiniteSet(Event)
  /\ MaxQueue \in Nat \ {0}
  /\ BatchSize \in Nat \ {0}
  /\ MaxRetries \in Nat \ {0}

VARIABLES
  buffer,     \* buffer
  batch,      \* the batch tick is shipping
  pc,         \* what tick awaits: nothing, the sender, or a backoff
  flushing,   \* flushing
  inFlight,   \* inFlight
  attempt,    \* attempts of shipWithRetry, the current one included
  dropped,    \* _dropped
  stopped,    \* stopped
  closer,     \* where each caller of shutdown stands
  waiter      \* where each caller of flush stands, or what it returned

VARIABLES     \* history
  order,      \* the events enqueue took, in that order
  finished,   \* the events whose batch is settled, in that order
  overflow,   \* events dropped because the buffer was full
  ignored,    \* events that came after shutdown
  exhausted,  \* events given up after the retries
  promised    \* what each flush should wait for

tickVars == <<buffer, batch, pc, flushing, inFlight, attempt>>
callVars == <<closer, waiter, promised>>
offerVars == <<order, overflow, ignored>>
vars == <<tickVars, dropped, stopped, callVars, offerVars, finished, exhausted>>

Offered == ToSet(order) \cup overflow \cup ignored

Init ==
  /\ buffer = <<>> /\ batch = <<>>
  /\ pc = "idle" /\ flushing = FALSE /\ inFlight = 0 /\ attempt = 0
  /\ dropped = 0 /\ stopped = FALSE
  /\ closer = [c \in Closer |-> "out"]
  /\ waiter = [w \in Waiter |-> "idle"]
  /\ order = <<>> /\ finished = <<>>
  /\ overflow = {} /\ ignored = {} /\ exhausted = {}
  /\ promised = [w \in Waiter |-> {}]

-----------------------------------------------------------------------------
(* tick, up to its first await                                             *)

\* The loop of tick: take a batch off the buffer b and start to ship it, or end.
Loop(b) ==
  IF b = <<>>
    THEN /\ buffer' = b /\ batch' = <<>>
         /\ pc' = "idle" /\ flushing' = FALSE /\ inFlight' = 0
         /\ UNCHANGED attempt
    ELSE LET n == IF Len(b) < BatchSize THEN Len(b) ELSE BatchSize IN
         /\ batch' = SubSeq(b, 1, n)
         /\ buffer' = SubSeq(b, n + 1, Len(b))
         /\ pc' = "send" /\ flushing' = TRUE /\ inFlight' = 1
         /\ attempt' = 1

\* Fault: the re-entrancy guard is missing.
TickOn_Reenters(b) == Loop(b)

\* tick on the buffer b; it returns at once while another tick runs.
TickOn(b) ==
  IF flushing
    THEN buffer' = b /\ UNCHANGED <<batch, pc, flushing, inFlight, attempt>>
    ELSE Loop(b)

-----------------------------------------------------------------------------
(* enqueue                                                                 *)

Enqueue(e) ==
  /\ e \notin Offered
  /\ ~stopped
  /\ Len(buffer) < MaxQueue
  /\ order' = Append(order, e)
  /\ IF Len(buffer) + 1 >= BatchSize
       THEN TickOn(Append(buffer, e))
       ELSE buffer' = Append(buffer, e) /\ UNCHANGED <<batch, pc, flushing, inFlight, attempt>>
  /\ UNCHANGED <<dropped, stopped, callVars, overflow, ignored, finished, exhausted>>

EnqueueFull(e) ==
  /\ e \notin Offered
  /\ ~stopped
  /\ Len(buffer) >= MaxQueue
  /\ dropped' = dropped + 1
  /\ overflow' = overflow \cup {e}
  /\ UNCHANGED <<tickVars, stopped, callVars, order, ignored, finished, exhausted>>

\* After shutdown an event is ignored, neither shipped nor counted.
EnqueueStopped(e) ==
  /\ e \notin Offered
  /\ stopped
  /\ ignored' = ignored \cup {e}
  /\ UNCHANGED <<tickVars, dropped, stopped, callVars, order, overflow, finished, exhausted>>

-----------------------------------------------------------------------------
(* The timer, and the continuations of tick.                               *)

\* The interval, until shutdown clears it; a tick on an empty buffer is nothing.
Timer ==
  /\ ~stopped
  /\ buffer # <<>>
  /\ ~flushing
  /\ TickOn(buffer)
  /\ UNCHANGED <<dropped, stopped, callVars, offerVars, finished, exhausted>>

\* Fault: a tick ships one batch and does not look at the buffer again.
EndShip_OneBatch ==
  /\ finished' = finished \o batch
  /\ batch' = <<>> /\ pc' = "idle" /\ flushing' = FALSE /\ inFlight' = 0
  /\ UNCHANGED <<buffer, attempt>>

\* shipWithRetry returned; the loop goes on with what is in the buffer now.
EndShip == finished' = finished \o batch /\ Loop(buffer)

\* A 202, or a status that is not retried, 401 included: the batch is done with.
Answered ==
  /\ pc = "send"
  /\ EndShip
  /\ UNCHANGED <<dropped, stopped, callVars, offerVars, exhausted>>

\* A 429, or null: a transport error or the timeout, which aborts the request.
Retryable ==
  /\ pc = "send"
  /\ pc' = "backoff"
  /\ UNCHANGED <<buffer, batch, flushing, inFlight, attempt, dropped, stopped, callVars, offerVars, finished, exhausted>>

RetryAgain ==
  /\ pc = "backoff"
  /\ attempt < MaxRetries
  /\ attempt' = attempt + 1
  /\ pc' = "send"
  /\ UNCHANGED <<buffer, batch, flushing, inFlight, dropped, stopped, callVars, offerVars, finished, exhausted>>

GiveUp ==
  /\ pc = "backoff"
  /\ attempt >= MaxRetries
  /\ dropped' = dropped + Len(batch)
  /\ exhausted' = exhausted \cup ToSet(batch)
  /\ EndShip
  /\ UNCHANGED <<stopped, callVars, offerVars>>

-----------------------------------------------------------------------------
(* flush and shutdown                                                      *)

\* Fault: flush does not wait for the batch in flight.
Quiet_BufferOnly == buffer = <<>>

\* What flush polls for.
Quiet == buffer = <<>> /\ inFlight = 0 /\ ~flushing

FlushCall(w) ==
  /\ waiter[w] \in {"idle", "true"}
  /\ waiter' = [waiter EXCEPT ![w] = "poll"]
  /\ promised' = [promised EXCEPT ![w] = ToSet(order)]
  /\ TickOn(buffer)
  /\ UNCHANGED <<dropped, stopped, closer, offerVars, finished, exhausted>>

FlushTrue(w) ==
  /\ waiter[w] = "poll"
  /\ Quiet
  /\ waiter' = [waiter EXCEPT ![w] = "true"]
  /\ UNCHANGED <<tickVars, dropped, stopped, closer, promised, offerVars, finished, exhausted>>

\* Not quiet: sleep, tick when none runs, look again.
FlushPoll(w) ==
  /\ waiter[w] = "poll"
  /\ ~Quiet
  /\ TickOn(buffer)
  /\ UNCHANGED <<dropped, stopped, callVars, offerVars, finished, exhausted>>

FlushTimeout(w) ==
  /\ waiter[w] = "poll"
  /\ ~Quiet
  /\ waiter' = [waiter EXCEPT ![w] = "idle"]
  /\ promised' = [promised EXCEPT ![w] = {}]
  /\ UNCHANGED <<tickVars, dropped, stopped, closer, offerVars, finished, exhausted>>

\* The first call stops the timer and flushes; a later one returns at once.
Shutdown(c) ==
  /\ closer[c] = "out"
  /\ stopped' = TRUE
  /\ closer' = [closer EXCEPT ![c] = IF stopped THEN "returned" ELSE "flush"]
  /\ IF stopped THEN UNCHANGED tickVars ELSE TickOn(buffer)
  /\ UNCHANGED <<dropped, waiter, promised, offerVars, finished, exhausted>>

\* Its flush ended quiet, and the sender is closed.
ShutdownDrained(c) ==
  /\ closer[c] = "flush"
  /\ Quiet
  /\ closer' = [closer EXCEPT ![c] = "drained"]
  /\ UNCHANGED <<tickVars, dropped, stopped, waiter, promised, offerVars, finished, exhausted>>

ShutdownTimeout(c) ==
  /\ closer[c] = "flush"
  /\ ~Quiet
  /\ closer' = [closer EXCEPT ![c] = "returned"]
  /\ UNCHANGED <<tickVars, dropped, stopped, waiter, promised, offerVars, finished, exhausted>>

-----------------------------------------------------------------------------
Ship == Answered \/ Retryable \/ RetryAgain \/ GiveUp

Flush(w) == FlushCall(w) \/ FlushTrue(w) \/ FlushPoll(w) \/ FlushTimeout(w)

Next ==
  \/ \E e \in Event : Enqueue(e) \/ EnqueueFull(e) \/ EnqueueStopped(e)
  \/ Timer
  \/ Ship
  \/ \E w \in Waiter : Flush(w)
  \/ \E c \in Closer : Shutdown(c) \/ ShutdownDrained(c) \/ ShutdownTimeout(c)

Spec == Init /\ [][Next]_vars

\* Fairness: the timer fires while it is set, and the sender's timeout bounds
\* every await of tick.
FairSpec == Spec /\ WF_vars(Timer) /\ WF_vars(Ship)

-----------------------------------------------------------------------------
(* Properties.                                                             *)

\* The variables keep their types; shipWithRetry makes at most MaxRetries
\* attempts, and one batch at most is in flight.
TypeOK ==
  /\ buffer \in Seq(Event) /\ batch \in Seq(Event)
  /\ pc \in {"idle", "send", "backoff"}
  /\ flushing \in BOOLEAN /\ inFlight \in {0, 1} /\ stopped \in BOOLEAN
  /\ attempt \in 0..MaxRetries
  /\ dropped \in Nat
  /\ closer \in [Closer -> {"out", "flush", "drained", "returned"}]
  /\ waiter \in [Waiter -> {"idle", "poll", "true"}]
  /\ order \in Seq(Event) /\ finished \in Seq(Event)
  /\ overflow \subseteq Event /\ ignored \subseteq Event /\ exhausted \subseteq Event
  /\ promised \in [Waiter -> SUBSET Event]

\* The events leave in the order they came, none lost, none twice, although tick
\* is entered from the timer, enqueue, flush and shutdown: what is settled, the
\* batch and the buffer are together what enqueue took.  (The types are a part.)
InOrder == TypeOK /\ order = finished \o batch \o buffer

\* flush keeps its word: when it resolves true, every event recorded before the
\* call is settled.
FlushShips == \A w \in Waiter : waiter[w] = "true" => promised[w] \subseteq ToSet(finished)

\* Every event taken is settled in the end, shut down or not.
AcceptedSettles == \A e \in Event : (e \in ToSet(order)) ~> (e \in ToSet(finished))
=============================================================================
