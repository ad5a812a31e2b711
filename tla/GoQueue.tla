------------------------------ MODULE GoQueue -------------------------------
(***************************************************************************)
(* The telemetry queue of the Go SDK (sdks/go/queue.go): a bounded channel *)
(* that never blocks the caller, one goroutine that batches and ships, a   *)
(* Flush that polls, and a Close that drains.                              *)
(*                                                                         *)
(* The goroutine ships one batch at a time and looks at nothing inside it, *)
(* so the channel and the batch are sets of events.                        *)
(***************************************************************************)
EXTENDS Integers, FiniteSets

CONSTANTS
  Event,       (* the events the program records, each once                *)
  Closer,      (* goroutines that call Close                               *)
  Waiter,      (* goroutines that call Flush, again and again              *)
  ChanCap,     (* capacity of the channel events                           *)
  BatchSize,   (* events per request                                       *)
  Retries      (* attempts per batch                                       *)

ASSUME GoQueueAssumption ==
  /\ IsFiniteSet(Event)
  /\ ChanCap \in Nat \ {0}
  /\ BatchSize \in Nat \ {0}
  /\ Retries \in Nat \ {0}

VARIABLES
  chan,       \* the channel events
  batch,      \* the local batch of run
  pc,         \* where run stands
  back,       \* where its flush returns to
  attempt,    \* attempts of ship so far, the current one included
  inFlight,   \* q.inFlight
  dropped,    \* q.dropped
  stop,       \* the channel stop is closed
  closer,     \* where each caller of close stands
  waiter,     \* where each caller of flushWait stands, or what it returned
  sawFlight   \* its local copy of inFlight

VARIABLES     \* history
  arrived,    \* how often the server took the event
  accepted,   \* enqueue put it in the channel
  overflow,   \* enqueue dropped it: the channel was full
  shipped,    \* its batch was answered 202
  rejected,   \* its batch was given up at once and not counted dropped
  exhausted,  \* its batch was given up after the retries
  late,       \* it was accepted after stop was closed
  promised    \* what each flushWait should wait for

runVars == <<batch, pc, back, attempt, inFlight>>
callerVars == <<closer, waiter, sawFlight, promised>>
fateVars == <<arrived, shipped, rejected, exhausted>>
offerVars == <<accepted, overflow, late>>
vars == <<chan, runVars, dropped, stop, callerVars, fateVars, offerVars>>

Settled == shipped \cup rejected \cup exhausted

\* newQueue starts the goroutine.
Init ==
  /\ chan = {} /\ batch = {}
  /\ pc = "select" /\ back = "select" /\ attempt = 0
  /\ inFlight = 0 /\ dropped = 0
  /\ stop = FALSE
  /\ closer = [c \in Closer |-> "open"]
  /\ waiter = [w \in Waiter |-> "idle"] /\ sawFlight = [w \in Waiter |-> 0]
  /\ arrived = [e \in Event |-> 0]
  /\ accepted = {} /\ overflow = {} /\ late = {}
  /\ shipped = {} /\ rejected = {} /\ exhausted = {}
  /\ promised = [w \in Waiter |-> {}]

-----------------------------------------------------------------------------
(* enqueue, called on the hot path by any goroutine.                       *)

EnqueueOk(e) ==
  /\ e \notin accepted \cup overflow
  /\ Cardinality(chan) < ChanCap
  /\ chan' = chan \cup {e}
  /\ accepted' = accepted \cup {e}
  /\ late' = IF stop THEN late \cup {e} ELSE late
  /\ UNCHANGED <<runVars, dropped, stop, callerVars, fateVars, overflow>>

EnqueueFull(e) ==
  /\ e \notin accepted \cup overflow
  /\ Cardinality(chan) >= ChanCap
  /\ dropped' = dropped + 1
  /\ overflow' = overflow \cup {e}
  /\ UNCHANGED <<chan, runVars, stop, callerVars, fateVars, accepted, late>>

-----------------------------------------------------------------------------
(* run.                                                                    *)

\* An event moves from the channel to the batch; a full batch is flushed.
Batched(from, e) ==
  /\ pc = from
  /\ e \in chan
  /\ chan' = chan \ {e}
  /\ batch' = batch \cup {e}
  /\ back' = from
  /\ pc' = IF Cardinality(batch') >= BatchSize THEN "flush" ELSE from
  /\ UNCHANGED <<attempt, inFlight, dropped, stop, callerVars, fateVars, offerVars>>

Take(e) == Batched("select", e)

\* The ticker: a flush of an empty batch does nothing.
Tick ==
  /\ pc = "select"
  /\ batch # {}
  /\ pc' = "flush"
  /\ back' = "select"
  /\ UNCHANGED <<chan, batch, attempt, inFlight, dropped, stop, callerVars, fateVars, offerVars>>

Stopped ==
  /\ pc = "select"
  /\ stop
  /\ pc' = "drain"
  /\ UNCHANGED <<chan, batch, back, attempt, inFlight, dropped, stop, callerVars, fateVars, offerVars>>

DrainTake(e) == Batched("drain", e)

\* Fault: a break leaves the inner select only, and the drain starts over.
DrainEnd_Breaks ==
  /\ pc = "drain"
  /\ chan = {}
  /\ pc' = IF batch = {} THEN "select" ELSE "flush"
  /\ back' = "select"
  /\ UNCHANGED <<chan, batch, attempt, inFlight, dropped, stop, callerVars, fateVars, offerVars>>

\* The channel is empty: flush what is left and return.
DrainEnd ==
  /\ pc = "drain"
  /\ chan = {}
  /\ pc' = IF batch = {} THEN "done" ELSE "flush"
  /\ back' = "done"
  /\ UNCHANGED <<chan, batch, attempt, inFlight, dropped, stop, callerVars, fateVars, offerVars>>

-----------------------------------------------------------------------------
(* flush and ship.                                                         *)

\* flush publishes the size of the batch before it ships it.
BeginFlush ==
  /\ pc = "flush"
  /\ inFlight' = Cardinality(batch)
  /\ attempt' = 1
  /\ pc' = "ship"
  /\ UNCHANGED <<chan, batch, back, dropped, stop, callerVars, fateVars, offerVars>>

\* ship returned: the batch is forgotten, and its size with it.
EndFlush ==
  /\ batch' = {}
  /\ inFlight' = 0
  /\ pc' = back

ServerTakes == arrived' = [e \in Event |-> IF e \in batch THEN arrived[e] + 1 ELSE arrived[e]]

Accepted202 ==
  /\ pc = "ship"
  /\ ServerTakes
  /\ shipped' = shipped \cup batch
  /\ EndFlush
  /\ UNCHANGED <<chan, back, attempt, dropped, stop, callerVars, rejected, exhausted, offerVars>>

\* The body or the request cannot be built, a 401, or a status other than 202
\* and 429: the batch is dropped at once.
Rejected ==
  /\ pc = "ship"
  /\ rejected' = rejected \cup batch
  /\ EndFlush
  /\ UNCHANGED <<chan, back, attempt, dropped, stop, callerVars, arrived, shipped, exhausted, offerVars>>

\* A 429, or a transport error: the server may have taken the batch before its
\* answer was lost.
Retryable ==
  /\ pc = "ship"
  /\ UNCHANGED arrived \/ ServerTakes
  /\ pc' = "backoff"
  /\ UNCHANGED <<chan, batch, back, attempt, inFlight, dropped, stop, callerVars, shipped, rejected, exhausted, offerVars>>

\* Fault: the attempts are compared one off.
RetryAgain_OneMore ==
  /\ pc = "backoff"
  /\ attempt <= Retries
  /\ attempt' = attempt + 1
  /\ pc' = "ship"
  /\ UNCHANGED <<chan, batch, back, inFlight, dropped, stop, callerVars, fateVars, offerVars>>

\* The loop of ship sleeps after every failed attempt, the last one included.
RetryAgain ==
  /\ pc = "backoff"
  /\ attempt < Retries
  /\ attempt' = attempt + 1
  /\ pc' = "ship"
  /\ UNCHANGED <<chan, batch, back, inFlight, dropped, stop, callerVars, fateVars, offerVars>>

\* Fault: a batch given up is kept for the next flush.
GiveUp_KeepsBatch ==
  /\ pc = "backoff"
  /\ attempt >= Retries
  /\ dropped' = dropped + Cardinality(batch)
  /\ exhausted' = exhausted \cup batch
  /\ inFlight' = 0
  /\ pc' = back
  /\ UNCHANGED <<chan, batch, back, attempt, stop, callerVars, arrived, shipped, rejected, offerVars>>

GiveUp ==
  /\ pc = "backoff"
  /\ attempt >= Retries
  /\ dropped' = dropped + Cardinality(batch)
  /\ exhausted' = exhausted \cup batch
  /\ EndFlush
  /\ UNCHANGED <<chan, back, attempt, stop, callerVars, arrived, shipped, rejected, offerVars>>

-----------------------------------------------------------------------------
(* close: stopOnce closes stop, then everyone waits for run to return.     *)

Close(c) ==
  /\ closer[c] = "open"
  /\ stop' = TRUE
  /\ closer' = [closer EXCEPT ![c] = "waiting"]
  /\ UNCHANGED <<chan, runVars, dropped, waiter, sawFlight, promised, fateVars, offerVars>>

\* Fault: a second Close does not wait for run.
CloseReturn_NoWait(c) ==
  /\ closer[c] = "waiting"
  /\ pc = "done" \/ \E d \in Closer \ {c} : closer[d] # "open"
  /\ closer' = [closer EXCEPT ![c] = "closed"]
  /\ UNCHANGED <<chan, runVars, dropped, stop, waiter, sawFlight, promised, fateVars, offerVars>>

CloseReturn(c) ==
  /\ closer[c] = "waiting"
  /\ pc = "done"
  /\ closer' = [closer EXCEPT ![c] = "closed"]
  /\ UNCHANGED <<chan, runVars, dropped, stop, waiter, sawFlight, promised, fateVars, offerVars>>

-----------------------------------------------------------------------------
(* flushWait: read inFlight under the mutex, then the channel's length.    *)

FlushCall(w) ==
  /\ waiter[w] \in {"idle", "true"}
  /\ waiter' = [waiter EXCEPT ![w] = "read"]
  /\ promised' = [promised EXCEPT ![w] = accepted]
  /\ UNCHANGED <<chan, runVars, dropped, stop, closer, sawFlight, fateVars, offerVars>>

FlushRead(w) ==
  /\ waiter[w] = "read"
  /\ sawFlight' = [sawFlight EXCEPT ![w] = inFlight]
  /\ waiter' = [waiter EXCEPT ![w] = "len"]
  /\ UNCHANGED <<chan, runVars, dropped, stop, closer, promised, fateVars, offerVars>>

\* Fault: only inFlight is tested.
FlushTrue_IgnoresChannel(w) ==
  /\ waiter[w] = "len"
  /\ sawFlight[w] = 0
  /\ waiter' = [waiter EXCEPT ![w] = "true"]
  /\ UNCHANGED <<chan, runVars, dropped, stop, closer, sawFlight, promised, fateVars, offerVars>>

FlushTrue(w) ==
  /\ waiter[w] = "len"
  /\ chan = {}
  /\ sawFlight[w] = 0
  /\ waiter' = [waiter EXCEPT ![w] = "true"]
  /\ UNCHANGED <<chan, runVars, dropped, stop, closer, sawFlight, promised, fateVars, offerVars>>

\* Sleep 10ms and poll again, or return false at the end of ctx.
FlushFalse(w) ==
  /\ waiter[w] = "len"
  /\ chan # {} \/ sawFlight[w] # 0
  /\ \E to \in {"read", "idle"} : waiter' = [waiter EXCEPT ![w] = to]
  /\ sawFlight' = [sawFlight EXCEPT ![w] = 0]
  /\ promised' = IF waiter'[w] = "idle" THEN [promised EXCEPT ![w] = {}] ELSE promised
  /\ UNCHANGED <<chan, runVars, dropped, stop, closer, fateVars, offerVars>>

-----------------------------------------------------------------------------
Run ==
  \/ \E e \in Event : Take(e) \/ DrainTake(e)
  \/ Tick \/ Stopped \/ DrainEnd
  \/ BeginFlush \/ Accepted202 \/ Rejected \/ Retryable \/ RetryAgain \/ GiveUp

FlushWait(w) == FlushCall(w) \/ FlushRead(w) \/ FlushTrue(w) \/ FlushFalse(w)

Next ==
  \/ \E e \in Event : EnqueueOk(e) \/ EnqueueFull(e)
  \/ Run
  \/ \E c \in Closer : Close(c) \/ CloseReturn(c)
  \/ \E w \in Waiter : FlushWait(w)

Spec == Init /\ [][Next]_vars

(***************************************************************************)
(* Fairness: run and the waiters are scheduled, the timer fires, and the   *)
(* HTTP client's timeout bounds every attempt.  Nobody has to enqueue,     *)
(* flush or close.                                                         *)
(***************************************************************************)
Fairness ==
  /\ WF_vars(Run)
  /\ \A c \in Closer : WF_vars(CloseReturn(c))

FairSpec == Spec /\ Fairness

-----------------------------------------------------------------------------
(* Properties.                                                             *)

\* The variables keep their types; ship never makes more than Retries attempts.
TypeOK ==
  /\ chan \subseteq Event /\ batch \subseteq Event
  /\ pc \in {"select", "drain", "flush", "ship", "backoff", "done"}
  /\ back \in {"select", "drain", "done"}
  /\ attempt \in 0..Retries
  /\ inFlight \in Nat /\ dropped \in Nat
  /\ stop \in BOOLEAN
  /\ closer \in [Closer -> {"open", "waiting", "closed"}]
  /\ waiter \in [Waiter -> {"idle", "read", "len", "true"}]
  /\ sawFlight \in [Waiter -> Nat]
  /\ arrived \in [Event -> Nat]
  /\ accepted \subseteq Event /\ overflow \subseteq Event /\ late \subseteq Event
  /\ shipped \subseteq Event /\ rejected \subseteq Event /\ exhausted \subseteq Event
  /\ promised \in [Waiter -> SUBSET Event]

\* The server and the queue agree: a shipped event reached the server, one that
\* was never batched did not, and the retries deliver it at most Retries times.
\* (The types are a part of it.)
ServerAgrees ==
  /\ TypeOK
  /\ \A e \in shipped : arrived[e] >= 1
  /\ \A e \in chan \cup overflow : arrived[e] = 0
  /\ \A e \in Event : arrived[e] <= Retries

\* Close drains, for every caller of it: once one returned, only events recorded
\* after the first Close may be unsettled, and they are in the channel.
CloseDrains ==
  (\E c \in Closer : closer[c] = "closed") => accepted \ Settled \subseteq late \cap chan

\* What a Flush that returned true does ensure: of the events recorded before
\* it, none is in the channel; those not settled are in the batch of run.  (More
\* it does not: the batch may still wait for the ticker, out of flushWait's sight.)
FlushLeavesOneBatch ==
  \A w \in Waiter : waiter[w] = "true" => promised[w] \subseteq Settled \cup batch

\* Close does not hang: run drains and returns whatever the server answers.
CloseReturns == \A c \in Closer : (closer[c] = "waiting") ~> (closer[c] = "closed")

\* The queue is a bounded sink as well: see Sink.
SinkView ==
  INSTANCE Sink WITH
    pending <- chan \cup batch,
    settledOk <- shipped,
    settledLost <- rejected \cup exhausted,
    Limit <- ChanCap + BatchSize

\* The channel and the goroutine implement it: an event settles with its batch,
\* once, and memory is bounded.
ImplementsSink == SinkView!Spec
=============================================================================
