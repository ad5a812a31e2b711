------------------------------- MODULE Batch --------------------------------
(***************************************************************************)
(* The bounded buffer of the ingest service and its flush loop             *)
(* (services/ingest/internal/batch/batch.go) with the insert-and-retry of  *)
(* services/ingest/internal/chwriter/chwriter.go.                          *)
(*                                                                         *)
(* Three kinds of goroutines share the buffer: the HTTP handlers that call *)
(* Add, the flush loop Run, and the goroutine that calls Shutdown.  A step *)
(* is what one of them does under the mutex or between two channel         *)
(* operations.  The order of the events inside a batch decides nothing, so *)
(* the buffer and the batch in flight are sets of event occurrences.       *)
(***************************************************************************)
EXTENDS Integers, FiniteSets

CONSTANTS
  Event,          (* event occurrences: one decoded event of one request   *)
  Caller,         (* the handler goroutines that call Add                  *)
  MaxEvents,      (* Options.MaxEvents, the flush trigger                  *)
  CapacityOpt,    (* Options.Capacity as passed to New, <= 0 when unset    *)
  RetryAttempts   (* Options.RetryAttempts                                 *)

ASSUME BatchAssumption ==
  /\ IsFiniteSet(Event)
  /\ MaxEvents \in Nat \ {0}
  /\ CapacityOpt \in Int
  /\ RetryAttempts \in Nat \ {0}

\* The hard cap New computes from the options.
Capacity ==
  IF CapacityOpt <= 0 THEN 2 * MaxEvents
  ELSE IF CapacityOpt < MaxEvents THEN MaxEvents
  ELSE CapacityOpt

\* The two goroutines that may run flush: the loop and Shutdown's caller.
Flusher == {"loop", "main"}

\* Where they may stand.
LoopPoints == {"select", "swap", "insert", "backoff", "done"}
MainPoints == {"serving", "wait", "drain", "swap", "insert", "backoff", "check", "done"}

\* A caller outside Add, or between Add's unlock and its return.
Calls == [at : {"idle", "unlocked"}, depth : Nat, full : BOOLEAN]
Idle == [at |-> "idle", depth |-> 0, full |-> FALSE]

VARIABLES
  buf,        \* Buffer.buf
  flushReq,   \* the one-slot channel flushReq holds a request
  stop,       \* the channel stop is closed
  pc,         \* where each flusher stands
  flight,     \* the batch a flusher took with swap and has not settled
  attempt,    \* the attempt of RetryInsert it is at, from 1
  before,     \* Shutdown's local of the same name
  call        \* what a caller inside Add still has to do after unlocking

VARIABLES     \* history: the store, and what became of every event
  rows,       \* rows of the event in the ClickHouse table
  accepted,   \* Add took it
  refused,    \* Add refused it: the buffer was full
  written,    \* flush counted it in EventsInserted
  lost,       \* flush gave its batch up and counted it in EventsDropped
  late        \* Add took it after stop was closed

bufferVars == <<buf, flushReq, stop, pc, flight, attempt, before, call>>
historyVars == <<rows, accepted, refused, written, lost, late>>
batchVars == <<bufferVars, historyVars>>

BufferInit ==
  /\ buf = {}
  /\ flushReq = FALSE
  /\ stop = FALSE
  /\ pc = [w \in Flusher |-> IF w = "loop" THEN "select" ELSE "serving"]
  /\ flight = [w \in Flusher |-> {}]
  /\ attempt = [w \in Flusher |-> 0]
  /\ before = 0
  /\ call = [c \in Caller |-> Idle]

\* A process that ends takes the buffer with it; the next one starts afresh.
BufferReset ==
  /\ buf' = {}
  /\ flushReq' = FALSE
  /\ stop' = FALSE
  /\ pc' = [w \in Flusher |-> IF w = "loop" THEN "select" ELSE "serving"]
  /\ flight' = [w \in Flusher |-> {}]
  /\ attempt' = [w \in Flusher |-> 0]
  /\ before' = 0
  /\ call' = [c \in Caller |-> Idle]

BatchInit ==
  /\ BufferInit
  /\ rows = [e \in Event |-> 0]
  /\ accepted = {}
  /\ refused = {}
  /\ written = {}
  /\ lost = {}
  /\ late = {}

-----------------------------------------------------------------------------
(* Add, called by a handler with the events of one request.                *)

\* The critical section of Add.  The batch is taken whole or not at all.
AddFits(c, S) ==
  /\ call[c] = Idle
  /\ Cardinality(buf) + Cardinality(S) <= Capacity
  /\ buf' = buf \cup S
  /\ call' = [call EXCEPT ![c] = [at |-> "unlocked", depth |-> Cardinality(buf'), full |-> FALSE]]
  /\ accepted' = accepted \cup S
  /\ late' = IF stop THEN late \cup S ELSE late
  /\ UNCHANGED <<flushReq, stop, pc, flight, attempt, before, rows, refused, written, lost>>

AddFull(c, S) ==
  /\ call[c] = Idle
  /\ Cardinality(buf) + Cardinality(S) > Capacity
  /\ call' = [call EXCEPT ![c] = [at |-> "unlocked", depth |-> Cardinality(buf), full |-> TRUE]]
  /\ refused' = refused \cup S
  /\ UNCHANGED <<buf, flushReq, stop, pc, flight, attempt, before, rows, accepted, written, lost, late>>

\* Fault: the flush is signalled only when the depth is exactly MaxEvents.
AddReturn_OnlyAtTrigger(c) ==
  /\ call[c] # Idle
  /\ flushReq' = (flushReq \/ (~call[c].full /\ call[c].depth = MaxEvents))
  /\ call' = [call EXCEPT ![c] = Idle]
  /\ UNCHANGED <<buf, stop, pc, flight, attempt, before, historyVars>>

\* After the unlock: if the depth read under the lock reached MaxEvents, signalFlush
\* leaves a request in the channel unless one is there already.
AddReturn(c) ==
  /\ call[c] # Idle
  /\ flushReq' = (flushReq \/ (~call[c].full /\ call[c].depth >= MaxEvents))
  /\ call' = [call EXCEPT ![c] = Idle]
  /\ UNCHANGED <<buf, stop, pc, flight, attempt, before, historyVars>>

-----------------------------------------------------------------------------
(* Run: the select of the flush loop.                                      *)

LoopGoto(to) ==
  /\ pc["loop"] = "select"
  /\ pc' = [pc EXCEPT !["loop"] = to]
  /\ UNCHANGED <<buf, stop, flight, attempt, before, call, historyVars>>

LoopTick == LoopGoto("swap") /\ UNCHANGED flushReq

LoopFlushReq == flushReq /\ LoopGoto("swap") /\ flushReq' = FALSE

\* The loop returns and closes done.
LoopStop == stop /\ LoopGoto("done") /\ UNCHANGED flushReq

-----------------------------------------------------------------------------
(* flush: swap the buffer out, insert it with bounded retries.             *)

\* Where a flusher resumes when its flush returns.
Resume(w) == IF w = "loop" THEN "select" ELSE "check"

\* Fault: swap hands the buffer out and does not reset it.
Swap_KeepsBuffer(w) ==
  /\ pc[w] = "swap"
  /\ flight' = [flight EXCEPT ![w] = buf]
  /\ IF buf = {}
       THEN /\ pc' = [pc EXCEPT ![w] = Resume(w)]
            /\ UNCHANGED attempt
       ELSE /\ pc' = [pc EXCEPT ![w] = "insert"]
            /\ attempt' = [attempt EXCEPT ![w] = 1]
  /\ UNCHANGED <<buf, flushReq, stop, before, call, historyVars>>

\* swap, and the early return of flush when there is nothing.
Swap(w) ==
  /\ pc[w] = "swap"
  /\ buf' = {}
  /\ flight' = [flight EXCEPT ![w] = buf]
  /\ IF buf = {}
       THEN /\ pc' = [pc EXCEPT ![w] = Resume(w)]
            /\ UNCHANGED attempt
       ELSE /\ pc' = [pc EXCEPT ![w] = "insert"]
            /\ attempt' = [attempt EXCEPT ![w] = 1]
  /\ UNCHANGED <<flushReq, stop, before, call, historyVars>>

\* The rows a Send that reached the server adds.
AddRows(S) == [e \in Event |-> IF e \in S THEN rows[e] + 1 ELSE rows[e]]

Settle(w) ==
  /\ flight' = [flight EXCEPT ![w] = {}]
  /\ pc' = [pc EXCEPT ![w] = Resume(w)]

InsertOk(w) ==
  /\ pc[w] = "insert"
  /\ rows' = AddRows(flight[w])
  /\ written' = written \cup flight[w]
  /\ Settle(w)
  /\ UNCHANGED <<buf, flushReq, stop, attempt, before, call, accepted, refused, lost, late>>

\* Fault: RetryInsert returns nil after its last failed attempt.
InsertErr_ReportsSuccess(w) ==
  /\ pc[w] = "insert"
  /\ \/ UNCHANGED rows
     \/ rows' = AddRows(flight[w])
  /\ IF attempt[w] = RetryAttempts
       THEN written' = written \cup flight[w] /\ Settle(w)
       ELSE pc' = [pc EXCEPT ![w] = "backoff"] /\ UNCHANGED <<flight, written>>
  /\ UNCHANGED <<buf, flushReq, stop, attempt, before, call, accepted, refused, lost, late>>

\* Prepare, Append or Send returned an error; a Send may have been applied by
\* the server although its answer was lost.
InsertErr(w) ==
  /\ pc[w] = "insert"
  /\ \/ UNCHANGED rows
     \/ rows' = AddRows(flight[w])
  /\ IF attempt[w] = RetryAttempts
       THEN lost' = lost \cup flight[w] /\ Settle(w)
       ELSE pc' = [pc EXCEPT ![w] = "backoff"] /\ UNCHANGED <<flight, lost>>
  /\ UNCHANGED <<buf, flushReq, stop, attempt, before, call, accepted, refused, written, late>>

\* Fault: the attempts are not counted, so a failing insert is retried forever.
BackoffElapsed_Uncounted(w) ==
  /\ pc[w] = "backoff"
  /\ pc' = [pc EXCEPT ![w] = "insert"]
  /\ UNCHANGED <<buf, flushReq, stop, flight, attempt, before, call, historyVars>>

BackoffElapsed(w) ==
  /\ pc[w] = "backoff"
  /\ attempt' = [attempt EXCEPT ![w] = @ + 1]
  /\ pc' = [pc EXCEPT ![w] = "insert"]
  /\ UNCHANGED <<buf, flushReq, stop, flight, before, call, historyVars>>

\* Fault: a flush cancelled by its deadline drops the batch without counting it.
BackoffCancelled_Silent(w) ==
  /\ pc[w] = "backoff"
  /\ Settle(w)
  /\ UNCHANGED <<buf, flushReq, stop, attempt, before, call, historyVars>>

\* FlushTimeout, or the deadline of Shutdown's context, expires in the wait.
BackoffCancelled(w) ==
  /\ pc[w] = "backoff"
  /\ lost' = lost \cup flight[w]
  /\ Settle(w)
  /\ UNCHANGED <<buf, flushReq, stop, attempt, before, call, rows, accepted, refused, written, late>>

-----------------------------------------------------------------------------
(* Shutdown, called once by runServe after the HTTP server stopped.        *)

MainGoto(from, to) ==
  /\ pc["main"] = from
  /\ pc' = [pc EXCEPT !["main"] = to]
  /\ UNCHANGED <<buf, flushReq, flight, attempt, call, historyVars>>

ShutdownBegin == MainGoto("serving", "wait") /\ stop' = TRUE /\ UNCHANGED before

\* Fault: Shutdown drains without waiting for the loop's done.
ShutdownWait_NoWait == MainGoto("wait", "drain") /\ UNCHANGED <<stop, before>>

ShutdownWait == pc["loop"] = "done" /\ MainGoto("wait", "drain") /\ UNCHANGED <<stop, before>>

ShutdownDrain ==
  /\ buf # {}
  /\ MainGoto("drain", "swap")
  /\ before' = Cardinality(buf)
  /\ UNCHANGED stop

\* Fault: Shutdown returns without draining.
ShutdownEmpty_Unguarded == MainGoto("drain", "done") /\ UNCHANGED <<stop, before>>

ShutdownEmpty == buf = {} /\ MainGoto("drain", "done") /\ UNCHANGED <<stop, before>>

\* After a flush: stop when callers refilled as much as was taken.
ShutdownCheck ==
  /\ MainGoto("check", IF Cardinality(buf) >= before THEN "done" ELSE "drain")
  /\ UNCHANGED <<stop, before>>

-----------------------------------------------------------------------------
\* One flusher's steps inside flush.
Flush(w) ==
  \/ Swap(w)
  \/ InsertOk(w)
  \/ InsertErr(w)
  \/ BackoffElapsed(w)
  \/ BackoffCancelled(w)

Loop == LoopTick \/ LoopFlushReq \/ LoopStop \/ Flush("loop")

Shutdown == ShutdownWait \/ ShutdownDrain \/ ShutdownEmpty \/ ShutdownCheck \/ Flush("main")

\* Every occurrence is offered to Add once.
Offers == (SUBSET (Event \ (accepted \cup refused))) \ {{}}

BatchNext ==
  \/ \E c \in Caller, S \in Offers : AddFits(c, S) \/ AddFull(c, S)
  \/ \E c \in Caller : AddReturn(c)
  \/ Loop
  \/ ShutdownBegin
  \/ Shutdown

BatchSpec == BatchInit /\ [][BatchNext]_batchVars

-----------------------------------------------------------------------------
(* Properties.                                                             *)

\* The variables keep their types: RetryInsert never starts an attempt beyond
\* RetryAttempts, and each flusher stays within its own function.
TypeOK ==
  /\ buf \subseteq Event
  /\ flushReq \in BOOLEAN
  /\ stop \in BOOLEAN
  /\ pc \in [Flusher -> LoopPoints \cup MainPoints]
  /\ pc["loop"] \in LoopPoints
  /\ pc["main"] \in MainPoints
  /\ flight \in [Flusher -> SUBSET Event]
  /\ attempt \in [Flusher -> 0..RetryAttempts]
  /\ before \in Nat
  /\ call \in [Caller -> Calls]
  /\ rows \in [Event -> Nat]
  /\ accepted \subseteq Event /\ refused \subseteq Event
  /\ written \subseteq Event /\ lost \subseteq Event /\ late \subseteq Event

\* Memory: whatever the handlers, the loop and Shutdown interleave, the live
\* buffer never holds more than Capacity events, nor does a batch in flight.
MemoryBounded ==
  /\ Cardinality(buf) <= Capacity
  /\ \A w \in Flusher : Cardinality(flight[w]) <= Capacity

\* No event vanishes and none is in two places: an event Add took is in the
\* buffer, in one batch in flight, counted inserted, or counted dropped.
Conservation ==
  /\ accepted = buf \cup flight["loop"] \cup flight["main"] \cup written \cup lost
  /\ buf \cap (flight["loop"] \cup flight["main"] \cup written \cup lost) = {}
  /\ (flight["loop"] \cup flight["main"]) \cap (written \cup lost) = {}
  /\ flight["loop"] \cap flight["main"] = {}
  /\ written \cap lost = {}
  /\ accepted \cap refused = {}

\* Shutdown's drain and the loop never insert at the same time: Shutdown waits
\* for done before its first flush.
OneFlusher == flight["loop"] = {} \/ flight["main"] = {}

\* The counters tell the truth about the table: an event counted inserted has a
\* row, a buffered or refused one has none, and the retries of one batch leave
\* at most RetryAttempts rows of an event.
StoreAgrees ==
  /\ \A e \in written : rows[e] >= 1
  /\ \A e \in buf \cup refused : rows[e] = 0
  /\ \A e \in Event : rows[e] <= RetryAttempts

\* Graceful shutdown: when Shutdown returns, only events added after stop was
\* closed may still sit in the buffer.
CleanDrain == pc["main"] = "done" => buf \subseteq late

\* No lost wake-up: while the loop serves, a buffer at or over MaxEvents has a
\* flush on its way without waiting for the ticker (a request in the channel, a
\* swap about to happen, or a caller that is about to signal).
NoLostWakeup ==
  Cardinality(buf) >= MaxEvents =>
    \/ flushReq
    \/ pc["loop"] = "swap"
    \/ \E c \in Caller : call[c] # Idle /\ ~call[c].full /\ call[c].depth >= MaxEvents
    \/ pc["loop"] = "done"

\* What Batch promises its callers: see Sink.
SinkView ==
  INSTANCE Sink WITH
    pending <- buf \cup flight["loop"] \cup flight["main"],
    settledOk <- written,
    settledLost <- lost,
    Limit <- 2 * Capacity

\* The buffer with its flush loop and shutdown implements the bounded sink that
\* settles whole batches exactly once.
ImplementsSink == SinkView!Spec
=============================================================================
