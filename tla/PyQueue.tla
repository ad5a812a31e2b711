------------------------------ MODULE PyQueue -------------------------------
(***************************************************************************)
(* The telemetry queue of the Python SDK (sdks/python/costobs/telemetry.py):*)
(* a bounded queue.Queue, a daemon thread that batches and ships, a flush   *)
(* that polls unfinished_tasks, and a shutdown that sends a sentinel.       *)
(*                                                                         *)
(* A step is one call on the queue, one POST, or one read of a shared flag: *)
(* what another thread can come between.  The queue is FIFO, and the        *)
(* sentinel's place in it matters, so it is a sequence.                     *)
(***************************************************************************)
EXTENDS Integers, FiniteSets, Sequences

CONSTANTS
  Event,       (* the events the program records, each once                *)
  Sentinel,    (* _SENTINEL                                                *)
  Closer,      (* threads that call shutdown, the atexit hook among them   *)
  Waiter,      (* threads that call flush, again and again                 *)
  MaxQueue,    (* max_queue                                                *)
  BatchSize,   (* batch_size                                               *)
  MaxRetries   (* max_retries                                              *)

ASSUME PyQueueAssumption ==
  /\ IsFiniteSet(Event)
  /\ Sentinel \notin Event
  /\ MaxQueue \in Nat \ {0}
  /\ BatchSize \in Nat \ {0}
  /\ MaxRetries \in Nat \ {0}

VARIABLES
  q,          \* the items of queue.Queue
  unfinished, \* its unfinished_tasks: puts minus task_done calls
  batch,      \* batch of _run, or leftovers of _drain_remaining
  pc,         \* where the thread stands
  back,       \* where its _flush and _mark_done return to
  attempt,    \* attempts of _flush, the current one included
  dropped,    \* _dropped
  stop,       \* _stop is set
  drained,    \* _drained is set
  closed,     \* the sender's HTTP client is closed
  closer,     \* where each caller of shutdown stands
  waiter      \* where each caller of flush stands, or what it returned

VARIABLES     \* history
  accepted,   \* enqueue put it
  overflow,   \* enqueue dropped it: the queue was full
  late,       \* it was accepted after _stop was set
  shipped,    \* its batch was answered 202
  rejected,   \* its batch was given up at once and not counted dropped
  exhausted,  \* its batch was given up after the retries
  evicted,    \* shutdown took it out to make room
  landed,     \* callers of shutdown whose sentinel entered the queue
  due,        \* events accepted before the first of these sentinels
  promised    \* what each flush should wait for

threadVars == <<batch, pc, back, attempt>>
fateVars == <<shipped, rejected, exhausted, evicted>>
offerVars == <<accepted, overflow, late>>
closeVars == <<stop, drained, closed, closer, landed, due>>
flushVars == <<waiter, promised>>
vars == <<q, unfinished, threadVars, dropped, closeVars, flushVars, fateVars, offerVars>>

Settled == shipped \cup rejected \cup exhausted \cup evicted
Queued == {q[i] : i \in DOMAIN q} \ {Sentinel}

Init ==
  /\ q = <<>> /\ unfinished = 0
  /\ batch = {} /\ pc = "get" /\ back = "get" /\ attempt = 0
  /\ dropped = 0
  /\ stop = FALSE /\ drained = FALSE /\ closed = FALSE
  /\ closer = [c \in Closer |-> "out"]
  /\ waiter = [w \in Waiter |-> "idle"]
  /\ accepted = {} /\ overflow = {} /\ late = {}
  /\ shipped = {} /\ rejected = {} /\ exhausted = {} /\ evicted = {}
  /\ landed = {} /\ due = {}
  /\ promised = [w \in Waiter |-> {}]

Full == Len(q) >= MaxQueue

\* put_nowait on a queue that is not full, and what task_done does.
Put(item) == ~Full /\ q' = Append(q, item) /\ unfinished' = unfinished + 1
TasksDone(n) == unfinished' = unfinished - n

-----------------------------------------------------------------------------
(* enqueue                                                                 *)

EnqueueOk(e) ==
  /\ e \notin accepted \cup overflow
  /\ Put(e)
  /\ accepted' = accepted \cup {e}
  /\ late' = IF stop THEN late \cup {e} ELSE late
  /\ UNCHANGED <<threadVars, dropped, closeVars, flushVars, fateVars, overflow>>

EnqueueFull(e) ==
  /\ e \notin accepted \cup overflow
  /\ Full
  /\ dropped' = dropped + 1
  /\ overflow' = overflow \cup {e}
  /\ UNCHANGED <<q, unfinished, threadVars, closeVars, flushVars, fateVars, accepted, late>>

-----------------------------------------------------------------------------
(* _run                                                                    *)

\* The thread goes on with a _flush of the batch and returns to ret after it.
FlushThen(ret) ==
  /\ pc' = "send"
  /\ back' = ret
  /\ attempt' = 1

\* Fault: the event is marked done when it is dequeued.
TakeEvent_DoneEarly ==
  /\ pc = "get"
  /\ q # <<>> /\ Head(q) # Sentinel
  /\ q' = Tail(q)
  /\ batch' = batch \cup {Head(q)}
  /\ TasksDone(1)
  /\ \/ FlushThen("get")
     \/ Cardinality(batch') < BatchSize /\ UNCHANGED <<pc, back, attempt>>
  /\ UNCHANGED <<dropped, closeVars, flushVars, fateVars, offerVars>>

\* An event joins the batch, which is flushed when it is full, or when the flush
\* interval is over.
TakeEvent ==
  /\ pc = "get"
  /\ q # <<>> /\ Head(q) # Sentinel
  /\ q' = Tail(q)
  /\ batch' = batch \cup {Head(q)}
  /\ \/ FlushThen("get")
     \/ Cardinality(batch') < BatchSize /\ UNCHANGED <<pc, back, attempt>>
  /\ UNCHANGED <<unfinished, dropped, closeVars, flushVars, fateVars, offerVars>>

\* get timed out on an empty queue: what is in the batch is due.
Tick ==
  /\ pc = "get"
  /\ q = <<>>
  /\ batch # {}
  /\ FlushThen("get")
  /\ UNCHANGED <<q, unfinished, batch, dropped, closeVars, flushVars, fateVars, offerVars>>

\* Fault: a sentinel that arrives while a batch is open only flushes the batch.
TakeSentinel_OpenBatch ==
  /\ pc = "get"
  /\ q # <<>> /\ Head(q) = Sentinel
  /\ q' = Tail(q)
  /\ IF batch = {}
       THEN pc' = "sentinel" /\ UNCHANGED <<back, attempt>>
       ELSE FlushThen("get")
  /\ UNCHANGED <<unfinished, batch, dropped, closeVars, flushVars, fateVars, offerVars>>

\* Fault: the open batch is not flushed before the drain.
TakeSentinel_ForgetsBatch ==
  /\ pc = "get"
  /\ q # <<>> /\ Head(q) = Sentinel
  /\ q' = Tail(q)
  /\ batch' = {}
  /\ pc' = "sentinel"
  /\ UNCHANGED <<unfinished, back, attempt, dropped, closeVars, flushVars, fateVars, offerVars>>

\* The sentinel: flush the open batch, then drain.
TakeSentinel ==
  /\ pc = "get"
  /\ q # <<>> /\ Head(q) = Sentinel
  /\ q' = Tail(q)
  /\ IF batch = {}
       THEN pc' = "sentinel" /\ UNCHANGED <<back, attempt>>
       ELSE FlushThen("sentinel")
  /\ UNCHANGED <<unfinished, batch, dropped, closeVars, flushVars, fateVars, offerVars>>

SentinelDone ==
  /\ pc = "sentinel"
  /\ TasksDone(1)
  /\ pc' = "drain"
  /\ UNCHANGED <<q, batch, back, attempt, dropped, closeVars, flushVars, fateVars, offerVars>>

DrainTake ==
  /\ pc = "drain"
  /\ q # <<>> /\ Head(q) # Sentinel
  /\ q' = Tail(q)
  /\ batch' = batch \cup {Head(q)}
  /\ IF Cardinality(batch') >= BatchSize THEN FlushThen("drain") ELSE UNCHANGED <<pc, back, attempt>>
  /\ UNCHANGED <<unfinished, dropped, closeVars, flushVars, fateVars, offerVars>>

\* The sentinel of another caller of shutdown.
DrainSentinel ==
  /\ pc = "drain"
  /\ q # <<>> /\ Head(q) = Sentinel
  /\ q' = Tail(q)
  /\ TasksDone(1)
  /\ UNCHANGED <<threadVars, dropped, closeVars, flushVars, fateVars, offerVars>>

DrainEnd ==
  /\ pc = "drain"
  /\ q = <<>>
  /\ IF batch = {} THEN pc' = "exit" /\ UNCHANGED <<back, attempt>> ELSE FlushThen("exit")
  /\ UNCHANGED <<q, unfinished, batch, dropped, closeVars, flushVars, fateVars, offerVars>>

Drained ==
  /\ pc = "exit"
  /\ drained' = TRUE
  /\ pc' = "done"
  /\ UNCHANGED <<q, unfinished, batch, back, attempt, dropped, stop, closed, closer, landed, due, flushVars, fateVars, offerVars>>

-----------------------------------------------------------------------------
(* _flush and _mark_done                                                   *)

\* Fault: the list is not emptied after it was flushed.
EndFlush_KeepsBatch ==
  /\ TasksDone(Cardinality(batch))
  /\ pc' = back
  /\ UNCHANGED batch

\* _flush returned: its events are marked done and the list is emptied.
EndFlush ==
  /\ TasksDone(Cardinality(batch))
  /\ batch' = {}
  /\ pc' = back

\* The POST starts; on a closed client it raises, which counts as a failure.
Post ==
  /\ pc = "send"
  /\ pc' = IF closed THEN "backoff" ELSE "posted"
  /\ UNCHANGED <<q, unfinished, batch, back, attempt, dropped, closeVars, flushVars, fateVars, offerVars>>

Answer202 ==
  /\ pc = "posted"
  /\ shipped' = shipped \cup batch
  /\ EndFlush
  /\ UNCHANGED <<q, back, attempt, dropped, closeVars, flushVars, rejected, exhausted, evicted, offerVars>>

\* A 401, or another status that is not retried.
AnswerRejected ==
  /\ pc = "posted"
  /\ rejected' = rejected \cup batch
  /\ EndFlush
  /\ UNCHANGED <<q, back, attempt, dropped, closeVars, flushVars, shipped, exhausted, evicted, offerVars>>

\* A 429, or an exception: the body does not serialise, or the transport failed.
AnswerRetryable ==
  /\ pc = "posted"
  /\ pc' = "backoff"
  /\ UNCHANGED <<q, unfinished, batch, back, attempt, dropped, closeVars, flushVars, fateVars, offerVars>>

RetryAgain ==
  /\ pc = "backoff"
  /\ attempt < MaxRetries
  /\ attempt' = attempt + 1
  /\ pc' = "send"
  /\ UNCHANGED <<q, unfinished, batch, back, dropped, closeVars, flushVars, fateVars, offerVars>>

GiveUp ==
  /\ pc = "backoff"
  /\ attempt >= MaxRetries
  /\ dropped' = dropped + Cardinality(batch)
  /\ exhausted' = exhausted \cup batch
  /\ EndFlush
  /\ UNCHANGED <<q, back, attempt, closeVars, flushVars, shipped, rejected, evicted, offerVars>>

-----------------------------------------------------------------------------
(* shutdown: the flag is tested and set in two steps.                      *)

CloserGoto(c, from, to) ==
  /\ closer[c] = from
  /\ closer' = [closer EXCEPT ![c] = to]

Shutdown(c) ==
  /\ CloserGoto(c, "out", IF stop THEN "returned" ELSE "set")
  /\ UNCHANGED <<q, unfinished, threadVars, dropped, stop, drained, closed, landed, due, flushVars, fateVars, offerVars>>

SetStop(c) ==
  /\ CloserGoto(c, "set", "put")
  /\ stop' = TRUE
  /\ UNCHANGED <<q, unfinished, threadVars, dropped, drained, closed, landed, due, flushVars, fateVars, offerVars>>

\* put_nowait(_SENTINEL), the first time or after making room.
PutSentinel(c) ==
  /\ CloserGoto(c, "put", "wait") \/ CloserGoto(c, "again", "wait")
  /\ Put(Sentinel)
  /\ landed' = landed \cup {c}
  /\ due' = IF landed = {} THEN accepted ELSE due
  /\ UNCHANGED <<threadVars, dropped, stop, drained, closed, flushVars, fateVars, offerVars>>

\* The queue is full: the first time room is made, the second time the exception
\* is swallowed.
PutFull(c) ==
  /\ CloserGoto(c, "put", "room") \/ CloserGoto(c, "again", "wait")
  /\ Full
  /\ UNCHANGED <<q, unfinished, threadVars, dropped, stop, drained, closed, landed, due, flushVars, fateVars, offerVars>>

\* Fault: the event taken out is not marked done.
MakeRoom_NotDone(c) ==
  /\ CloserGoto(c, "room", "again")
  /\ q # <<>>
  /\ q' = Tail(q)
  /\ evicted' = evicted \cup ({Head(q)} \ {Sentinel})
  /\ UNCHANGED <<unfinished, threadVars, dropped, stop, drained, closed, landed, due, flushVars, shipped, rejected, exhausted, offerVars>>

\* One item is taken out and marked done, but not counted dropped.
MakeRoom(c) ==
  /\ CloserGoto(c, "room", "again")
  /\ q # <<>>
  /\ q' = Tail(q)
  /\ TasksDone(1)
  /\ evicted' = evicted \cup ({Head(q)} \ {Sentinel})
  /\ UNCHANGED <<threadVars, dropped, stop, drained, closed, landed, due, flushVars, shipped, rejected, exhausted, offerVars>>

\* The thread emptied the queue in between: get_nowait raises, and that is
\* swallowed too.
NoRoomNeeded(c) ==
  /\ CloserGoto(c, "room", "wait")
  /\ q = <<>>
  /\ UNCHANGED <<q, unfinished, threadVars, dropped, stop, drained, closed, landed, due, flushVars, fateVars, offerVars>>

\* The drain is over, or timeout passed; either way the sender is closed.
CloseSender(c) ==
  /\ CloserGoto(c, "wait", "returned")
  /\ closed' = TRUE
  /\ UNCHANGED <<q, unfinished, threadVars, dropped, stop, drained, landed, due, flushVars, fateVars, offerVars>>

-----------------------------------------------------------------------------
(* flush                                                                   *)

FlushCall(w) ==
  /\ waiter[w] \in {"idle", "true"}
  /\ waiter' = [waiter EXCEPT ![w] = "poll"]
  /\ promised' = [promised EXCEPT ![w] = accepted]
  /\ UNCHANGED <<q, unfinished, threadVars, dropped, closeVars, fateVars, offerVars>>

FlushTrue(w) ==
  /\ waiter[w] = "poll"
  /\ unfinished = 0
  /\ waiter' = [waiter EXCEPT ![w] = "true"]
  /\ UNCHANGED <<q, unfinished, threadVars, dropped, closeVars, promised, fateVars, offerVars>>

FlushTimeout(w) ==
  /\ waiter[w] = "poll"
  /\ unfinished # 0
  /\ waiter' = [waiter EXCEPT ![w] = "idle"]
  /\ promised' = [promised EXCEPT ![w] = {}]
  /\ UNCHANGED <<q, unfinished, threadVars, dropped, closeVars, fateVars, offerVars>>

-----------------------------------------------------------------------------
Run ==
  \/ TakeEvent \/ Tick \/ TakeSentinel \/ SentinelDone
  \/ DrainTake \/ DrainSentinel \/ DrainEnd \/ Drained
  \/ Post \/ Answer202 \/ AnswerRejected \/ AnswerRetryable \/ RetryAgain \/ GiveUp

Closing(c) ==
  \/ Shutdown(c) \/ SetStop(c) \/ PutSentinel(c) \/ PutFull(c)
  \/ MakeRoom(c) \/ NoRoomNeeded(c) \/ CloseSender(c)

Flush(w) == FlushCall(w) \/ FlushTrue(w) \/ FlushTimeout(w)

Next ==
  \/ \E e \in Event : EnqueueOk(e) \/ EnqueueFull(e)
  \/ Run
  \/ \E c \in Closer : Closing(c)
  \/ \E w \in Waiter : Flush(w)

Spec == Init /\ [][Next]_vars

\* Fairness: the daemon thread is scheduled, get times out, and the client's
\* timeout bounds every POST.
FairSpec == Spec /\ WF_vars(Run)

-----------------------------------------------------------------------------
(* Properties.                                                             *)

\* The variables keep their types; _flush never makes more than MaxRetries
\* attempts, and task_done is never called more often than put.
TypeOK ==
  /\ q \in Seq(Event \cup {Sentinel})
  /\ unfinished \in Nat
  /\ batch \subseteq Event
  /\ pc \in {"get", "send", "posted", "backoff", "sentinel", "drain", "exit", "done"}
  /\ back \in {"get", "sentinel", "drain", "exit"}
  /\ attempt \in 0..MaxRetries
  /\ dropped \in Nat
  /\ stop \in BOOLEAN /\ drained \in BOOLEAN /\ closed \in BOOLEAN
  /\ closer \in [Closer -> {"out", "set", "put", "room", "again", "wait", "returned"}]
  /\ waiter \in [Waiter -> {"idle", "poll", "true"}]
  /\ accepted \subseteq Event /\ overflow \subseteq Event /\ late \subseteq Event
  /\ shipped \subseteq Event /\ rejected \subseteq Event
  /\ exhausted \subseteq Event /\ evicted \subseteq Event
  /\ landed \subseteq Closer /\ due \subseteq Event
  /\ promised \in [Waiter -> SUBSET Event]

\* The thread holds a sentinel it has not marked done.
HoldsSentinel == pc = "sentinel" \/ (back = "sentinel" /\ pc \in {"send", "posted", "backoff"})

\* unfinished_tasks is exact, whatever shutdown takes out of the queue behind
\* the thread's back: it counts what is queued and what the thread holds.  (The
\* types are a part of it.)
TasksExact ==
  /\ TypeOK
  /\ unfinished = Len(q) + Cardinality(batch) + (IF HoldsSentinel THEN 1 ELSE 0)

\* flush keeps its word: when it returns True every event recorded before the
\* call has been shipped or dropped, queued or in flight at the call.
FlushShips == \A w \in Waiter : waiter[w] = "true" => promised[w] \subseteq Settled

\* The drain is complete: when _drained is set, every event recorded before the
\* first sentinel is settled, although shutdowns may race and evict items.
DrainComplete == drained => due \subseteq Settled

\* Once a sentinel is in the queue and no call of shutdown is about to put or make
\* room, the thread drains and stops.  (While two callers race past the flag, one
\* can evict the sentinel of the other, and a producer can take the room that was
\* made for one, which then never lands.)
SentinelDrains ==
  (Sentinel \in {q[i] : i \in DOMAIN q} /\ \A c \in Closer : closer[c] \in {"out", "wait", "returned"}) ~> drained

\* The queue is a bounded sink as well: see Sink.
SinkView ==
  INSTANCE Sink WITH
    pending <- Queued \cup batch,
    settledOk <- shipped,
    settledLost <- rejected \cup exhausted \cup evicted,
    Limit <- MaxQueue + BatchSize

\* The queue and its thread implement it: an event settles with its batch, once,
\* and memory is bounded.
ImplementsSink == SinkView!Spec
=============================================================================
