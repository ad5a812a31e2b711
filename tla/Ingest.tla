------------------------------- MODULE Ingest -------------------------------
(***************************************************************************)
(* One process of the ingest service: the handler of POST /v1/events       *)
(* (internal/httpapi), the TTL dedup set (internal/dedup), the buffer with *)
(* its flush loop (Batch), and the life of the process (cmd/ingest).       *)
(*                                                                         *)
(* A request is one HTTP call.  A client that retries a batch sends        *)
(* another request with the same body.  An event occurrence is a position  *)
(* in the body of a request; its request_id is what dedup looks at.        *)
(***************************************************************************)
EXTENDS Batch, Sequences

CONSTANTS
  Request,      (* the HTTP calls that may arrive, each once                *)
  Id,           (* values of request_id                                     *)
  Body,         (* Body[r] is the sequence of ids in the events array of r  *)
  Invalid,      (* ids whose event fails Validate                           *)
  MaxRestarts   (* bound on the restarts of the process                     *)

ASSUME IngestAssumption ==
  /\ IsFiniteSet(Request)
  /\ Body \in [Request -> Seq(Id)]
  /\ Invalid \subseteq Id
  /\ MaxRestarts \in Nat
  /\ Event = UNION {{<<r, i>> : i \in DOMAIN Body[r]} : r \in Request}
  /\ Caller = Request

\* The limit runServe gives httpapi.New: BatchMaxEvents * 10.
MaxBatch == 10 * MaxEvents

\* The occurrences of a request, and the id of an occurrence.
Occ(r) == {<<r, i>> : i \in DOMAIN Body[r]}
IdOf(e) == Body[e[1]][e[2]]

VARIABLES
  server,     \* "listening", "closing" (http Shutdown), "draining" or "down"
  timedOut,   \* http Shutdown gave up waiting for the handlers
  handler,    \* where the handler of a request stands
  next,       \* index of the loop of handleEvents
  held,       \* its local slice accepted
  status,     \* the answer of a request, 0 while there is none
  seen,       \* ids the dedup set holds
  received,   \* counter EventsReceived
  inserted,   \* counter EventsInserted
  dropped     \* counter EventsDropped

VARIABLES     \* history
  live,       \* occurrences that passed dedup since their id was last forgotten
  gone,       \* events past dedup that were in memory when a process ended
  restarts    \* restarts so far

handlerVars == <<handler, next, held, status>>
processVars == <<server, timedOut, restarts>>
counters == <<received, inserted, dropped>>
dedupVars == <<seen, live>>
ingestVars == <<batchVars, handlerVars, processVars, counters, dedupVars, gone>>

Init ==
  /\ BatchInit
  /\ server = "listening"
  /\ timedOut = FALSE
  /\ handler = [r \in Request |-> "new"]
  /\ next = [r \in Request |-> 1]
  /\ held = [r \in Request |-> {}]
  /\ status = [r \in Request |-> 0]
  /\ seen = {}
  /\ received = 0 /\ inserted = 0 /\ dropped = 0
  /\ live = {}
  /\ gone = {}
  /\ restarts = 0

-----------------------------------------------------------------------------
(* handleEvents                                                            *)

Reply(r, code) ==
  /\ handler' = [handler EXCEPT ![r] = "done"]
  /\ status' = [status EXCEPT ![r] = code]

\* No key, an unknown key, a malformed body, an empty one or one over the limit:
\* answered 401 or 400 before anything is counted; one code stands for both.  The
\* authenticator is another module.
Deny(r) ==
  /\ server = "listening"
  /\ handler[r] = "new"
  /\ handler' = [handler EXCEPT ![r] = "denied"]
  /\ status' = [status EXCEPT ![r] = 401]
  /\ UNCHANGED <<batchVars, next, held, processVars, counters, dedupVars, gone>>

Receive(r) ==
  /\ server = "listening"
  /\ handler[r] = "new"
  /\ Len(Body[r]) \in 1..MaxBatch
  /\ received' = received + Len(Body[r])
  /\ handler' = [handler EXCEPT ![r] = "scan"]
  /\ UNCHANGED <<batchVars, next, held, status, processVars, inserted, dropped, dedupVars, gone>>

Scanning(r) == server # "down" /\ handler[r] = "scan" /\ next[r] <= Len(Body[r])

\* The first invalid event ends the request with 400; the ids before it stay in
\* the dedup set.
ScanInvalid(r) ==
  /\ Scanning(r)
  /\ Body[r][next[r]] \in Invalid
  /\ Reply(r, 400)
  /\ UNCHANGED <<batchVars, next, held, processVars, counters, dedupVars, gone>>

\* dedup.Seen found the id: the event is counted dropped and skipped.
ScanDuplicate(r) ==
  /\ Scanning(r)
  /\ Body[r][next[r]] \in seen \ Invalid
  /\ dropped' = dropped + 1
  /\ next' = [next EXCEPT ![r] = @ + 1]
  /\ UNCHANGED <<batchVars, handler, held, status, processVars, received, inserted, dedupVars, gone>>

\* Fault: Seen answers false and does not record the id.
ScanFresh_Unrecorded(r) ==
  /\ Scanning(r)
  /\ Body[r][next[r]] \notin seen \cup Invalid
  /\ live' = live \cup {<<r, next[r]>>}
  /\ held' = [held EXCEPT ![r] = @ \cup {<<r, next[r]>>}]
  /\ next' = [next EXCEPT ![r] = @ + 1]
  /\ UNCHANGED <<batchVars, handler, status, processVars, counters, seen, gone>>

\* dedup.Seen recorded the id: the event is kept for Add.
ScanFresh(r) ==
  /\ Scanning(r)
  /\ Body[r][next[r]] \notin seen \cup Invalid
  /\ seen' = seen \cup {Body[r][next[r]]}
  /\ live' = live \cup {<<r, next[r]>>}
  /\ held' = [held EXCEPT ![r] = @ \cup {<<r, next[r]>>}]
  /\ next' = [next EXCEPT ![r] = @ + 1]
  /\ UNCHANGED <<batchVars, handler, status, processVars, counters, gone>>

Scanned(r) == server # "down" /\ handler[r] = "scan" /\ next[r] > Len(Body[r])

AllDuplicates(r) ==
  /\ Scanned(r)
  /\ held[r] = {}
  /\ Reply(r, 202)
  /\ UNCHANGED <<batchVars, next, held, processVars, counters, dedupVars, gone>>

Add(r) ==
  /\ Scanned(r)
  /\ held[r] # {}
  /\ AddFits(r, held[r]) \/ AddFull(r, held[r])
  /\ handler' = [handler EXCEPT ![r] = "adding"]
  /\ UNCHANGED <<next, held, status, processVars, counters, dedupVars, gone>>

\* Fault: the handler ignores that the buffer was full.
Answer_IgnoresFull(r) ==
  /\ server # "down"
  /\ handler[r] = "adding"
  /\ AddReturn(r)
  /\ held' = [held EXCEPT ![r] = {}]
  /\ Reply(r, 202)
  /\ UNCHANGED <<next, processVars, counters, dedupVars, gone>>

\* Fault: a refused batch is answered 429 and not counted dropped.
Answer_Uncounted(r) ==
  /\ server # "down"
  /\ handler[r] = "adding"
  /\ AddReturn(r)
  /\ held' = [held EXCEPT ![r] = {}]
  /\ Reply(r, IF call[r].full THEN 429 ELSE 202)
  /\ UNCHANGED <<next, processVars, counters, dedupVars, gone>>

\* Add returns; a full buffer is answered 429, the events counted dropped.
Answer(r) ==
  /\ server # "down"
  /\ handler[r] = "adding"
  /\ AddReturn(r)
  /\ held' = [held EXCEPT ![r] = {}]
  /\ IF call[r].full
       THEN dropped' = dropped + Cardinality(held[r]) /\ Reply(r, 429)
       ELSE Reply(r, 202) /\ UNCHANGED dropped
  /\ UNCHANGED <<next, processVars, received, inserted, dedupVars, gone>>

Handle(r) ==
  \/ Deny(r) \/ Receive(r)
  \/ ScanInvalid(r) \/ ScanDuplicate(r) \/ ScanFresh(r)
  \/ AllDuplicates(r) \/ Add(r) \/ Answer(r)

-----------------------------------------------------------------------------
\* The TTL of an id passes: Seen treats it as new, and evict deletes it.
Expire(x) ==
  /\ server # "down"
  /\ x \in seen
  /\ seen' = seen \ {x}
  /\ live' = {e \in live : IdOf(e) # x}
  /\ UNCHANGED <<batchVars, handlerVars, processVars, counters, gone>>

\* flush counts a batch when it settles it.
CountSettled ==
  /\ inserted' = inserted + Cardinality(written' \ written)
  /\ dropped' = dropped + Cardinality(lost' \ lost)
  /\ UNCHANGED received

FlushLoop ==
  /\ server # "down"
  /\ Loop
  /\ CountSettled
  /\ UNCHANGED <<handlerVars, processVars, dedupVars, gone>>

-----------------------------------------------------------------------------
(* The process: graceful shutdown on SIGTERM, crash, restart.              *)

Busy == \E r \in Request : handler[r] \in {"scan", "adding"}

\* httpServer.Shutdown: no new request is accepted.
Sigterm ==
  /\ server = "listening"
  /\ server' = "closing"
  /\ UNCHANGED <<batchVars, handlerVars, timedOut, restarts, counters, dedupVars, gone>>

\* Fault: runServe drains the buffer without waiting for the handlers.
HttpClosed_NoWait ==
  /\ server = "closing"
  /\ server' = "draining"
  /\ timedOut' = FALSE
  /\ ShutdownBegin
  /\ UNCHANGED <<handlerVars, restarts, counters, dedupVars, gone>>

\* It returns when the handlers are done, or after 30 seconds; the buffer's
\* Shutdown begins either way.
HttpClosed ==
  /\ server = "closing"
  /\ server' = "draining"
  /\ timedOut' = Busy
  /\ ShutdownBegin
  /\ UNCHANGED <<handlerVars, restarts, counters, dedupVars, gone>>

Drain ==
  /\ server = "draining"
  /\ Shutdown
  /\ CountSettled
  /\ UNCHANGED <<handlerVars, processVars, dedupVars, gone>>

\* The process ends and its memory with it: the clients of unanswered requests
\* see a broken connection.
EndProcess ==
  /\ server' = "down"
  /\ gone' = gone \cup buf \cup flight["loop"] \cup flight["main"] \cup UNION {held[r] : r \in Request}
  /\ handler' = [r \in Request |-> IF handler[r] \in {"scan", "adding"} THEN "done" ELSE handler[r]]
  /\ held' = [r \in Request |-> {}]
  /\ next' = [r \in Request |-> IF handler[r] = "new" THEN 1 ELSE Len(Body[r]) + 1]
  /\ seen' = {} /\ live' = {}
  /\ received' = 0 /\ inserted' = 0 /\ dropped' = 0
  /\ BufferReset
  /\ UNCHANGED <<historyVars, status, timedOut, restarts>>

Exit == server = "draining" /\ pc["main"] = "done" /\ EndProcess

\* A kill, or ListenAndServe failing, which makes runServe return undrained.
Crash == server # "down" /\ EndProcess

Restart ==
  /\ server = "down"
  /\ restarts < MaxRestarts
  /\ restarts' = restarts + 1
  /\ server' = "listening"
  /\ timedOut' = FALSE
  /\ UNCHANGED <<batchVars, handlerVars, counters, dedupVars, gone>>

Next ==
  \/ \E r \in Request : Handle(r)
  \/ \E x \in Id : Expire(x)
  \/ FlushLoop
  \/ Sigterm
  \/ HttpClosed
  \/ Drain
  \/ Exit
  \/ Crash
  \/ Restart

Spec == Init /\ [][Next]_ingestVars

(***************************************************************************)
(* Fairness: net/http runs every handler it started, the goroutines of the *)
(* process are scheduled and every insert is bounded by a timeout; the     *)
(* select of the flush loop does not ignore stop for ever (Batch).         *)
(* httpServer.Shutdown returns within 30 seconds.  Requests, signals,      *)
(* crashes, restarts and expiries need not happen.                         *)
(***************************************************************************)
Progress(r) ==
  \/ ScanInvalid(r) \/ ScanDuplicate(r) \/ ScanFresh(r)
  \/ AllDuplicates(r) \/ Add(r) \/ Answer(r)

Fairness ==
  /\ \A r \in Request : WF_ingestVars(Progress(r))
  /\ WF_ingestVars(FlushLoop)
  /\ SF_ingestVars(FlushLoop /\ LoopStop)
  /\ WF_ingestVars(HttpClosed)
  /\ WF_ingestVars(Drain)
  /\ WF_ingestVars(Exit)

FairSpec == Spec /\ Fairness

-----------------------------------------------------------------------------
(* Properties.                                                             *)

\* The variables of the handlers, the process and the counters keep their
\* types, and so do those of the buffer.
IngestTypeOK ==
  /\ TypeOK
  /\ server \in {"listening", "closing", "draining", "down"}
  /\ timedOut \in BOOLEAN
  /\ handler \in [Request -> {"new", "denied", "scan", "adding", "done"}]
  /\ next \in [Request -> Nat \ {0}]
  /\ held \in [Request -> SUBSET Event]
  /\ status \in [Request -> {0, 202, 400, 401, 429}]
  /\ seen \subseteq Id
  /\ received \in Nat /\ inserted \in Nat /\ dropped \in Nat
  /\ live \subseteq Event /\ gone \subseteq Event
  /\ restarts \in 0..MaxRestarts

\* Deduplication: however the handlers of concurrent or repeated requests
\* interleave, a request_id passes dedup once in one process and one TTL.
DedupOnce ==
  /\ \A e, f \in live : IdOf(e) = IdOf(f) => e = f
  /\ \A e \in live : IdOf(e) \in seen

\* Occurrences that passed dedup: with a handler, given to Add, or lost with a
\* process.
Passed == accepted \cup refused \cup gone \cup UNION {held[r] : r \in Request}

\* What a 202 means: each event of the request was taken by Add, or it is a
\* duplicate of another occurrence that passed dedup before.
AckExplained ==
  \A r \in Request : status[r] = 202 =>
    \A e \in Occ(r) :
      \/ e \in accepted
      \/ e \notin Passed /\ \E f \in Passed : IdOf(f) = IdOf(e)

\* Occurrences a running process received and has neither given to Add nor
\* counted dropped; those of a request answered 400 midway stay for ever.
Limbo ==
  (UNION {{e \in Occ(r) : e[2] >= next[r]} : r \in {q \in Request : handler[q] \notin {"new", "denied"}}})
    \cup (UNION {held[r] \ accepted : r \in Request})

\* The counters of a process balance: an event it received is inserted,
\* dropped, in the buffer or in flight, or in a handler (or was abandoned by a
\* 400).  Nothing is counted twice.  (The types are a part of it.)
CountersBalance ==
  /\ IngestTypeOK
  /\ server # "down" =>
       received = inserted + dropped + Cardinality(Limbo \cup buf \cup flight["loop"] \cup flight["main"])

\* A graceful shutdown whose HTTP phase did not time out loses nothing: when the
\* process exits after the drain, no accepted event is in memory.
GracefulExit ==
  [][Exit /\ ~timedOut => gone' \cap accepted \subseteq gone]_ingestVars

\* Every accepted event is inserted, dropped after bounded retries, or was in
\* memory when a process ended.
Settled ==
  \A e \in Event : (e \in accepted) ~> (e \in written \cup lost \cup gone)

\* Events some handler has not finished with.
InHandler == UNION {held[r] : r \in {q \in Request : handler[q] \in {"scan", "adding"}}}

\* The 429 says "buffer full, retry later" (httpapi.go:150) and the clients do
\* (telemetry.py:7: retried with backoff, not dropped).  So an event whose retry
\* is answered 202 should have been enqueued by some request, be with a handler
\* still, or have been lost with a process.
AckedIsEnqueued ==
  \A r \in Request : status[r] = 202 =>
    \A e \in Occ(r) : \E f \in accepted \cup InHandler \cup gone : IdOf(f) = IdOf(e)
=============================================================================
