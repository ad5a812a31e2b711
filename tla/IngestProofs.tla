---------------------------- MODULE IngestProofs ----------------------------
(***************************************************************************)
(* Proofs about Batch and Ingest for every set of requests and bodies (of  *)
(* events and callers, for the buffer alone), every trigger, capacity and   *)
(* number of attempts, and any number of restarts.                          *)
(*                                                                          *)
(* The buffer comes first.  Its safety invariants are not inductive as they *)
(* stand.  IInv adds what they rest on: who holds a batch (Holding), that   *)
(* the drain runs only when the loop is gone (Handover), how many rows an   *)
(* event may have at each point of RetryInsert (RowCount), and that what    *)
(* the drain leaves came late (DrainLeaves).  All of it but the first line  *)
(* of Conservation survives a restart of the process that takes the buffer  *)
(* with it: BufferInv is that part.                                         *)
(*                                                                          *)
(* The proofs about the process rest on BufferInv.  ProcessInv adds how far *)
(* each handler is with its request (Handlers) and what is beyond it        *)
(* (Begun), why an event it passed by is a duplicate (Explained), the       *)
(* account of the counters (Balance), that accepted events leave a trace    *)
(* (Kept), and when the stop channel, the handlers and the process end      *)
(* (Stopping).                                                              *)
(***************************************************************************)
EXTENDS Ingest, SequenceTheorems, FiniteSetTheorems, TLAPS

-----------------------------------------------------------------------------
(* The buffer alone.                                                        *)

\* A flusher has a batch exactly while it inserts it.
Holding ==
  \A w \in Flusher :
    /\ flight[w] # {} <=> pc[w] \in {"insert", "backoff"}
    /\ pc[w] \in {"insert", "backoff"} => attempt[w] \in 1..RetryAttempts
    /\ pc[w] = "backoff" => attempt[w] < RetryAttempts

\* Shutdown's caller leaves "wait" only after the loop is done.
Handover ==
  /\ stop <=> pc["main"] # "serving"
  /\ pc["main"] \notin {"serving", "wait"} => pc["loop"] = "done"

\* The rows of an event at every stage of its life.
RowCount ==
  /\ \A e \in Event \ accepted : rows[e] = 0
  /\ \A e \in buf : rows[e] = 0
  /\ \A w \in Flusher : \A e \in flight[w] :
       /\ pc[w] = "insert" => rows[e] <= attempt[w] - 1
       /\ pc[w] = "backoff" => rows[e] <= attempt[w]
  /\ \A e \in written : rows[e] >= 1
  /\ \A e \in Event : rows[e] <= RetryAttempts

\* Once the drain swapped, the buffer holds only late events.
DrainLeaves == pc["main"] \in {"insert", "backoff", "check", "done"} => buf \subseteq late

\* The places of an event exclude one another, and only Add fills them.
Apart ==
  /\ buf \cup flight["loop"] \cup flight["main"] \cup written \cup lost \subseteq accepted
  /\ buf \cap (flight["loop"] \cup flight["main"] \cup written \cup lost) = {}
  /\ (flight["loop"] \cup flight["main"]) \cap (written \cup lost) = {}
  /\ flight["loop"] \cap flight["main"] = {}
  /\ written \cap lost = {}
  /\ accepted \cap refused = {}

BufferInv ==
  /\ TypeOK
  /\ MemoryBounded
  /\ Apart
  /\ Holding
  /\ Handover
  /\ RowCount
  /\ DrainLeaves
  /\ NoLostWakeup

IInv == BufferInv /\ Conservation

-----------------------------------------------------------------------------
\* New leaves a capacity of at least the trigger, whatever the options.
LEMMA CapacityType == Capacity \in Nat /\ Capacity >= MaxEvents
  BY BatchAssumption DEF Capacity

\* Sets of events are finite, so that their cardinalities are numbers.
LEMMA EventSets ==
  ASSUME NEW S, S \subseteq Event
  PROVE  IsFiniteSet(S) /\ Cardinality(S) \in Nat
  BY BatchAssumption, FS_Subset, FS_CardinalityType

\* The initial state satisfies the inductive invariant.
LEMMA InitIInv == BatchInit => IInv
  <1> SUFFICES ASSUME BatchInit PROVE IInv
    OBVIOUS
  <1> USE DEF BatchInit, BufferInit
  <1>1. Cardinality({}) = 0
    BY FS_EmptySet
  <1>2. TypeOK
    <2>1. Idle \in Calls
      BY DEF Idle, Calls
    <2>2. pc["loop"] = "select" /\ pc["main"] = "serving"
      BY DEF Flusher
    <2>3. pc \in [Flusher -> LoopPoints \cup MainPoints]
      BY DEF Flusher, LoopPoints, MainPoints
    <2>4. attempt \in [Flusher -> 0..RetryAttempts] /\ flight \in [Flusher -> SUBSET Event]
      BY BatchAssumption
    <2> QED
      BY <2>1, <2>2, <2>3, <2>4 DEF TypeOK, LoopPoints, MainPoints
  <1>3. MemoryBounded
    BY <1>1, CapacityType DEF MemoryBounded, Flusher
  <1>4. Conservation
    BY DEF Conservation, Flusher
  <1>5. Holding /\ Handover /\ DrainLeaves
    BY DEF Holding, Handover, DrainLeaves, Flusher
  <1>6. RowCount
    BY BatchAssumption DEF RowCount, Flusher
  <1>7. NoLostWakeup
    BY <1>1, BatchAssumption DEF NoLostWakeup
  <1>8. Apart
    BY DEF Apart, Flusher
  <1> QED
    BY <1>2, <1>3, <1>4, <1>5, <1>6, <1>7, <1>8 DEF IInv, BufferInv

-----------------------------------------------------------------------------
\* The types are kept by every step.
LEMMA StepTypeOK ==
  ASSUME TypeOK, Holding, BatchNext
  PROVE  TypeOK'
  <1> USE DEF TypeOK, Flusher, LoopPoints, MainPoints, Calls, Idle, bufferVars, historyVars
  <1>1. ASSUME NEW c \in Caller, NEW S \in Offers, AddFits(c, S)
        PROVE  TypeOK'
    <2>1. S \subseteq Event
      BY DEF Offers
    <2>2. buf' \subseteq Event /\ Cardinality(buf') \in Nat
      BY <1>1, <2>1, EventSets DEF AddFits
    <2> QED
      BY <1>1, <2>1, <2>2 DEF AddFits
  <1>2. ASSUME NEW c \in Caller, NEW S \in Offers, AddFull(c, S)
        PROVE  TypeOK'
    <2>1. S \subseteq Event
      BY DEF Offers
    <2>2. Cardinality(buf) \in Nat
      BY EventSets
    <2> QED
      BY <1>2, <2>1, <2>2 DEF AddFull
  <1>3. ASSUME NEW c \in Caller, AddReturn(c)
        PROVE  TypeOK'
    BY <1>3 DEF AddReturn
  <1>4. ASSUME LoopTick \/ LoopFlushReq \/ LoopStop
        PROVE  TypeOK'
    BY <1>4 DEF LoopTick, LoopFlushReq, LoopStop, LoopGoto
  <1>5. ASSUME NEW w \in Flusher, Swap(w)
        PROVE  TypeOK'
    BY <1>5, BatchAssumption DEF Swap, Resume
  <1>6. ASSUME NEW w \in Flusher, InsertOk(w)
        PROVE  TypeOK'
    BY <1>6 DEF InsertOk, Settle, Resume, AddRows
  <1>7. ASSUME NEW w \in Flusher, InsertErr(w)
        PROVE  TypeOK'
    BY <1>7 DEF InsertErr, Settle, Resume, AddRows
  <1>8. ASSUME NEW w \in Flusher, BackoffElapsed(w)
        PROVE  TypeOK'
    BY <1>8, BatchAssumption DEF BackoffElapsed, Holding
  <1>9. ASSUME NEW w \in Flusher, BackoffCancelled(w)
        PROVE  TypeOK'
    BY <1>9 DEF BackoffCancelled, Settle, Resume
  <1>10. ASSUME ShutdownBegin \/ ShutdownWait \/ ShutdownEmpty \/ ShutdownCheck
         PROVE  TypeOK'
    BY <1>10 DEF ShutdownBegin, ShutdownWait, ShutdownEmpty, ShutdownCheck, MainGoto
  <1>11. ASSUME ShutdownDrain
         PROVE  TypeOK'
    <2>1. Cardinality(buf) \in Nat
      BY EventSets
    <2> QED
      BY <1>11, <2>1 DEF ShutdownDrain, MainGoto
  <1> QED
    BY <1>1, <1>2, <1>3, <1>4, <1>5, <1>6, <1>7, <1>8, <1>9, <1>10, <1>11
    DEF BatchNext, Loop, Shutdown, Flush

\* The capacity check of Add is made under the mutex.
LEMMA StepMemoryBounded ==
  ASSUME TypeOK, MemoryBounded, Holding, BatchNext
  PROVE  MemoryBounded'
  <1> USE DEF TypeOK, Flusher, MemoryBounded, bufferVars, historyVars
  <1>0. Cardinality({}) = 0 /\ Capacity \in Nat
    BY FS_EmptySet, CapacityType
  <1>1. ASSUME NEW c \in Caller, NEW S \in Offers, AddFits(c, S)
        PROVE  MemoryBounded'
    <2>1. S \subseteq Event /\ IsFiniteSet(S) /\ IsFiniteSet(buf)
      BY EventSets DEF Offers
    <2>2. /\ Cardinality(buf \cup S) = Cardinality(buf) + Cardinality(S) - Cardinality(buf \cap S)
          /\ Cardinality(buf \cap S) \in Nat
          /\ Cardinality(S) \in Nat /\ Cardinality(buf) \in Nat
      BY <2>1, FS_Union, FS_Intersection, FS_CardinalityType
    <2> QED
      BY <1>0, <1>1, <2>2 DEF AddFits
  <1>2. ASSUME NEW w \in Flusher, Swap(w)
        PROVE  MemoryBounded'
    BY <1>0, <1>2 DEF Swap
  <1>3. ASSUME NEW w \in Flusher, InsertOk(w) \/ InsertErr(w) \/ BackoffElapsed(w) \/ BackoffCancelled(w)
        PROVE  MemoryBounded'
    <2>1. buf' = buf
      BY <1>3 DEF InsertOk, InsertErr, BackoffElapsed, BackoffCancelled
    <2>2. \A v \in Flusher : flight'[v] = flight[v] \/ flight'[v] = {}
      BY <1>3 DEF InsertOk, InsertErr, BackoffElapsed, BackoffCancelled, Settle
    <2>3. ASSUME NEW v \in Flusher
          PROVE  Cardinality(flight'[v]) <= Capacity
      <3>1. CASE flight'[v] = flight[v]
        BY <3>1
      <3>2. CASE flight'[v] = {}
        BY <1>0, <3>2
      <3> QED
        BY <2>2, <3>1, <3>2
    <2> QED
      BY <2>1, <2>3
  <1> QED
    BY <1>1, <1>2, <1>3
    DEF BatchNext, Loop, Shutdown, Flush, AddFull, AddReturn, LoopTick, LoopFlushReq, LoopStop,
        LoopGoto, ShutdownBegin, ShutdownWait, ShutdownDrain, ShutdownEmpty, ShutdownCheck, MainGoto

\* Who holds a batch, and who may flush at all.
LEMMA StepHolding ==
  ASSUME TypeOK, Holding, BatchNext
  PROVE  Holding'
  <1> USE BatchAssumption DEF TypeOK, Flusher, Holding, bufferVars, historyVars
  <1>1. ASSUME NEW w \in Flusher, Swap(w)
        PROVE  Holding'
    BY <1>1 DEF Swap, Resume
  <1>2. ASSUME NEW w \in Flusher, InsertOk(w)
        PROVE  Holding'
    BY <1>2 DEF InsertOk, Settle, Resume
  <1>3. ASSUME NEW w \in Flusher, InsertErr(w)
        PROVE  Holding'
    BY <1>3 DEF InsertErr, Settle, Resume
  <1>4. ASSUME NEW w \in Flusher, BackoffElapsed(w)
        PROVE  Holding'
    BY <1>4 DEF BackoffElapsed
  <1>5. ASSUME NEW w \in Flusher, BackoffCancelled(w)
        PROVE  Holding'
    BY <1>5 DEF BackoffCancelled, Settle, Resume
  <1>6. ASSUME LoopTick \/ LoopFlushReq \/ LoopStop
        PROVE  Holding'
    BY <1>6 DEF LoopTick, LoopFlushReq, LoopStop, LoopGoto
  <1>7. ASSUME ShutdownBegin \/ ShutdownWait \/ ShutdownDrain \/ ShutdownEmpty \/ ShutdownCheck
        PROVE  Holding'
    BY <1>7 DEF ShutdownBegin, ShutdownWait, ShutdownDrain, ShutdownEmpty, ShutdownCheck, MainGoto
  <1>8. ASSUME UNCHANGED <<pc, flight, attempt>>
        PROVE  Holding'
    BY <1>8
  <1> QED
    BY <1>1, <1>2, <1>3, <1>4, <1>5, <1>6, <1>7, <1>8
    DEF BatchNext, Loop, Shutdown, Flush, AddFits, AddFull, AddReturn

\* The drain begins only after the loop is done.
LEMMA StepHandover ==
  ASSUME TypeOK, Handover, BatchNext
  PROVE  Handover'
  <1> USE DEF TypeOK, Flusher, Handover, bufferVars, historyVars
  <1>1. ASSUME NEW w \in Flusher, Flush(w)
        PROVE  Handover'
    BY <1>1 DEF Flush, Swap, InsertOk, InsertErr, BackoffElapsed, BackoffCancelled, Settle, Resume
  <1>2. ASSUME LoopTick \/ LoopFlushReq \/ LoopStop
        PROVE  Handover'
    BY <1>2 DEF LoopTick, LoopFlushReq, LoopStop, LoopGoto
  <1>3. ASSUME ShutdownBegin \/ ShutdownWait \/ ShutdownDrain \/ ShutdownEmpty \/ ShutdownCheck
        PROVE  Handover'
    BY <1>3 DEF ShutdownBegin, ShutdownWait, ShutdownDrain, ShutdownEmpty, ShutdownCheck, MainGoto
  <1> QED
    BY <1>1, <1>2, <1>3 DEF BatchNext, Loop, Shutdown, AddFits, AddFull, AddReturn

\* Only one flusher can hold a batch.
LEMMA OneHolder ==
  ASSUME TypeOK, Holding, Handover
  PROVE  OneFlusher
  BY DEF TypeOK, Holding, Handover, OneFlusher, Flusher, MainPoints

\* The places of an event: each action moves whole batches between them.
LEMMA StepApart ==
  ASSUME TypeOK, Holding, Handover, Apart, BatchNext
  PROVE  Apart'
  <1> USE DEF TypeOK, Flusher, Apart, bufferVars, historyVars
  <1>1. ASSUME NEW c \in Caller, NEW S \in Offers, AddFits(c, S) \/ AddFull(c, S)
        PROVE  Apart'
    BY <1>1 DEF AddFits, AddFull, Offers
  <1>2. ASSUME NEW w \in Flusher, Swap(w)
        PROVE  Apart'
    <2>1. flight[w] = {}
      BY <1>2 DEF Swap, Holding
    <2> QED
      BY <1>2, <2>1 DEF Swap
  <1>3. ASSUME NEW w \in Flusher, InsertOk(w)
        PROVE  Apart'
    <2>1. OneFlusher
      BY OneHolder
    <2> QED
      BY <1>3, <2>1 DEF InsertOk, Settle, OneFlusher
  <1>4. ASSUME NEW w \in Flusher, InsertErr(w) \/ BackoffCancelled(w)
        PROVE  Apart'
    <2>1. OneFlusher
      BY OneHolder
    <2>2. \/ UNCHANGED <<flight, lost>>
          \/ lost' = lost \cup flight[w] /\ flight' = [flight EXCEPT ![w] = {}]
      BY <1>4 DEF InsertErr, BackoffCancelled, Settle
    <2>3. UNCHANGED <<buf, accepted, refused, written>>
      BY <1>4 DEF InsertErr, BackoffCancelled
    <2> QED
      BY <2>1, <2>2, <2>3 DEF OneFlusher
  <1>5. ASSUME UNCHANGED <<buf, flight, accepted, refused, written, lost>>
        PROVE  Apart'
    BY <1>5
  <1> QED
    BY <1>1, <1>2, <1>3, <1>4, <1>5
    DEF BatchNext, Loop, Shutdown, Flush, BackoffElapsed, AddReturn, LoopTick, LoopFlushReq,
        LoopStop, LoopGoto, ShutdownBegin, ShutdownWait, ShutdownDrain, ShutdownEmpty,
        ShutdownCheck, MainGoto

\* No action lets an event go otherwise than to be counted.
LEMMA StepConservation ==
  ASSUME TypeOK, Holding, Conservation, Apart', BatchNext
  PROVE  Conservation'
  <1> USE DEF TypeOK, Flusher, bufferVars, historyVars
  <1> DEFINE places == buf \cup flight["loop"] \cup flight["main"] \cup written \cup lost
  <1>0. accepted = places
    BY DEF Conservation
  <1>1. ASSUME NEW c \in Caller, NEW S \in Offers, AddFits(c, S) \/ AddFull(c, S)
        PROVE  accepted' = places'
    BY <1>0, <1>1 DEF AddFits, AddFull
  <1>2. ASSUME NEW w \in Flusher, Swap(w)
        PROVE  accepted' = places'
    <2>1. flight[w] = {}
      BY <1>2 DEF Swap, Holding
    <2> QED
      BY <1>0, <1>2, <2>1 DEF Swap
  <1>3. ASSUME NEW w \in Flusher, InsertOk(w)
        PROVE  accepted' = places'
    BY <1>0, <1>3 DEF InsertOk, Settle
  <1>4. ASSUME NEW w \in Flusher, InsertErr(w) \/ BackoffCancelled(w)
        PROVE  accepted' = places'
    <2>1. /\ UNCHANGED <<buf, accepted, written>>
          /\ \/ UNCHANGED <<flight, lost>>
             \/ lost' = lost \cup flight[w] /\ flight' = [flight EXCEPT ![w] = {}]
      BY <1>4 DEF InsertErr, BackoffCancelled, Settle
    <2> QED
      BY <1>0, <2>1
  <1>5. ASSUME UNCHANGED <<buf, flight, accepted, written, lost>>
        PROVE  accepted' = places'
    BY <1>0, <1>5
  <1>6. accepted' = places'
    BY <1>1, <1>2, <1>3, <1>4, <1>5
    DEF BatchNext, Loop, Shutdown, Flush, BackoffElapsed, AddReturn, LoopTick, LoopFlushReq,
        LoopStop, LoopGoto, ShutdownBegin, ShutdownWait, ShutdownDrain, ShutdownEmpty,
        ShutdownCheck, MainGoto
  <1> QED
    BY <1>6 DEF Apart, Conservation

\* The number of rows never runs ahead of the attempts made.
LEMMA StepRowCount ==
  ASSUME TypeOK, Holding, Handover, Apart, RowCount, BatchNext
  PROVE  RowCount'
  <1> USE BatchAssumption DEF TypeOK, Flusher, RowCount, bufferVars, historyVars
  <1>0. OneFlusher
    BY OneHolder
  <1>1. ASSUME NEW c \in Caller, NEW S \in Offers, AddFits(c, S)
        PROVE  RowCount'
    <2>1. S \subseteq Event \ accepted
      BY DEF Offers
    <2> QED
      BY <1>1, <2>1 DEF AddFits
  <1>2. ASSUME NEW w \in Flusher, Swap(w)
        PROVE  RowCount'
    BY <1>2 DEF Swap, Resume
  <1>3. ASSUME NEW w \in Flusher, InsertOk(w)
        PROVE  RowCount'
    <2>1. flight[w] \subseteq accepted /\ flight[w] \cap buf = {}
      BY DEF Apart
    <2>2. \A v \in Flusher : flight'[v] = {}
      BY <1>0, <1>3 DEF InsertOk, Settle, OneFlusher, Holding
    <2>3. \A e \in flight[w] : rows[e] <= attempt[w] - 1 /\ attempt[w] <= RetryAttempts
      BY <1>3 DEF InsertOk, Holding
    <2> QED
      BY <1>3, <2>1, <2>2, <2>3 DEF InsertOk, AddRows
  <1>4. ASSUME NEW w \in Flusher, InsertErr(w)
        PROVE  RowCount'
    <2>1. /\ flight[w] \subseteq accepted
          /\ flight[w] \cap buf = {}
          /\ flight[w] \cap written = {}
      BY DEF Apart
    <2>2. \A e \in flight[w] : rows[e] <= attempt[w] - 1 /\ attempt[w] <= RetryAttempts
      BY <1>4 DEF InsertErr, Holding
    <2>3. UNCHANGED <<buf, accepted, written, attempt>>
      BY <1>4 DEF InsertErr
    <2>4. rows' = rows \/ rows' = AddRows(flight[w])
      BY <1>4 DEF InsertErr
    <2>5. \A e \in Event :
            /\ e \notin flight[w] => rows'[e] = rows[e]
            /\ e \in flight[w] => rows'[e] <= attempt[w]
            /\ rows'[e] \in Nat
      BY <2>2, <2>4 DEF AddRows
    <2>6. \A v \in Flusher : v # w => flight'[v] = {}
      BY <1>0, <1>4 DEF InsertErr, Settle, OneFlusher, Holding
    <2>7. \/ flight'[w] = {}
          \/ flight'[w] = flight[w] /\ pc'[w] = "backoff"
      BY <1>4 DEF InsertErr, Settle
    <2>8. \A v \in Flusher : \A e \in flight'[v] :
            /\ pc'[v] = "insert" => rows'[e] <= attempt'[v] - 1
            /\ pc'[v] = "backoff" => rows'[e] <= attempt'[v]
      BY <2>3, <2>5, <2>6, <2>7
    <2>9. \A e \in written : rows'[e] = rows[e]
      BY <2>1, <2>5
    <2>10. \A e \in Event : rows'[e] <= RetryAttempts
      BY <2>2, <2>5
    <2> QED
      BY <2>1, <2>3, <2>5, <2>8, <2>9, <2>10
  <1>5. ASSUME NEW w \in Flusher, BackoffElapsed(w)
        PROVE  RowCount'
    BY <1>5 DEF BackoffElapsed
  <1>6. ASSUME NEW w \in Flusher, BackoffCancelled(w)
        PROVE  RowCount'
    BY <1>6 DEF BackoffCancelled, Settle, Resume
  <1>7. ASSUME LoopTick \/ LoopFlushReq \/ LoopStop
        PROVE  RowCount'
    BY <1>7 DEF LoopTick, LoopFlushReq, LoopStop, LoopGoto
  <1>8. ASSUME ShutdownBegin \/ ShutdownWait \/ ShutdownDrain \/ ShutdownEmpty \/ ShutdownCheck
        PROVE  RowCount'
    BY <1>8 DEF ShutdownBegin, ShutdownWait, ShutdownDrain, ShutdownEmpty, ShutdownCheck, MainGoto
  <1>9. ASSUME UNCHANGED <<buf, pc, flight, attempt, rows, accepted, written>>
        PROVE  RowCount'
    BY <1>9
  <1> QED
    BY <1>1, <1>2, <1>3, <1>4, <1>5, <1>6, <1>7, <1>8, <1>9
    DEF BatchNext, Loop, Shutdown, Flush, AddFull, AddReturn

\* What is added after stop is late, so once the drain swapped only late events remain.
LEMMA StepDrainLeaves ==
  ASSUME TypeOK, Handover, DrainLeaves, BatchNext
  PROVE  DrainLeaves'
  <1> USE DEF TypeOK, Flusher, DrainLeaves, bufferVars, historyVars
  <1>1. ASSUME NEW c \in Caller, NEW S \in Offers, AddFits(c, S)
        PROVE  DrainLeaves'
    BY <1>1 DEF AddFits, Handover
  <1>2. ASSUME NEW w \in Flusher, Flush(w)
        PROVE  DrainLeaves'
    BY <1>2 DEF Flush, Swap, InsertOk, InsertErr, BackoffElapsed, BackoffCancelled, Settle, Resume
  <1>3. ASSUME LoopTick \/ LoopFlushReq \/ LoopStop
        PROVE  DrainLeaves'
    BY <1>3 DEF LoopTick, LoopFlushReq, LoopStop, LoopGoto
  <1>4. ASSUME ShutdownBegin \/ ShutdownWait \/ ShutdownDrain \/ ShutdownEmpty \/ ShutdownCheck
        PROVE  DrainLeaves'
    BY <1>4 DEF ShutdownBegin, ShutdownWait, ShutdownDrain, ShutdownEmpty, ShutdownCheck, MainGoto
  <1> QED
    BY <1>1, <1>2, <1>3, <1>4 DEF BatchNext, Loop, Shutdown, AddFull, AddReturn

\* The signal that belongs to a crossing of the trigger is never lost.
LEMMA StepNoLostWakeup ==
  ASSUME TypeOK, Handover, NoLostWakeup, BatchNext
  PROVE  NoLostWakeup'
  <1> USE BatchAssumption DEF TypeOK, Flusher, NoLostWakeup, Calls, Idle, bufferVars, historyVars
  <1>0. Cardinality({}) = 0
    BY FS_EmptySet
  <1>1. ASSUME NEW c \in Caller, NEW S \in Offers, AddFits(c, S)
        PROVE  NoLostWakeup'
    BY <1>1 DEF AddFits
  <1>2. ASSUME NEW c \in Caller, NEW S \in Offers, AddFull(c, S)
        PROVE  NoLostWakeup'
    BY <1>2 DEF AddFull
  <1>3. ASSUME NEW c \in Caller, AddReturn(c)
        PROVE  NoLostWakeup'
    BY <1>3 DEF AddReturn
  <1>4. ASSUME NEW w \in Flusher, Swap(w)
        PROVE  NoLostWakeup'
    BY <1>0, <1>4 DEF Swap
  <1>5. ASSUME NEW w \in Flusher, InsertOk(w) \/ InsertErr(w) \/ BackoffElapsed(w) \/ BackoffCancelled(w)
        PROVE  NoLostWakeup'
    <2>1. UNCHANGED <<buf, flushReq, call>>
      BY <1>5 DEF InsertOk, InsertErr, BackoffElapsed, BackoffCancelled
    <2>2. pc["loop"] \in {"swap", "done"} => pc'["loop"] = pc["loop"]
      BY <1>5 DEF InsertOk, InsertErr, BackoffElapsed, BackoffCancelled, Settle
    <2> QED
      BY <2>1, <2>2
  <1>6. ASSUME LoopTick \/ LoopFlushReq \/ LoopStop
        PROVE  NoLostWakeup'
    BY <1>6 DEF LoopTick, LoopFlushReq, LoopStop, LoopGoto
  <1>7. ASSUME ShutdownBegin \/ ShutdownWait \/ ShutdownDrain \/ ShutdownEmpty \/ ShutdownCheck
        PROVE  NoLostWakeup'
    BY <1>7 DEF ShutdownBegin, ShutdownWait, ShutdownDrain, ShutdownEmpty, ShutdownCheck, MainGoto
  <1> QED
    BY <1>1, <1>2, <1>3, <1>4, <1>5, <1>6, <1>7 DEF BatchNext, Loop, Shutdown, Flush

-----------------------------------------------------------------------------
\* What does not depend on the life of the process is kept by every step.
LEMMA StepBufferInv ==
  ASSUME BufferInv, BatchNext
  PROVE  BufferInv'
  BY StepTypeOK, StepMemoryBounded, StepApart, StepHolding, StepHandover, StepRowCount,
     StepDrainLeaves, StepNoLostWakeup DEF BufferInv

\* Nor does it change with the variables unchanged.
LEMMA SameBufferInv ==
  ASSUME BufferInv, UNCHANGED batchVars
  PROVE  BufferInv'
  BY DEF BufferInv, TypeOK, MemoryBounded, Apart, Holding, Handover, RowCount, DrainLeaves,
         NoLostWakeup, batchVars, bufferVars, historyVars

\* Every step keeps the inductive invariant.
LEMMA StepIInv == IInv /\ [BatchNext]_batchVars => IInv'
  <1>1. ASSUME IInv, BatchNext
        PROVE  IInv'
    <2>1. BufferInv'
      BY <1>1, StepBufferInv DEF IInv
    <2> QED
      BY <1>1, <2>1, StepConservation DEF IInv, BufferInv
  <1>2. ASSUME IInv, UNCHANGED batchVars
        PROVE  IInv'
    BY <1>2, SameBufferInv DEF IInv, Conservation, batchVars, bufferVars, historyVars
  <1> QED
    BY <1>1, <1>2

\* The inductive invariant holds in every reachable state of Batch.
THEOREM BatchInductive == BatchSpec => []IInv
  <1> QED
    BY InitIInv, StepIInv, PTL DEF BatchSpec

\* Type correctness; among others RetryInsert never exceeds its attempts.
THEOREM BatchTypeCorrect == BatchSpec => []TypeOK
  <1>1. IInv => TypeOK
    BY DEF IInv, BufferInv
  <1> QED
    BY <1>1, BatchInductive, PTL

\* Add's check under the mutex bounds the memory, for every interleaving of any
\* number of handlers with the loop and the shutdown.
THEOREM BatchMemoryBounded == BatchSpec => []MemoryBounded
  <1>1. IInv => MemoryBounded
    BY DEF IInv, BufferInv
  <1> QED
    BY <1>1, BatchInductive, PTL

\* No accepted event vanishes or is in two places, until its batch is settled.
THEOREM BatchConservation == BatchSpec => []Conservation
  <1>1. IInv => Conservation
    BY DEF IInv, BufferInv
  <1> QED
    BY <1>1, BatchInductive, PTL

\* The loop and Shutdown's drain never insert at the same time.
THEOREM BatchOneFlusher == BatchSpec => []OneFlusher
  <1>1. IInv => OneFlusher
    BY OneHolder DEF IInv, BufferInv
  <1> QED
    BY <1>1, BatchInductive, PTL

\* What the counters say of an event agrees with its rows in the table.
THEOREM BatchStoreAgrees == BatchSpec => []StoreAgrees
  <1>1. IInv => StoreAgrees
    BY DEF IInv, BufferInv, StoreAgrees, RowCount, Conservation, TypeOK
  <1> QED
    BY <1>1, BatchInductive, PTL

\* Shutdown leaves nothing behind that was added before it began.
THEOREM BatchCleanDrain == BatchSpec => []CleanDrain
  <1>1. IInv => CleanDrain
    BY DEF IInv, BufferInv, DrainLeaves, CleanDrain
  <1> QED
    BY <1>1, BatchInductive, PTL

\* A buffer over the trigger always has a flush on its way.
THEOREM BatchNoLostWakeup == BatchSpec => []NoLostWakeup
  <1>1. IInv => NoLostWakeup
    BY DEF IInv, BufferInv
  <1> QED
    BY <1>1, BatchInductive, PTL

-----------------------------------------------------------------------------
(* Batch implements Sink.                                                  *)

\* Two sets of events that fit the capacity fit twice the capacity together.
LEMMA UnionFits ==
  ASSUME NEW S, S \subseteq Event, NEW T, T \subseteq Event,
         Cardinality(S) <= Capacity, Cardinality(T) <= Capacity
  PROVE  Cardinality(S \cup T) <= 2 * Capacity
  <1>1. IsFiniteSet(S) /\ IsFiniteSet(T) /\ IsFiniteSet(S \cap T)
    BY EventSets, FS_Subset
  <1>2. Cardinality(S) \in Nat /\ Cardinality(T) \in Nat /\ Cardinality(S \cap T) \in Nat
    BY <1>1, FS_CardinalityType
  <1>3. Cardinality(S \cup T) = Cardinality(S) + Cardinality(T) - Cardinality(S \cap T)
    BY <1>1, FS_Union
  <1> QED
    BY <1>2, <1>3, CapacityType

\* The initial state of Batch is one of Sink.
LEMMA InitSink == BatchInit => SinkView!Init
  BY DEF BatchInit, BufferInit, SinkView!Init, Flusher

\* Every step of Batch is a step of Sink or leaves its variables alone: AddFits
\* accepts, a successful insert writes, giving a batch up loses, the rest stutters.
LEMMA StepSink ==
  ASSUME IInv, IInv', [BatchNext]_batchVars
  PROVE  [SinkView!Next]_SinkView!vars
  <1> USE DEF SinkView!vars, SinkView!Next, TypeOK, Flusher, bufferVars, historyVars
  <1> DEFINE pend == buf \cup flight["loop"] \cup flight["main"]
  <1>0. TypeOK /\ Holding /\ Conservation /\ OneFlusher
    BY OneHolder DEF IInv, BufferInv
  <1>1. ASSUME NEW c \in Caller, NEW S \in Offers, AddFits(c, S)
        PROVE  SinkView!Accept
    <2>1. S \in (SUBSET SinkView!Fresh) \ {{}}
      BY <1>0 DEF Offers, SinkView!Fresh, Conservation
    <2>2. pend' = pend \cup S /\ UNCHANGED <<written, lost>>
      BY <1>1 DEF AddFits
    <2>3. Cardinality(pend \cup S) <= 2 * Capacity
      <3> DEFINE F == flight["loop"] \cup flight["main"]
      <3>1. F = flight["loop"] \/ F = flight["main"]
        BY <1>0 DEF OneFlusher
      <3>2. F \subseteq Event /\ buf \cup S \subseteq Event
        BY <1>0 DEF Offers
      <3>3. Cardinality(F) <= Capacity
        BY <3>1 DEF IInv, BufferInv, MemoryBounded
      <3>4. buf' = buf \cup S /\ Cardinality(buf') <= Capacity
        BY <1>1 DEF AddFits, IInv, BufferInv, MemoryBounded
      <3>5. Cardinality((buf \cup S) \cup F) <= 2 * Capacity
        BY <3>2, <3>3, <3>4, UnionFits
      <3>6. (buf \cup S) \cup F = pend \cup S
        OBVIOUS
      <3> QED
        BY <3>5, <3>6
    <2>4. SinkView!Cardinality(pend \cup S) = Cardinality(pend \cup S)
      BY DEF SinkView!Cardinality, Cardinality
    <2> QED
      BY <2>1, <2>2, <2>3, <2>4 DEF SinkView!Accept
  <1>2. ASSUME NEW w \in Flusher, Swap(w)
        PROVE  UNCHANGED <<pend, written, lost>>
    BY <1>0, <1>2 DEF Swap, Holding
  <1>3. ASSUME NEW w \in Flusher, InsertOk(w)
        PROVE  SinkView!Write
    <2>1. flight[w] \in (SUBSET pend) \ {{}}
      BY <1>0, <1>3 DEF InsertOk, Holding
    <2>2. pend' = pend \ flight[w] /\ written' = written \cup flight[w] /\ UNCHANGED lost
      BY <1>0, <1>3 DEF InsertOk, Settle, Conservation, OneFlusher
    <2> QED
      BY <2>1, <2>2 DEF SinkView!Write
  <1>4. ASSUME NEW w \in Flusher, InsertErr(w) \/ BackoffCancelled(w)
        PROVE  SinkView!Lose \/ UNCHANGED <<pend, written, lost>>
    <2>1. flight[w] \in (SUBSET pend) \ {{}}
      BY <1>0, <1>4 DEF InsertErr, BackoffCancelled, Holding
    <2>2. /\ UNCHANGED <<buf, written>>
          /\ \/ UNCHANGED <<flight, lost>>
             \/ lost' = lost \cup flight[w] /\ flight' = [flight EXCEPT ![w] = {}]
      BY <1>4 DEF InsertErr, BackoffCancelled, Settle
    <2>3. CASE UNCHANGED <<flight, lost>>
      BY <2>2, <2>3
    <2>4. CASE lost' = lost \cup flight[w] /\ flight' = [flight EXCEPT ![w] = {}]
      <3>1. pend' = pend \ flight[w]
        BY <1>0, <2>1, <2>2, <2>4 DEF Conservation, OneFlusher
      <3> QED
        BY <2>1, <2>2, <2>4, <3>1 DEF SinkView!Lose
    <2> QED
      BY <2>2, <2>3, <2>4
  <1>5. ASSUME \/ \E c \in Caller, S \in Offers : AddFull(c, S)
               \/ \E c \in Caller : AddReturn(c)
               \/ \E w \in Flusher : BackoffElapsed(w)
               \/ LoopTick \/ LoopFlushReq \/ LoopStop
               \/ ShutdownBegin \/ ShutdownWait \/ ShutdownDrain \/ ShutdownEmpty \/ ShutdownCheck
               \/ UNCHANGED batchVars
        PROVE  UNCHANGED <<pend, written, lost>>
    BY <1>5
    DEF AddFull, AddReturn, BackoffElapsed, LoopTick, LoopFlushReq, LoopStop, LoopGoto, ShutdownBegin,
        ShutdownWait, ShutdownDrain, ShutdownEmpty, ShutdownCheck, MainGoto, batchVars
  <1> QED
    BY <1>1, <1>2, <1>3, <1>4, <1>5 DEF BatchNext, Loop, Shutdown, Flush

\* The buffer, its flush loop and its shutdown implement the bounded sink.
THEOREM BatchImplementsSink == BatchSpec => ImplementsSink
  <1>1. IInv /\ IInv' /\ [BatchNext]_batchVars => [SinkView!Next]_SinkView!vars
    BY StepSink
  <1> QED
    BY <1>1, InitSink, BatchInductive, PTL DEF BatchSpec, ImplementsSink, SinkView!Spec

-----------------------------------------------------------------------------
(* The ingest process around it.                                            *)

\* Where a handler is: what it holds is behind its index; Add took or refused all
\* of it, or nothing of it.
Placed(r) ==
  /\ next[r] \in 1..(Len(Body[r]) + 1)
  /\ handler[r] \in {"new", "denied"} => held[r] = {}
  /\ handler[r] = "new" => next[r] = 1
  /\ \A e \in held[r] : e \in Occ(r) /\ e[2] < next[r]
  /\ handler[r] = "adding" =>
       /\ call[r] # Idle /\ next[r] > Len(Body[r])
       /\ held[r] \subseteq IF call[r].full THEN refused ELSE accepted
  /\ handler[r] # "adding" => call[r] = Idle /\ held[r] \cap (accepted \cup refused) = {}
  /\ status[r] # 0 => handler[r] \in {"denied", "done"}

Handlers == \A r \in Request : Placed(r)

\* An event ahead of the index of its handler went nowhere yet.
Begun == \A e \in accepted \cup refused \cup gone : e[2] < next[e[1]]

\* An event passed by, because another one with its id passed dedup.
Duplicate(e) == e \notin Passed /\ \E f \in Passed : IdOf(f) = IdOf(e)

\* An event behind the index of a handler that runs is held or a duplicate.
Behind(r) ==
  handler[r] \in {"scan", "adding"} =>
    \A e \in Occ(r) : e[2] < next[r] => e \in held[r] \/ Duplicate(e)

\* Dedup knows only ids of events that passed it, and a handler skips only those.
Explained ==
  /\ \A id \in seen : \E f \in Passed : IdOf(f) = id
  /\ \A r \in Request : Behind(r)
  /\ AckExplained

\* The events a process received that are not counted yet.
Pending == Limbo \cup buf \cup flight["loop"] \cup flight["main"]

Balance == received = inserted + dropped + Cardinality(Pending)

\* The safety half of Settled: an event Add took is in the buffer or in flight, is
\* settled, or was in memory when a process ended.
Kept == accepted \subseteq buf \cup flight["loop"] \cup flight["main"] \cup written \cup lost \cup gone

\* stop is closed when the HTTP server is; from then on no handler runs unless its
\* shutdown timed out.  Nothing is left of a process that ended.
Stopping ==
  /\ stop <=> server = "draining"
  /\ stop /\ ~timedOut => ~Busy
  /\ late \subseteq accepted
  /\ ~stop \/ ~timedOut => buf \cap late = {}
  /\ server = "down" => ~Busy /\ \A r \in Request : held[r] = {}

ProcessInv ==
  /\ IngestTypeOK
  /\ BufferInv
  /\ DedupOnce
  /\ Handlers
  /\ Begun
  /\ Explained
  /\ Balance
  /\ Kept
  /\ Stopping

-----------------------------------------------------------------------------
(* Occurrences of events.                                                   *)

\* An occurrence is a position in the body of one request.
LEMMA Occurrences ==
  /\ \A r \in Request : Body[r] \in Seq(Id) /\ Len(Body[r]) \in Nat
  /\ \A r \in Request : \A i \in 1..Len(Body[r]) :
       /\ <<r, i>> \in Occ(r) /\ <<r, i>> \in Event
       /\ IdOf(<<r, i>>) = Body[r][i] /\ Body[r][i] \in Id
  /\ \A e \in Event : e[1] \in Request /\ e[2] \in 1..Len(Body[e[1]]) /\ e = <<e[1], e[2]>> /\ e \in Occ(e[1])
  /\ \A r \in Request : \A e \in Occ(r) : e \in Event /\ e[1] = r
  <1>1. \A r \in Request : Body[r] \in Seq(Id)
    BY IngestAssumption
  <1>2. \A r \in Request :
          /\ Len(Body[r]) \in Nat /\ DOMAIN Body[r] = 1..Len(Body[r])
          /\ Body[r] \in [1..Len(Body[r]) -> Id]
    BY <1>1, LenProperties
  <1>3. Event = UNION {{<<r, i>> : i \in DOMAIN Body[r]} : r \in Request}
    BY IngestAssumption
  <1>4. ASSUME NEW r \in Request, NEW i \in 1..Len(Body[r])
        PROVE  /\ <<r, i>> \in Occ(r) /\ <<r, i>> \in Event
               /\ IdOf(<<r, i>>) = Body[r][i] /\ Body[r][i] \in Id
    BY <1>2, <1>3 DEF Occ, IdOf
  <1>5. ASSUME NEW e \in Event
        PROVE  e[1] \in Request /\ e[2] \in 1..Len(Body[e[1]]) /\ e = <<e[1], e[2]>> /\ e \in Occ(e[1])
    <2>0. PICK r \in Request : \E i \in DOMAIN Body[r] : e = <<r, i>>
      BY <1>3
    <2>1. PICK i \in DOMAIN Body[r] : e = <<r, i>>
      BY <2>0
    <2>2. e[1] = r /\ e[2] = i
      BY <2>1
    <2> QED
      BY <1>2, <2>1, <2>2 DEF Occ
  <1>6. ASSUME NEW r \in Request, NEW e \in Occ(r)
        PROVE  e \in Event /\ e[1] = r
    <2>1. PICK i \in DOMAIN Body[r] : e = <<r, i>>
      BY DEF Occ
    <2> QED
      BY <1>3, <2>1
  <1> QED
    BY <1>1, <1>2, <1>4, <1>5, <1>6

-----------------------------------------------------------------------------
(* The steps of a process that are not a handler's, and its end.            *)

Background ==
  \/ \E x \in Id : Expire(x)
  \/ FlushLoop \/ Sigterm \/ HttpClosed \/ Drain \/ Restart

\* A step is one of a handler, one of the process behind it (flush loop, main
\* goroutine, clock) or the end of the process.
LEMMA NextSplits ==
  ASSUME Next
  PROVE  (\E r \in Request : Handle(r)) \/ Background \/ EndProcess
  BY DEF Next, Background, Exit, Crash

\* The flush loop and the drain take no event in and hand none back.
LEMMA FlushFrame ==
  ASSUME Loop \/ Shutdown \/ ShutdownBegin
  PROVE  UNCHANGED <<accepted, refused, late, call>>
  BY DEF Loop, Shutdown, ShutdownBegin, Flush, Swap, InsertOk, InsertErr, BackoffElapsed, BackoffCancelled,
         LoopTick, LoopFlushReq, LoopStop, LoopGoto, ShutdownWait, ShutdownDrain, ShutdownEmpty,
         ShutdownCheck, MainGoto, historyVars

\* What runs behind the handlers moves no handler, and none of what only Add
\* decides: accepted, refused, late.
LEMMA BackgroundFrame ==
  ASSUME Background
  PROVE  UNCHANGED <<handlerVars, accepted, refused, late, call, gone>>
  <1>1. CASE FlushLoop \/ Drain \/ HttpClosed
    BY <1>1, FlushFrame DEF FlushLoop, Drain, HttpClosed, handlerVars
  <1>2. CASE (\E x \in Id : Expire(x)) \/ Sigterm \/ Restart
    BY <1>2 DEF Expire, Sigterm, Restart, batchVars, bufferVars, historyVars
  <1> QED
    BY <1>1, <1>2 DEF Background

\* The end of a process leaves a fresh buffer, in which the invariant holds.
LEMMA ResetBufferInv ==
  ASSUME BufferInv, EndProcess
  PROVE  BufferInv'
  <1> USE DEF Flusher, historyVars
  <1>1. /\ buf' = {} /\ flushReq' = FALSE /\ stop' = FALSE /\ before' = 0
        /\ pc' = [w \in Flusher |-> IF w = "loop" THEN "select" ELSE "serving"]
        /\ flight' = [w \in Flusher |-> {}]
        /\ attempt' = [w \in Flusher |-> 0]
        /\ call' = [c \in Caller |-> Idle]
        /\ UNCHANGED <<rows, accepted, refused, written, lost, late>>
    BY DEF EndProcess, BufferReset
  <1>2. pc'["loop"] = "select" /\ pc'["main"] = "serving" /\ Cardinality({}) = 0 /\ Idle \in Calls
    BY <1>1, FS_EmptySet DEF Idle, Calls
  <1>3. TypeOK'
    <2>1. pc' \in [Flusher -> LoopPoints \cup MainPoints]
      BY <1>1 DEF LoopPoints, MainPoints
    <2>2. attempt' \in [Flusher -> 0..RetryAttempts] /\ flight' \in [Flusher -> SUBSET Event]
      BY <1>1, BatchAssumption
    <2>3. call' \in [Caller -> Calls]
      BY <1>1, <1>2
    <2> QED
      BY <1>1, <1>2, <2>1, <2>2, <2>3 DEF BufferInv, TypeOK, LoopPoints, MainPoints
  <1>4. MemoryBounded'
    BY <1>1, <1>2, CapacityType DEF MemoryBounded
  <1>5. Apart' /\ Holding' /\ Handover' /\ RowCount' /\ DrainLeaves'
    BY <1>1, <1>2 DEF BufferInv, Apart, Holding, Handover, RowCount, DrainLeaves
  <1>6. NoLostWakeup'
    BY <1>1, <1>2, BatchAssumption DEF NoLostWakeup
  <1> QED
    BY <1>3, <1>4, <1>5, <1>6 DEF BufferInv

\* What Add is given was not offered to it before.
LEMMA OffersHeld ==
  ASSUME IngestTypeOK, Handlers, NEW r \in Request, handler[r] = "scan", held[r] # {}
  PROVE  held[r] \in Offers
  BY DEF IngestTypeOK, Handlers, Placed, Offers

\* The buffer takes a step of its own, none, or ends with its process.
LEMMA StepBuffer ==
  ASSUME IngestTypeOK, BufferInv, Handlers, Next
  PROVE  BufferInv'
  <1> USE IngestAssumption
  <1>1. ASSUME NEW r \in Request, Add(r)
        PROVE  BatchNext
    <2>1. held[r] \in Offers
      BY <1>1, OffersHeld DEF Add, Scanned
    <2> QED
      BY <1>1, <2>1 DEF Add, BatchNext
  <1>2. ASSUME NEW r \in Request, Answer(r)
        PROVE  BatchNext
    BY <1>2 DEF Answer, BatchNext
  <1>3. FlushLoop \/ Drain \/ HttpClosed => BatchNext
    BY DEF FlushLoop, Drain, HttpClosed, BatchNext
  <1>4. ASSUME NEW r \in Request,
               Deny(r) \/ Receive(r) \/ ScanInvalid(r) \/ ScanDuplicate(r) \/ ScanFresh(r) \/ AllDuplicates(r)
        PROVE  UNCHANGED batchVars
    BY <1>4 DEF Deny, Receive, ScanInvalid, ScanDuplicate, ScanFresh, AllDuplicates
  <1>5. (\E x \in Id : Expire(x)) \/ Sigterm \/ Restart => UNCHANGED batchVars
    BY DEF Expire, Sigterm, Restart
  <1> QED
    BY <1>1, <1>2, <1>3, <1>4, <1>5, NextSplits, StepBufferInv, SameBufferInv, ResetBufferInv
    DEF Handle, Background

-----------------------------------------------------------------------------
(* Types and deduplication.                                                 *)

\* The types, the buffer's among them, under every step.
LEMMA StepTypes ==
  ASSUME IngestTypeOK, BufferInv', Handlers, Next
  PROVE  IngestTypeOK'
  <1> USE DEF IngestTypeOK, handlerVars, processVars, counters, dedupVars
  <1>0. TypeOK'
    BY DEF BufferInv
  <1>1. ASSUME NEW r \in Request, Deny(r) \/ ScanInvalid(r) \/ AllDuplicates(r) \/ Add(r)
        PROVE  IngestTypeOK'
    BY <1>0, <1>1 DEF Deny, ScanInvalid, AllDuplicates, Add, Reply
  <1>2. ASSUME NEW r \in Request, Receive(r)
        PROVE  IngestTypeOK'
    BY <1>0, <1>2, Occurrences DEF Receive
  <1>3. ASSUME NEW r \in Request, ScanDuplicate(r)
        PROVE  IngestTypeOK'
    BY <1>0, <1>3 DEF ScanDuplicate
  <1>4. ASSUME NEW r \in Request, ScanFresh(r)
        PROVE  IngestTypeOK'
    <2>1. next[r] \in 1..Len(Body[r])
      BY <1>4, Occurrences DEF ScanFresh, Scanning, Handlers, Placed
    <2>2. <<r, next[r]>> \in Event /\ Body[r][next[r]] \in Id
      BY <2>1, Occurrences
    <2> QED
      BY <1>0, <1>4, <2>2 DEF ScanFresh
  <1>5. ASSUME NEW r \in Request, Answer(r)
        PROVE  IngestTypeOK'
    <2>1. dropped' \in Nat
      <3>1. Cardinality(held[r]) \in Nat
        BY EventSets
      <3> QED
        BY <1>5, <3>1 DEF Answer
    <2>2. /\ status' \in [Request -> {0, 202, 400, 401, 429}]
          /\ handler' \in [Request -> {"new", "denied", "scan", "adding", "done"}]
      BY <1>5 DEF Answer, Reply
    <2> QED
      BY <1>0, <1>5, <2>1, <2>2 DEF Answer
  <1>6. CASE (\E x \in Id : Expire(x)) \/ Sigterm \/ HttpClosed \/ Restart
    <2>1. CASE \E x \in Id : Expire(x)
      BY <1>0, <2>1 DEF Expire
    <2>2. CASE Sigterm
      BY <1>0, <2>2 DEF Sigterm
    <2>3. CASE HttpClosed
      BY <1>0, <2>3 DEF HttpClosed, Busy
    <2>4. CASE Restart
      <3>1. restarts' \in 0..MaxRestarts
        BY <2>4, IngestAssumption DEF Restart
      <3>2. /\ timedOut' = FALSE /\ server' = "listening"
            /\ UNCHANGED <<handler, next, held, status, seen, received, inserted, dropped, live, gone>>
        BY <2>4 DEF Restart
      <3> QED
        BY <1>0, <3>1, <3>2
    <2> QED
      BY <1>6, <2>1, <2>2, <2>3, <2>4
  <1>7. CASE FlushLoop \/ Drain
    <2>1. Cardinality(written' \ written) \in Nat /\ Cardinality(lost' \ lost) \in Nat
      <3>1. written' \ written \subseteq Event /\ lost' \ lost \subseteq Event
        BY <1>0 DEF TypeOK
      <3> QED
        BY <3>1, EventSets
    <2> QED
      BY <1>0, <1>7, <2>1 DEF FlushLoop, Drain, CountSettled
  <1>8. CASE EndProcess
    <2>1. gone' \subseteq Event
      BY <1>8 DEF EndProcess, TypeOK, Flusher
    <2>2. next' \in [Request -> Nat \ {0}]
      BY <1>8, Occurrences DEF EndProcess
    <2>3. /\ handler' \in [Request -> {"new", "denied", "scan", "adding", "done"}]
          /\ held' \in [Request -> SUBSET Event]
      BY <1>8 DEF EndProcess
    <2> QED
      BY <1>0, <1>8, <2>1, <2>2, <2>3 DEF EndProcess
  <1> QED
    BY <1>1, <1>2, <1>3, <1>4, <1>5, <1>6, <1>7, <1>8, NextSplits DEF Handle, Background

\* dedup records what it lets pass, and forgets an id together with its event.
LEMMA StepDedup ==
  ASSUME IngestTypeOK, Handlers, DedupOnce, Next
  PROVE  DedupOnce'
  <1> USE DEF dedupVars
  <1>1. ASSUME NEW r \in Request, ScanFresh(r)
        PROVE  DedupOnce'
    <2>1. next[r] \in 1..Len(Body[r])
      BY <1>1, Occurrences DEF ScanFresh, Scanning, Handlers, Placed
    <2>2. IdOf(<<r, next[r]>>) = Body[r][next[r]]
      BY <2>1, Occurrences
    <2>3. /\ live' = live \cup {<<r, next[r]>>} /\ seen' = seen \cup {Body[r][next[r]]}
          /\ Body[r][next[r]] \notin seen
      BY <1>1 DEF ScanFresh
    <2> HIDE DEF IdOf
    <2> QED
      BY <2>2, <2>3 DEF DedupOnce
  <1>2. CASE \E x \in Id : Expire(x)
    BY <1>2 DEF Expire, DedupOnce
  <1>3. CASE EndProcess
    BY <1>3 DEF EndProcess, DedupOnce
  <1>4. CASE UNCHANGED dedupVars
    BY <1>4 DEF DedupOnce
  <1> QED
    BY <1>1, <1>2, <1>3, <1>4, NextSplits
    DEF Handle, Background, Deny, Receive, ScanInvalid, ScanDuplicate, AllDuplicates, Add, Answer, FlushLoop,
        Sigterm, HttpClosed, Drain, Restart

-----------------------------------------------------------------------------
(* Where the handlers are.                                                  *)

\* A handler is where it was if its own variables did not change and nothing it
\* holds was given to Add.
LEMMA StillPlaced ==
  ASSUME NEW s \in Request, Placed(s),
         UNCHANGED <<handler[s], next[s], held[s], status[s], call[s]>>,
         accepted \subseteq accepted', refused \subseteq refused',
         held[s] \cap ((accepted' \ accepted) \cup (refused' \ refused)) = {}
  PROVE  Placed(s)'
  BY DEF Placed

\* What two handlers hold has nothing in common.
LEMMA HeldApart ==
  ASSUME Handlers, NEW r \in Request, NEW s \in Request, r # s
  PROVE  held[r] \cap held[s] = {}
  BY Occurrences DEF Handlers, Placed

\* A handler's step leaves the others alone.
LEMMA OthersPlaced ==
  ASSUME IngestTypeOK, Handlers, NEW r \in Request, Handle(r), NEW s \in Request, s # r
  PROVE  Placed(s)'
  <1> USE DEF IngestTypeOK, TypeOK, batchVars, bufferVars, historyVars, Reply
  <1>1. Placed(s) /\ held[r] \cap held[s] = {} /\ Caller = Request
    BY HeldApart, IngestAssumption DEF Handlers
  <1>2. CASE Deny(r) \/ Receive(r) \/ ScanInvalid(r) \/ ScanDuplicate(r)
    <2>1. /\ UNCHANGED <<handler[s], next[s], held[s], status[s], call[s]>>
          /\ accepted' = accepted /\ refused' = refused
      BY <1>2 DEF Deny, Receive, ScanInvalid, ScanDuplicate
    <2> QED
      BY <1>1, <2>1, StillPlaced
  <1>3. CASE ScanFresh(r) \/ AllDuplicates(r) \/ Answer(r)
    <2>1. /\ UNCHANGED <<handler[s], next[s], held[s], status[s], call[s]>>
          /\ accepted' = accepted /\ refused' = refused
      BY <1>1, <1>3 DEF ScanFresh, AllDuplicates, Answer, AddReturn
    <2> QED
      BY <1>1, <2>1, StillPlaced
  <1>4. CASE Add(r)
    <2>1. /\ UNCHANGED <<handler[s], next[s], held[s], status[s], call[s]>>
          /\ accepted \subseteq accepted' /\ refused \subseteq refused'
          /\ (accepted' \ accepted) \cup (refused' \ refused) \subseteq held[r]
      BY <1>1, <1>4 DEF Add, AddFits, AddFull
    <2> QED
      BY <1>1, <2>1, StillPlaced
  <1> QED
    BY <1>2, <1>3, <1>4 DEF Handle

\* And brings its own to where it should be.
LEMMA SelfPlaced ==
  ASSUME IngestTypeOK, BufferInv, Handlers, Begun, NEW r \in Request, Handle(r)
  PROVE  Placed(r)'
  <1> USE DEF IngestTypeOK, TypeOK, batchVars, bufferVars, historyVars, Reply
  <1>1. Placed(r) /\ Caller = Request /\ Len(Body[r]) \in Nat
    BY IngestAssumption, Occurrences DEF Handlers
  <1>2. CASE Deny(r) \/ Receive(r) \/ ScanInvalid(r) \/ AllDuplicates(r)
    BY <1>1, <1>2 DEF Deny, Receive, ScanInvalid, AllDuplicates, Scanning, Scanned, Placed
  <1>3. CASE ScanDuplicate(r)
    <2>1. /\ next[r] \in 1..Len(Body[r]) /\ next'[r] = next[r] + 1 /\ handler[r] = "scan"
          /\ UNCHANGED <<handler, held, status, call, accepted, refused>>
      BY <1>1, <1>3 DEF ScanDuplicate, Scanning, Placed
    <2>2. \A e \in held[r] : e \in Occ(r) /\ e[2] < next[r] /\ e[2] \in Nat
      BY <1>1, Occurrences DEF Placed
    <2>3. \A e \in held[r] : e[2] < next'[r]
      BY <2>1, <2>2
    <2> QED
      BY <1>1, <2>1, <2>2, <2>3 DEF Placed
  <1>4. CASE ScanFresh(r)
    <2> DEFINE x == <<r, next[r]>>
    <2>1. next[r] \in 1..Len(Body[r])
      BY <1>1, <1>4 DEF ScanFresh, Scanning, Placed
    <2>2. x \in Occ(r) /\ x[1] = r /\ x[2] = next[r]
      BY <2>1, Occurrences
    <2>3. x \notin accepted \cup refused
      BY <2>1, <2>2 DEF Begun
    <2>4. /\ held'[r] = held[r] \cup {x} /\ next'[r] = next[r] + 1
          /\ handler[r] = "scan"
          /\ UNCHANGED <<handler, status, call, accepted, refused>>
      BY <1>4 DEF ScanFresh, Scanning
    <2>5. \A e \in held'[r] : e \in Occ(r) /\ e[2] < next'[r]
      <3> SUFFICES ASSUME NEW e \in held'[r]
                   PROVE  e \in Occ(r) /\ e[2] < next[r] + 1
        BY <2>4
      <3>1. CASE e = x
        BY <2>1, <2>2, <3>1
      <3>2. CASE e \in held[r]
        <4>1. e \in Occ(r) /\ e[2] < next[r] /\ e[2] \in Nat
          BY <1>1, <3>2, Occurrences DEF Placed
        <4> QED
          BY <2>1, <4>1
      <3> QED
        BY <2>4, <3>1, <3>2
    <2> HIDE DEF x
    <2> QED
      BY <1>1, <2>1, <2>3, <2>4, <2>5 DEF Placed
  <1>5. CASE Add(r)
    BY <1>1, <1>5 DEF Add, Scanned, AddFits, AddFull, Idle, Placed
  <1>6. CASE Answer(r)
    BY <1>1, <1>6 DEF Answer, AddReturn, Placed
  <1> QED
    BY <1>2, <1>3, <1>4, <1>5, <1>6 DEF Handle

\* Every handler stays in its place under every step.
LEMMA StepHandlers ==
  ASSUME IngestTypeOK, BufferInv, Handlers, Begun, Next
  PROVE  Handlers'
  <1>1. ASSUME NEW r \in Request, Handle(r)
        PROVE  Handlers'
    BY <1>1, OthersPlaced, SelfPlaced DEF Handlers
  <1>2. CASE Background
    <2>1. UNCHANGED <<handler, next, held, status, call, accepted, refused>>
      BY <1>2, BackgroundFrame DEF handlerVars
    <2> QED
      BY <2>1 DEF Handlers, Placed
  <1>3. CASE EndProcess
    <2>1. /\ \A r \in Request :
               /\ held'[r] = {}
               /\ handler'[r] = IF handler[r] \in {"scan", "adding"} THEN "done" ELSE handler[r]
               /\ next'[r] = IF handler[r] = "new" THEN 1 ELSE Len(Body[r]) + 1
               /\ call'[r] = Idle
          /\ UNCHANGED status
      BY <1>3, IngestAssumption DEF EndProcess, BufferReset
    <2>2. \A r \in Request : Len(Body[r]) \in Nat
      BY Occurrences
    <2> QED
      BY <2>1, <2>2 DEF Handlers, Placed
  <1> QED
    BY <1>1, <1>2, <1>3, NextSplits

\* An event is accepted, refused or gone only after its handler got to it.
LEMMA StepBegun ==
  ASSUME IngestTypeOK, BufferInv, Handlers, Begun, Next
  PROVE  Begun'
  <1> USE DEF IngestTypeOK, batchVars, bufferVars, historyVars
  <1>0. /\ \A e \in Event : e[1] \in Request /\ e[2] \in 1..Len(Body[e[1]]) /\ Len(Body[e[1]]) \in Nat
        /\ accepted \cup refused \cup gone \subseteq Event
    BY Occurrences DEF TypeOK
  <1>1. ASSUME NEW r \in Request, Handle(r)
        PROVE  Begun'
    <2>1. CASE Deny(r) \/ Receive(r) \/ ScanInvalid(r) \/ AllDuplicates(r) \/ Answer(r)
      <3>1. UNCHANGED <<accepted, refused, gone, next>>
        BY <2>1 DEF Deny, Receive, ScanInvalid, AllDuplicates, Answer, AddReturn
      <3> QED
        BY <3>1 DEF Begun
    <2>2. CASE ScanDuplicate(r) \/ ScanFresh(r)
      <3>1. UNCHANGED <<accepted, refused, gone>> /\ next' = [next EXCEPT ![r] = @ + 1]
        BY <2>2 DEF ScanDuplicate, ScanFresh
      <3> QED
        BY <1>0, <3>1 DEF Begun
    <2>3. CASE Add(r)
      <3>1. UNCHANGED <<gone, next>> /\ accepted' \cup refused' \subseteq accepted \cup refused \cup held[r]
        BY <2>3 DEF Add, AddFits, AddFull
      <3>2. \A e \in held[r] : e[1] = r /\ e[2] < next[r]
        BY Occurrences DEF Handlers, Placed
      <3> QED
        BY <3>1, <3>2 DEF Begun
    <2> QED
      BY <1>1, <2>1, <2>2, <2>3 DEF Handle
  <1>2. CASE Background
    <2>1. UNCHANGED <<accepted, refused, gone, next>>
      BY <1>2, BackgroundFrame DEF handlerVars
    <2> QED
      BY <2>1 DEF Begun
  <1>3. CASE EndProcess
    <2>1. /\ UNCHANGED <<accepted, refused>>
          /\ gone' = gone \cup buf \cup flight["loop"] \cup flight["main"] \cup UNION {held[r] : r \in Request}
          /\ next' = [r \in Request |-> IF handler[r] = "new" THEN 1 ELSE Len(Body[r]) + 1]
      BY <1>3 DEF EndProcess
    <2>2. buf \cup flight["loop"] \cup flight["main"] \subseteq accepted
      BY DEF BufferInv, Apart
    <2>3. \A r \in Request : \A e \in held[r] :
            e \in Event /\ e[1] = r /\ handler[r] # "new" /\ e[2] < next[r]
      BY Occurrences DEF Handlers, Placed
    <2>4. ASSUME NEW e \in accepted' \cup refused' \cup gone'
          PROVE  e \in Event /\ e[2] < next[e[1]]
      <3>1. CASE e \in accepted \cup refused \cup gone
        BY <1>0, <3>1 DEF Begun
      <3>2. CASE \E r \in Request : e \in held[r]
        BY <2>3, <3>2
      <3> QED
        BY <2>1, <2>2, <3>1, <3>2
    <2>5. ASSUME NEW e \in accepted' \cup refused' \cup gone'
          PROVE  e[2] < next'[e[1]]
      <3>1. /\ e \in Event /\ e[2] < next[e[1]] /\ e[1] \in Request
            /\ e[2] \in 1..Len(Body[e[1]]) /\ Len(Body[e[1]]) \in Nat
        BY <1>0, <2>4
      <3>2. handler[e[1]] # "new"
        BY <3>1 DEF Handlers, Placed
      <3> QED
        BY <2>1, <3>1, <3>2
    <2> QED
      BY <2>5 DEF Begun
  <1> QED
    BY <1>1, <1>2, <1>3, NextSplits

-----------------------------------------------------------------------------
(* Why a 202 was answered.                                                  *)

\* What a fresh scan lets pass did not pass before.
LEMMA FreshIsNew ==
  ASSUME IngestTypeOK, Handlers, Begun, NEW r \in Request, Scanning(r)
  PROVE  /\ next[r] \in 1..Len(Body[r])
         /\ <<r, next[r]>> \in Event \ Passed
         /\ IdOf(<<r, next[r]>>) = Body[r][next[r]]
  <1>1. next[r] \in 1..Len(Body[r])
    BY Occurrences DEF Scanning, Handlers, Placed
  <1> DEFINE x == <<r, next[r]>>
  <1>2. x \in Event /\ x[1] = r /\ x[2] = next[r] /\ IdOf(x) = Body[r][next[r]]
    BY <1>1, Occurrences
  <1>3. x \notin accepted \cup refused \cup gone
    BY <1>1, <1>2 DEF Begun
  <1>4. ASSUME NEW s \in Request, x \in held[s]
        PROVE  FALSE
    <2>1. x \in Occ(s) /\ x[2] < next[s]
      BY <1>4 DEF Handlers, Placed
    <2>2. s = r
      BY <1>2, <2>1, Occurrences
    <2> QED
      BY <1>1, <1>2, <2>1, <2>2
  <1> HIDE DEF x
  <1>5. x \notin Passed
    BY <1>3, <1>4 DEF Passed
  <1> QED
    BY <1>1, <1>2, <1>5 DEF x

\* An event passes dedup in a fresh scan only, and nothing takes that back.
LEMMA StepPassed ==
  ASSUME IngestTypeOK, BufferInv, Handlers, Begun, Next
  PROVE  \/ Passed' = Passed
         \/ \E r \in Request : ScanFresh(r) /\ Passed' = Passed \cup {<<r, next[r]>>}
  <1> USE DEF IngestTypeOK, batchVars, bufferVars, historyVars, Reply
  <1>1. ASSUME NEW r \in Request, Deny(r) \/ Receive(r) \/ ScanInvalid(r) \/ ScanDuplicate(r) \/ AllDuplicates(r)
        PROVE  Passed' = Passed
    BY <1>1 DEF Deny, Receive, ScanInvalid, ScanDuplicate, AllDuplicates, Passed
  <1>2. ASSUME NEW r \in Request, ScanFresh(r)
        PROVE  Passed' = Passed \cup {<<r, next[r]>>}
    <2>1. /\ UNCHANGED <<accepted, refused, gone>>
          /\ held' = [held EXCEPT ![r] = @ \cup {<<r, next[r]>>}]
      BY <1>2 DEF ScanFresh
    <2> QED
      BY <2>1 DEF Passed
  <1>3. ASSUME NEW r \in Request, Add(r)
        PROVE  Passed' = Passed
    <2>1. UNCHANGED <<gone, held>> /\ accepted' \cup refused' = accepted \cup refused \cup held[r]
      BY <1>3 DEF Add, AddFits, AddFull
    <2> QED
      BY <2>1 DEF Passed
  <1>4. ASSUME NEW r \in Request, Answer(r)
        PROVE  Passed' = Passed
    <2>1. /\ UNCHANGED <<accepted, refused, gone>>
          /\ held' = [held EXCEPT ![r] = {}]
          /\ handler[r] = "adding"
      BY <1>4 DEF Answer, AddReturn
    <2>2. held[r] \subseteq accepted \cup refused
      BY <2>1 DEF Handlers, Placed
    <2> QED
      BY <2>1, <2>2 DEF Passed
  <1>5. CASE Background
    BY <1>5, BackgroundFrame DEF handlerVars, Passed
  <1>6. CASE EndProcess
    <2>1. /\ UNCHANGED <<accepted, refused>>
          /\ gone' = gone \cup buf \cup flight["loop"] \cup flight["main"] \cup UNION {held[r] : r \in Request}
          /\ held' = [r \in Request |-> {}]
      BY <1>6 DEF EndProcess
    <2>2. buf \cup flight["loop"] \cup flight["main"] \subseteq accepted
      BY DEF BufferInv, Apart
    <2> QED
      BY <2>1, <2>2 DEF Passed
  <1> QED
    BY <1>1, <1>2, <1>3, <1>4, <1>5, <1>6, NextSplits DEF Handle

\* So an event behind its handler stays a duplicate, and an id that passed stays one.
LEMMA StillDuplicate ==
  ASSUME IngestTypeOK, BufferInv, Handlers, Begun, Next
  PROVE  /\ Passed \subseteq Passed'
         /\ \A e : Duplicate(e) /\ (\A r \in Request : ScanFresh(r) => e # <<r, next[r]>>) => Duplicate(e)'
  <1> HIDE DEF Next
  <1>1. CASE Passed' = Passed
    BY <1>1 DEF Duplicate
  <1>2. ASSUME NEW r \in Request, ScanFresh(r), Passed' = Passed \cup {<<r, next[r]>>}
        PROVE  /\ Passed \subseteq Passed'
               /\ \A e : Duplicate(e) /\ (\A s \in Request : ScanFresh(s) => e # <<s, next[s]>>) => Duplicate(e)'
    <2> DEFINE x == <<r, next[r]>>
    <2>1. Passed' = Passed \cup {x} /\ ScanFresh(r)
      BY <1>2
    <2> HIDE DEF x
    <2>2. ASSUME NEW e, Duplicate(e), e # x
          PROVE  Duplicate(e)'
      BY <2>1, <2>2 DEF Duplicate
    <2> QED
      BY <2>1, <2>2 DEF x
  <1> QED
    BY <1>1, <1>2, StepPassed

\* Each part of Explained under the steps that could disturb it.
LEMMA StepSeen ==
  ASSUME IngestTypeOK, BufferInv, Handlers, Begun, Explained, Next
  PROVE  \A id \in seen' : \E f \in Passed' : IdOf(f) = id
  <1>1. Passed \subseteq Passed'
    BY StillDuplicate
  <1>2. CASE seen' \subseteq seen
    BY <1>1, <1>2 DEF Explained
  <1>3. ASSUME NEW r \in Request, ScanFresh(r)
        PROVE  \A id \in seen' : \E f \in Passed' : IdOf(f) = id
    <2>1. seen' = seen \cup {Body[r][next[r]]} /\ Scanning(r) /\ held'[r] = held[r] \cup {<<r, next[r]>>}
      BY <1>3 DEF ScanFresh, IngestTypeOK
    <2>2. IdOf(<<r, next[r]>>) = Body[r][next[r]] /\ <<r, next[r]>> \in Passed'
      BY <2>1, FreshIsNew DEF Passed
    <2> HIDE DEF IdOf
    <2> QED
      BY <1>1, <2>1, <2>2 DEF Explained
  <1>4. CASE Background
    BY <1>2, <1>4 DEF Background, Expire, FlushLoop, Sigterm, HttpClosed, Drain, Restart, dedupVars
  <1>5. CASE EndProcess
    BY <1>2, <1>5 DEF EndProcess
  <1> QED
    BY <1>2, <1>3, <1>4, <1>5, NextSplits
    DEF Handle, Deny, Receive, ScanInvalid, ScanDuplicate, AllDuplicates, Add, Answer, dedupVars

\* A request answered 202 has its events accepted or duplicate.
Acked(r) == status[r] = 202 => \A e \in Occ(r) : e \in accepted \/ Duplicate(e)

\* An event its handler does not let pass now stays a duplicate.
LEMMA DuplicateStays ==
  ASSUME IngestTypeOK, BufferInv, Handlers, Begun, Next,
         NEW r \in Request, NEW e \in Occ(r), Duplicate(e), ~ScanFresh(r) \/ e[2] < next[r]
  PROVE  Duplicate(e)'
  <1>1. ASSUME NEW s \in Request, ScanFresh(s)
        PROVE  e # <<s, next[s]>>
    <2>1. next[r] \in Nat /\ e[1] = r
      BY Occurrences DEF IngestTypeOK
    <2>2. CASE s = r
      BY <1>1, <2>1, <2>2
    <2>3. CASE s # r
      BY <2>1, <2>3
    <2> QED
      BY <2>2, <2>3
  <1> QED
    BY <1>1, StillDuplicate

\* What is behind the index of a handler that runs stays held or a duplicate.
LEMMA StepBehind ==
  ASSUME IngestTypeOK, BufferInv, Handlers, Begun, Explained, Next, NEW r \in Request
  PROVE  Behind(r)'
  <1> USE DEF IngestTypeOK, handlerVars, Reply
  <1>0. /\ \A e \in Occ(r) : e \in Event /\ e[1] = r /\ e[2] \in 1..Len(Body[r]) /\ e = <<r, e[2]>>
        /\ next[r] \in 1..(Len(Body[r]) + 1) /\ Len(Body[r]) \in Nat
        /\ Behind(r)
    BY Occurrences DEF Explained, Handlers, Placed
  <1>a. \A e \in Occ(r) : Duplicate(e) /\ e[2] < next[r] => Duplicate(e)'
    BY DuplicateStays
  <1>1. ASSUME next'[r] = next[r], held'[r] = held[r], handler[r] \in {"scan", "adding"}
        PROVE  Behind(r)'
    BY <1>0, <1>1, <1>a DEF Behind
  <1>2. ASSUME handler'[r] \notin {"scan", "adding"}
        PROVE  Behind(r)'
    BY <1>2 DEF Behind
  <1>3. ASSUME UNCHANGED <<handler[r], next[r], held[r]>>
        PROVE  Behind(r)'
    BY <1>1, <1>2, <1>3
  <1>4. ASSUME Receive(r)
        PROVE  Behind(r)'
    <2>1. next'[r] = 1
      BY <1>4 DEF Receive, Handlers, Placed
    <2> QED
      BY <1>0, <2>1 DEF Behind
  <1>5. ASSUME ScanDuplicate(r)
        PROVE  Behind(r)'
    <2>0. PICK x : x = <<r, next[r]>>
      OBVIOUS
    <2>1. /\ handler[r] = "scan" /\ held'[r] = held[r] /\ next'[r] = next[r] + 1
          /\ Body[r][next[r]] \in seen /\ Scanning(r)
      BY <1>5 DEF ScanDuplicate, Scanning
    <2>2. x \notin Passed /\ IdOf(x) \in seen
      BY <2>0, <2>1, FreshIsNew
    <2>3. Duplicate(x)
      BY <2>2 DEF Duplicate, Explained
    <2>4. x \in Occ(r) /\ ~ScanFresh(r)
      BY <1>5, <2>0, <2>1, FreshIsNew, Occurrences DEF ScanFresh
    <2>5. Duplicate(x)'
      BY <2>3, <2>4, DuplicateStays
    <2>6. \A e \in Occ(r) : e[2] < next'[r] => e[2] < next[r] \/ e = x
      BY <1>0, <2>0, <2>1
    <2> QED
      BY <1>0, <1>a, <2>1, <2>5, <2>6 DEF Behind
  <1>6. ASSUME ScanFresh(r)
        PROVE  Behind(r)'
    <2>0. PICK x : x = <<r, next[r]>>
      OBVIOUS
    <2>1. handler[r] = "scan" /\ held'[r] = held[r] \cup {x} /\ next'[r] = next[r] + 1
      BY <1>6, <2>0 DEF ScanFresh, Scanning
    <2>2. \A e \in Occ(r) : e[2] < next'[r] => e[2] < next[r] \/ e = x
      BY <1>0, <2>0, <2>1
    <2> QED
      BY <1>0, <1>a, <2>1, <2>2 DEF Behind
  <1>7. ASSUME Add(r)
        PROVE  Behind(r)'
    BY <1>1, <1>7 DEF Add, Scanned
  <1>8. ASSUME Deny(r) \/ ScanInvalid(r) \/ AllDuplicates(r) \/ Answer(r) \/ EndProcess
        PROVE  Behind(r)'
    <2>1. handler'[r] \notin {"scan", "adding"}
      BY <1>8 DEF Deny, ScanInvalid, AllDuplicates, Answer, EndProcess
    <2> QED
      BY <1>2, <2>1
  <1>9. ASSUME NEW s \in Request, s # r, Handle(s)
        PROVE  Behind(r)'
    <2>1. UNCHANGED <<handler[r], next[r], held[r]>>
      BY <1>9 DEF Handle, Deny, Receive, ScanInvalid, ScanDuplicate, ScanFresh, AllDuplicates, Add, Answer
    <2> QED
      BY <1>3, <2>1
  <1>10. CASE Background
    BY <1>3, <1>10, BackgroundFrame
  <1> QED
    BY <1>4, <1>5, <1>6, <1>7, <1>8, <1>9, <1>10, NextSplits DEF Handle

\* A 202 is written, and stays, with every event of its body accepted or a duplicate.
LEMMA StepAcked ==
  ASSUME IngestTypeOK, BufferInv, Handlers, Begun, Explained, Next, NEW r \in Request
  PROVE  Acked(r)'
  <1> USE DEF IngestTypeOK, handlerVars, Reply, batchVars, bufferVars, historyVars
  <1>0. Acked(r) /\ Behind(r) /\ Placed(r)
    BY DEF Explained, AckExplained, Acked, Duplicate, Handlers
  <1>1. accepted \subseteq accepted'
    <2>1. CASE \E s \in Request : Handle(s)
      BY <2>1 DEF Handle, Deny, Receive, ScanInvalid, ScanDuplicate, ScanFresh, AllDuplicates, Add, AddFits,
                  AddFull, Answer, AddReturn
    <2>2. CASE Background \/ EndProcess
      BY <2>2, BackgroundFrame DEF EndProcess
    <2> QED
      BY <2>1, <2>2, NextSplits
  <1>2. ASSUME status'[r] = status[r]
        PROVE  Acked(r)'
    <2>1. status[r] # 0 => ~ScanFresh(r)
      BY <1>0 DEF Placed, ScanFresh, Scanning
    <2>2. \A e \in Occ(r) : status[r] # 0 /\ Duplicate(e) => Duplicate(e)'
      BY <2>1, DuplicateStays
    <2> QED
      BY <1>0, <1>1, <1>2, <2>2 DEF Acked
  <1>3. ASSUME status'[r] # 202
        PROVE  Acked(r)'
    BY <1>3 DEF Acked
  <1>4. ASSUME AllDuplicates(r) \/ (Answer(r) /\ ~call[r].full)
        PROVE  Acked(r)'
    <2>1. handler[r] \in {"scan", "adding"} /\ next[r] > Len(Body[r]) /\ held[r] \subseteq accepted
      BY <1>0, <1>4 DEF AllDuplicates, Scanned, Answer, Placed
    <2>2. \A e \in Occ(r) : e[2] < next[r]
      <3>1. /\ \A e \in Occ(r) : e[2] \in 1..Len(Body[r])
            /\ next[r] \in Nat /\ Len(Body[r]) \in Nat
        BY Occurrences
      <3> QED
        BY <2>1, <3>1
    <2>3. \A e \in Occ(r) : e \in accepted \/ Duplicate(e)
      BY <1>0, <2>1, <2>2 DEF Behind
    <2>4. \A e \in Occ(r) : Duplicate(e) => Duplicate(e)'
      BY <2>2, DuplicateStays
    <2> QED
      BY <1>1, <2>3, <2>4 DEF Acked
  <1>5. ASSUME NEW s \in Request, Handle(s), ~(s = r /\ (AllDuplicates(r) \/ (Answer(r) /\ ~call[r].full)))
        PROVE  Acked(r)'
    <2>1. status'[r] = status[r] \/ status'[r] # 202
      BY <1>5 DEF Handle, Deny, Receive, ScanInvalid, ScanDuplicate, ScanFresh, AllDuplicates, Add, Answer
    <2> QED
      BY <1>2, <1>3, <2>1
  <1>6. CASE Background \/ EndProcess
    BY <1>2, <1>6, BackgroundFrame DEF EndProcess
  <1> QED
    BY <1>4, <1>5, <1>6, NextSplits

\* The three parts of Explained together.
LEMMA StepExplained ==
  ASSUME IngestTypeOK, BufferInv, Handlers, Begun, Explained, Next
  PROVE  Explained'
  BY StepSeen, StepBehind, StepAcked DEF Explained, AckExplained, Acked, Duplicate

-----------------------------------------------------------------------------
(* The account of the counters.                                             *)

\* Set sizes add up.
LEMMA CountDisjoint ==
  ASSUME NEW S, S \subseteq Event, NEW T, T \subseteq Event, S \cap T = {}
  PROVE  Cardinality(S \cup T) = Cardinality(S) + Cardinality(T)
  <1>1. IsFiniteSet(S) /\ IsFiniteSet(T) /\ Cardinality(S) \in Nat /\ Cardinality(T) \in Nat
    BY EventSets
  <1>2. Cardinality(S \cup T) = Cardinality(S) + Cardinality(T) - Cardinality(S \cap T)
    BY <1>1, FS_Union
  <1>3. Cardinality(S \cap T) = 0
    BY FS_EmptySet
  <1> QED
    BY <1>1, <1>2, <1>3

\* Taking a part out of a set of events takes its count off.
LEMMA CountWithout ==
  ASSUME NEW S, S \subseteq Event, NEW T, T \subseteq S
  PROVE  /\ Cardinality(S) = Cardinality(S \ T) + Cardinality(T)
         /\ Cardinality(S) \in Nat /\ Cardinality(S \ T) \in Nat /\ Cardinality(T) \in Nat
  <1>1. S \ T \subseteq Event /\ T \subseteq Event /\ (S \ T) \cap T = {} /\ (S \ T) \cup T = S
    OBVIOUS
  <1>2. Cardinality((S \ T) \cup T) = Cardinality(S \ T) + Cardinality(T)
    BY <1>1, CountDisjoint
  <1> QED
    BY <1>1, <1>2, EventSets

\* A request has as many occurrences as its body is long.
LEMMA CountBody ==
  ASSUME NEW r \in Request
  PROVE  Cardinality(Occ(r)) = Len(Body[r])
  <1>1. Len(Body[r]) \in Nat /\ DOMAIN Body[r] = 1..Len(Body[r])
    BY IngestAssumption, LenProperties
  <1> DEFINE n == Len(Body[r])
             f == [i \in 1..n |-> <<r, i>>]
  <1>2. IsFiniteSet(1..n) /\ Cardinality(1..n) = n
    <2>1. n = 0 => Cardinality(1..n) = 0
      BY FS_EmptySet
    <2> QED
      BY <1>1, <2>1, FS_Interval
  <1>3. f \in Bijection(1..n, Occ(r))
    <2>1. f \in [1..n -> Occ(r)]
      BY <1>1 DEF Occ
    <2>2. \A i, j \in 1..n : f[i] = f[j] => i = j
      OBVIOUS
    <2>3. \A e \in Occ(r) : \E i \in 1..n : f[i] = e
      BY <1>1 DEF Occ
    <2> HIDE DEF f, n
    <2> QED
      BY <2>1, <2>2, <2>3, DOMAIN f = 1..n DEF Bijection, Injection, Surjection, IsInjective
  <1>4. ExistsBijection(1..n, Occ(r))
    BY <1>3 DEF ExistsBijection
  <1> QED
    BY <1>2, <1>4, FS_Bijection

\* Where a pending event is: ahead of its handler, in its hands, or in the buffer.
Ahead(e) == handler[e[1]] \notin {"new", "denied"} /\ e[2] >= next[e[1]]
InHand(e) == e \in held[e[1]] \ accepted
InBuffer(e) == e \in buf \cup flight["loop"] \cup flight["main"]

PendingWhere ==
  /\ Pending \subseteq Event
  /\ \A e \in Event : e \in Pending <=> Ahead(e) \/ InHand(e) \/ InBuffer(e)

\* An event is pending when its handler has yet to reach it, has it in hand, or the
\* buffer or a flusher has it.
LEMMA PendingIs == IngestTypeOK /\ Handlers => PendingWhere
  <1> SUFFICES ASSUME IngestTypeOK, Handlers
               PROVE  PendingWhere
    OBVIOUS
  <1> DEFINE busy == {q \in Request : handler[q] \notin {"new", "denied"}}
             rest(r) == {e \in Occ(r) : e[2] >= next[r]}
             rests == UNION {rest(r) : r \in busy}
             hands == UNION {held[r] \ accepted : r \in Request}
  <1>0. Limbo = rests \cup hands
    BY DEF Limbo
  <1>1. \A e : e \in Limbo <=>
          \/ \E r \in Request : handler[r] \notin {"new", "denied"} /\ e \in Occ(r) /\ e[2] >= next[r]
          \/ \E r \in Request : e \in held[r] \ accepted
    <2>1. \A e : e \in rests <=> \E r \in busy : e \in rest(r)
      <3> HIDE DEF busy, rest
      <3> QED
        OBVIOUS
    <2>2. \A e : e \in hands <=> \E r \in Request : e \in held[r] \ accepted
      OBVIOUS
    <2>3. \A e : (\E r \in busy : e \in rest(r)) <=>
            \E r \in Request : handler[r] \notin {"new", "denied"} /\ e \in Occ(r) /\ e[2] >= next[r]
      OBVIOUS
    <2> HIDE DEF busy, rest, rests, hands
    <2> QED
      BY <1>0, <2>1, <2>2, <2>3
  <1> HIDE DEF busy, rest, rests, hands
  <1>2. Limbo \subseteq Event
    BY <1>1, Occurrences DEF IngestTypeOK
  <1>3. Pending \subseteq Event
    BY <1>2 DEF Pending, IngestTypeOK, TypeOK, Flusher
  <1>4. ASSUME NEW e \in Event
        PROVE  e \in Limbo <=> Ahead(e) \/ InHand(e)
    <2>1. e[1] \in Request /\ e \in Occ(e[1]) /\ \A r \in Request : e \in Occ(r) => r = e[1]
      BY Occurrences
    <2>2. (\E r \in Request : handler[r] \notin {"new", "denied"} /\ e \in Occ(r) /\ e[2] >= next[r]) <=> Ahead(e)
      BY <2>1 DEF Ahead
    <2>3. (\E r \in Request : e \in held[r] \ accepted) <=> InHand(e)
      BY <2>1 DEF Handlers, Placed, InHand
    <2> QED
      BY <1>1, <2>2, <2>3
  <1> QED
    BY <1>3, <1>4 DEF Pending, PendingWhere, InBuffer

\* The same in the next state.
LEMMA PendingIsNext == IngestTypeOK' /\ Handlers' => PendingWhere'
  BY PendingIs, PTL

\* Only what is behind the index of its handler was given to Add or is in its hands.
LEMMA NotAhead ==
  ASSUME IngestTypeOK, BufferInv, Handlers, Begun
  PROVE  \A e \in Event : InHand(e) \/ InBuffer(e) \/ e \in accepted \cup refused => ~Ahead(e)
  <1> SUFFICES ASSUME NEW e \in Event, InHand(e) \/ InBuffer(e) \/ e \in accepted \cup refused
               PROVE  ~Ahead(e)
    OBVIOUS
  <1>1. e[1] \in Request /\ e[2] \in Nat /\ next[e[1]] \in Nat
    BY Occurrences DEF IngestTypeOK
  <1>2. e[2] < next[e[1]]
    <2>1. CASE InHand(e)
      BY <1>1, <2>1 DEF InHand, Handlers, Placed
    <2>2. CASE InBuffer(e) \/ e \in accepted \cup refused
      <3>1. e \in accepted \cup refused
        BY <2>2 DEF InBuffer, BufferInv, Apart
      <3> QED
        BY <3>1 DEF Begun
    <2> QED
      BY <2>1, <2>2
  <1> QED
    BY <1>1, <1>2 DEF Ahead

\* A handler counts what it receives and what it drops, and moves the rest on.
LEMMA HandlerBalance ==
  ASSUME IngestTypeOK, IngestTypeOK', BufferInv, Handlers, Handlers', Begun, Balance,
         NEW r \in Request, Handle(r)
  PROVE  Balance'
  <1> DEFINE P(e) == Ahead(e) \/ InHand(e) \/ InBuffer(e)
  <1>0. /\ Pending \subseteq Event /\ Pending' \subseteq Event
        /\ \A e \in Event : (e \in Pending <=> P(e)) /\ (e \in Pending' <=> P(e)')
        /\ \A e \in Event : e[1] \in Request /\ e[2] \in 1..Len(Body[e[1]]) /\ e = <<e[1], e[2]>>
        /\ \A e \in Event : InHand(e) \/ InBuffer(e) \/ e \in accepted \cup refused => ~Ahead(e)
        /\ next[r] \in Nat /\ Placed(r)
    BY PendingIs, PendingIsNext, Occurrences, NotAhead DEF PendingWhere, IngestTypeOK, Handlers
  <1>1. /\ received \in Nat /\ inserted \in Nat /\ dropped \in Nat
        /\ Cardinality(Pending) \in Nat /\ Cardinality(Pending') \in Nat
    BY <1>0, EventSets DEF IngestTypeOK
  <1>2. ASSUME UNCHANGED <<received, inserted, dropped>>, \A e \in Event : P(e)' <=> P(e)
        PROVE  Balance'
    <2>1. Pending' = Pending
      BY <1>0, <1>2
    <2> QED
      BY <1>2, <2>1 DEF Balance
  <1> USE DEF IngestTypeOK, batchVars, bufferVars, historyVars, counters, Reply
  <1>3. CASE Deny(r) \/ ScanInvalid(r) \/ AllDuplicates(r)
    <2>1. /\ UNCHANGED <<received, inserted, dropped, next, held, accepted, buf, flight>>
          /\ \A s \in Request : handler'[s] \in {"new", "denied"} <=> handler[s] \in {"new", "denied"}
      BY <1>3 DEF Deny, ScanInvalid, AllDuplicates, Scanning, Scanned
    <2>2. \A e \in Event : P(e)' <=> P(e)
      BY <1>0, <2>1 DEF Ahead, InHand, InBuffer
    <2> QED
      BY <1>2, <2>1, <2>2
  <1>4. CASE Receive(r)
    <2>1. /\ UNCHANGED <<inserted, dropped, next, held, accepted, buf, flight>>
          /\ received' = received + Len(Body[r])
          /\ handler[r] = "new" /\ handler'[r] = "scan" /\ \A s \in Request \ {r} : handler'[s] = handler[s]
      BY <1>4 DEF Receive
    <2>2. next[r] = 1 /\ held[r] = {}
      BY <1>0, <2>1 DEF Placed
    <2>3. \A e \in Occ(r) : e \in Event /\ e[1] = r
      BY Occurrences
    <2>4. \A e \in Event : e[1] = r => ~P(e) /\ P(e)' /\ e \in Occ(r)
      <3> SUFFICES ASSUME NEW e \in Event, e[1] = r
                   PROVE  ~P(e) /\ P(e)' /\ e \in Occ(r)
        OBVIOUS
      <3>1. ~Ahead(e) /\ ~InHand(e)
        BY <2>1, <2>2 DEF Ahead, InHand
      <3>2. e \in Occ(r) /\ e[2] \in 1..Len(Body[r])
        BY Occurrences
      <3>3. ~InBuffer(e)
        <4>1. InBuffer(e) => e \in accepted
          BY DEF InBuffer, BufferInv, Apart
        <4>2. e \in accepted => e[2] < 1
          BY <2>2 DEF Begun
        <4> QED
          BY <3>2, <4>1, <4>2
      <3>4. Ahead(e)'
        BY <2>1, <2>2, <3>2 DEF Ahead
      <3> QED
        BY <3>1, <3>2, <3>3, <3>4
    <2>5. \A e \in Event : e[1] # r => (P(e)' <=> P(e))
      BY <1>0, <2>1 DEF Ahead, InHand, InBuffer
    <2>6. Pending' = Pending \cup Occ(r) /\ Pending \cap Occ(r) = {}
      <3> HIDE DEF P
      <3> QED
        BY <1>0, <2>3, <2>4, <2>5
    <2>7. Cardinality(Pending') = Cardinality(Pending) + Len(Body[r])
      <3>1. Cardinality(Pending \cup Occ(r)) = Cardinality(Pending) + Cardinality(Occ(r))
        BY <1>0, <2>3, <2>6, CountDisjoint
      <3> QED
        BY <2>6, <3>1, CountBody
    <2>8. Len(Body[r]) \in Nat
      BY Occurrences
    <2> QED
      BY <1>1, <2>1, <2>7, <2>8 DEF Balance
  <1>5. CASE ScanDuplicate(r)
    <2>0. PICK x : x = <<r, next[r]>>
      OBVIOUS
    <2>1. /\ UNCHANGED <<received, inserted, handler, held, accepted, buf, flight>>
          /\ dropped' = dropped + 1 /\ handler[r] = "scan" /\ Scanning(r)
          /\ next'[r] = next[r] + 1 /\ \A s \in Request \ {r} : next'[s] = next[s]
      BY <1>5 DEF ScanDuplicate, Scanning
    <2>2. x \in Event /\ x[1] = r /\ x[2] = next[r]
      BY <2>0, <2>1, FreshIsNew
    <2>3. Ahead(x) /\ P(x) /\ ~P(x)'
      <3>1. Ahead(x)
        BY <1>0, <2>1, <2>2 DEF Ahead
      <3>2. ~InHand(x) /\ ~InBuffer(x)
        BY <1>0, <2>2, <3>1
      <3>3. ~InHand(x)' /\ ~InBuffer(x)'
        BY <2>1, <3>2 DEF InHand, InBuffer
      <3>4. ~Ahead(x)'
        BY <1>0, <2>1, <2>2 DEF Ahead
      <3> QED
        BY <3>1, <3>3, <3>4
    <2>4. ASSUME NEW e \in Event, e # x
          PROVE  P(e)' <=> P(e)
      <3>1. e[1] = r => e[2] # next[r]
        BY <1>0, <2>0, <2>4
      <3>2. Ahead(e)' <=> Ahead(e)
        BY <1>0, <2>1, <3>1 DEF Ahead
      <3>3. (InHand(e)' <=> InHand(e)) /\ (InBuffer(e)' <=> InBuffer(e))
        BY <2>1 DEF InHand, InBuffer
      <3> QED
        BY <3>2, <3>3
    <2>5. Pending' = Pending \ {x} /\ {x} \subseteq Pending
      <3> HIDE DEF P
      <3> QED
        BY <1>0, <2>2, <2>3, <2>4
    <2>6. Cardinality(Pending) = Cardinality(Pending') + 1
      <3>1. Cardinality(Pending) = Cardinality(Pending \ {x}) + Cardinality({x})
        BY <1>0, <2>5, CountWithout
      <3>2. Cardinality({x}) = 1
        BY FS_Singleton
      <3> QED
        BY <2>5, <3>1, <3>2
    <2> QED
      BY <1>1, <2>1, <2>6 DEF Balance
  <1>6. CASE ScanFresh(r)
    <2>0. PICK x : x = <<r, next[r]>>
      OBVIOUS
    <2>1. /\ UNCHANGED <<received, inserted, dropped, handler, accepted, buf, flight>>
          /\ handler[r] = "scan" /\ Scanning(r)
          /\ next'[r] = next[r] + 1 /\ \A s \in Request \ {r} : next'[s] = next[s]
          /\ held'[r] = held[r] \cup {x} /\ \A s \in Request \ {r} : held'[s] = held[s]
      BY <1>6, <2>0 DEF ScanFresh, Scanning
    <2>2. x \in Event /\ x[1] = r /\ x[2] = next[r] /\ x \notin Passed
      BY <2>0, <2>1, FreshIsNew
    <2>3. P(x) /\ P(x)'
      <3>1. Ahead(x)
        BY <1>0, <2>1, <2>2 DEF Ahead
      <3>2. InHand(x)'
        BY <2>1, <2>2 DEF InHand, Passed
      <3> QED
        BY <3>1, <3>2
    <2>4. ASSUME NEW e \in Event, e # x
          PROVE  P(e)' <=> P(e)
      <3>1. e[1] = r => e[2] # next[r]
        BY <1>0, <2>0, <2>4
      <3>2. Ahead(e)' <=> Ahead(e)
        BY <1>0, <2>1, <3>1 DEF Ahead
      <3>3. (InHand(e)' <=> InHand(e)) /\ (InBuffer(e)' <=> InBuffer(e))
        BY <1>0, <2>1, <2>4 DEF InHand, InBuffer
      <3> QED
        BY <3>2, <3>3
    <2>5. \A e \in Event : P(e)' <=> P(e)
      BY <2>3, <2>4
    <2> QED
      BY <1>2, <2>1, <2>5
  <1>7. CASE Add(r)
    <2>1. /\ UNCHANGED <<received, inserted, dropped, next, held, flight>>
          /\ handler[r] = "scan" /\ handler'[r] = "adding"
          /\ \A s \in Request \ {r} : handler'[s] = handler[s]
          /\ \/ accepted' = accepted \cup held[r] /\ buf' = buf \cup held[r]
             \/ UNCHANGED <<accepted, buf>>
      BY <1>7 DEF Add, Scanned, AddFits, AddFull
    <2>2. \A e \in held[r] : e[1] = r /\ e \notin accepted
      BY <1>0, <2>1, Occurrences DEF Placed
    <2>3. \A e \in Event : P(e)' <=> P(e)
      <3> SUFFICES ASSUME NEW e \in Event
                   PROVE  P(e)' <=> P(e)
        OBVIOUS
      <3>1. Ahead(e)' <=> Ahead(e)
        BY <1>0, <2>1 DEF Ahead
      <3>2. CASE e \in held[r]
        <4>1. InHand(e)
          BY <2>2, <3>2 DEF InHand
        <4>2. InHand(e)' \/ InBuffer(e)'
          BY <2>1, <2>2, <3>2 DEF InHand, InBuffer
        <4> QED
          BY <4>1, <4>2
      <3>3. CASE e \notin held[r]
        <4>1. (InHand(e)' <=> InHand(e)) /\ (InBuffer(e)' <=> InBuffer(e))
          BY <2>1, <3>3 DEF InHand, InBuffer
        <4> QED
          BY <3>1, <4>1
      <3> QED
        BY <3>2, <3>3
    <2> QED
      BY <1>2, <2>1, <2>3
  <1>8. CASE Answer(r)
    <2>1. /\ UNCHANGED <<received, inserted, next, accepted, buf, flight>>
          /\ handler[r] = "adding" /\ handler'[r] = "done" /\ \A s \in Request \ {r} : handler'[s] = handler[s]
          /\ held'[r] = {} /\ \A s \in Request \ {r} : held'[s] = held[s]
          /\ dropped' = IF call[r].full THEN dropped + Cardinality(held[r]) ELSE dropped
      BY <1>8 DEF Answer, AddReturn
    <2>2. \A e \in held[r] : e \in Event /\ e[1] = r
      BY <1>0, Occurrences DEF Placed
    <2>3. \A e \in Event : (Ahead(e)' <=> Ahead(e)) /\ (InBuffer(e)' <=> InBuffer(e))
      BY <1>0, <2>1 DEF Ahead, InBuffer
    <2>4. CASE ~call[r].full
      <3>1. held[r] \subseteq accepted
        BY <1>0, <2>1, <2>4 DEF Placed
      <3>2. \A e \in Event : InHand(e)' <=> InHand(e)
        BY <1>0, <2>1, <3>1 DEF InHand
      <3>3. \A e \in Event : P(e)' <=> P(e)
        BY <2>3, <3>2
      <3> QED
        BY <1>2, <2>1, <2>4, <3>3
    <2>5. CASE call[r].full
      <3>1. held[r] \subseteq refused /\ held[r] \cap accepted = {}
        BY <1>0, <2>1, <2>5 DEF Placed, BufferInv, Apart
      <3>2. \A e \in held[r] : P(e) /\ ~P(e)'
        <4> SUFFICES ASSUME NEW e \in held[r]
                     PROVE  P(e) /\ ~P(e)'
          OBVIOUS
        <4>1. InHand(e) /\ ~InHand(e)'
          BY <2>1, <2>2, <3>1 DEF InHand
        <4>2. ~Ahead(e)
          BY <1>0, <2>2, <4>1
        <4>3. ~InBuffer(e)
          BY <3>1 DEF InBuffer, BufferInv, Apart
        <4> QED
          BY <2>2, <2>3, <4>1, <4>2, <4>3
      <3>3. \A e \in Event \ held[r] : InHand(e)' <=> InHand(e)
        BY <1>0, <2>1 DEF InHand
      <3>4. Pending' = Pending \ held[r] /\ held[r] \subseteq Pending
        <4>1. \A e \in Event \ held[r] : P(e)' <=> P(e)
          BY <2>3, <3>3
        <4> HIDE DEF P
        <4> QED
          BY <1>0, <2>2, <3>2, <4>1
      <3>5. /\ Cardinality(Pending) = Cardinality(Pending') + Cardinality(held[r])
            /\ Cardinality(held[r]) \in Nat
        BY <1>0, <3>4, CountWithout
      <3> QED
        BY <1>1, <2>1, <2>5, <3>5 DEF Balance
    <2> QED
      BY <2>4, <2>5
  <1> QED
    BY <1>3, <1>4, <1>5, <1>6, <1>7, <1>8 DEF Handle

\* A flush settles its batch as a whole and counts it once.
LEMMA FlushMoves ==
  ASSUME BufferInv, Loop \/ Shutdown
  PROVE  \/ /\ UNCHANGED <<written, lost>>
            /\ \A e : InBuffer(e)' <=> InBuffer(e)
         \/ \E w \in Flusher :
              /\ \A e : InBuffer(e)' <=> InBuffer(e) /\ e \notin flight[w]
              /\ \/ written' = written \cup flight[w] /\ UNCHANGED lost
                 \/ lost' = lost \cup flight[w] /\ UNCHANGED written
  <1> USE DEF BufferInv, TypeOK, Flusher, InBuffer, bufferVars, historyVars
  <1>1. ASSUME NEW w \in Flusher, Swap(w)
        PROVE  UNCHANGED <<written, lost>> /\ \A e : InBuffer(e)' <=> InBuffer(e)
    <2>1. flight[w] = {}
      BY <1>1 DEF Swap, Holding
    <2> QED
      BY <1>1, <2>1 DEF Swap
  <1>2. ASSUME NEW w \in Flusher, InsertOk(w) \/ InsertErr(w) \/ BackoffCancelled(w)
        PROVE  \/ UNCHANGED <<written, lost, buf, flight>>
               \/ /\ buf' = buf /\ flight' = [flight EXCEPT ![w] = {}]
                  /\ \/ written' = written \cup flight[w] /\ UNCHANGED lost
                     \/ lost' = lost \cup flight[w] /\ UNCHANGED written
    <2>1. CASE InsertOk(w)
      BY <2>1 DEF InsertOk, Settle
    <2>2. CASE InsertErr(w)
      BY <2>2 DEF InsertErr, Settle
    <2>3. CASE BackoffCancelled(w)
      BY <2>3 DEF BackoffCancelled, Settle
    <2> QED
      BY <1>2, <2>1, <2>2, <2>3
  <1>3. ASSUME NEW w \in Flusher, flight' = [flight EXCEPT ![w] = {}], buf' = buf
        PROVE  \A e : InBuffer(e)' <=> InBuffer(e) /\ e \notin flight[w]
    BY <1>3 DEF Apart
  <1>4. ASSUME \/ \E w \in Flusher : BackoffElapsed(w)
               \/ LoopTick \/ LoopFlushReq \/ LoopStop
               \/ ShutdownWait \/ ShutdownDrain \/ ShutdownEmpty \/ ShutdownCheck
        PROVE  UNCHANGED <<written, lost, buf, flight>>
    BY <1>4 DEF BackoffElapsed, LoopTick, LoopFlushReq, LoopStop, LoopGoto, ShutdownWait, ShutdownDrain,
                ShutdownEmpty, ShutdownCheck, MainGoto
  <1>5. ASSUME NEW w \in Flusher, Flush(w)
        PROVE  \/ /\ UNCHANGED <<written, lost>>
                  /\ \A e : InBuffer(e)' <=> InBuffer(e)
               \/ /\ \A e : InBuffer(e)' <=> InBuffer(e) /\ e \notin flight[w]
                  /\ \/ written' = written \cup flight[w] /\ UNCHANGED lost
                     \/ lost' = lost \cup flight[w] /\ UNCHANGED written
    <2>1. CASE Swap(w)
      BY <1>1, <2>1
    <2>2. CASE BackoffElapsed(w)
      BY <1>4, <2>2
    <2>3. CASE InsertOk(w) \/ InsertErr(w) \/ BackoffCancelled(w)
      BY <1>2, <1>3, <2>3
    <2> QED
      BY <1>5, <2>1, <2>2, <2>3 DEF Flush
  <1>6. CASE \E w \in Flusher : Flush(w)
    BY <1>5, <1>6
  <1>7. CASE \/ LoopTick \/ LoopFlushReq \/ LoopStop
            \/ ShutdownWait \/ ShutdownDrain \/ ShutdownEmpty \/ ShutdownCheck
    BY <1>4, <1>7
  <1> QED
    BY <1>6, <1>7 DEF Loop, Shutdown

\* The counters stay in balance when the flush loop or Shutdown settles a batch.
LEMMA FlushBalance ==
  ASSUME IngestTypeOK, IngestTypeOK', BufferInv, Handlers, Handlers', Begun, Balance,
         Loop \/ Shutdown, CountSettled, UNCHANGED handlerVars
  PROVE  Balance'
  <1>0. /\ Pending \subseteq Event /\ Pending' \subseteq Event
        /\ \A e \in Event : /\ e \in Pending <=> Ahead(e) \/ InHand(e) \/ InBuffer(e)
                            /\ e \in Pending' <=> Ahead(e)' \/ InHand(e)' \/ InBuffer(e)'
    BY PendingIs, PendingIsNext DEF PendingWhere
  <1>1. /\ received \in Nat /\ inserted \in Nat /\ dropped \in Nat
        /\ Cardinality(Pending) \in Nat /\ Cardinality(Pending') \in Nat /\ Cardinality({}) = 0
    BY <1>0, EventSets, FS_EmptySet DEF IngestTypeOK
  <1>2. /\ inserted' = inserted + Cardinality(written' \ written)
        /\ dropped' = dropped + Cardinality(lost' \ lost)
        /\ UNCHANGED <<received, handler, next, held, accepted>>
    BY FlushFrame DEF CountSettled, handlerVars
  <1>3. \A e \in Event : (Ahead(e)' <=> Ahead(e)) /\ (InHand(e)' <=> InHand(e))
    BY <1>2 DEF Ahead, InHand
  <1>4. CASE UNCHANGED <<written, lost>> /\ \A e : InBuffer(e)' <=> InBuffer(e)
    <2>1. Pending' = Pending
      BY <1>0, <1>3, <1>4
    <2>2. written' \ written = {} /\ lost' \ lost = {}
      BY <1>4
    <2> QED
      BY <1>1, <1>2, <2>1, <2>2 DEF Balance
  <1>5. ASSUME NEW w \in Flusher,
               \A e : InBuffer(e)' <=> InBuffer(e) /\ e \notin flight[w],
               \/ written' = written \cup flight[w] /\ UNCHANGED lost
               \/ lost' = lost \cup flight[w] /\ UNCHANGED written
        PROVE  Balance'
    <2>1. flight[w] \subseteq Event /\ flight[w] \subseteq accepted /\ flight[w] \cap (written \cup lost) = {}
      BY DEF BufferInv, TypeOK, Apart, Flusher
    <2>2. \A e \in flight[w] : InBuffer(e)
      BY DEF InBuffer, Flusher
    <2>3. \A e \in flight[w] : ~Ahead(e) /\ ~InHand(e)
      BY <2>1, <2>2, NotAhead DEF InHand
    <2>4. Pending' = Pending \ flight[w] /\ flight[w] \subseteq Pending
      BY <1>0, <1>3, <1>5, <2>1, <2>2, <2>3
    <2>5. Cardinality(Pending) = Cardinality(Pending') + Cardinality(flight[w]) /\ Cardinality(flight[w]) \in Nat
      BY <1>0, <2>4, CountWithout
    <2>6. \/ written' \ written = flight[w] /\ lost' \ lost = {}
          \/ lost' \ lost = flight[w] /\ written' \ written = {}
      BY <1>5, <2>1
    <2>7. CASE written' \ written = flight[w] /\ lost' \ lost = {}
      <3>0. Cardinality(written' \ written) = Cardinality(flight[w]) /\ Cardinality(lost' \ lost) = 0
        BY <1>1, <2>7
      <3>1. inserted' = inserted + Cardinality(flight[w]) /\ dropped' = dropped
        BY <1>1, <1>2, <3>0
      <3> QED
        BY <1>1, <1>2, <2>5, <3>1 DEF Balance
    <2>8. CASE lost' \ lost = flight[w] /\ written' \ written = {}
      <3>0. Cardinality(lost' \ lost) = Cardinality(flight[w]) /\ Cardinality(written' \ written) = 0
        BY <1>1, <2>8
      <3>1. dropped' = dropped + Cardinality(flight[w]) /\ inserted' = inserted
        BY <1>1, <1>2, <3>0
      <3> QED
        BY <1>1, <1>2, <2>5, <3>1 DEF Balance
    <2> QED
      BY <2>6, <2>7, <2>8
  <1> QED
    BY <1>4, <1>5, FlushMoves

\* The counters stay in balance under every step.
LEMMA StepBalance ==
  ASSUME IngestTypeOK, IngestTypeOK', BufferInv, Handlers, Handlers', Begun, Balance, Next
  PROVE  Balance'
  <1>1. CASE \E r \in Request : Handle(r)
    BY <1>1, HandlerBalance
  <1>2. CASE FlushLoop \/ Drain
    BY <1>2, FlushBalance DEF FlushLoop, Drain
  <1>3. CASE (\E x \in Id : Expire(x)) \/ Sigterm \/ HttpClosed \/ Restart
    <2>1. UNCHANGED <<received, inserted, dropped, handler, next, held, accepted, buf, flight>>
      BY <1>3 DEF Expire, Sigterm, HttpClosed, Restart, ShutdownBegin, MainGoto, batchVars, bufferVars,
                  historyVars, handlerVars, counters
    <2>2. \A e \in Event : Ahead(e)' <=> Ahead(e)
      BY <2>1 DEF Ahead
    <2>3. \A e \in Event : InHand(e)' <=> InHand(e)
      BY <2>1 DEF InHand
    <2>4. \A e \in Event : InBuffer(e)' <=> InBuffer(e)
      BY <2>1 DEF InBuffer
    <2>5. /\ Pending \subseteq Event /\ Pending' \subseteq Event
          /\ \A e \in Event : /\ e \in Pending <=> Ahead(e) \/ InHand(e) \/ InBuffer(e)
                              /\ e \in Pending' <=> Ahead(e)' \/ InHand(e)' \/ InBuffer(e)'
      BY PendingIs, PendingIsNext DEF PendingWhere
    <2>6. Pending' = Pending
      BY <2>2, <2>3, <2>4, <2>5
    <2> QED
      BY <2>1, <2>6 DEF Balance
  <1>4. CASE EndProcess
    <2>1. /\ received' = 0 /\ inserted' = 0 /\ dropped' = 0 /\ buf' = {}
          /\ flight'["loop"] = {} /\ flight'["main"] = {}
          /\ held' = [r \in Request |-> {}]
          /\ handler' = [r \in Request |-> IF handler[r] \in {"scan", "adding"} THEN "done" ELSE handler[r]]
          /\ next' = [r \in Request |-> IF handler[r] = "new" THEN 1 ELSE Len(Body[r]) + 1]
      BY <1>4 DEF EndProcess, BufferReset, Flusher
    <2>2. ASSUME NEW e \in Event
          PROVE  ~Ahead(e)' /\ ~InHand(e)' /\ ~InBuffer(e)'
      <3>1. e[1] \in Request /\ e[2] \in 1..Len(Body[e[1]]) /\ Len(Body[e[1]]) \in Nat
        BY Occurrences
      <3>2. ~Ahead(e)'
        BY <2>1, <3>1 DEF Ahead
      <3> QED
        BY <2>1, <3>1, <3>2 DEF InHand, InBuffer
    <2>3. Pending' = {}
      BY <2>2, PendingIsNext DEF PendingWhere
    <2> QED
      BY <2>1, <2>3, FS_EmptySet DEF Balance
  <1> QED
    BY <1>1, <1>2, <1>3, <1>4, NextSplits DEF Background

\* No step loses an accepted event without a trace.
LEMMA StepKept ==
  ASSUME IngestTypeOK, BufferInv, Kept, Next
  PROVE  Kept'
  <1> USE DEF batchVars, bufferVars, historyVars
  <1>0. \A e \in accepted : InBuffer(e) \/ e \in written \cup lost \cup gone
    BY DEF Kept, InBuffer
  <1>1. CASE FlushLoop \/ Drain
    <2>1. Loop \/ Shutdown
      BY <1>1 DEF FlushLoop, Drain
    <2>2. UNCHANGED <<accepted, gone>>
      BY <1>1, <2>1, FlushFrame DEF FlushLoop, Drain
    <2>3. \A e : InBuffer(e) \/ e \in written \cup lost => InBuffer(e)' \/ e \in written' \cup lost'
      BY <2>1, FlushMoves
    <2>4. \A e \in accepted' : InBuffer(e)' \/ e \in written' \cup lost' \cup gone'
      BY <1>0, <2>2, <2>3
    <2> QED
      BY <2>4 DEF Kept, InBuffer
  <1>2. ASSUME NEW r \in Request, Add(r)
        PROVE  Kept'
    <2>1. /\ UNCHANGED <<flight, written, lost, gone>>
          /\ \/ accepted' = accepted \cup held[r] /\ buf' = buf \cup held[r]
             \/ UNCHANGED <<accepted, buf>>
      BY <1>2 DEF Add, AddFits, AddFull
    <2> QED
      BY <2>1 DEF Kept
  <1>3. CASE EndProcess
    <2>1. /\ UNCHANGED <<accepted, written, lost>>
          /\ gone' = gone \cup buf \cup flight["loop"] \cup flight["main"] \cup UNION {held[r] : r \in Request}
      BY <1>3 DEF EndProcess
    <2> QED
      BY <2>1 DEF Kept
  <1>4. ASSUME UNCHANGED <<accepted, buf, flight, written, lost, gone>>
        PROVE  Kept'
    BY <1>4 DEF Kept
  <1>5. ASSUME NEW r \in Request,
               Deny(r) \/ Receive(r) \/ ScanInvalid(r) \/ ScanDuplicate(r) \/ ScanFresh(r) \/ AllDuplicates(r) \/ Answer(r)
        PROVE  Kept'
    BY <1>4, <1>5 DEF Deny, Receive, ScanInvalid, ScanDuplicate, ScanFresh, AllDuplicates, Answer, AddReturn
  <1>6. CASE (\E x \in Id : Expire(x)) \/ Sigterm \/ HttpClosed \/ Restart
    BY <1>4, <1>6 DEF Expire, Sigterm, HttpClosed, Restart, ShutdownBegin, MainGoto
  <1> QED
    BY <1>1, <1>2, <1>3, <1>5, <1>6, NextSplits DEF Handle, Background

-----------------------------------------------------------------------------
(* The end of a process.                                                    *)

\* stop goes with the HTTP server, and only a timed-out shutdown leaves handlers.
LEMMA StepStopping ==
  ASSUME IngestTypeOK, BufferInv, Handlers, Stopping, Next
  PROVE  Stopping'
  <1> USE DEF IngestTypeOK, batchVars, bufferVars, historyVars, handlerVars, processVars, Reply
  <1>1. ASSUME NEW r \in Request,
               Deny(r) \/ Receive(r) \/ ScanInvalid(r) \/ ScanDuplicate(r) \/ ScanFresh(r) \/ AllDuplicates(r) \/ Answer(r)
        PROVE  Stopping'
    <2>1. /\ server # "down" /\ UNCHANGED <<server, stop, timedOut, buf, late, accepted>>
          /\ server = "listening" \/ handler[r] \in {"scan", "adding"}
      BY <1>1 DEF Deny, Receive, ScanInvalid, ScanDuplicate, ScanFresh, AllDuplicates, Answer, AddReturn,
                  Scanning, Scanned
    <2>2. stop /\ ~timedOut => FALSE
      BY <2>1 DEF Stopping, Busy
    <2> QED
      BY <2>1, <2>2 DEF Stopping
  <1>2. ASSUME NEW r \in Request, Add(r)
        PROVE  Stopping'
    <2>1. /\ server # "down" /\ UNCHANGED <<server, stop, timedOut>>
          /\ handler[r] = "scan" /\ held[r] \cap accepted = {}
          /\ \/ /\ buf' = buf \cup held[r] /\ accepted' = accepted \cup held[r]
                /\ late' = IF stop THEN late \cup held[r] ELSE late
             \/ UNCHANGED <<buf, accepted, late>>
      BY <1>2 DEF Add, Scanned, AddFits, AddFull, Handlers, Placed
    <2>2. stop /\ ~timedOut => FALSE
      BY <2>1 DEF Stopping, Busy
    <2>3. late' \subseteq accepted' /\ (~stop => buf' \cap late' = {})
      BY <2>1 DEF Stopping
    <2> QED
      BY <2>1, <2>2, <2>3 DEF Stopping
  <1>3. CASE FlushLoop \/ Drain
    <2>1. /\ UNCHANGED <<server, timedOut, accepted, late, handler, held>>
      BY <1>3, FlushFrame DEF FlushLoop, Drain
    <2>2. UNCHANGED stop /\ (buf' = buf \/ buf' = {})
      <3>1. CASE \E w \in Flusher : Flush(w)
        BY <3>1 DEF Flush, Swap, InsertOk, InsertErr, BackoffElapsed, BackoffCancelled
      <3>2. CASE \/ LoopTick \/ LoopFlushReq \/ LoopStop
                \/ ShutdownWait \/ ShutdownDrain \/ ShutdownEmpty \/ ShutdownCheck
        BY <3>2 DEF LoopTick, LoopFlushReq, LoopStop, LoopGoto, ShutdownWait, ShutdownDrain, ShutdownEmpty,
                    ShutdownCheck, MainGoto
      <3> QED
        BY <1>3, <3>1, <3>2 DEF FlushLoop, Drain, Loop, Shutdown, Flusher
    <2>3. Busy' <=> Busy
      BY <2>1 DEF Busy
    <2> QED
      BY <2>1, <2>2, <2>3 DEF Stopping
  <1>4. CASE (\E x \in Id : Expire(x)) \/ Sigterm
    <2>1. /\ UNCHANGED <<stop, timedOut, accepted, late, buf, handler, held>>
          /\ server' = server \/ (server = "listening" /\ server' = "closing")
      BY <1>4 DEF Expire, Sigterm
    <2>2. Busy' <=> Busy
      BY <2>1 DEF Busy
    <2> QED
      BY <2>1, <2>2 DEF Stopping
  <1>5. CASE HttpClosed
    <2>1. /\ server = "closing" /\ server' = "draining" /\ stop' = TRUE /\ (timedOut' <=> Busy)
          /\ UNCHANGED <<accepted, late, buf, handler, held>>
      BY <1>5 DEF HttpClosed, ShutdownBegin, MainGoto
    <2>2. (Busy' <=> Busy) /\ buf \cap late = {}
      BY <2>1 DEF Busy, Stopping
    <2> QED
      BY <2>1, <2>2 DEF Stopping
  <1>6. CASE Restart
    <2>1. /\ server = "down" /\ server' = "listening"
          /\ UNCHANGED <<stop, accepted, late, buf, handler, held>>
      BY <1>6 DEF Restart
    <2> QED
      BY <2>1 DEF Stopping
  <1>7. CASE EndProcess
    <2>1. /\ server' = "down" /\ stop' = FALSE /\ buf' = {} /\ UNCHANGED <<accepted, late>>
          /\ \A r \in Request : held'[r] = {} /\ handler'[r] \notin {"scan", "adding"}
      BY <1>7 DEF EndProcess, BufferReset
    <2> QED
      BY <2>1 DEF Stopping, Busy
  <1> QED
    BY <1>1, <1>2, <1>3, <1>4, <1>5, <1>6, <1>7, NextSplits DEF Handle, Background

-----------------------------------------------------------------------------
(* The invariant.                                                           *)

\* The initial state satisfies it.
LEMMA InitProcessInv == Init => ProcessInv
  <1> SUFFICES ASSUME Init PROVE ProcessInv
    OBVIOUS
  <1>1. BufferInv
    BY InitIInv DEF IInv, Init
  <1>2. /\ server = "listening" /\ timedOut = FALSE
        /\ handler = [r \in Request |-> "new"] /\ next = [r \in Request |-> 1]
        /\ held = [r \in Request |-> {}] /\ status = [r \in Request |-> 0]
        /\ seen = {} /\ received = 0 /\ inserted = 0 /\ dropped = 0
        /\ live = {} /\ gone = {} /\ restarts = 0
        /\ accepted = {} /\ refused = {} /\ buf = {} /\ late = {} /\ stop = FALSE
        /\ flight["loop"] = {} /\ flight["main"] = {}
        /\ call = [r \in Request |-> Idle]
    BY IngestAssumption DEF Init, BatchInit, BufferInit, Flusher
  <1>3. IngestTypeOK
    <2>1. /\ handler \in [Request -> {"new", "denied", "scan", "adding", "done"}]
          /\ next \in [Request -> Nat \ {0}]
          /\ held \in [Request -> SUBSET Event]
          /\ status \in [Request -> {0, 202, 400, 401, 429}]
      BY <1>2
    <2>2. restarts \in 0..MaxRestarts
      BY <1>2, IngestAssumption
    <2> QED
      BY <1>1, <1>2, <2>1, <2>2 DEF IngestTypeOK, BufferInv
  <1>4. Handlers
    BY <1>2, Occurrences DEF Handlers, Placed
  <1>5. DedupOnce /\ Begun /\ Explained
    BY <1>2 DEF DedupOnce, Begun, Explained, Behind, AckExplained
  <1>6. Balance
    <2>1. \A e \in Event : e[1] \in Request /\ ~Ahead(e) /\ ~InHand(e) /\ ~InBuffer(e)
      BY <1>2, Occurrences DEF Ahead, InHand, InBuffer
    <2>2. Pending = {}
      BY <1>3, <1>4, <2>1, PendingIs DEF PendingWhere
    <2> QED
      BY <1>2, <2>2, FS_EmptySet DEF Balance
  <1>7. Stopping /\ Kept
    BY <1>2 DEF Stopping, Kept
  <1> QED
    BY <1>1, <1>3, <1>4, <1>5, <1>6, <1>7 DEF ProcessInv

\* Every step keeps it.
LEMMA StepProcessInv == ProcessInv /\ [Next]_ingestVars => ProcessInv'
  <1>1. ASSUME ProcessInv, Next
        PROVE  ProcessInv'
    <2>1. BufferInv' /\ Handlers' /\ Begun' /\ Explained' /\ DedupOnce' /\ Stopping'
      BY <1>1, StepBuffer, StepHandlers, StepBegun, StepExplained, StepDedup, StepStopping DEF ProcessInv
    <2>2. IngestTypeOK'
      BY <1>1, <2>1, StepTypes DEF ProcessInv
    <2>3. Balance' /\ Kept'
      BY <1>1, <2>1, <2>2, StepBalance, StepKept DEF ProcessInv
    <2> QED
      BY <2>1, <2>2, <2>3 DEF ProcessInv
  <1>2. ASSUME ProcessInv, UNCHANGED ingestVars
        PROVE  ProcessInv'
    <2>1. BufferInv'
      BY <1>2, SameBufferInv DEF ProcessInv, ingestVars
    <2> USE DEF ingestVars, batchVars, bufferVars, historyVars, handlerVars, processVars, counters, dedupVars
    <2>2. IngestTypeOK' /\ DedupOnce' /\ Handlers' /\ Begun' /\ Stopping'
      BY <1>2, <2>1 DEF ProcessInv, BufferInv, IngestTypeOK, DedupOnce, Handlers, Placed, Begun, Stopping, Busy
    <2>3. Explained'
      BY <1>2 DEF ProcessInv, Explained, Behind, AckExplained, Duplicate, Passed
    <2>4. Balance' /\ Kept'
      BY <1>2 DEF ProcessInv, Balance, Pending, Limbo, Kept
    <2> QED
      BY <2>1, <2>2, <2>3, <2>4 DEF ProcessInv
  <1> QED
    BY <1>1, <1>2

\* The invariant holds in every reachable state of Ingest, before and after any
\* number of crashes and restarts.
THEOREM IngestInductive == Spec => []ProcessInv
  <1> QED
    BY InitProcessInv, StepProcessInv, PTL DEF Spec

\* Type correctness of the handlers, the process, the counters and the buffer.
THEOREM IngestTypeCorrect == Spec => []IngestTypeOK
  <1>1. ProcessInv => IngestTypeOK
    BY DEF ProcessInv
  <1> QED
    BY <1>1, IngestInductive, PTL

\* A request_id passes dedup once in a process and a TTL, for every interleaving of
\* the handlers of any number of requests (dedup.Seen).
THEOREM IngestDedupOnce == Spec => []DedupOnce
  <1>1. ProcessInv => DedupOnce
    BY DEF ProcessInv
  <1> QED
    BY <1>1, IngestInductive, PTL

\* A 202 of handleEvents says that each event was enqueued or is a duplicate of one
\* that passed dedup before.
THEOREM IngestAckExplained == Spec => []AckExplained
  <1>1. ProcessInv => AckExplained
    BY DEF ProcessInv, Explained
  <1> QED
    BY <1>1, IngestInductive, PTL

\* The counters of a process account for every event it received, whatever the
\* handlers, the flush loop and the drain interleave.
THEOREM IngestCountersBalance == Spec => []CountersBalance
  <1>1. ProcessInv => CountersBalance
    BY DEF ProcessInv, CountersBalance, Balance, Pending
  <1> QED
    BY <1>1, IngestInductive, PTL

\* No accepted event is lost without a trace, across crashes and restarts: the safety
\* half of Settled.
THEOREM IngestKept == Spec => []Kept
  <1>1. ProcessInv => Kept
    BY DEF ProcessInv
  <1> QED
    BY <1>1, IngestInductive, PTL

\* The memory bound of the buffer holds in the whole process, and after a restart.
THEOREM IngestMemoryBounded == Spec => []MemoryBounded
  <1>1. ProcessInv => MemoryBounded
    BY DEF ProcessInv, BufferInv
  <1> QED
    BY <1>1, IngestInductive, PTL

\* The counters agree with the table across crashes: no batch a crash interrupted is
\* counted inserted, and no event has more rows than attempts.
THEOREM IngestStoreAgrees == Spec => []StoreAgrees
  <1>1. ProcessInv => StoreAgrees
    BY DEF ProcessInv, BufferInv, StoreAgrees, RowCount, Apart, TypeOK
  <1> QED
    BY <1>1, IngestInductive, PTL

\* A shutdown whose HTTP phase did not time out ends with no accepted event in
\* memory (runServe: httpServer.Shutdown, then the buffer's).
THEOREM IngestGracefulExit == Spec => GracefulExit
  <1>1. ProcessInv /\ [Next]_ingestVars => [Exit /\ ~timedOut => gone' \cap accepted \subseteq gone]_ingestVars
    <2> SUFFICES ASSUME ProcessInv, Exit, ~timedOut
                 PROVE  gone' \cap accepted \subseteq gone
      OBVIOUS
    <2> USE DEF ProcessInv
    <2>1. stop /\ ~Busy /\ buf \cap late = {} /\ pc["main"] = "done"
      BY DEF Exit, Stopping
    <2>2. buf = {}
      BY <2>1 DEF BufferInv, DrainLeaves
    <2>3. flight["loop"] = {} /\ flight["main"] = {}
      BY <2>1 DEF BufferInv, Holding, Handover, Flusher
    <2>4. \A r \in Request : held[r] \cap accepted = {}
      BY <2>1 DEF Busy, Handlers, Placed
    <2>5. gone' = gone \cup buf \cup flight["loop"] \cup flight["main"] \cup UNION {held[r] : r \in Request}
      BY DEF Exit, EndProcess
    <2> QED
      BY <2>2, <2>3, <2>4, <2>5
  <1> QED
    BY <1>1, IngestInductive, PTL DEF Spec, GracefulExit
=============================================================================
