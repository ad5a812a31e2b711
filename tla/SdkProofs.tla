----------------------------- MODULE SdkProofs ------------------------------
(***************************************************************************)
(* Proofs about Sdk for every set of flows, contexts, clients, options,     *)
(* calls, requests, replies and shutdowns.  SdkInv strengthens three of the *)
(* invariants proved: it says what a call under way has not emitted yet,    *)
(* that a recorder points at a queue that exists, that a queue stopped in   *)
(* time is empty, and what a signal waits for before the process exits.     *)
(* BillsInv strengthens the fourth: it says what the accumulator of a       *)
(* stream under way holds.  AttrInv strengthens the fifth: it says what a   *)
(* store holds of the contexts nested around it.                            *)
(***************************************************************************)
EXTENDS Sdk, SequenceTheorems, FiniteSetTheorems, NaturalsInduction, WellFoundedInduction, TLAPS

\* A call has no event before it ended and one after; its stream emits once.
CallOK(call) ==
  /\ DOMAIN call = DOMAIN Idle
  /\ call.phase \in Phases
  /\ call.phase \notin Ended => call.events = <<>> /\ call.emitted = FALSE
  /\ call.phase \in Ended => Len(call.events) = 1

\* An observed call was made on a wrapped client, and only such a call streams.
Asked(call) ==
  /\ call.phase # "idle" /\ call.request.kind = "proxy" =>
       call.request.client \in Client /\ recorder[call.request.client] # Null
  /\ call.phase \in {"stream", "open"} => call.request.kind = "proxy"

CallsOK == DOMAIN calls = Call /\ \A c \in Call : CallOK(calls[c]) /\ Asked(calls[c])

QueueStates == {"live", "draining", "late", "stopped"}

\* The queues are a sequence; a queue that stopped in time is empty.
QueuesOK(qs) ==
  /\ qs \in Seq({qs[i] : i \in DOMAIN qs})
  /\ \A i \in DOMAIN qs :
       /\ DOMAIN qs[i] = {"dest", "state", "buffer", "shipped"}
       /\ qs[i].state \in QueueStates
       /\ qs[i].state = "stopped" => qs[i].buffer = {}

\* The registry names the live queues, each under its own key.
RegistryOK(reg, qs) ==
  /\ {i \in DOMAIN qs : qs[i].state = "live"} = {reg[d] : d \in DOMAIN reg}
  /\ \A d \in DOMAIN reg : qs[reg[d]].dest = d

RecordersOK ==
  /\ DOMAIN recorder = Client
  /\ \A c \in Client : recorder[c] # Null => recorder[c].queue \in DOMAIN queues

\* The event of a call is in one queue from its end, or in none for good.
TakenOnce ==
  \A c \in Call :
    IF calls[c].phase \in Ended
    THEN \/ \E i \in DOMAIN queues : \A j \in DOMAIN queues : c \in Took(j) <=> j = i
         \/ /\ \A j \in DOMAIN queues : c \notin Took(j)
            /\ Proxied(c)
            /\ queues[recorder[calls[c].request.client].queue].state # "live"
    ELSE \A j \in DOMAIN queues : c \notin Took(j)

\* The only signal waits for every queue that is draining, and an exit for it.
SignalWaits ==
  /\ shutdowns \in Nat
  /\ shutdowns = 0 => waits = {} /\ \A i \in DOMAIN queues : queues[i].state = "live"
  /\ shutdowns = 1 =>
       \A w \in waits : \A i \in DOMAIN queues : queues[i].state = "draining" => i \in w
  /\ exited /\ shutdowns = 1 => \A i \in DOMAIN queues : queues[i].state # "draining"

SdkInv ==
  /\ CallsOK
  /\ QueuesOK(queues)
  /\ RegistryOK(registry, queues)
  /\ RecordersOK
  /\ TakenOnce
  /\ SignalWaits

AdapterNames == {"openai", "anthropic", "gemini", "bedrock"}

\* A wrapped client has one of the four adapters.
AdaptersKnown == \A k \in Client : recorder[k] # Null => recorder[k].adapter \in AdapterNames

\* What an accumulator makes of the first n chunks of a stream, of two at most.
Fed(adapter, chunks, n) ==
  IF n = 0 THEN NoUsage
  ELSE IF n = 1 THEN feed(adapter, NoUsage, chunks[1])
  ELSE feed(adapter, feed(adapter, NoUsage, chunks[1]), chunks[2])

\* A stream has been fed the chunks its consumer has seen.
Feeding(adapter, call, replies) ==
  /\ call.reply \in replies /\ call.streaming = TRUE /\ call.reply.iterable
  /\ call.seen \in 0..Len(Chunks(adapter, call))
  /\ call.acc = Fed(adapter, Chunks(adapter, call), call.seen)

\* A call that waits was fed nothing, and one that ended is billed as it should be.
CallBills(adapter, call, replies) ==
  /\ call.streaming \in BOOLEAN /\ (call.streaming => adapter # "bedrock")
  /\ call.phase = "pending" => call.reply = Null /\ call.seen = 0 /\ call.acc = NoUsage
  /\ call.phase \in {"stream", "open"} => Feeding(adapter, call, replies)
  /\ call.phase \in Ended => BillsAsCall(adapter, call)

Observing(call) == call.phase \notin {"idle", "unobserved"} /\ call.request.kind = "proxy"

BillsInv ==
  /\ AdaptersKnown
  /\ \A c \in Call : Observing(calls[c]) =>
       CallBills(recorder[calls[c].request.client].adapter, calls[c], Replies[c])

\* A call that throws or is rejected is billed at once.
Failing(call) == emit([call EXCEPT !.phase = "failed"], call.nested, NoUsage, "error")

\* The spellings of the customer, which the properties ask for.
Names == {"customerId", "customer_id"}

\* Where the first n of nested contexts name the customer by a spelling.
UsedTo(frames, n, k) == {i \in 1..n : k \in Naming(frames[i].given)}

\* What another context adds to that.
MoreUsed(frames, more, n, k) ==
  UsedTo(more, n + 1, k) =
    UsedTo(frames, n, k) \cup (IF k \in Naming(more[n + 1].given) THEN {n + 1} ELSE {})

IsFirst(S, i) == i \in S /\ \A j \in S : i <= j

IsLast(S, i) == i \in S /\ \A j \in S : j <= i

\* A spelling is in the store if a context uses it, with the value of the last that does.
Holds(frames, n, store, k) ==
  IF k \in DOMAIN store
  THEN /\ store[k].is # Null
       /\ \E i \in UsedTo(frames, n, k) :
            IsLast(UsedTo(frames, n, k), i) /\ store[k].is = frames[i].given[k].is
  ELSE UsedTo(frames, n, k) = {}

\* Two spellings are in the store in the order in which they were first used.
Orders(frames, n, store, j, k) ==
  \E l \in UsedTo(frames, n, j), m \in UsedTo(frames, n, k) :
    /\ IsFirst(UsedTo(frames, n, j), l) /\ IsFirst(UsedTo(frames, n, k), m)
    /\ IF l = m THEN store[j].at < store[k].at <=> frames[m].given[j].at < frames[m].given[k].at
       ELSE store[j].at < store[k].at <=> l < m

Places(store) == \E b \in Nat : \A k \in DOMAIN store : store[k].at \in 1..b

\* What the first n of nested contexts make of the store.
Fits(frames, n, store) ==
  /\ Places(store)
  /\ \A k \in Names : Holds(frames, n, store, k)
  /\ \A j, k \in Names \cap DOMAIN store : j # k =>
       store[j].at # store[k].at /\ Orders(frames, n, store, j, k)

StoreAt(frames, n) == IF n = 0 THEN Empty ELSE frames[n].store

FramesOK(frames) ==
  /\ frames \in Seq({frames[i] : i \in DOMAIN frames})
  /\ \A i \in DOMAIN frames : IsObject(frames[i].given)
  /\ \A n \in 0..Len(frames) : Fits(frames, n, StoreAt(frames, n))

\* What an event made in some frames owes: the customer the call names, or else they do.
Owes(call, frames) ==
  field(call.events[1].fields, "customer_id") =
    Coalesce(Customer(CallSite(call.request)), Innermost(frames))

\* A call keeps the frames it was made in and what it says of itself, and owes its event to both.
CallFor(call) ==
  /\ FramesOK(call.nested) /\ FramesOK(call.puller)
  /\ call.phase \notin {"idle", "unobserved"} =>
       /\ IsObject(CallSite(call.request))
       /\ call.request.kind = "proxy" => call.callMeta = CallSite(call.request)
       /\ call.phase = "pending" => call.reply = Null
       /\ call.phase \in Ended => Owes(call, IF Wrapped(call) THEN call.puller ELSE call.nested)

AttrInv ==
  /\ DOMAIN nested = Flow /\ \A f \in Flow : FramesOK(nested[f])
  /\ \A k \in Client : recorder[k] # Null => Naming(recorder[k].meta) = {}
  /\ \A c \in Call : CallFor(calls[c])

\* The options a call is recorded with name the customer as its call site does.
Recounts(opts, site) ==
  LET callMeta == Without(opts, NonMetaKeys)
  IN  Naming(callMeta) = Naming(site) /\ Customer(callMeta) = Customer(site)

-----------------------------------------------------------------------------
(* Calls.                                                                   *)

\* An event appended to none is the only one.
LEMMA OneAppended == \A x : Len(Append(<<>>, x)) = 1 /\ Len(<<>>) = 0
  OBVIOUS

\* emit gives a call without an event its event, and changes nothing else of it.
LEMMA Emits ==
  ASSUME NEW call, DOMAIN call = DOMAIN Idle, call.events = <<>>,
         NEW ctx, NEW usage, NEW status
  PROVE  LET after == emit(call, ctx, usage, status)
         IN  /\ DOMAIN after = DOMAIN Idle
             /\ Len(after.events) = 1
             /\ after.phase = call.phase /\ after.request = call.request
             /\ after.emitted = call.emitted
  BY OneAppended DEF emit, Idle

\* A stream whose closure has not emitted, and one whose closure has.
Fresh(call) == DOMAIN call = DOMAIN Idle /\ call.events = <<>> /\ call.emitted = FALSE

Finished(call) == DOMAIN call = DOMAIN Idle /\ Len(call.events) = 1 /\ call.emitted = TRUE

\* finish emits once: called again, from the finally, it changes nothing.
LEMMA FinishesOnce ==
  ASSUME NEW call, Fresh(call), NEW ctx, NEW status
  PROVE  LET once == finish(call, ctx, status)
         IN  Finished(once) /\ once.phase = call.phase /\ once.request = call.request
  <1> DEFINE begun == [call EXCEPT !.emitted = TRUE]
             once  == finish(call, ctx, status)
  <1>1. /\ DOMAIN begun = DOMAIN Idle /\ begun.events = <<>> /\ begun.emitted = TRUE
        /\ begun.phase = call.phase /\ begun.request = call.request
    BY DEF Fresh, Idle
  <1>2. once = emit(begun, ctx, call.acc, status)
    BY DEF Fresh, finish
  <1> HIDE DEF begun
  <1>3. /\ DOMAIN once = DOMAIN Idle /\ Len(once.events) = 1
        /\ once.phase = call.phase /\ once.request = call.request /\ once.emitted = TRUE
    BY <1>1, <1>2, Emits
  <1> QED
    BY <1>3 DEF Finished

\* finishResult leaves a call that streams, or one that ended with its event.
LEMMA ResultCounted ==
  ASSUME NEW call, DOMAIN call = DOMAIN Idle, call.events = <<>>, call.emitted = FALSE,
         NEW reply
  PROVE  LET after == finishResult(call, reply)
         IN  CallOK(after) /\ after.request = call.request /\ after.phase \in {"stream", "done"}
  <1> DEFINE ended == [call EXCEPT !.phase = "done", !.reply = reply]
             usage == parseUsage(recorder[call.request.client].adapter, reply.body)
  <1>1. /\ DOMAIN ended = DOMAIN Idle /\ ended.events = <<>>
        /\ ended.phase = "done" /\ ended.request = call.request
    BY DEF Idle
  <1> HIDE DEF ended, usage
  <1>2. CASE call.streaming /\ reply.iterable
    BY <1>2 DEF finishResult, CallOK, Phases, Ended, Idle
  <1>3. CASE ~(call.streaming /\ reply.iterable)
    <2>1. finishResult(call, reply) = emit(ended, call.nested, usage, "ok")
      BY <1>3 DEF finishResult, ended, usage
    <2> QED
      BY <2>1, <1>1, Emits DEF CallOK, Phases, Ended
  <1> QED
    BY <1>2, <1>3

\* A failed call has its event.
LEMMA FailureCounted ==
  ASSUME NEW call, DOMAIN call = DOMAIN Idle, call.events = <<>>
  PROVE  LET after == emit([call EXCEPT !.phase = "failed"], call.nested, NoUsage, "error")
         IN  CallOK(after) /\ after.request = call.request /\ after.phase = "failed"
  <1> DEFINE ended == [call EXCEPT !.phase = "failed"]
  <1>1. /\ DOMAIN ended = DOMAIN Idle /\ ended.events = <<>>
        /\ ended.phase = "failed" /\ ended.request = call.request
    BY DEF Idle
  <1> HIDE DEF ended
  <1>2. LET after == emit(ended, call.nested, NoUsage, "error")
        IN  CallOK(after) /\ after.request = call.request /\ after.phase = "failed"
    BY <1>1, Emits DEF CallOK, Phases, Ended
  <1> QED
    BY <1>2 DEF ended

-----------------------------------------------------------------------------
(* Queues.                                                                  *)

\* A function over 1..n is a sequence of its values.
LEMMA SequenceOfValues ==
  ASSUME NEW n \in Nat, NEW f, f = [i \in 1..n |-> f[i]]
  PROVE  f \in Seq({f[i] : i \in DOMAIN f}) /\ DOMAIN f = 1..n
  <1>1. DOMAIN f = 1..n
    OBVIOUS
  <1>2. f \in [1..n -> {f[i] : i \in 1..n}]
    OBVIOUS
  <1> QED
    BY <1>1, <1>2

\* The registry stays right while no queue changes its key or its state.
LEMMA SameRegistry ==
  ASSUME NEW reg, NEW qs, NEW after, RegistryOK(reg, qs), DOMAIN after = DOMAIN qs,
         \A j \in DOMAIN qs : after[j].state = qs[j].state /\ after[j].dest = qs[j].dest
  PROVE  RegistryOK(reg, after)
  <1>1. {j \in DOMAIN after : after[j].state = "live"} = {j \in DOMAIN qs : qs[j].state = "live"}
    OBVIOUS
  <1>2. \A d \in DOMAIN reg : reg[d] \in DOMAIN qs /\ qs[reg[d]].dest = d
    BY DEF RegistryOK
  <1>3. {j \in DOMAIN after : after[j].state = "live"} = {reg[d] : d \in DOMAIN reg}
    BY <1>1 DEF RegistryOK
  <1>4. \A d \in DOMAIN reg : after[reg[d]].dest = d
    BY <1>2
  <1> QED
    BY <1>3, <1>4 DEF RegistryOK

\* enqueue puts an event into a live queue and leaves every other as it is.
LEMMA Enqueues ==
  ASSUME NEW qs, QueuesOK(qs), NEW i \in DOMAIN qs, NEW c
  PROVE  LET after == enqueue(qs, i, c)
         IN  /\ QueuesOK(after) /\ DOMAIN after = DOMAIN qs
             /\ \A j \in DOMAIN qs :
                  /\ after[j].dest = qs[j].dest /\ after[j].state = qs[j].state
                  /\ after[j].shipped = qs[j].shipped
                  /\ after[j].buffer = IF j = i /\ qs[j].state = "live"
                                       THEN qs[j].buffer \cup {c} ELSE qs[j].buffer
  <1>1. CASE qs[i].state # "live"
    BY <1>1 DEF enqueue
  <1>2. CASE qs[i].state = "live"
    <2> DEFINE after == [qs EXCEPT ![i].buffer = @ \cup {c}]
    <2>1. enqueue(qs, i, c) = after
      BY <1>2 DEF enqueue
    <2>2. PICK n \in Nat : qs = [j \in 1..n |-> qs[j]]
      BY DEF QueuesOK
    <2>3. after = [j \in 1..n |-> after[j]]
      BY <2>2
    <2>4. DOMAIN after = DOMAIN qs /\ after \in Seq({after[j] : j \in DOMAIN after})
      <3> HIDE DEF after
      <3> QED  BY <2>2, <2>3, SequenceOfValues
    <2>5. \A j \in DOMAIN qs :
            /\ DOMAIN after[j] = DOMAIN qs[j]
            /\ after[j].dest = qs[j].dest /\ after[j].state = qs[j].state
            /\ after[j].shipped = qs[j].shipped
            /\ after[j].buffer = IF j = i THEN qs[j].buffer \cup {c} ELSE qs[j].buffer
      BY DEF QueuesOK
    <2> HIDE DEF after
    <2>6. QueuesOK(after)
      BY <1>2, <2>4, <2>5 DEF QueuesOK
    <2> QED
      BY <1>2, <2>1, <2>4, <2>5, <2>6
  <1> QED
    BY <1>1, <1>2

\* getQueue returns the live queue of a destination, a new and empty one if need be,
\* and leaves the others as they are.
LEMMA GetsQueue ==
  ASSUME QueuesOK(queues), RegistryOK(registry, queues), NEW dest
  PROVE  LET qs == QueuesWith(dest)
             n  == QueueOf(dest)
         IN  /\ QueuesOK(qs) /\ RegistryOK(RegistryWith(dest), qs)
             /\ n \in DOMAIN qs /\ qs[n].state = "live"
             /\ DOMAIN queues \subseteq DOMAIN qs
             /\ \A i \in DOMAIN queues : qs[i] = queues[i]
             /\ \A i \in DOMAIN qs \ DOMAIN queues :
                  i = n /\ qs[i].buffer = {} /\ qs[i].shipped = {}
  <1> DEFINE reg == RegistryWith(dest)
  <1>0. /\ DOMAIN reg = DOMAIN registry \cup {dest}
        /\ reg[dest] = QueueOf(dest)
        /\ \A d \in DOMAIN registry \ {dest} : reg[d] = registry[d]
    BY DEF RegistryWith
  <1> HIDE DEF reg
  <1>1. CASE dest \in DOMAIN registry
    <2>1. \A d \in DOMAIN registry : reg[d] = registry[d]
      BY <1>0, <1>1 DEF QueueOf
    <2>2. DOMAIN reg = DOMAIN registry
      BY <1>0, <1>1
    <2>3. RegistryOK(reg, queues)
      BY <2>1, <2>2 DEF RegistryOK
    <2>4. registry[dest] \in DOMAIN queues /\ queues[registry[dest]].state = "live"
      BY <1>1 DEF RegistryOK
    <2> QED
      BY <1>1, <2>3, <2>4 DEF QueuesWith, QueueOf, reg
  <1>2. CASE dest \notin DOMAIN registry
    <2> DEFINE n  == Len(queues) + 1
               new == NewQueue(dest)
               qs == Append(queues, new)
    <2>1. /\ DOMAIN queues = 1..Len(queues) /\ Len(queues) \in Nat
      BY DEF QueuesOK
    <2>2. /\ DOMAIN new = {"dest", "state", "buffer", "shipped"} /\ new.dest = dest
          /\ new.state = "live" /\ new.buffer = {} /\ new.shipped = {}
      BY DEF NewQueue
    <2> HIDE DEF new
    <2>3. queues \in Seq({queues[i] : i \in DOMAIN queues} \cup {new})
      BY DEF QueuesOK
    <2>4. /\ DOMAIN qs = 1..n /\ qs[n] = new /\ \A i \in DOMAIN queues : qs[i] = queues[i]
          /\ qs = [i \in 1..n |-> qs[i]]
      <3>1. /\ Len(qs) = n /\ qs \in Seq({queues[i] : i \in DOMAIN queues} \cup {new})
            /\ qs[n] = new /\ \A i \in DOMAIN queues : qs[i] = queues[i]
        BY <2>1, <2>3, AppendProperties
      <3> HIDE DEF qs, n
      <3>2. DOMAIN qs = 1..n /\ qs = [i \in 1..n |-> qs[i]]
        BY <3>1
      <3> QED  BY <3>1, <3>2
    <2> HIDE DEF qs
    <2>5. n \in Nat /\ n \notin DOMAIN queues /\ DOMAIN qs = DOMAIN queues \cup {n}
      BY <2>1, <2>4
    <2>6. qs \in Seq({qs[i] : i \in DOMAIN qs})
      BY <2>4, <2>5, SequenceOfValues
    <2> HIDE DEF n
    <2>7. QueuesOK(qs)
      BY <2>2, <2>4, <2>5, <2>6 DEF QueuesOK, QueueStates
    <2>8. reg[dest] = n
      BY <1>0, <1>2 DEF QueueOf, n
    <2>9. {reg[d] : d \in DOMAIN reg} = {registry[d] : d \in DOMAIN registry} \cup {n}
      BY <1>0, <1>2, <2>8
    <2>10. {i \in DOMAIN qs : qs[i].state = "live"}
             = {i \in DOMAIN queues : queues[i].state = "live"} \cup {n}
      BY <2>2, <2>4, <2>5
    <2>11. \A d \in DOMAIN reg : qs[reg[d]].dest = d
      <3>1. qs[reg[dest]].dest = dest
        BY <2>2, <2>4, <2>8
      <3>2. ASSUME NEW d \in DOMAIN registry PROVE qs[reg[d]].dest = d
        <4>1. registry[d] \in DOMAIN queues /\ queues[registry[d]].dest = d
          BY DEF RegistryOK
        <4> QED  BY <4>1, <1>0, <1>2, <2>4
      <3> QED  BY <3>1, <3>2, <1>0
    <2>12. RegistryOK(reg, qs)
      BY <2>9, <2>10, <2>11 DEF RegistryOK
    <2> QED
      BY <1>2, <2>2, <2>4, <2>5, <2>7, <2>12 DEF QueuesWith, QueueOf, n, qs, new, reg
  <1> QED
    BY <1>1, <1>2
-----------------------------------------------------------------------------
(* Steps.                                                                   *)

\* The initial state satisfies the invariant.
LEMMA InitSdkInv == Init => SdkInv
  <1> SUFFICES ASSUME Init PROVE SdkInv
    OBVIOUS
  <1>1. CallsOK
    BY DEF Init, CallsOK, CallOK, Asked, Idle, Phases, Ended
  <1>2. QueuesOK(queues) /\ DOMAIN queues = {}
    BY DEF Init, QueuesOK
  <1>3. RegistryOK(registry, queues)
    BY <1>2 DEF Init, RegistryOK
  <1>4. RecordersOK
    BY DEF Init, RecordersOK
  <1>5. TakenOnce
    BY <1>2 DEF Init, TakenOnce, Idle, Ended
  <1>6. SignalWaits
    BY <1>2 DEF Init, SignalWaits
  <1> QED
    BY <1>1, <1>2, <1>3, <1>4, <1>5, <1>6 DEF SdkInv

\* A call that changes on its own keeps the invariant, and gives its queue its event.
LEMMA BecomesSdkInv ==
  ASSUME SdkInv, NEW c \in Call, calls[c].phase \notin Ended, NEW call,
         CallOK(call), Asked(call), call.phase \in Ended => call.request.kind = "proxy",
         Becomes(c, call)
  PROVE  SdkInv'
  <1> DEFINE i == recorder[call.request.client].queue
  <1>0. /\ QueuesOK(queues) /\ RegistryOK(registry, queues) /\ CallsOK /\ RecordersOK
        /\ TakenOnce /\ SignalWaits
    BY DEF SdkInv
  <1>1. /\ registry' = registry /\ recorder' = recorder /\ UNCHANGED processVars
        /\ DOMAIN calls' = Call
        /\ calls'[c] = call /\ \A d \in Call : d # c => calls'[d] = calls[d]
        /\ queues' = IF Len(call.events) = 0 THEN queues ELSE enqueue(queues, i, c)
    <2>1. DOMAIN calls = Call /\ Len(calls[c].events) = 0
      BY <1>0, OneAppended DEF CallsOK, CallOK
    <2>2. calls' = [calls EXCEPT ![c] = call]
      BY DEF Becomes
    <2>3. DOMAIN calls' = Call /\ calls'[c] = call /\ \A d \in Call : d # c => calls'[d] = calls[d]
      BY <2>1, <2>2
    <2> QED
      BY <2>1, <2>3 DEF Becomes
  <1>2. CallsOK'
    BY <1>0, <1>1 DEF CallsOK, CallOK, Asked
  <1>3. CASE call.phase \notin Ended
    <2>1. queues' = queues
      BY <1>1, <1>3, OneAppended DEF CallOK
    <2>2. TakenOnce'
      <3>1. \A d \in Call, j \in DOMAIN queues : Took(j)' = Took(j)
        BY <2>1 DEF Took
      <3>2. \A j \in DOMAIN queues : c \notin Took(j)
        BY <1>0 DEF TakenOnce
      <3>3. \A d \in Call : d # c => (Proxied(d)' <=> Proxied(d))
        BY <1>1 DEF Proxied
      <3>4. calls'[c].phase \notin Ended
        BY <1>1, <1>3
      <3> QED
        BY <1>0, <1>1, <2>1, <3>1, <3>2, <3>3, <3>4 DEF TakenOnce
    <2> QED
      BY <1>0, <1>1, <1>2, <2>1, <2>2
      DEF SdkInv, RegistryOK, RecordersOK, SignalWaits, QueuesOK, processVars
  <1>4. CASE call.phase \in Ended
    <2>1. i \in DOMAIN queues
      BY <1>0, <1>4 DEF RecordersOK, Asked, Ended
    <2>2. queues' = enqueue(queues, i, c)
      BY <1>1, <1>4 DEF CallOK
    <2> HIDE DEF i
    <2>3. /\ QueuesOK(queues') /\ DOMAIN queues' = DOMAIN queues
          /\ \A j \in DOMAIN queues :
               /\ queues'[j].dest = queues[j].dest /\ queues'[j].state = queues[j].state
               /\ queues'[j].shipped = queues[j].shipped
               /\ queues'[j].buffer = IF j = i /\ queues[j].state = "live"
                                      THEN queues[j].buffer \cup {c} ELSE queues[j].buffer
      <3> HIDE DEF QueuesOK
      <3> DEFINE after == enqueue(queues, i, c)
      <3>1. /\ QueuesOK(after) /\ DOMAIN after = DOMAIN queues
            /\ \A j \in DOMAIN queues :
               /\ after[j].dest = queues[j].dest /\ after[j].state = queues[j].state
               /\ after[j].shipped = queues[j].shipped
               /\ after[j].buffer = IF j = i /\ queues[j].state = "live"
                                      THEN queues[j].buffer \cup {c} ELSE queues[j].buffer
        BY <1>0, <2>1, Enqueues
      <3> QED  BY <2>2, <3>1
    <2>4. RegistryOK(registry, queues')
      BY <1>0, <2>3, SameRegistry
    <2>5. RecordersOK'
      BY <1>0, <1>1, <2>3 DEF RecordersOK
    <2>6. TakenOnce'
      <3>1. \A d \in Call, j \in DOMAIN queues :
              d \in Took(j)' <=> d \in Took(j) \/ (d = c /\ j = i /\ queues[j].state = "live")
        BY <2>3 DEF Took
      <3>2. \A j \in DOMAIN queues : c \notin Took(j)
        BY <1>0 DEF TakenOnce
      <3>3. \A d \in Call : Proxied(d) =>
              recorder[calls[d].request.client].queue \in DOMAIN queues
        BY <1>0 DEF CallsOK, Asked, RecordersOK, Proxied, Ended
      <3>4. \A d \in Call : d # c => (Proxied(d)' <=> Proxied(d))
        BY <1>1 DEF Proxied
      <3>5. Proxied(c)'
        BY <1>1, <1>4 DEF Proxied
      <3>6. ASSUME NEW d \in Call, d # c
            PROVE  IF calls'[d].phase \in Ended
                   THEN \/ \E k \in DOMAIN queues' : \A j \in DOMAIN queues' :
                             d \in Took(j)' <=> j = k
                        \/ /\ \A j \in DOMAIN queues' : d \notin Took(j)'
                           /\ Proxied(d)'
                           /\ queues'[recorder'[calls'[d].request.client].queue].state # "live"
                   ELSE \A j \in DOMAIN queues' : d \notin Took(j)'
        <4>1. calls'[d] = calls[d] /\ recorder' = recorder /\ DOMAIN queues' = DOMAIN queues
          BY <1>1, <2>3, <3>6
        <4>2. \A j \in DOMAIN queues : d \in Took(j)' <=> d \in Took(j)
          BY <3>1, <3>6
        <4>3. Proxied(d) => queues'[recorder[calls[d].request.client].queue].state
                              = queues[recorder[calls[d].request.client].queue].state
          BY <2>3, <3>3
        <4> QED
          BY <1>0, <3>4, <3>6, <4>1, <4>2, <4>3 DEF TakenOnce
      <3>7. \/ \E k \in DOMAIN queues' : \A j \in DOMAIN queues' : c \in Took(j)' <=> j = k
            \/ /\ \A j \in DOMAIN queues' : c \notin Took(j)'
               /\ Proxied(c)'
               /\ queues'[recorder'[calls'[c].request.client].queue].state # "live"
        <4>1. recorder'[calls'[c].request.client].queue = i
          BY <1>1 DEF i
        <4>2. CASE queues[i].state = "live"
          BY <2>1, <2>3, <3>1, <3>2, <4>2
        <4>3. CASE queues[i].state # "live"
          BY <2>1, <2>3, <3>1, <3>2, <3>5, <4>1, <4>3
        <4> QED  BY <4>2, <4>3
      <3>8. calls'[c].phase \in Ended
        BY <1>1, <1>4
      <3> QED  BY <3>6, <3>7, <3>8 DEF TakenOnce
    <2>7. SignalWaits'
      BY <1>0, <1>1, <2>3 DEF SignalWaits, processVars
    <2> QED
      BY <1>1, <1>2, <2>3, <2>4, <2>5, <2>6, <2>7 DEF SdkInv
  <1> QED
    BY <1>3, <1>4

\* A recorded call gets its event in the live queue of its destination.
LEMMA RecordsSdkInv ==
  ASSUME SdkInv, NEW c \in Call, calls[c].phase \notin Ended, NEW call, NEW opts,
         DOMAIN call = DOMAIN Idle, call.events = <<>>, call.request.kind # "proxy",
         Records(c, call, opts)
  PROVE  SdkInv'
  <1> DEFINE dest == resolveIngest(opts)
             qs == QueuesWith(dest)
             n  == QueueOf(dest)
             done == record(call, opts)
  <1>0. /\ QueuesOK(queues) /\ RegistryOK(registry, queues) /\ CallsOK /\ RecordersOK
        /\ TakenOnce /\ SignalWaits
    BY DEF SdkInv
  <1>1. /\ DOMAIN done = DOMAIN Idle /\ done.phase = "done" /\ done.request = call.request
        /\ Len(done.events) = 1
    BY OneAppended DEF record, Idle
  <1>2. /\ registry' = RegistryWith(dest) /\ queues' = enqueue(qs, n, c)
        /\ recorder' = recorder /\ UNCHANGED processVars /\ calls' = [calls EXCEPT ![c] = done]
    BY DEF Records
  <1> HIDE DEF dest, done
  <1>3. DOMAIN calls' = Call /\ calls'[c] = done /\ \A d \in Call : d # c => calls'[d] = calls[d]
    BY <1>0, <1>2 DEF CallsOK
  <1>4. /\ QueuesOK(qs) /\ RegistryOK(RegistryWith(dest), qs)
        /\ n \in DOMAIN qs /\ qs[n].state = "live" /\ DOMAIN queues \subseteq DOMAIN qs
        /\ \A i \in DOMAIN queues : qs[i] = queues[i]
        /\ \A i \in DOMAIN qs \ DOMAIN queues : i = n /\ qs[i].buffer = {} /\ qs[i].shipped = {}
    BY <1>0, GetsQueue
  <1> HIDE DEF qs, n
  <1>5. /\ QueuesOK(queues') /\ DOMAIN queues' = DOMAIN qs
        /\ \A j \in DOMAIN qs :
             /\ queues'[j].dest = qs[j].dest /\ queues'[j].state = qs[j].state
             /\ queues'[j].shipped = qs[j].shipped
             /\ queues'[j].buffer = IF j = n THEN qs[j].buffer \cup {c} ELSE qs[j].buffer
    <2> DEFINE after == enqueue(qs, n, c)
    <2>1. /\ QueuesOK(after) /\ DOMAIN after = DOMAIN qs
          /\ \A j \in DOMAIN qs :
             /\ after[j].dest = qs[j].dest /\ after[j].state = qs[j].state
             /\ after[j].shipped = qs[j].shipped
             /\ after[j].buffer = IF j = n /\ qs[j].state = "live"
                                  THEN qs[j].buffer \cup {c} ELSE qs[j].buffer
      BY <1>4, Enqueues
    <2> QED  BY <1>2, <1>4, <2>1
  <1>6. CallsOK'
    BY <1>0, <1>1, <1>2, <1>3 DEF CallsOK, CallOK, Asked, Phases, Ended
  <1>7. RegistryOK(registry, queues)'
    <2>1. RegistryOK(registry', qs)
      BY <1>2, <1>4
    <2> QED
      BY <1>5, <2>1, SameRegistry
  <1>8. RecordersOK'
    BY <1>0, <1>2, <1>4, <1>5 DEF RecordersOK
  <1>9. TakenOnce'
    <2>1. \A d \in Call, j \in DOMAIN queues' :
            d \in Took(j)' <=> (j \in DOMAIN queues /\ d \in Took(j)) \/ (d = c /\ j = n)
      <3> SUFFICES ASSUME NEW d \in Call, NEW j \in DOMAIN qs
                   PROVE  d \in Took(j)' <=> (j \in DOMAIN queues /\ d \in Took(j)) \/ (d = c /\ j = n)
        BY <1>5
      <3>1. d \in Took(j)' <=> d \in qs[j].buffer \/ d \in qs[j].shipped \/ (d = c /\ j = n)
        BY <1>5 DEF Took
      <3>2. CASE j \in DOMAIN queues
        BY <1>4, <3>1, <3>2 DEF Took
      <3>3. CASE j \notin DOMAIN queues
        BY <1>4, <3>1, <3>3
      <3> QED  BY <3>2, <3>3
    <2>2. \A j \in DOMAIN queues : c \notin Took(j)
      BY <1>0 DEF TakenOnce
    <2>3. \A d \in Call : Proxied(d) =>
            recorder[calls[d].request.client].queue \in DOMAIN queues
      BY <1>0 DEF CallsOK, Asked, RecordersOK, Proxied, Ended
    <2>4. \A d \in Call : d # c => (Proxied(d)' <=> Proxied(d))
      BY <1>3 DEF Proxied
    <2>5. calls'[c].phase \in Ended
      BY <1>1, <1>3 DEF Ended
    <2>6. \A j \in DOMAIN queues' : c \in Took(j)' <=> j = n
      BY <2>1, <2>2
    <2>7. ASSUME NEW d \in Call, d # c
          PROVE  IF calls'[d].phase \in Ended
                 THEN \/ \E k \in DOMAIN queues' : \A j \in DOMAIN queues' :
                           d \in Took(j)' <=> j = k
                      \/ /\ \A j \in DOMAIN queues' : d \notin Took(j)'
                         /\ Proxied(d)'
                         /\ queues'[recorder'[calls'[d].request.client].queue].state # "live"
                 ELSE \A j \in DOMAIN queues' : d \notin Took(j)'
      <3>1. calls'[d] = calls[d] /\ DOMAIN queues \subseteq DOMAIN queues'
        BY <1>3, <1>4, <1>5, <2>7
      <3>2. \A j \in DOMAIN queues' : d \in Took(j)' <=> j \in DOMAIN queues /\ d \in Took(j)
        BY <2>1, <2>7
      <3>3. \A j \in DOMAIN queues : queues'[j].state = queues[j].state
        BY <1>4, <1>5
      <3> QED
        BY <1>0, <1>2, <2>3, <2>4, <2>7, <3>1, <3>2, <3>3 DEF TakenOnce
    <2> QED
      BY <1>4, <1>5, <2>5, <2>6, <2>7 DEF TakenOnce
  <1>10. SignalWaits'
    <2>1. \A j \in DOMAIN queues' :
            \/ j \in DOMAIN queues /\ queues'[j].state = queues[j].state
            \/ queues'[j].state = "live"
      BY <1>4, <1>5
    <2>2. shutdowns' = shutdowns /\ waits' = waits /\ exited' = exited
      BY <1>2 DEF processVars
    <2> QED
      BY <1>0, <2>1, <2>2 DEF SignalWaits
  <1> QED
    BY <1>5, <1>6, <1>7, <1>8, <1>9, <1>10 DEF SdkInv

\* A step that leaves calls, queues, recorders and the process as they are keeps it.
LEMMA QuietSdkInv ==
  SdkInv /\ UNCHANGED <<ingestVars, recorder, calls, processVars>> => SdkInv'
  BY DEF SdkInv, CallsOK, CallOK, Asked, QueuesOK, RegistryOK, RecordersOK, TakenOnce,
         Took, Proxied, SignalWaits, ingestVars, processVars

\* wrap gives a client a recorder with a live queue.
LEMMA WrapSdkInv ==
  ASSUME SdkInv, NEW c \in Client, NEW opts, wrap(c, opts)
  PROVE  SdkInv'
  <1> DEFINE dest == resolveIngest(opts)
             qs == QueuesWith(dest)
             n  == QueueOf(dest)
             made == [adapter |-> detect(Shape[c]), provider |-> providerFor(detect(Shape[c]), Shape[c]),
                      meta |-> ClientMeta(opts), queue |-> n]
  <1>0. /\ QueuesOK(queues) /\ RegistryOK(registry, queues) /\ CallsOK /\ RecordersOK
        /\ TakenOnce /\ SignalWaits
    BY DEF SdkInv
  <1>1. made.queue = n
    OBVIOUS
  <1>2. /\ registry' = RegistryWith(dest) /\ queues' = qs /\ calls' = calls
        /\ UNCHANGED processVars /\ recorder[c] = Null
        /\ recorder' = [recorder EXCEPT ![c] = made]
    BY DEF wrap
  <1> HIDE DEF dest, made
  <1>3. /\ QueuesOK(qs) /\ RegistryOK(RegistryWith(dest), qs)
        /\ n \in DOMAIN qs /\ qs[n].state = "live" /\ DOMAIN queues \subseteq DOMAIN qs
        /\ \A i \in DOMAIN queues : qs[i] = queues[i]
        /\ \A i \in DOMAIN qs \ DOMAIN queues : i = n /\ qs[i].buffer = {} /\ qs[i].shipped = {}
    BY <1>0, GetsQueue
  <1> HIDE DEF qs, n
  <1>4. /\ DOMAIN recorder' = Client /\ recorder'[c] = made
        /\ \A d \in Client : d # c => recorder'[d] = recorder[d]
    BY <1>0, <1>2 DEF RecordersOK
  <1>5. \A d \in Client : recorder[d] # Null => d # c /\ recorder'[d] = recorder[d]
    BY <1>2, <1>4
  <1>6. CallsOK'
    BY <1>0, <1>2, <1>5 DEF CallsOK, CallOK, Asked
  <1>7. RecordersOK'
    BY <1>0, <1>1, <1>2, <1>3, <1>4 DEF RecordersOK
  <1>8. TakenOnce'
    <2>1. \A d \in Call, j \in DOMAIN queues' :
            d \in Took(j)' <=> j \in DOMAIN queues /\ d \in Took(j)
      BY <1>2, <1>3 DEF Took
    <2>2. \A d \in Call : Proxied(d) =>
            /\ recorder[calls[d].request.client].queue \in DOMAIN queues
            /\ recorder'[calls[d].request.client] = recorder[calls[d].request.client]
      BY <1>0, <1>5 DEF CallsOK, Asked, RecordersOK, Proxied, Ended
    <2>3. \A d \in Call : Proxied(d)' <=> Proxied(d)
      BY <1>2 DEF Proxied
    <2> QED
      BY <1>0, <1>2, <1>3, <2>1, <2>2, <2>3 DEF TakenOnce
  <1>9. SignalWaits'
    BY <1>0, <1>2, <1>3 DEF SignalWaits, processVars
  <1> QED
    BY <1>2, <1>3, <1>6, <1>7, <1>8, <1>9 DEF SdkInv

\* A batch shipped stays taken.
LEMMA ShipsSdkInv ==
  ASSUME SdkInv, NEW i \in DOMAIN queues, Ships(i)
  PROVE  SdkInv'
  <1>0. /\ QueuesOK(queues) /\ RegistryOK(registry, queues) /\ CallsOK /\ RecordersOK
        /\ TakenOnce /\ SignalWaits
    BY DEF SdkInv
  <1>1. /\ registry' = registry /\ recorder' = recorder /\ calls' = calls
        /\ shutdowns' = shutdowns /\ waits' = waits /\ exited' = exited
    BY DEF Ships, processVars
  <1>2. /\ DOMAIN queues' = DOMAIN queues
        /\ \A j \in DOMAIN queues :
             /\ DOMAIN queues'[j] = DOMAIN queues[j]
             /\ queues'[j].dest = queues[j].dest /\ queues'[j].state = queues[j].state
             /\ queues'[j].buffer \cup queues'[j].shipped = queues[j].buffer \cup queues[j].shipped
             /\ queues'[j].buffer \subseteq queues[j].buffer
    BY <1>0 DEF Ships, QueuesOK
  <1>3. PICK n \in Nat : queues = [j \in 1..n |-> queues[j]]
    BY <1>0 DEF QueuesOK
  <1>4. queues' = [j \in 1..n |-> queues'[j]]
    BY <1>3 DEF Ships
  <1>5. queues' \in Seq({queues'[j] : j \in DOMAIN queues'})
    BY <1>4, SequenceOfValues
  <1>6. QueuesOK(queues')
    BY <1>0, <1>2, <1>5 DEF QueuesOK
  <1>7. RegistryOK(registry, queues)'
    BY <1>0, <1>1, <1>2, SameRegistry
  <1>8. TakenOnce'
    <2>1. \A j \in DOMAIN queues : Took(j)' = Took(j)
      BY <1>2 DEF Took
    <2>2. \A d \in Call : Proxied(d) =>
            recorder[calls[d].request.client].queue \in DOMAIN queues
      BY <1>0 DEF CallsOK, Asked, RecordersOK, Proxied, Ended
    <2>3. \A d \in Call : Proxied(d)' <=> Proxied(d)
      BY <1>1 DEF Proxied
    <2> QED
      BY <1>0, <1>1, <1>2, <2>1, <2>2, <2>3 DEF TakenOnce
  <1> QED
    BY <1>0, <1>1, <1>2, <1>6, <1>7, <1>8
    DEF SdkInv, CallsOK, CallOK, Asked, RecordersOK, SignalWaits

\* shutdown empties the registry and sets all its queues to drain.
LEMMA StoppingAll ==
  ASSUME SdkInv, shutdown
  PROVE  /\ QueuesOK(queues') /\ RegistryOK(registry, queues)' /\ CallsOK' /\ RecordersOK'
         /\ TakenOnce' /\ DOMAIN queues' = DOMAIN queues /\ shutdowns' = shutdowns + 1
         /\ \A j \in DOMAIN queues :
              queues'[j].state = IF j \in Registered THEN "draining" ELSE queues[j].state
         /\ \A j \in DOMAIN queues : j \in Registered <=> queues[j].state = "live"
  <1>0. /\ QueuesOK(queues) /\ RegistryOK(registry, queues) /\ CallsOK /\ RecordersOK /\ TakenOnce
    BY DEF SdkInv
  <1>1. /\ registry' = << >> /\ recorder' = recorder /\ calls' = calls
        /\ shutdowns' = shutdowns + 1 /\ queues' = Stopping
    BY DEF shutdown
  <1>2. \A j \in DOMAIN queues : j \in Registered <=> queues[j].state = "live"
    BY <1>0 DEF RegistryOK, Registered
  <1>3. /\ DOMAIN queues' = DOMAIN queues
        /\ \A j \in DOMAIN queues :
             /\ DOMAIN queues'[j] = DOMAIN queues[j]
             /\ queues'[j].state = IF j \in Registered THEN "draining" ELSE queues[j].state
             /\ queues'[j].buffer = queues[j].buffer /\ queues'[j].shipped = queues[j].shipped
    BY <1>0, <1>1 DEF Stopping, QueuesOK
  <1>4. PICK n \in Nat : DOMAIN queues = 1..n
    BY <1>0 DEF QueuesOK
  <1>5. queues' = [j \in 1..n |-> queues'[j]]
    BY <1>1, <1>4 DEF Stopping
  <1>6. queues' \in Seq({queues'[j] : j \in DOMAIN queues'})
    BY <1>5, SequenceOfValues
  <1>7. QueuesOK(queues')
    BY <1>0, <1>3, <1>6 DEF QueuesOK, QueueStates
  <1>8. RegistryOK(registry, queues)'
    <2>1. \A j \in DOMAIN queues' : queues'[j].state # "live"
      BY <1>2, <1>3
    <2> QED  BY <1>1, <2>1 DEF RegistryOK
  <1>9. TakenOnce'
    <2>1. \A j \in DOMAIN queues : Took(j)' = Took(j)
      BY <1>3 DEF Took
    <2>2. \A d \in Call : Proxied(d) =>
            recorder[calls[d].request.client].queue \in DOMAIN queues
      BY <1>0 DEF CallsOK, Asked, RecordersOK, Proxied, Ended
    <2>3. \A d \in Call : Proxied(d)' <=> Proxied(d)
      BY <1>1 DEF Proxied
    <2>4. \A j \in DOMAIN queues : queues'[j].state # "live"
      BY <1>2, <1>3
    <2> QED
      BY <1>0, <1>1, <1>3, <2>1, <2>2, <2>3, <2>4 DEF TakenOnce
  <1> QED
    BY <1>0, <1>1, <1>2, <1>3, <1>7, <1>8, <1>9 DEF CallsOK, CallOK, Asked, RecordersOK

\* A shutdown by the program waits for no queue.
LEMMA ShutdownSdkInv ==
  ASSUME SdkInv, Shutdown, ~exited
  PROVE  SdkInv'
  <1>1. shutdown /\ waits' = waits /\ exited' = exited
    BY DEF Shutdown
  <1>2. SignalWaits
    BY DEF SdkInv
  <1>3. SignalWaits'
    BY <1>1, <1>2, StoppingAll DEF SignalWaits
  <1> QED
    BY <1>1, <1>3, StoppingAll DEF SdkInv

\* A signal waits for the queues registered when it came: with no shutdown before,
\* all there are.
LEMMA SigtermSdkInv ==
  ASSUME SdkInv, Sigterm, ~exited
  PROVE  SdkInv'
  <1>1. shutdown /\ waits' = waits \cup {Registered} /\ exited' = exited
    BY DEF Sigterm
  <1>2. SignalWaits
    BY DEF SdkInv
  <1>3. SignalWaits'
    <2>1. shutdowns' = shutdowns + 1 /\ shutdowns \in Nat
      BY <1>1, <1>2, StoppingAll DEF SignalWaits
    <2>2. ASSUME shutdowns' = 1
          PROVE  \A w \in waits' : \A i \in DOMAIN queues' : queues'[i].state = "draining" => i \in w
      <3>1. waits = {} /\ \A i \in DOMAIN queues : queues[i].state = "live"
        BY <1>2, <2>1, <2>2 DEF SignalWaits
      <3>2. \A i \in DOMAIN queues' : i \in Registered
        BY <1>1, <3>1, StoppingAll
      <3> QED  BY <1>1, <3>1, <3>2
    <2> QED
      BY <1>1, <2>1, <2>2 DEF SignalWaits
  <1> QED
    BY <1>1, <1>3, StoppingAll DEF SdkInv

\* A queue that ends its drain is empty or late.
LEMMA DrainEndsSdkInv ==
  ASSUME SdkInv, NEW i \in DOMAIN queues, DrainEnds(i), ~exited
  PROVE  SdkInv'
  <1>0. /\ QueuesOK(queues) /\ RegistryOK(registry, queues) /\ CallsOK /\ RecordersOK
        /\ TakenOnce /\ SignalWaits
    BY DEF SdkInv
  <1>1. /\ registry' = registry /\ recorder' = recorder /\ calls' = calls
        /\ shutdowns' = shutdowns /\ waits' = waits /\ exited' = exited
        /\ queues[i].state = "draining"
    BY DEF DrainEnds, processVars
  <1>2. PICK late \in BOOLEAN :
          /\ late \/ queues[i].buffer = {}
          /\ queues' = [queues EXCEPT ![i].state = IF late THEN "late" ELSE "stopped"]
    BY DEF DrainEnds
  <1>3. /\ DOMAIN queues' = DOMAIN queues
        /\ \A j \in DOMAIN queues :
             /\ DOMAIN queues'[j] = DOMAIN queues[j]
             /\ queues'[j].dest = queues[j].dest
             /\ queues'[j].buffer = queues[j].buffer /\ queues'[j].shipped = queues[j].shipped
             /\ j # i => queues'[j].state = queues[j].state
        /\ queues'[i].state = IF late THEN "late" ELSE "stopped"
    BY <1>0, <1>2 DEF QueuesOK
  <1>4. PICK n \in Nat : queues = [j \in 1..n |-> queues[j]]
    BY <1>0 DEF QueuesOK
  <1>5. queues' = [j \in 1..n |-> queues'[j]]
    BY <1>2, <1>4
  <1>6. queues' \in Seq({queues'[j] : j \in DOMAIN queues'})
    BY <1>5, SequenceOfValues
  <1>7. QueuesOK(queues')
    BY <1>0, <1>2, <1>3, <1>6 DEF QueuesOK, QueueStates
  <1>8. RegistryOK(registry, queues)'
    <2>1. \A j \in DOMAIN queues : queues'[j].state = "live" <=> queues[j].state = "live"
      BY <1>1, <1>3
    <2>2. {j \in DOMAIN queues' : queues'[j].state = "live"}
            = {j \in DOMAIN queues : queues[j].state = "live"}
      BY <1>3, <2>1
    <2>3. \A d \in DOMAIN registry : registry[d] \in DOMAIN queues /\ queues[registry[d]].dest = d
      BY <1>0 DEF RegistryOK
    <2>4. {registry[d] : d \in DOMAIN registry} = {j \in DOMAIN queues' : queues'[j].state = "live"}
      BY <1>0, <2>2 DEF RegistryOK
    <2>5. \A d \in DOMAIN registry : queues'[registry[d]].dest = d
      BY <1>3, <2>3
    <2> QED  BY <1>1, <2>4, <2>5 DEF RegistryOK
  <1>9. TakenOnce'
    <2>1. \A j \in DOMAIN queues : Took(j)' = Took(j)
      BY <1>3 DEF Took
    <2>2. \A d \in Call : Proxied(d) =>
            recorder[calls[d].request.client].queue \in DOMAIN queues
      BY <1>0 DEF CallsOK, Asked, RecordersOK, Proxied, Ended
    <2>3. \A d \in Call : Proxied(d)' <=> Proxied(d)
      BY <1>1 DEF Proxied
    <2>4. \A j \in DOMAIN queues : queues[j].state # "live" => queues'[j].state # "live"
      BY <1>3
    <2> QED
      BY <1>0, <1>1, <1>3, <2>1, <2>2, <2>3, <2>4 DEF TakenOnce
  <1>10. SignalWaits'
    BY <1>0, <1>1, <1>3 DEF SignalWaits
  <1> QED
    BY <1>0, <1>1, <1>3, <1>7, <1>8, <1>9, <1>10 DEF SdkInv, CallsOK, CallOK, Asked, RecordersOK

\* The process exits once a signal's queues have drained or given up.
LEMMA ExitSdkInv ==
  ASSUME SdkInv, Exit
  PROVE  SdkInv'
  <1>1. /\ registry' = registry /\ queues' = queues /\ recorder' = recorder /\ calls' = calls
        /\ shutdowns' = shutdowns /\ waits' = waits
    BY DEF Exit, ingestVars
  <1>2. PICK w \in waits : \A i \in w : queues[i].state \in {"stopped", "late"}
    BY DEF Exit
  <1>3. SignalWaits'
    BY <1>1, <1>2 DEF SdkInv, SignalWaits
  <1> QED
    BY <1>1, <1>3
    DEF SdkInv, CallsOK, CallOK, Asked, QueuesOK, RegistryOK, RecordersOK, TakenOnce, Took, Proxied

-----------------------------------------------------------------------------
(* Steps of calls.                                                          *)

\* A call begins on a wrapped client: it goes through, waits, or ends at once.
LEMMA BeginsSdkInv ==
  ASSUME SdkInv, NEW c \in Call, NEW f \in Flow, NEW q \in Requests[c], Begins(c, f, q)
  PROVE  SdkInv'
  <1>1. q.kind = "proxy" => q.client \in Client
    BY RequestsAssumption
  <1>2. calls[c].phase \notin Ended
    BY DEF Begins, CallThrough, Create, RecordCall, Track, Calls, Ended
  <1>3. CASE CallThrough(c, f, q)
    <2> DEFINE call == [Idle EXCEPT !.phase = "unobserved", !.request = q]
    <2>1. CallOK(call) /\ Asked(call) /\ call.phase \notin Ended
      BY <1>1, <1>3 DEF CallThrough, Calls, CallOK, Asked, Idle, Phases, Ended
    <2>2. Becomes(c, call)
      BY <1>3 DEF CallThrough
    <2> HIDE DEF call
    <2> QED
      BY <1>2, <2>1, <2>2, BecomesSdkInv
  <1>4. CASE Create(c, f, q)
    <2> DEFINE call == Created(f, q)
               waiting == [call EXCEPT !.phase = "pending"]
               failed == emit([call EXCEPT !.phase = "failed"], call.nested, NoUsage, "error")
    <2>1. /\ DOMAIN call = DOMAIN Idle /\ call.events = <<>> /\ call.emitted = FALSE
          /\ call.request = q
      BY DEF Created, Idle
    <2>2. q.kind = "proxy" /\ q.client \in Client /\ recorder[q.client] # Null
      BY <1>1, <1>4 DEF Create, Calls
    <2>3. \/ Becomes(c, waiting)
          \/ \E reply \in Replies[c] : Becomes(c, finishResult(call, reply))
          \/ Becomes(c, failed)
      BY <1>4 DEF Create
    <2> HIDE DEF call
    <2>4. CASE Becomes(c, waiting)
      <3>1. CallOK(waiting) /\ Asked(waiting) /\ waiting.phase \notin Ended
        BY <2>1, <2>2 DEF CallOK, Asked, Idle, Phases, Ended
      <3> HIDE DEF waiting
      <3> QED
        BY <1>2, <2>4, <3>1, BecomesSdkInv
    <2>5. ASSUME NEW reply \in Replies[c], Becomes(c, finishResult(call, reply))
          PROVE  SdkInv'
      <3> DEFINE after == finishResult(call, reply)
      <3>1. CallOK(after) /\ after.request = q
        BY <2>1, ResultCounted
      <3>2. Becomes(c, after)
        BY <2>5
      <3> HIDE DEF after
      <3>3. Asked(after)
        BY <2>2, <3>1 DEF Asked
      <3> QED
        BY <1>2, <2>2, <3>1, <3>2, <3>3, BecomesSdkInv
    <2>6. CASE Becomes(c, failed)
      <3>1. CallOK(failed) /\ failed.request = q /\ failed.phase = "failed"
        BY <2>1, FailureCounted
      <3> HIDE DEF failed
      <3>2. Asked(failed)
        BY <2>2, <3>1 DEF Asked
      <3> QED
        BY <1>2, <2>2, <2>6, <3>1, <3>2, BecomesSdkInv
    <2> QED
      BY <2>3, <2>4, <2>5, <2>6
  <1>5. CASE RecordCall(c, f, q)
    <2> DEFINE call == [Idle EXCEPT !.request = q, !.nested = nested[f]]
    <2>1. DOMAIN call = DOMAIN Idle /\ call.events = <<>> /\ call.request.kind # "proxy"
      BY <1>5 DEF RecordCall, Idle
    <2>2. Records(c, call, q.opts)
      BY <1>5 DEF RecordCall
    <2> HIDE DEF call
    <2> QED
      BY <1>2, <2>1, <2>2, RecordsSdkInv
  <1>6. CASE Track(c, f, q)
    <2> DEFINE call == [Idle EXCEPT !.phase = "pending", !.request = q, !.nested = nested[f]]
    <2>1. CallOK(call) /\ Asked(call) /\ call.phase \notin Ended
      BY <1>6 DEF Track, CallOK, Asked, Idle, Phases, Ended
    <2>2. Becomes(c, call)
      BY <1>6 DEF Track
    <2> HIDE DEF call
    <2> QED
      BY <1>2, <2>1, <2>2, BecomesSdkInv
  <1> QED
    BY <1>3, <1>4, <1>5, <1>6 DEF Begins

\* A stream consumed goes on without an event, or ends with the one that its closure emits.
LEMMA ConsumesSdkInv ==
  ASSUME SdkInv, NEW c \in Call, NEW f \in Flow, Consumes(c, f)
  PROVE  SdkInv'
  <1> DEFINE Ends(phase) == [calls[c] EXCEPT !.puller = nested[f], !.phase = phase]
             Once(phase, s) == finish(Ends(phase), nested[f], s)
  <1>1. /\ CallOK(calls[c]) /\ Asked(calls[c]) /\ calls[c].phase \in {"stream", "open"}
        /\ calls[c].phase \notin Ended
    BY DEF SdkInv, CallsOK, Consumes, Pull, PullFails, Break, Streams, Ended
  <1>2. /\ DOMAIN calls[c] = DOMAIN Idle /\ calls[c].events = <<>> /\ calls[c].emitted = FALSE
        /\ calls[c].request.kind = "proxy"
        /\ calls[c].request.client \in Client /\ recorder[calls[c].request.client] # Null
    BY <1>1 DEF CallOK, Asked
  <1>3. ASSUME NEW phase
        PROVE  /\ DOMAIN Ends(phase) = DOMAIN Idle /\ Ends(phase).events = <<>>
               /\ Ends(phase).emitted = FALSE /\ Ends(phase).phase = phase
               /\ Ends(phase).request = calls[c].request
    BY <1>2 DEF Idle
  <1> HIDE DEF Ends
  <1>4. ASSUME NEW phase, NEW s1, NEW s2
        PROVE  LET once == Once(phase, s1)
               IN  /\ finish(once, nested[f], s2) = once
                   /\ DOMAIN once = DOMAIN Idle /\ Len(once.events) = 1
                   /\ once.phase = phase /\ once.request = calls[c].request
    <2> DEFINE ended == Ends(phase)
    <2>1. Fresh(ended) /\ ended.phase = phase /\ ended.request = calls[c].request
      BY <1>3 DEF Fresh
    <2> HIDE DEF ended
    <2> DEFINE once == finish(ended, nested[f], s1)
    <2>2. Finished(once) /\ once.phase = ended.phase /\ once.request = ended.request
      BY <2>1, FinishesOnce
    <2> HIDE DEF once
    <2>3. finish(once, nested[f], s2) = once
      BY <2>2 DEF finish, Finished
    <2> QED
      BY <2>1, <2>2, <2>3 DEF Finished, ended, once
  <1>5. ASSUME NEW phase \in Ended, NEW s, Becomes(c, Once(phase, s))
        PROVE  SdkInv'
    <2> DEFINE after == Once(phase, s)
    <2>1. /\ DOMAIN after = DOMAIN Idle /\ Len(after.events) = 1
          /\ after.phase = phase /\ after.request = calls[c].request
      BY <1>4
    <2>2. Becomes(c, after)
      BY <1>5
    <2> HIDE DEF after
    <2>3. CallOK(after) /\ Asked(after)
      BY <1>2, <1>5, <2>1 DEF CallOK, Asked, Phases, Ended
    <2> QED
      BY <1>1, <1>2, <2>1, <2>2, <2>3, BecomesSdkInv
  <1>6. CASE Pull(c, f)
    <2> DEFINE call == [calls[c] EXCEPT !.puller = nested[f]]
               on == [call EXCEPT !.phase = "open", !.seen = @ + 1,
                        !.acc = feed(recorder[call.request.client].adapter, @,
                                     Chunks(recorder[call.request.client].adapter,
                                            call)[call.seen + 1])]
    <2>1. \/ Becomes(c, on)
          \/ Becomes(c, finish(finish([call EXCEPT !.phase = "done"], nested[f], "ok"),
                               nested[f], "ok"))
      BY <1>6 DEF Pull
    <2>2. [call EXCEPT !.phase = "done"] = Ends("done")
      BY DEF Ends
    <2>3. CASE Becomes(c, on)
      <3>1. /\ DOMAIN on = DOMAIN Idle /\ on.events = <<>> /\ on.emitted = FALSE
            /\ on.phase = "open" /\ on.request = calls[c].request
        BY <1>2 DEF Idle
      <3> HIDE DEF on
      <3>2. CallOK(on) /\ Asked(on) /\ on.phase \notin Ended
        BY <1>2, <3>1 DEF CallOK, Asked, Phases, Ended
      <3> QED
        BY <1>1, <2>3, <3>2, BecomesSdkInv
    <2>4. CASE Becomes(c, finish(finish([call EXCEPT !.phase = "done"], nested[f], "ok"),
                                 nested[f], "ok"))
      <3>1. Becomes(c, Once("done", "ok"))
        BY <1>4, <2>2, <2>4
      <3> HIDE DEF Once
      <3> QED
        BY <1>5, <3>1 DEF Ended
    <2> QED
      BY <2>1, <2>3, <2>4
  <1>7. CASE PullFails(c, f)
    <2>1. Becomes(c, finish(Once("failed", "error"), nested[f], "ok"))
      BY <1>7 DEF PullFails, Ends
    <2>2. Becomes(c, Once("failed", "error"))
      BY <1>4, <2>1
    <2> HIDE DEF Once
    <2> QED
      BY <1>5, <2>2 DEF Ended
  <1>8. CASE Break(c, f)
    <2>1. Becomes(c, Once("broken", "ok"))
      BY <1>8 DEF Break, Ends
    <2> HIDE DEF Once
    <2> QED
      BY <1>5, <2>1 DEF Ended
  <1> QED
    BY <1>6, <1>7, <1>8 DEF Consumes

\* A call that waits is answered, fails, or is recorded; a stream may be bypassed.
LEMMA SettlesSdkInv ==
  ASSUME SdkInv, NEW c \in Call, Settles(c)
  PROVE  SdkInv'
  <1> DEFINE call == calls[c]
  <1>1. CallOK(call) /\ Asked(call) /\ call.phase \in {"pending", "stream"} /\ call.phase \notin Ended
    BY DEF SdkInv, CallsOK, Settles, Resolve, Reject, Bypass, TrackSettles, Ended
  <1>2. /\ DOMAIN call = DOMAIN Idle /\ call.events = <<>> /\ call.emitted = FALSE
        /\ call.request.kind = "proxy" =>
             call.request.client \in Client /\ recorder[call.request.client] # Null
    BY <1>1 DEF CallOK, Asked
  <1>3. CASE Resolve(c)
    <2>1. PICK reply \in Replies[c] : Becomes(c, finishResult(call, reply))
      BY <1>3 DEF Resolve
    <2> DEFINE after == finishResult(call, reply)
    <2>2. call.request.kind = "proxy"
      BY <1>3 DEF Resolve
    <2>3. CallOK(after) /\ after.request = call.request
      BY <1>2, ResultCounted
    <2>4. Becomes(c, after)
      BY <2>1
    <2> HIDE DEF after
    <2>5. Asked(after)
      BY <1>2, <2>2, <2>3 DEF Asked
    <2> QED
      BY <1>1, <2>2, <2>3, <2>4, <2>5, BecomesSdkInv
  <1>4. CASE Reject(c)
    <2> DEFINE after == emit([call EXCEPT !.phase = "failed"], call.nested, NoUsage, "error")
    <2>1. call.request.kind = "proxy" /\ Becomes(c, after)
      BY <1>4 DEF Reject
    <2>2. CallOK(after) /\ after.request = call.request /\ after.phase = "failed"
      BY <1>2, FailureCounted
    <2> HIDE DEF after
    <2>3. Asked(after)
      BY <1>2, <2>1, <2>2 DEF Asked
    <2> QED
      BY <1>1, <2>1, <2>2, <2>3, BecomesSdkInv
  <1>5. CASE Bypass(c)
    <2> DEFINE after == [call EXCEPT !.phase = "bypassed"]
    <2>1. Becomes(c, after)
      BY <1>5 DEF Bypass
    <2>2. CallOK(after) /\ Asked(after) /\ after.phase \notin Ended
      <3>1. call.request.kind = "proxy"
        BY <1>1, <1>5 DEF Bypass, Asked
      <3> QED
        BY <1>2, <3>1 DEF CallOK, Asked, Idle, Phases, Ended
    <2> HIDE DEF after
    <2> QED
      BY <1>1, <2>1, <2>2, BecomesSdkInv
  <1>6. CASE TrackSettles(c)
    <2>1. call.request.kind # "proxy" /\ \E opts : Records(c, call, opts)
      BY <1>6 DEF TrackSettles
    <2>2. PICK opts : Records(c, call, opts)
      BY <2>1
    <2> QED
      BY <1>1, <1>2, <2>1, <2>2, RecordsSdkInv
  <1> QED
    BY <1>3, <1>4, <1>5, <1>6 DEF Settles

\* Every step keeps the invariant.
LEMMA NextSdkInv == SdkInv /\ [Next]_vars => SdkInv'
  <1> SUFFICES ASSUME SdkInv, [Next]_vars PROVE SdkInv'
    OBVIOUS
  <1>1. ASSUME NEW o \in Configs, configure(o) PROVE SdkInv'
    BY <1>1, QuietSdkInv DEF configure
  <1>2. ASSUME NEW c \in Client, NEW o \in WrapOptions[c], wrap(c, o) PROVE SdkInv'
    BY <1>2, WrapSdkInv
  <1>3. ASSUME NEW f \in Flow, LeaveContext(f) PROVE SdkInv'
    BY <1>3, QuietSdkInv DEF LeaveContext
  <1>4. ASSUME NEW f \in Flow, NEW x \in Contexts[f], EnterContext(f, x) PROVE SdkInv'
    BY <1>4, QuietSdkInv DEF EnterContext
  <1>5. ASSUME NEW c \in Call, NEW f \in Flow, NEW q \in Requests[c], Begins(c, f, q) PROVE SdkInv'
    BY <1>5, BeginsSdkInv
  <1>6. ASSUME NEW c \in Call, NEW f \in Flow, Consumes(c, f) PROVE SdkInv'
    BY <1>6, ConsumesSdkInv
  <1>7. ASSUME NEW c \in Call, Settles(c) PROVE SdkInv'
    BY <1>7, SettlesSdkInv
  <1>8. ASSUME NEW i \in DOMAIN queues, Ships(i) PROVE SdkInv'
    BY <1>8, ShipsSdkInv
  <1>9. ASSUME NEW i \in DOMAIN queues, DrainEnds(i), ~exited PROVE SdkInv'
    BY <1>9, DrainEndsSdkInv
  <1>10. CASE Shutdown /\ ~exited
    BY <1>10, ShutdownSdkInv
  <1>11. CASE Sigterm /\ ~exited
    BY <1>11, SigtermSdkInv
  <1>12. CASE Exit
    BY <1>12, ExitSdkInv
  <1>13. CASE UNCHANGED vars
    BY <1>13, QuietSdkInv DEF vars
  <1> QED
    BY <1>1, <1>2, <1>3, <1>4, <1>5, <1>6, <1>7, <1>8, <1>9, <1>10, <1>11, <1>12, <1>13
    DEF Next, Runs

-----------------------------------------------------------------------------
(* Usages.                                                                  *)

\* No usage is zero in each of its fields.
LEMMA NoUsageIsZero == NoUsage = [f \in UsageFields |-> 0]
  <1> DEFINE u == [f \in UsageFields |-> Coalesce(field(<< >>, f), 0)]
  <1>1. \A f : field(<< >>, f) = Null
    BY DEF field
  <1>2. u = [f \in UsageFields |-> 0]
    BY <1>1 DEF Coalesce
  <1>3. u.total_tokens = 0 /\ Sum3(u) = 0
    BY <1>2 DEF UsageFields, Sum3
  <1>4. NoUsage = [u EXCEPT !.total_tokens = Sum3(u)]
    BY <1>3 DEF NoUsage, makeUsage
  <1> HIDE DEF u
  <1> QED
    BY <1>2, <1>3, <1>4 DEF UsageFields

\* The usage made of some numbers has them, and zero for what is not among them.
LEMMA UsageMade ==
  ASSUME NEW p
  PROVE  LET u == makeUsage(p)
             total == Coalesce(field(p, "total_tokens"), 0)
         IN  /\ u = [f \in UsageFields |-> u[f]]
             /\ \A f \in UsageFields \ {"total_tokens"} : u[f] = Coalesce(field(p, f), 0)
             /\ u.total_tokens = IF total = 0 THEN Sum3(u) ELSE total
  <1> DEFINE v == [f \in UsageFields |-> Coalesce(field(p, f), 0)]
             w == [v EXCEPT !.total_tokens = Sum3(v)]
  <1>1. makeUsage(p) = IF v.total_tokens = 0 THEN w ELSE v
    BY DEF makeUsage
  <1>2. \A f \in UsageFields : v[f] = Coalesce(field(p, f), 0)
    OBVIOUS
  <1>3. "total_tokens" \in UsageFields /\ {"input_tokens", "output_tokens", "reasoning_tokens"} \subseteq UsageFields
    BY DEF UsageFields
  <1>4. v = [f \in UsageFields |-> v[f]]
    OBVIOUS
  <1> HIDE DEF v
  <1>5. w = [f \in UsageFields |-> w[f]] /\ w.total_tokens = Sum3(v)
        /\ \A f \in UsageFields \ {"total_tokens"} : w[f] = v[f]
    BY <1>3, <1>4
  <1> HIDE DEF w
  <1>6. Sum3(w) = Sum3(v)
    BY <1>3, <1>5 DEF Sum3
  <1> QED
    BY <1>1, <1>2, <1>3, <1>4, <1>5, <1>6

\* Two usages of the same fields are the same.
LEMMA SameUsage ==
  ASSUME NEW u, u = [f \in UsageFields |-> u[f]], NEW v, v = [f \in UsageFields |-> v[f]],
         \A f \in UsageFields : u[f] = v[f]
  PROVE  u = v
  OBVIOUS

\* What is read of an object but for a key is what is read of it with another value there.
LEMMA ReadElsewhere ==
  ASSUME NEW u, u # Null, NEW k, NEW x, [u EXCEPT ![k] = x] # Null, NEW key, key # k, NEW dflt
  PROVE  readInt([u EXCEPT ![k] = x], key, dflt) = readInt(u, key, dflt)
  BY DEF readInt, read, field

\* What Anthropic's usage has of what was reported, and zero of all else.
LEMMA AnthropicMade ==
  ASSUME NEW u
  PROVE  LET w == AnthropicUsage(u)
             input == readInt(u, "input_tokens", 0) + readInt(u, "cache_creation_input_tokens", 0)
         IN  /\ w = [f \in UsageFields |-> w[f]]
             /\ w.input_tokens = Coalesce(input, 0)
             /\ w.cached_input_tokens = Coalesce(readInt(u, "cache_read_input_tokens", 0), 0)
             /\ w.output_tokens = Coalesce(readInt(u, "output_tokens", 0), 0)
             /\ w.reasoning_tokens = Coalesce(readInt(u, "reasoning_tokens", 0), 0)
             /\ w.tool_tokens = 0 /\ w.audio_seconds = 0 /\ w.characters = 0
             /\ w.image_count = 0 /\ w.image_tiles = 0
             /\ w.total_tokens = Sum3(w)
  <1> DEFINE p == [input_tokens        |-> readInt(u, "input_tokens", 0)
                                     + readInt(u, "cache_creation_input_tokens", 0),
                   cached_input_tokens |-> readInt(u, "cache_read_input_tokens", 0),
                   output_tokens       |-> readInt(u, "output_tokens", 0),
                   reasoning_tokens    |-> readInt(u, "reasoning_tokens", 0)]
             w == makeUsage(p)
  <1>1. AnthropicUsage(u) = w
    BY DEF AnthropicUsage
  <1>2. /\ field(p, "input_tokens") = readInt(u, "input_tokens", 0)
                                      + readInt(u, "cache_creation_input_tokens", 0)
        /\ field(p, "cached_input_tokens") = readInt(u, "cache_read_input_tokens", 0)
        /\ field(p, "output_tokens") = readInt(u, "output_tokens", 0)
        /\ field(p, "reasoning_tokens") = readInt(u, "reasoning_tokens", 0)
    BY DEF field
  <1>3. \A f \in {"tool_tokens", "audio_seconds", "characters", "image_count", "image_tiles",
                  "total_tokens"} : Coalesce(field(p, f), 0) = 0
    BY DEF field, Coalesce
  <1> HIDE DEF p
  <1>4. /\ w = [f \in UsageFields |-> w[f]]
        /\ \A f \in UsageFields \ {"total_tokens"} : w[f] = Coalesce(field(p, f), 0)
        /\ w.total_tokens = IF Coalesce(field(p, "total_tokens"), 0) = 0 THEN Sum3(w)
                            ELSE Coalesce(field(p, "total_tokens"), 0)
    BY UsageMade
  <1> HIDE DEF w
  <1>5. w.total_tokens = Sum3(w)
    BY <1>3, <1>4
  <1>6. UsageFields \ {"total_tokens"} = {"input_tokens", "cached_input_tokens", "output_tokens",
          "reasoning_tokens", "tool_tokens", "audio_seconds", "characters", "image_count",
          "image_tiles"}
    BY DEF UsageFields
  <1>7. \A f \in UsageFields \ {"total_tokens"} : w[f] = Coalesce(field(p, f), 0)
    BY <1>4
  <1>8. /\ w.input_tokens = Coalesce(field(p, "input_tokens"), 0)
        /\ w.cached_input_tokens = Coalesce(field(p, "cached_input_tokens"), 0)
        /\ w.output_tokens = Coalesce(field(p, "output_tokens"), 0)
        /\ w.reasoning_tokens = Coalesce(field(p, "reasoning_tokens"), 0)
    BY <1>6, <1>7
  <1>9. /\ w.tool_tokens = 0 /\ w.audio_seconds = 0 /\ w.characters = 0
        /\ w.image_count = 0 /\ w.image_tiles = 0
    BY <1>3, <1>6, <1>7
  <1> QED
    BY <1>1, <1>2, <1>4, <1>5, <1>8, <1>9

\* Anthropic's two chunks add up to the usage of the whole response, the input at the first.
LEMMA AnthropicStreams ==
  ASSUME NEW u, u # Null, MessageStart(u).message # Null, MessageStart(u).message.usage # Null,
         MessageDelta(u).usage # Null
  PROVE  LET start == feedAnthropic(NoUsage, MessageStart(u))
         IN  /\ start.input_tokens = AnthropicUsage(u).input_tokens
             /\ feedAnthropic(start, MessageDelta(u)) = AnthropicUsage(u)
  <1> DEFINE U == [u EXCEPT !["output_tokens"] = 1]
             S == AnthropicUsage(U)
             W == AnthropicUsage(u)
             x == field(u, "output_tokens")
             first == [NoUsage EXCEPT !.input_tokens        = S.input_tokens,
                                      !.cached_input_tokens = S.cached_input_tokens,
                                      !.reasoning_tokens    = S.reasoning_tokens]
             start == [first EXCEPT !.total_tokens = Sum3(first)]
             last == [start EXCEPT !.output_tokens    = Coalesce(x, @),
                                   !.reasoning_tokens = @]
             end == [last EXCEPT !.total_tokens = Sum3(last)]
  <1>1. U # Null
    BY DEF MessageStart
  <1>2. /\ field(MessageStart(u), "type") = "message_start"
        /\ read(field(MessageStart(u), "message"), "usage") = U
    BY DEF MessageStart, field, read
  <1>3. feedAnthropic(NoUsage, MessageStart(u)) = start
    BY <1>1, <1>2, Zenon DEF feedAnthropic
  <1>4. /\ field(MessageDelta(u), "type") = "message_delta"
        /\ field(MessageDelta(u), "usage") = MessageDelta(u).usage
        /\ \A d : readInt(MessageDelta(u).usage, "output_tokens", d) = Coalesce(x, d)
        /\ \A d : readInt(MessageDelta(u).usage, "reasoning_tokens", d) = d
    BY DEF MessageDelta, field, read, readInt, Coalesce
  <1>5. feedAnthropic(start, MessageDelta(u)) = end
    BY <1>4 DEF feedAnthropic
  <1>6. /\ S.input_tokens = W.input_tokens
        /\ S.cached_input_tokens = W.cached_input_tokens
        /\ S.reasoning_tokens = W.reasoning_tokens
    <2>1. \A key : key # "output_tokens" => readInt(U, key, 0) = readInt(u, key, 0)
      BY <1>1, ReadElsewhere
    <2> HIDE DEF U
    <2> QED
      BY <2>1, AnthropicMade
  <1>7. /\ W = [f \in UsageFields |-> W[f]]
        /\ W.output_tokens = Coalesce(Coalesce(x, 0), 0)
        /\ W.tool_tokens = 0 /\ W.audio_seconds = 0 /\ W.characters = 0
        /\ W.image_count = 0 /\ W.image_tiles = 0
        /\ W.total_tokens = Sum3(W)
    BY AnthropicMade DEF readInt, read, Coalesce, field
  <1>8. Coalesce(Coalesce(x, 0), 0) = Coalesce(x, 0)
    BY DEF Coalesce
  <1> HIDE DEF U, S, W, x
  <1>9. /\ first = [f \in UsageFields |-> first[f]]
        /\ first.input_tokens = W.input_tokens
        /\ first.cached_input_tokens = W.cached_input_tokens
        /\ first.reasoning_tokens = W.reasoning_tokens
        /\ \A f \in UsageFields \ {"input_tokens", "cached_input_tokens", "reasoning_tokens"} :
             first[f] = 0
    BY <1>6, NoUsageIsZero DEF UsageFields
  <1> HIDE DEF first
  <1>10. /\ start = [f \in UsageFields |-> start[f]]
         /\ \A f \in UsageFields \ {"total_tokens"} : start[f] = first[f]
    BY <1>9
  <1> HIDE DEF start
  <1>11. /\ last = [f \in UsageFields |-> last[f]]
         /\ last.output_tokens = Coalesce(x, start.output_tokens)
         /\ \A f \in UsageFields \ {"output_tokens"} : last[f] = start[f]
    BY <1>10 DEF UsageFields
  <1> HIDE DEF last
  <1>12. /\ end = [f \in UsageFields |-> end[f]]
         /\ end.total_tokens = Sum3(last)
         /\ \A f \in UsageFields \ {"total_tokens"} : end[f] = last[f]
    BY <1>11 DEF UsageFields
  <1> HIDE DEF end
  <1>13. \A f \in UsageFields \ {"total_tokens"} : end[f] = W[f]
    BY <1>7, <1>8, <1>9, <1>10, <1>11, <1>12 DEF UsageFields
  <1>14. Sum3(last) = Sum3(W)
    <2>1. /\ last.input_tokens = W.input_tokens /\ last.output_tokens = W.output_tokens
          /\ last.reasoning_tokens = W.reasoning_tokens
      BY <1>12, <1>13 DEF UsageFields
    <2> QED
      BY <2>1 DEF Sum3
  <1>15. end = W
    BY <1>7, <1>12, <1>13, <1>14, SameUsage
  <1>16. start.input_tokens = W.input_tokens
    BY <1>9, <1>10 DEF UsageFields
  <1> QED
    BY <1>3, <1>5, <1>15, <1>16 DEF W

\* Gemini's input is its prompt but for what was cached.
LEMMA GeminiInput ==
  ASSUME NEW x
  PROVE  GeminiUsage(x).input_tokens =
           Coalesce(NonCached(readInt(x, "promptTokenCount", 0),
                              readInt(x, "cachedContentTokenCount", 0)), 0)
  <1> DEFINE prompt == readInt(x, "promptTokenCount", 0)
             candidates == readInt(x, "candidatesTokenCount", 0)
             cached == readInt(x, "cachedContentTokenCount", 0)
             reasoning == readInt(x, "thoughtsTokenCount", 0)
             total == readInt(x, "totalTokenCount", prompt + candidates + reasoning)
             p == [input_tokens        |-> NonCached(prompt, cached),
                   cached_input_tokens |-> cached,
                   output_tokens       |-> candidates,
                   reasoning_tokens    |-> reasoning,
                   total_tokens        |-> total]
  <1>1. GeminiUsage(x) = makeUsage(p)
    BY DEF GeminiUsage
  <1> HIDE DEF prompt, candidates, cached, reasoning, total
  <1>2. field(p, "input_tokens") = NonCached(prompt, cached)
    BY DEF field
  <1> HIDE DEF p
  <1>3. makeUsage(p).input_tokens = Coalesce(field(p, "input_tokens"), 0)
    BY UsageMade DEF UsageFields
  <1> QED
    BY <1>1, <1>2, <1>3 DEF prompt, cached

\* A reply that is one, in which Anthropic's chunks are objects.
ReplyOK(reply) ==
  /\ reply # Null
  /\ LET u == read(reply.body, "usage")
     IN  u # Null => /\ MessageStart(u).message # Null /\ MessageStart(u).message.usage # Null
                     /\ MessageDelta(u).usage # Null

\* What a stream of n chunks must have been fed: at its end the whole of what it was asked
\* to report, and never another input.
FedRight(adapter, call, chunks, n) ==
  LET whole == parseUsage(adapter, call.reply.body)
  IN  /\ chunks = Chunks(adapter, call) /\ Len(chunks) = n
      /\ Fed(adapter, chunks, n) = IF Metered(adapter, call) THEN whole ELSE NoUsage
      /\ \A i \in 0..n : Fed(adapter, chunks, i).input_tokens \in {0, whole.input_tokens}

\* One chunk feeds once, two feed twice.
LEMMA FedOnce ==
  ASSUME NEW adapter, NEW call, NEW chunk, Chunks(adapter, call) = <<chunk>>,
         NEW fed, feed(adapter, NoUsage, chunk) = fed,
         NEW whole, parseUsage(adapter, call.reply.body) = whole,
         fed = IF Metered(adapter, call) THEN whole ELSE NoUsage,
         fed.input_tokens \in {0, whole.input_tokens}
  PROVE  FedRight(adapter, call, <<chunk>>, 1)
  <1>1. NoUsage.input_tokens = 0
    BY NoUsageIsZero DEF UsageFields
  <1>2. 0..1 = {0, 1}
    OBVIOUS
  <1>3. Fed(adapter, <<chunk>>, 0) = NoUsage /\ Fed(adapter, <<chunk>>, 1) = fed
    BY DEF Fed
  <1>4. Len(<<chunk>>) = 1
    OBVIOUS
  <1>5. \A i \in 0..1 : Fed(adapter, <<chunk>>, i).input_tokens \in {0, whole.input_tokens}
    BY <1>1, <1>2, <1>3
  <1> QED
    BY <1>3, <1>4, <1>5 DEF FedRight

\* A stream of two chunks is fed right if what each makes of the usage is right.
LEMMA FedTwice ==
  ASSUME NEW adapter, NEW call, NEW first, NEW last, Chunks(adapter, call) = <<first, last>>,
         NEW start, feed(adapter, NoUsage, first) = start,
         NEW fed, feed(adapter, start, last) = fed,
         NEW whole, parseUsage(adapter, call.reply.body) = whole,
         fed = IF Metered(adapter, call) THEN whole ELSE NoUsage,
         start.input_tokens \in {0, whole.input_tokens},
         fed.input_tokens \in {0, whole.input_tokens}
  PROVE  FedRight(adapter, call, <<first, last>>, 2)
  <1>1. NoUsage.input_tokens = 0
    BY NoUsageIsZero DEF UsageFields
  <1>2. 0..2 = {0, 1, 2}
    OBVIOUS
  <1>3. /\ Fed(adapter, <<first, last>>, 0) = NoUsage
        /\ Fed(adapter, <<first, last>>, 1) = start
        /\ Fed(adapter, <<first, last>>, 2) = fed
    BY DEF Fed
  <1>4. Len(<<first, last>>) = 2
    OBVIOUS
  <1>5. \A i \in 0..2 : Fed(adapter, <<first, last>>, i).input_tokens \in {0, whole.input_tokens}
    BY <1>1, <1>2, <1>3
  <1> QED
    BY <1>3, <1>4, <1>5 DEF FedRight

\* However a provider streams a reply, what was fed is right after each chunk and at the end.
LEMMA StreamsFeed ==
  ASSUME NEW adapter \in AdapterNames, adapter # "bedrock", NEW call, ReplyOK(call.reply)
  PROVE  \E chunks : \E n \in 1..2 : FedRight(adapter, call, chunks, n)
  <1> DEFINE u == read(call.reply.body, UsageKey(adapter))
             whole == parseUsage(adapter, call.reply.body)
             ping == [type |-> "ping"]
  <1>1. whole = IF u = Null THEN NoUsage ELSE UsageFrom(adapter, u)
    BY DEF parseUsage
  <1>2. NoUsage.input_tokens = 0
    BY NoUsageIsZero DEF UsageFields
  <1>3. CASE adapter \in {"anthropic", "gemini"} /\ u = Null
    <2>1. Chunks(adapter, call) = <<ping>>
      BY <1>3 DEF Chunks
    <2>2. Metered(adapter, call)
      BY <1>3 DEF Metered
    <2>3. feed(adapter, NoUsage, ping) = NoUsage
      <3>1. CASE adapter = "gemini"
        <4>1. field(ping, UsageKey(adapter)) = Null
          BY <3>1 DEF field, UsageKey
        <4> QED
          BY <3>1, <4>1 DEF feed
      <3>2. CASE adapter = "anthropic"
        <4>1. field(ping, "type") = "ping"
          BY DEF field
        <4>2. feedAnthropic(NoUsage, ping) = [NoUsage EXCEPT !.total_tokens = Sum3(NoUsage)]
          BY <4>1 DEF feedAnthropic
        <4>3. [NoUsage EXCEPT !.total_tokens = Sum3(NoUsage)] = NoUsage
          BY NoUsageIsZero DEF Sum3, UsageFields
        <4> QED
          BY <3>2, <4>2, <4>3 DEF feed
      <3> QED
        BY <1>3, <3>1, <3>2
    <2> HIDE DEF ping, whole, u
    <2>4. whole = NoUsage
      BY <1>1, <1>3
    <2>5. parseUsage(adapter, call.reply.body) = whole
      BY DEF whole
    <2>6. FedRight(adapter, call, <<ping>>, 1)
      BY <1>2, <2>1, <2>2, <2>3, <2>4, <2>5, FedOnce
    <2> QED
      BY <2>6
  <1>4. CASE adapter = "anthropic" /\ u # Null
    <2>1. u = read(call.reply.body, "usage")
      BY <1>4 DEF UsageKey
    <2> DEFINE first == MessageStart(u)
               last == MessageDelta(u)
               start == feedAnthropic(NoUsage, first)
    <2>2. Chunks(adapter, call) = <<first, last>>
      BY <1>4 DEF Chunks
    <2>3. Metered(adapter, call)
      BY <1>4 DEF Metered
    <2>4. \A acc, chunk : feed(adapter, acc, chunk) = feedAnthropic(acc, chunk)
      BY <1>4 DEF feed
    <2>5. whole = AnthropicUsage(u)
      BY <1>1, <1>4 DEF UsageFrom
    <2>6. /\ first.message # Null /\ first.message.usage # Null
          /\ last.usage # Null
      BY <1>4, <2>1 DEF ReplyOK
    <2>7. start.input_tokens = whole.input_tokens /\ feedAnthropic(start, last) = whole
      <3> HIDE DEF u, whole
      <3> QED
        BY <1>4, <2>5, <2>6, AnthropicStreams
    <2>8. parseUsage(adapter, call.reply.body) = whole
      OBVIOUS
    <2>9. feed(adapter, NoUsage, first) = start /\ feed(adapter, start, last) = whole
      <3> HIDE DEF u, whole
      <3> QED
        BY <2>4, <2>7
    <2> HIDE DEF first, last, start, whole, u
    <2>10. FedRight(adapter, call, <<first, last>>, 2)
      BY <2>2, <2>3, <2>7, <2>8, <2>9, FedTwice
    <2> QED
      BY <2>10
  <1>5. CASE adapter = "gemini" /\ u # Null
    <2> DEFINE part == [u EXCEPT !["candidatesTokenCount"] = 1]
               first == [usageMetadata |-> part]
               last == [usageMetadata |-> u]
               start == feed(adapter, NoUsage, first)
    <2>1. Chunks(adapter, call) = <<first, last>>
      BY <1>5 DEF Chunks
    <2>2. Metered(adapter, call)
      BY <1>5 DEF Metered
    <2>3. \A acc, x : feed(adapter, acc, [usageMetadata |-> x]) = IF x = Null THEN acc ELSE GeminiUsage(x)
      BY <1>5 DEF feed, field, UsageKey, UsageFrom
    <2>4. whole = GeminiUsage(u)
      BY <1>1, <1>5 DEF UsageFrom
    <2>5. part = Null \/ GeminiUsage(part).input_tokens = GeminiUsage(u).input_tokens
      <3> SUFFICES ASSUME part # Null
                   PROVE  GeminiUsage(part).input_tokens = GeminiUsage(u).input_tokens
        OBVIOUS
      <3>1. \A key : key # "candidatesTokenCount" => readInt(part, key, 0) = readInt(u, key, 0)
        <4> HIDE DEF u
        <4> QED
          BY <1>5, ReadElsewhere
      <3>2. \A x : GeminiUsage(x).input_tokens =
                     Coalesce(NonCached(readInt(x, "promptTokenCount", 0),
                                        readInt(x, "cachedContentTokenCount", 0)), 0)
        BY GeminiInput
      <3> HIDE DEF part, u
      <3> QED
        BY <3>1, <3>2
    <2>6. start.input_tokens \in {0, whole.input_tokens}
      <3> HIDE DEF u, part, whole
      <3> QED
        BY <1>2, <2>3, <2>4, <2>5
    <2>7. feed(adapter, start, last) = whole
      <3> HIDE DEF u, whole, start
      <3> QED
        BY <1>5, <2>3, <2>4
    <2>8. parseUsage(adapter, call.reply.body) = whole
      OBVIOUS
    <2>9. feed(adapter, NoUsage, first) = start
      OBVIOUS
    <2> HIDE DEF first, last, start, whole, u
    <2>10. FedRight(adapter, call, <<first, last>>, 2)
      BY <2>1, <2>2, <2>6, <2>7, <2>8, <2>9, FedTwice
    <2> QED
      BY <2>10
  <1>6. CASE adapter = "openai" /\ operationFor(call.request.path, adapter) = "responses"
    <2> DEFINE chunk == [type |-> "response.completed", response |-> call.reply.body]
    <2>1. Chunks(adapter, call) = <<chunk>>
      BY <1>6 DEF Chunks
    <2>2. ~Metered(adapter, call)
      BY <1>6 DEF Metered
    <2>3. feed(adapter, NoUsage, chunk) = NoUsage
      BY <1>6 DEF feed, field, UsageKey
    <2>4. parseUsage(adapter, call.reply.body) = whole
      OBVIOUS
    <2> HIDE DEF chunk, whole
    <2>5. FedRight(adapter, call, <<chunk>>, 1)
      BY <1>2, <2>1, <2>2, <2>3, <2>4, FedOnce
    <2> QED
      BY <2>5
  <1>7. CASE /\ adapter = "openai" /\ operationFor(call.request.path, adapter) # "responses"
             /\ asksForUsage(call.sent)
    <2> DEFINE first == [usage |-> Null]
               last == [usage |-> u]
    <2>1. Chunks(adapter, call) = <<first, last>>
      BY <1>7 DEF Chunks
    <2>2. Metered(adapter, call)
      BY <1>7 DEF Metered
    <2>3. \A acc, x : feed(adapter, acc, [usage |-> x]) = IF x = Null THEN acc ELSE OpenAIUsage(x)
      BY <1>7 DEF feed, field, UsageKey, UsageFrom
    <2>4. whole = IF u = Null THEN NoUsage ELSE OpenAIUsage(u)
      BY <1>1, <1>7 DEF UsageFrom
    <2> HIDE DEF u, whole
    <2>5. feed(adapter, NoUsage, first) = NoUsage /\ feed(adapter, NoUsage, last) = whole
      BY <2>3, <2>4
    <2>6. parseUsage(adapter, call.reply.body) = whole
      BY DEF whole
    <2> HIDE DEF first, last
    <2>7. FedRight(adapter, call, <<first, last>>, 2)
      BY <1>2, <2>1, <2>2, <2>5, <2>6, FedTwice
    <2> QED
      BY <2>7
  <1>8. CASE /\ adapter = "openai" /\ operationFor(call.request.path, adapter) # "responses"
             /\ ~asksForUsage(call.sent)
    <2> DEFINE chunk == [usage |-> Null]
    <2>1. Chunks(adapter, call) = <<chunk>>
      BY <1>8 DEF Chunks
    <2>2. ~Metered(adapter, call)
      BY <1>8 DEF Metered
    <2>3. feed(adapter, NoUsage, chunk) = NoUsage
      BY <1>8 DEF feed, field, UsageKey
    <2>4. parseUsage(adapter, call.reply.body) = whole
      OBVIOUS
    <2> HIDE DEF chunk, whole
    <2>5. FedRight(adapter, call, <<chunk>>, 1)
      BY <1>2, <2>1, <2>2, <2>3, <2>4, FedOnce
    <2> QED
      BY <2>5
  <1> QED
    BY <1>3, <1>4, <1>5, <1>6, <1>7, <1>8 DEF AdapterNames

-----------------------------------------------------------------------------
(* Prices.                                                                  *)

\* A set of numbers has its least.
LEMMA LeastOf ==
  ASSUME NEW T, T \subseteq Nat, T # {}
  PROVE  Min(T) \in T
  <1>1. PICK x \in T : \A y \in T : <<y, x>> \notin OpToRel(<, Nat)
    BY NatLessThanWellFounded, WFMin
  <1>2. \A y \in T : ~(y < x)
    BY <1>1 DEF OpToRel
  <1>3. \A y \in T : x <= y
    BY <1>2
  <1> QED
    BY <1>3 DEF Min

\* Finitely many numbers have a bound.
LEMMA BoundOf ==
  ASSUME NEW n \in Nat, NEW f, \A i \in 1..n : f[i] \in Nat
  PROVE  \E b \in Nat : \A i \in 1..n : f[i] <= b
  <1> DEFINE Bounded(m) == \E b \in Nat : \A i \in 1..m : f[i] <= b
             bad == {m \in 0..n : ~Bounded(m)}
  <1> SUFFICES ASSUME bad # {} PROVE FALSE
    <2>1. n \in 0..n
      OBVIOUS
    <2> QED
      BY <2>1
  <1>1. PICK m \in bad : \A k \in bad : <<k, m>> \notin OpToRel(<, Nat)
    <2>1. bad \subseteq Nat
      OBVIOUS
    <2> HIDE DEF bad
    <2> QED
      BY <2>1, NatLessThanWellFounded, WFMin
  <1>2. m \in 0..n /\ ~Bounded(m)
    OBVIOUS
  <1>3. m # 0
    BY <1>2
  <1>4. m - 1 \in 0..n /\ m - 1 < m
    BY <1>2, <1>3
  <1>5. Bounded(m - 1)
    <2>1. m - 1 \notin bad
      <3>1. bad \subseteq Nat
        OBVIOUS
      <3> HIDE DEF bad
      <3>2. \A k \in bad : ~(k < m)
        BY <1>1, <3>1 DEF OpToRel
      <3> QED
        BY <1>4, <3>2
    <2> QED
      BY <1>4, <2>1
  <1>6. PICK b \in Nat : \A i \in 1..(m - 1) : f[i] <= b
    BY <1>5
  <1>7. f[m] \in Nat
    BY <1>2, <1>3
  <1>8. PICK c \in Nat : b <= c /\ f[m] <= c
    <2>1. CASE b <= f[m]
      BY <1>7, <2>1
    <2>2. CASE ~(b <= f[m])
      BY <1>7, <2>2
    <2> QED
      BY <2>1, <2>2
  <1>9. ASSUME NEW i \in 1..m PROVE f[i] <= c
    <2>1. i = m \/ i \in 1..(m - 1)
      BY <1>2
    <2>2. f[i] \in Nat
      BY <1>2
    <2> QED
      BY <1>6, <1>7, <1>8, <2>1, <2>2
  <1> QED
    BY <1>2, <1>9

\* Of some of them one is the largest.
LEMMA LargestOf ==
  ASSUME NEW n \in Nat, NEW f, \A i \in 1..n : f[i] \in Nat, NEW T, T \subseteq 1..n, T # {}
  PROVE  \E i \in T : \A j \in T : f[j] <= f[i]
  <1>1. PICK b \in Nat : \A i \in 1..n : f[i] <= b
    BY BoundOf
  <1> DEFINE back == {b - f[i] : i \in T}
  <1>2. back \subseteq Nat /\ back # {}
    <2>1. \A i \in T : f[i] \in Nat /\ f[i] <= b
      BY <1>1
    <2>2. \A i \in T : b - f[i] \in Nat
      BY <2>1
    <2> QED
      BY <2>2
  <1>3. PICK x \in back : \A y \in back : <<y, x>> \notin OpToRel(<, Nat)
    <2> HIDE DEF back
    <2> QED
      BY <1>2, NatLessThanWellFounded, WFMin
  <1>4. PICK i \in T : x = b - f[i]
    OBVIOUS
  <1>5. ASSUME NEW j \in T PROVE f[j] <= f[i]
    <2>1. b - f[j] \in back /\ x \in back
      OBVIOUS
    <2>2. ~(b - f[j] < x)
      <3> HIDE DEF back
      <3> QED
        BY <1>2, <1>3, <2>1 DEF OpToRel
    <2>3. f[i] \in Nat /\ f[j] \in Nat
      OBVIOUS
    <2> QED
      BY <1>4, <2>2, <2>3
  <1> QED
    BY <1>5

\* What find finds is a rule of the list.
LEMMA FindsRule ==
  ASSUME NEW provider, NEW model, find(provider, model) # Null
  PROVE  find(provider, model) \in ToSet(Rules)
  <1> DEFINE hits(kind) == {i \in DOMAIN Rules :
                              matchOf(Rules[i]) = kind /\ matches(Rules[i], provider, model)}
             longest == {i \in hits("prefix") :
                          \A j \in hits("prefix") : Len(Rules[j].model) <= Len(Rules[i].model)}
             n == Len(Rules)
  <1>1. Rules \in Seq(ToSet(Rules))
    BY RulesAssumption
  <1>2. n \in Nat /\ DOMAIN Rules = 1..n /\ \A i \in 1..n : Rules[i] \in ToSet(Rules)
    BY <1>1 DEF ToSet
  <1>3. find(provider, model) =
          IF hits("exact") # {} THEN Rules[Min(hits("exact"))]
          ELSE IF hits("prefix") # {} THEN Rules[Min(longest)] ELSE Null
    BY DEF find
  <1>4. hits("exact") # {} => Min(hits("exact")) \in 1..n
    <2>1. hits("exact") \subseteq 1..n /\ hits("exact") \subseteq Nat
      BY <1>2
    <2> HIDE DEF hits
    <2> QED
      BY <2>1, LeastOf
  <1>5. hits("prefix") # {} => Min(longest) \in 1..n
    <2> SUFFICES ASSUME hits("prefix") # {} PROVE Min(longest) \in 1..n
      OBVIOUS
    <2> DEFINE f == [i \in 1..n |-> Len(Rules[i].model)]
    <2>1. hits("prefix") \subseteq 1..n
      BY <1>2
    <2>2. \A i \in 1..n : f[i] \in Nat
      <3>1. \A r \in ToSet(Rules) : Len(r.model) \in Nat
        BY RulesAssumption
      <3> QED
        BY <1>2, <3>1
    <2>3. \A i \in 1..n : f[i] = Len(Rules[i].model)
      OBVIOUS
    <2> HIDE DEF hits, f
    <2>4. PICK i \in hits("prefix") : \A j \in hits("prefix") : f[j] <= f[i]
      BY <1>2, <2>1, <2>2, LargestOf
    <2>5. i \in longest
      BY <2>1, <2>3, <2>4
    <2>6. longest \subseteq 1..n /\ longest \subseteq Nat
      BY <2>1
    <2> HIDE DEF longest
    <2> QED
      BY <2>5, <2>6, LeastOf
  <1> HIDE DEF hits, longest
  <1> QED
    BY <1>2, <1>3, <1>4, <1>5

\* A call without usage costs nothing.
LEMMA NothingIsFree ==
  ASSUME NEW provider, NEW model
  PROVE  cost(NoUsage, provider, model, NoOptions) = 0
  <1> DEFINE r == find(provider, model)
  <1>1. cost(NoUsage, provider, model, NoOptions) =
          IF r = Null THEN 0
          ELSE (TokenCost(r, NoUsage) + MediaCost(r, NoUsage)) * 100 * 100
    BY DEF cost, Percent, NoOptions
  <1> SUFFICES ASSUME r # Null PROVE TokenCost(r, NoUsage) = 0 /\ MediaCost(r, NoUsage) = 0
    BY <1>1
  <1>2. r \in ToSet(Rules)
    BY FindsRule
  <1>3. \A key \in Rates : read(r, key) \in Int \cup {Null}
    <2> HIDE DEF r
    <2> QED
      BY <1>2, RulesAssumption
  <1> HIDE DEF r
  <1>4. \A key \in Rates : Rate(r, key) \in Int
    BY <1>3 DEF Rate, Coalesce
  <1>5. \A key \in Rates, other \in Rates : RateOr(r, key, other) \in Int
    BY <1>3, <1>4 DEF RateOr, Coalesce
  <1>6. \A f \in UsageFields : NoUsage[f] = 0
    BY NoUsageIsZero
  <1>7. TokenCost(r, NoUsage) = 0
    <2>1. /\ NoUsage.input_tokens = 0 /\ NoUsage.cached_input_tokens = 0
          /\ NoUsage.output_tokens = 0 /\ NoUsage.reasoning_tokens = 0 /\ NoUsage.tool_tokens = 0
      BY <1>6 DEF UsageFields
    <2>2. \A x \in Int : x * 0 = 0
      OBVIOUS
    <2>3. /\ Rate(r, "input_per_token") * 0 = 0 /\ Rate(r, "output_per_token") * 0 = 0
          /\ Rate(r, "tool_per_token") * 0 = 0
          /\ RateOr(r, "cached_input_per_token", "input_per_token") * 0 = 0
          /\ RateOr(r, "reasoning_per_token", "output_per_token") * 0 = 0
      BY <1>4, <1>5, <2>2 DEF Rates
    <2> QED
      BY <2>1, <2>3 DEF TokenCost
  <1>8. MediaCost(r, NoUsage) = 0
    <2>1. NoUsage.audio_seconds = 0 /\ NoUsage.characters = 0 /\ NoUsage.image_tiles = 0
      BY <1>6 DEF UsageFields
    <2>2. \A x \in Int : x * 0 = 0
      OBVIOUS
    <2>3. Rate(r, "audio_per_second") * 0 = 0 /\ Rate(r, "per_character") * 0 = 0
      BY <1>4, <2>2 DEF Rates
    <2>4. ImageCost(r, NoUsage) = 0
      BY <2>1 DEF ImageCost
    <2> QED
      BY <2>1, <2>3, <2>4 DEF MediaCost
  <1> QED
    BY <1>7, <1>8

-----------------------------------------------------------------------------
(* Bills.                                                                   *)

\* What emit bills is the usage it is given and its price.
LEMMA EmitsBill ==
  ASSUME NEW call, DOMAIN call = DOMAIN Idle, call.events = <<>>,
         NEW ctx, NEW usage, NEW status
  PROVE  LET after == emit(call, ctx, usage, status)
         IN  /\ Bills(after.events[1], usage)
             /\ after.phase = call.phase /\ after.request = call.request
             /\ after.reply = call.reply /\ after.streaming = call.streaming
             /\ after.sent = call.sent
  <1> DEFINE r == recorder[call.request.client]
             e == Event(r.provider, call.model, operationFor(call.request.path, r.adapter),
                        call.streaming, status, usage,
                        cost(usage, r.provider, call.model, NoOptions),
                        merge(r.meta, currentContext(ctx), call.callMeta))
             after == [call EXCEPT !.events = Append(@, e)]
  <1>1. emit(call, ctx, usage, status) = after
    BY DEF emit
  <1>2. /\ e.usage = usage /\ e.provider = r.provider /\ e.model = call.model
        /\ e.cost = cost(usage, r.provider, call.model, NoOptions)
    BY DEF Event
  <1>3. Bills(e, usage)
    BY <1>2 DEF Bills
  <1> HIDE DEF e
  <1>4. after.events = Append(<<>>, e)
    BY DEF Idle
  <1>5. after.events[1] = e
    BY <1>4
  <1>6. /\ after.phase = call.phase /\ after.request = call.request
        /\ after.reply = call.reply /\ after.streaming = call.streaming
        /\ after.sent = call.sent
    BY DEF Idle
  <1> HIDE DEF after
  <1> QED
    BY <1>1, <1>3, <1>5, <1>6

\* A call that failed before it was answered is billed nothing.
LEMMA FailureBills ==
  ASSUME NEW call, DOMAIN call = DOMAIN Idle, call.events = <<>>, call.reply = Null,
         NEW adapter, call.streaming \in BOOLEAN, call.streaming => adapter # "bedrock",
         NEW replies
  PROVE  CallBills(adapter, Failing(call), replies)
  <1> DEFINE ended == [call EXCEPT !.phase = "failed"]
             after == emit(ended, call.nested, NoUsage, "error")
             e == after.events[1]
  <1>1. /\ DOMAIN ended = DOMAIN Idle /\ ended.events = <<>> /\ ended.phase = "failed"
        /\ ended.reply = Null /\ ended.streaming = call.streaming
    BY DEF Idle
  <1> HIDE DEF ended
  <1>2. /\ Bills(e, NoUsage) /\ after.phase = "failed"
        /\ after.reply = Null /\ after.streaming = call.streaming
    BY <1>1, EmitsBill
  <1> HIDE DEF after
  <1>3. e.usage = NoUsage /\ e.cost = 0
    BY <1>2, NothingIsFree DEF Bills
  <1>4. ~Wrapped(after)
    BY <1>2 DEF Wrapped
  <1>5. BillsAsCall(adapter, after)
    BY <1>2, <1>3, <1>4 DEF BillsAsCall
  <1>6. CallBills(adapter, after, replies)
    BY <1>2, <1>5 DEF CallBills, Ended
  <1> QED
    BY <1>6 DEF after, ended, Failing

\* The number of its chunks is one or two, and before any it has been fed nothing.
LEMMA StreamBegins ==
  ASSUME NEW adapter \in AdapterNames, adapter # "bedrock", NEW call, ReplyOK(call.reply)
  PROVE  Len(Chunks(adapter, call)) \in 1..2 /\ Fed(adapter, Chunks(adapter, call), 0) = NoUsage
  BY StreamsFeed DEF FedRight, Fed

\* An answer is billed as the response it is, or begins a stream.
LEMMA ResultBills ==
  ASSUME NEW call, DOMAIN call = DOMAIN Idle, call.events = <<>>,
         call.seen = 0, call.acc = NoUsage,
         NEW adapter \in AdapterNames, adapter = recorder[call.request.client].adapter,
         call.streaming \in BOOLEAN, call.streaming => adapter # "bedrock",
         NEW replies, NEW reply \in replies, ReplyOK(reply)
  PROVE  CallBills(adapter, finishResult(call, reply), replies)
  <1> DEFINE ended == [call EXCEPT !.phase = "done", !.reply = reply]
             begun == [call EXCEPT !.phase = "stream", !.reply = reply]
             whole == parseUsage(adapter, reply.body)
             after == emit(ended, call.nested, whole, "ok")
  <1>1. finishResult(call, reply) = IF call.streaming /\ reply.iterable THEN begun ELSE after
    BY DEF finishResult
  <1>2. /\ DOMAIN ended = DOMAIN Idle /\ ended.events = <<>> /\ ended.phase = "done"
        /\ ended.reply = reply /\ ended.streaming = call.streaming
    BY DEF Idle
  <1>3. /\ begun.phase = "stream" /\ begun.reply = reply /\ begun.streaming = call.streaming
        /\ begun.seen = 0 /\ begun.acc = NoUsage
    BY DEF Idle
  <1> HIDE DEF ended, begun
  <1>4. CASE call.streaming /\ reply.iterable
    <2>1. adapter # "bedrock" /\ ReplyOK(begun.reply)
      BY <1>3, <1>4
    <2>2. /\ Len(Chunks(adapter, begun)) \in 1..2
          /\ Fed(adapter, Chunks(adapter, begun), 0) = NoUsage
      BY <2>1, StreamBegins
    <2>3. 0 \in 0..Len(Chunks(adapter, begun))
      BY <2>2
    <2>4. Feeding(adapter, begun, replies)
      BY <1>3, <1>4, <2>2, <2>3 DEF Feeding
    <2>5. CallBills(adapter, begun, replies)
      BY <1>3, <2>4 DEF CallBills, Ended
    <2> QED
      BY <1>1, <1>4, <2>5
  <1>5. CASE ~(call.streaming /\ reply.iterable)
    <2> HIDE DEF whole
    <2>1. /\ Bills(after.events[1], whole) /\ after.phase = "done"
          /\ after.reply = reply /\ after.streaming = call.streaming
      BY <1>2, EmitsBill
    <2> HIDE DEF after
    <2>2. ~Wrapped(after)
      BY <1>5, <2>1 DEF Wrapped
    <2>3. BillsAsCall(adapter, after)
      BY <2>1, <2>2 DEF BillsAsCall, whole
    <2>4. CallBills(adapter, after, replies)
      BY <2>1, <2>3 DEF CallBills, Ended
    <2> QED
      BY <1>1, <1>5, <2>4
  <1> QED
    BY <1>4, <1>5

\* A stream fed one chunk more is still fed what its consumer has seen.
LEMMA PullFeeds ==
  ASSUME NEW adapter \in AdapterNames, adapter # "bedrock", NEW call, DOMAIN call = DOMAIN Idle,
         ReplyOK(call.reply), NEW replies, Feeding(adapter, call, replies),
         call.seen < Len(Chunks(adapter, call)),
         NEW after, DOMAIN after = DOMAIN Idle, after.request = call.request,
         after.reply = call.reply, after.sent = call.sent, after.streaming = call.streaming,
         after.seen = call.seen + 1,
         after.acc = feed(adapter, call.acc, Chunks(adapter, call)[call.seen + 1])
  PROVE  Feeding(adapter, after, replies)
  <1> DEFINE chunks == Chunks(adapter, call)
             n == call.seen
  <1>1. Len(chunks) \in 1..2
    BY StreamBegins
  <1>2. Chunks(adapter, after) = chunks
    BY DEF Chunks
  <1>3. n \in 0..Len(chunks) /\ n < Len(chunks) /\ call.acc = Fed(adapter, chunks, n)
    BY DEF Feeding
  <1> HIDE DEF chunks, n
  <1>4. n = 0 \/ n = 1
    <2>1. \A m \in 1..2 : \A k \in 0..m : k < m => k = 0 \/ k = 1
      OBVIOUS
    <2> QED
      BY <1>1, <1>3, <2>1
  <1>5. Fed(adapter, chunks, n + 1) = feed(adapter, Fed(adapter, chunks, n), chunks[n + 1])
    BY <1>4 DEF Fed
  <1>6. after.acc = Fed(adapter, chunks, n + 1) /\ after.seen = n + 1
    BY <1>3, <1>5 DEF n, chunks
  <1>7. n + 1 \in 0..Len(chunks)
    BY <1>1, <1>3, <1>4
  <1>8. call.reply \in replies /\ call.streaming = TRUE /\ call.reply.iterable
    BY DEF Feeding
  <1> QED
    BY <1>2, <1>6, <1>7, <1>8 DEF Feeding

\* A stream that ends is billed what it was fed: all of it, if it was read to its end.
LEMMA FinishBills ==
  ASSUME NEW adapter \in AdapterNames, adapter # "bedrock", NEW call, Fresh(call),
         ReplyOK(call.reply), NEW replies, Feeding(adapter, call, replies),
         call.phase \in Ended, call.phase = "done" => call.seen = Len(Chunks(adapter, call)),
         NEW ctx, NEW status
  PROVE  CallBills(adapter, finish(call, ctx, status), replies)
  <1> DEFINE begun == [call EXCEPT !.emitted = TRUE]
             after == emit(begun, ctx, call.acc, status)
             chunks == Chunks(adapter, call)
             whole == parseUsage(adapter, call.reply.body)
             e == after.events[1]
  <1>1. finish(call, ctx, status) = after
    BY DEF Fresh, finish
  <1>2. /\ DOMAIN begun = DOMAIN Idle /\ begun.events = <<>> /\ begun.phase = call.phase
        /\ begun.request = call.request /\ begun.reply = call.reply
        /\ begun.streaming = call.streaming /\ begun.sent = call.sent
    BY DEF Fresh, Idle
  <1> HIDE DEF begun
  <1>3. /\ Bills(e, call.acc) /\ after.phase = call.phase
        /\ after.request = call.request /\ after.reply = call.reply
        /\ after.streaming = call.streaming /\ after.sent = call.sent
    BY <1>2, EmitsBill
  <1> HIDE DEF after
  <1>4. /\ Fed(adapter, chunks, Len(chunks)) = IF Metered(adapter, call) THEN whole ELSE NoUsage
        /\ \A i \in 0..Len(chunks) : Fed(adapter, chunks, i).input_tokens \in {0, whole.input_tokens}
    BY StreamsFeed DEF FedRight
  <1>5. call.seen \in 0..Len(chunks) /\ call.acc = Fed(adapter, chunks, call.seen)
    BY DEF Feeding
  <1>6. Wrapped(after) /\ (Metered(adapter, after) <=> Metered(adapter, call))
    BY <1>3 DEF Wrapped, Feeding, ReplyOK, Metered
  <1>7. parseUsage(adapter, after.reply.body) = whole
    BY <1>3
  <1>8. CASE call.phase = "done"
    <2>1. Bills(e, IF ~Metered(adapter, call) THEN NoUsage ELSE whole)
      <3> HIDE DEF whole, chunks
      <3>1. call.seen = Len(chunks)
        BY <1>8 DEF chunks
      <3>2. call.acc = IF Metered(adapter, call) THEN whole ELSE NoUsage
        BY <1>4, <1>5, <3>1
      <3>3. CASE Metered(adapter, call)
        BY <1>3, <3>2, <3>3
      <3>4. CASE ~Metered(adapter, call)
        BY <1>3, <3>2, <3>4
      <3> QED
        BY <3>3, <3>4
    <2> HIDE DEF whole, e
    <2>2. BillsAsCall(adapter, after)
      BY <1>3, <1>6, <1>7, <1>8, <2>1 DEF BillsAsCall, e
    <2> QED
      BY <1>1, <1>3, <1>8, <2>2 DEF CallBills, Feeding
  <1>9. CASE call.phase # "done"
    <2> HIDE DEF whole, chunks
    <2>1. e.usage.input_tokens \in {0, whole.input_tokens}
      BY <1>3, <1>4, <1>5 DEF Bills
    <2>2. BillsAsCall(adapter, after)
      BY <1>3, <1>6, <1>7, <1>9, <2>1 DEF BillsAsCall
    <2>3. call.streaming = TRUE
      BY DEF Feeding
    <2> QED
      BY <1>1, <1>3, <2>2, <2>3 DEF CallBills, Ended
  <1> QED
    BY <1>8, <1>9

\* Steps of a call keep every bill while recorders stay and its own stays right.
LEMMA BillsFrame ==
  ASSUME BillsInv, recorder' = recorder, NEW c \in Call, NEW call,
         calls' = [calls EXCEPT ![c] = call], DOMAIN calls = Call,
         Observing(call) =>
           CallBills(recorder[call.request.client].adapter, call, Replies[c])
  PROVE  BillsInv'
  <1>1. AdaptersKnown'
    BY DEF BillsInv, AdaptersKnown
  <1>2. ASSUME NEW d \in Call, Observing(calls'[d])
        PROVE  CallBills(recorder'[calls'[d].request.client].adapter, calls'[d], Replies[d])
    <2>1. CASE d = c
      BY <1>2, <2>1
    <2>2. CASE d # c
      <3>1. calls'[d] = calls[d]
        BY <2>2
      <3> QED
        BY <1>2, <3>1 DEF BillsInv
    <2> QED
      BY <2>1, <2>2
  <1> QED
    BY <1>1, <1>2 DEF BillsInv

\* Steps that leave calls and recorders keep every bill.
LEMMA QuietBills ==
  ASSUME BillsInv, recorder' = recorder, calls' = calls
  PROVE  BillsInv'
  BY DEF BillsInv, AdaptersKnown

\* A client is wrapped with one of the four adapters, and none that called is wrapped again.
LEMMA WrapBills ==
  ASSUME SdkInv, BillsInv, NEW k \in Client, NEW opts, wrap(k, opts)
  PROVE  BillsInv'
  <1> DEFINE adapter == detect(Shape[k])
             provider == providerFor(adapter, Shape[k])
             meta == ClientMeta(opts)
             queue == QueueOf(resolveIngest(opts))
             wrapped == [adapter |-> adapter, provider |-> provider, meta |-> meta, queue |-> queue]
  <1>1. /\ recorder[k] = Null /\ calls' = calls /\ DOMAIN recorder = Client
        /\ \E r : recorder' = [recorder EXCEPT ![k] = r] /\ r.adapter = detect(Shape[k])
        /\ detect(Shape[k]) # Null
    <2>1. DOMAIN recorder = Client
      BY DEF SdkInv, RecordersOK
    <2>2. /\ recorder[k] = Null /\ calls' = calls /\ adapter # Null
          /\ recorder' = [recorder EXCEPT ![k] = wrapped]
      BY DEF wrap
    <2> HIDE DEF adapter, provider, meta, queue
    <2>3. wrapped.adapter = adapter
      OBVIOUS
    <2> HIDE DEF wrapped
    <2>4. \E r : recorder' = [recorder EXCEPT ![k] = r] /\ r.adapter = adapter
      BY <2>2, <2>3
    <2> QED
      BY <2>1, <2>2, <2>4 DEF adapter
  <1> HIDE DEF adapter, provider, meta, queue, wrapped
  <1>2. detect(Shape[k]) \in AdapterNames
    <2> DEFINE hits == {i \in DOMAIN Registry : Detects(Registry[i], Shape[k])}
    <2>1. detect(Shape[k]) = Registry[Min(hits)] /\ hits # {}
      BY <1>1 DEF detect
    <2>2. hits \subseteq 1..4
      BY DEF Registry
    <2>3. hits \subseteq Nat
      BY <2>2
    <2> HIDE DEF hits
    <2>4. Min(hits) \in 1..4
      BY <2>1, <2>2, <2>3, LeastOf
    <2>5. \A i \in 1..4 : Registry[i] \in AdapterNames
      BY DEF Registry, AdapterNames
    <2> QED
      BY <2>1, <2>4, <2>5
  <1>3. PICK r : recorder' = [recorder EXCEPT ![k] = r] /\ r.adapter = detect(Shape[k])
    BY <1>1
  <1>4. AdaptersKnown'
    BY <1>1, <1>2, <1>3 DEF BillsInv, AdaptersKnown
  <1>5. ASSUME NEW c \in Call, Observing(calls[c])
        PROVE  recorder'[calls[c].request.client] = recorder[calls[c].request.client]
    <2>1. recorder[calls[c].request.client] # Null
      BY <1>5 DEF Observing, SdkInv, CallsOK, Asked
    <2> QED
      BY <1>1, <1>3, <2>1
  <1>6. ASSUME NEW c \in Call, Observing(calls'[c])
        PROVE  CallBills(recorder'[calls'[c].request.client].adapter, calls'[c], Replies[c])
    BY <1>1, <1>5, <1>6 DEF BillsInv
  <1> QED
    BY <1>4, <1>6 DEF BillsInv

\* Any answer of a call's provider is one.
LEMMA RepliesOK == \A c \in Call : \A reply \in Replies[c] : ReplyOK(reply)
  BY RepliesAssumption DEF ReplyOK

\* A method that bedrock's adapter observes does not stream.
LEMMA BedrockSends ==
  ASSUME NEW path, NEW options, Observed(path, "bedrock")
  PROVE  ~(isStreamingMethod(path) \/ isStream("bedrock", options))
  <1>1. path = <<"send">>
    BY DEF Observed, isTerminal, terminalPaths
  <1>2. Last(path) = "send"
    BY <1>1 DEF Last
  <1> QED
    BY <1>2 DEF isStreamingMethod, isStream

\* A call that begins has cost nothing, or what it ended with.
LEMMA BeginsBills ==
  ASSUME SdkInv, BillsInv, NEW c \in Call, NEW f \in Flow, NEW q \in Requests[c], Begins(c, f, q)
  PROVE  BillsInv'
  <1>1. DOMAIN calls = Call
    BY DEF SdkInv, CallsOK
  <1>2. CASE CallThrough(c, f, q)
    <2> DEFINE call == [Idle EXCEPT !.phase = "unobserved", !.request = q]
    <2>1. calls' = [calls EXCEPT ![c] = call] /\ recorder' = recorder
      BY <1>2 DEF CallThrough, Becomes
    <2>2. ~Observing(call)
      BY DEF Observing, Idle
    <2> HIDE DEF call
    <2> QED
      BY <1>1, <2>1, <2>2, BillsFrame
  <1>3. CASE RecordCall(c, f, q)
    <2>1. recorder' = recorder /\ \E call : calls' = [calls EXCEPT ![c] = call] /\ ~Observing(call)
      <3> DEFINE begun == [Idle EXCEPT !.request = q, !.nested = nested[f]]
                 call == record(begun, q.opts)
      <3>1. calls' = [calls EXCEPT ![c] = call] /\ recorder' = recorder /\ q.kind = "record"
        BY <1>3 DEF RecordCall, Records
      <3>2. call.request = q
        BY DEF record, Idle
      <3>3. ~Observing(call)
        BY <3>1, <3>2 DEF Observing
      <3> QED
        BY <3>1, <3>3
    <2> QED
      BY <1>1, <2>1, BillsFrame
  <1>4. CASE Track(c, f, q)
    <2> DEFINE call == [Idle EXCEPT !.phase = "pending", !.request = q, !.nested = nested[f]]
    <2>1. calls' = [calls EXCEPT ![c] = call] /\ recorder' = recorder /\ q.kind = "track"
      BY <1>4 DEF Track, Becomes
    <2>2. ~Observing(call)
      BY <2>1 DEF Observing, Idle
    <2> HIDE DEF call
    <2> QED
      BY <1>1, <2>1, <2>2, BillsFrame
  <1>5. CASE Create(c, f, q)
    <2> DEFINE adapter == recorder[q.client].adapter
               call == Created(f, q)
               waiting == [call EXCEPT !.phase = "pending"]
               failed == emit([call EXCEPT !.phase = "failed"], call.nested, NoUsage, "error")
    <2>1. /\ q.kind = "proxy" /\ q.client \in Client /\ recorder[q.client] # Null
          /\ Observed(q.path, adapter)
      BY <1>5, RequestsAssumption DEF Create, Calls
    <2>2. adapter \in AdapterNames
      BY <2>1 DEF BillsInv, AdaptersKnown
    <2>3. /\ DOMAIN call = DOMAIN Idle /\ call.events = <<>> /\ call.request = q
          /\ call.reply = Null /\ call.seen = 0 /\ call.acc = NoUsage
      BY DEF Created, Idle
    <2>4. call.streaming \in BOOLEAN /\ (call.streaming => adapter # "bedrock")
      <3> DEFINE bare == [k \in DOMAIN q.options \ {"costobs"} |-> q.options[k]]
      <3>1. call.streaming = (isStreamingMethod(q.path) \/ isStream(adapter, bare))
        BY DEF Created, Idle
      <3> HIDE DEF call, bare, adapter
      <3>2. adapter = "bedrock" => ~(isStreamingMethod(q.path) \/ isStream(adapter, bare))
        BY <2>1, BedrockSends
      <3> QED
        BY <3>1, <3>2
    <2>5. \/ Becomes(c, waiting)
          \/ \E reply \in Replies[c] : Becomes(c, finishResult(call, reply))
          \/ Becomes(c, failed)
      BY <1>5 DEF Create
    <2>6. adapter = recorder[call.request.client].adapter
      BY <2>3
    <2> HIDE DEF call, adapter
    <2>7. CASE Becomes(c, waiting)
      <3>1. /\ waiting.phase = "pending" /\ waiting.reply = Null /\ waiting.seen = 0
            /\ waiting.acc = NoUsage /\ waiting.streaming = call.streaming /\ waiting.request = q
        BY <2>3 DEF Idle
      <3>2. calls' = [calls EXCEPT ![c] = waiting] /\ recorder' = recorder
        BY <2>7 DEF Becomes
      <3> HIDE DEF waiting
      <3>3. CallBills(adapter, waiting, Replies[c])
        BY <2>4, <3>1 DEF CallBills, Ended
      <3> QED
        BY <1>1, <3>1, <3>2, <3>3, BillsFrame DEF adapter
    <2>8. ASSUME NEW reply \in Replies[c], Becomes(c, finishResult(call, reply))
          PROVE  BillsInv'
      <3> DEFINE after == finishResult(call, reply)
      <3>1. ReplyOK(reply)
        BY RepliesOK
      <3>2. CallBills(adapter, after, Replies[c])
        BY <2>2, <2>3, <2>4, <2>6, <3>1, ResultBills
      <3>3. after.request = q
        <4>1. call.emitted = FALSE
          BY DEF call, Created, Idle
        <4> QED
          BY <2>3, <4>1, ResultCounted
      <3>4. calls' = [calls EXCEPT ![c] = after] /\ recorder' = recorder
        BY <2>8 DEF Becomes
      <3> HIDE DEF after
      <3> QED
        BY <1>1, <3>2, <3>3, <3>4, BillsFrame DEF adapter
    <2>9. CASE Becomes(c, failed)
      <3>1. CallBills(adapter, failed, Replies[c])
        <4>1. CallBills(adapter, Failing(call), Replies[c])
          BY <2>3, <2>4, FailureBills
        <4> QED
          BY <4>1 DEF Failing
      <3>2. failed.request = q
        BY <2>3, FailureCounted
      <3>3. calls' = [calls EXCEPT ![c] = failed] /\ recorder' = recorder
        BY <2>9 DEF Becomes
      <3> HIDE DEF failed
      <3> QED
        BY <1>1, <3>1, <3>2, <3>3, BillsFrame DEF adapter
    <2> QED
      BY <2>5, <2>7, <2>8, <2>9
  <1> QED
    BY <1>2, <1>3, <1>4, <1>5 DEF Begins

\* A stream pulled is fed, and one that ends is billed what it was fed.
LEMMA ConsumesBills ==
  ASSUME SdkInv, BillsInv, NEW c \in Call, NEW f \in Flow, Consumes(c, f)
  PROVE  BillsInv'
  <1> DEFINE adapter == recorder[calls[c].request.client].adapter
             replies == Replies[c]
             Ends(phase) == [calls[c] EXCEPT !.puller = nested[f], !.phase = phase]
             Once(phase, s) == finish(Ends(phase), nested[f], s)
  <1>1. DOMAIN calls = Call
    BY DEF SdkInv, CallsOK
  <1>2. /\ calls[c].phase \in {"stream", "open"} /\ calls[c].phase \notin Ended
        /\ CallOK(calls[c]) /\ Asked(calls[c])
    BY DEF SdkInv, CallsOK, Consumes, Pull, PullFails, Break, Streams, Ended
  <1>3. /\ Fresh(calls[c]) /\ calls[c].request.kind = "proxy" /\ Observing(calls[c])
        /\ calls[c].request.client \in Client /\ recorder[calls[c].request.client] # Null
    BY <1>2 DEF CallOK, Asked, Fresh, Observing
  <1>4. CallBills(adapter, calls[c], replies)
    BY <1>3 DEF BillsInv
  <1>5. /\ adapter \in AdapterNames /\ adapter # "bedrock"
        /\ Feeding(adapter, calls[c], replies) /\ ReplyOK(calls[c].reply)
    <2>1. adapter \in AdapterNames
      BY <1>3 DEF BillsInv, AdaptersKnown
    <2>2. Feeding(adapter, calls[c], replies)
      BY <1>2, <1>4 DEF CallBills
    <2>3. adapter # "bedrock"
      BY <1>4, <2>2 DEF CallBills, Feeding
    <2> QED
      BY <2>1, <2>2, <2>3, RepliesOK DEF Feeding
  <1> HIDE DEF adapter, replies
  <1>6. ASSUME NEW phase \in Ended, NEW s,
               phase = "done" => calls[c].seen = Len(Chunks(adapter, calls[c])),
               Becomes(c, Once(phase, s))
        PROVE  BillsInv'
    <2> DEFINE ended == Ends(phase)
               after == finish(ended, nested[f], s)
    <2>1. /\ DOMAIN ended = DOMAIN Idle /\ ended.events = <<>> /\ ended.emitted = FALSE
          /\ ended.phase = phase /\ ended.request = calls[c].request
          /\ ended.reply = calls[c].reply /\ ended.sent = calls[c].sent
          /\ ended.streaming = calls[c].streaming /\ ended.seen = calls[c].seen
          /\ ended.acc = calls[c].acc
      BY <1>3 DEF Fresh, Idle
    <2>2. calls' = [calls EXCEPT ![c] = after] /\ recorder' = recorder
      BY <1>6 DEF Becomes
    <2> HIDE DEF ended
    <2>3. Chunks(adapter, ended) = Chunks(adapter, calls[c])
      BY <2>1 DEF Chunks
    <2>4. Feeding(adapter, ended, replies)
      BY <1>5, <2>1, <2>3 DEF Feeding
    <2>5. Fresh(ended) /\ ReplyOK(ended.reply)
      BY <1>5, <2>1 DEF Fresh
    <2>6. ended.phase \in Ended /\ (ended.phase = "done" => ended.seen = Len(Chunks(adapter, ended)))
      BY <1>6, <2>1, <2>3
    <2>7. CallBills(adapter, after, replies)
      BY <1>5, <2>4, <2>5, <2>6, FinishBills
    <2>8. after.request = calls[c].request
      BY <2>1, <2>5, FinishesOnce
    <2> HIDE DEF after
    <2> QED
      BY <1>1, <2>2, <2>7, <2>8, BillsFrame DEF adapter, replies
  <1>7. ASSUME NEW phase, NEW s1, NEW s2
        PROVE  finish(Once(phase, s1), nested[f], s2) = Once(phase, s1)
    <2> DEFINE ended == Ends(phase)
    <2>1. Fresh(ended)
      BY <1>3 DEF Fresh, Idle
    <2> HIDE DEF ended
    <2> DEFINE once == finish(ended, nested[f], s1)
    <2>2. Finished(once)
      BY <2>1, FinishesOnce
    <2> HIDE DEF once
    <2>3. finish(once, nested[f], s2) = once
      BY <2>2 DEF finish, Finished
    <2> QED
      BY <2>3 DEF ended, once
  <1>8. CASE Pull(c, f)
    <2> DEFINE call == [calls[c] EXCEPT !.puller = nested[f]]
               chunks == Chunks(adapter, call)
               on == [call EXCEPT !.phase = "open", !.seen = @ + 1,
                        !.acc = feed(adapter, @, chunks[call.seen + 1])]
               done == finish(finish([call EXCEPT !.phase = "done"], nested[f], "ok"),
                              nested[f], "ok")
    <2>1. /\ DOMAIN call = DOMAIN Idle /\ call.request = calls[c].request
          /\ call.reply = calls[c].reply /\ call.sent = calls[c].sent
          /\ call.streaming = calls[c].streaming /\ call.seen = calls[c].seen
          /\ call.acc = calls[c].acc
      BY <1>3 DEF Fresh, Idle
    <2>2. Becomes(c, IF call.seen < Len(chunks) THEN on ELSE done)
      BY <1>8, <2>1 DEF Pull, adapter
    <2>3. done = finish(Once("done", "ok"), nested[f], "ok")
      BY DEF Ends
    <2>4. chunks = Chunks(adapter, calls[c])
      BY <2>1 DEF Chunks
    <2>5. CASE call.seen < Len(chunks)
      <3>1. /\ DOMAIN on = DOMAIN Idle /\ on.request = calls[c].request
            /\ on.reply = calls[c].reply /\ on.sent = calls[c].sent
            /\ on.streaming = calls[c].streaming /\ on.seen = calls[c].seen + 1
            /\ on.acc = feed(adapter, calls[c].acc, Chunks(adapter, calls[c])[calls[c].seen + 1])
            /\ on.phase = "open"
        BY <2>1, <2>4 DEF Idle
      <3>2. calls' = [calls EXCEPT ![c] = on] /\ recorder' = recorder
        BY <2>2, <2>5 DEF Becomes
      <3>3. calls[c].seen < Len(Chunks(adapter, calls[c]))
        BY <2>1, <2>4, <2>5
      <3> HIDE DEF on
      <3>4. Feeding(adapter, on, replies)
        BY <1>3, <1>5, <3>1, <3>3, PullFeeds DEF Fresh
      <3>5. CallBills(adapter, on, replies)
        BY <1>4, <3>1, <3>4 DEF CallBills, Ended
      <3> QED
        BY <1>1, <3>1, <3>2, <3>5, BillsFrame DEF adapter, replies
    <2>6. CASE ~(call.seen < Len(chunks))
      <3>1. Becomes(c, Once("done", "ok"))
        BY <1>7, <2>2, <2>3, <2>6
      <3>2. calls[c].seen = Len(Chunks(adapter, calls[c]))
        <4> DEFINE m == Len(Chunks(adapter, calls[c]))
        <4>1. calls[c].seen \in 0..m /\ ~(calls[c].seen < m) /\ m \in 1..2
          BY <1>5, <2>1, <2>4, <2>6, StreamBegins DEF Feeding
        <4> HIDE DEF m
        <4>2. calls[c].seen = m
          BY <4>1
        <4> QED
          BY <4>2 DEF m
      <3> HIDE DEF Once
      <3> QED
        BY <1>6, <3>1, <3>2 DEF Ended
    <2> QED
      BY <2>5, <2>6
  <1>9. CASE PullFails(c, f)
    <2>1. Becomes(c, finish(Once("failed", "error"), nested[f], "ok"))
      BY <1>9 DEF PullFails, Ends
    <2>2. Becomes(c, Once("failed", "error"))
      BY <1>7, <2>1
    <2> HIDE DEF Once
    <2> QED
      BY <1>6, <2>2 DEF Ended
  <1>10. CASE Break(c, f)
    <2>1. Becomes(c, Once("broken", "ok"))
      BY <1>10 DEF Break, Ends
    <2> HIDE DEF Once
    <2> QED
      BY <1>6, <2>1 DEF Ended
  <1> QED
    BY <1>8, <1>9, <1>10 DEF Consumes

\* A call that settles is billed the answer, nothing if it failed, or by hand.
LEMMA SettlesBills ==
  ASSUME SdkInv, BillsInv, NEW c \in Call, Settles(c)
  PROVE  BillsInv'
  <1> DEFINE call == calls[c]
             adapter == recorder[call.request.client].adapter
  <1>1. DOMAIN calls = Call
    BY DEF SdkInv, CallsOK
  <1>2. /\ call.phase \in {"pending", "stream"} /\ call.phase \notin Ended
        /\ CallOK(call) /\ Asked(call)
    BY DEF SdkInv, CallsOK, Settles, Resolve, Reject, Bypass, TrackSettles, Ended
  <1>3. DOMAIN call = DOMAIN Idle /\ call.events = <<>> /\ call.emitted = FALSE
    BY <1>2 DEF CallOK
  <1>4. ASSUME call.request.kind = "proxy"
        PROVE  adapter \in AdapterNames /\ CallBills(adapter, call, Replies[c])
    <2>1. call.request.client \in Client /\ recorder[call.request.client] # Null
      BY <1>2, <1>4 DEF Asked
    <2>2. Observing(call)
      BY <1>2, <1>4 DEF Observing
    <2> QED
      BY <2>1, <2>2 DEF BillsInv, AdaptersKnown
  <1>5. ASSUME call.request.kind = "proxy", call.phase = "pending"
        PROVE  /\ adapter \in AdapterNames
               /\ call.streaming \in BOOLEAN /\ (call.streaming => adapter # "bedrock")
               /\ call.reply = Null /\ call.seen = 0 /\ call.acc = NoUsage
    BY <1>4, <1>5 DEF CallBills
  <1> HIDE DEF adapter, call
  <1>6. CASE Resolve(c)
    <2>1. /\ call.request.kind = "proxy" /\ call.phase = "pending"
          /\ \E reply \in Replies[c] : Becomes(c, finishResult(call, reply))
      BY <1>6 DEF Resolve, call
    <2>2. PICK reply \in Replies[c] : Becomes(c, finishResult(call, reply))
      BY <2>1
    <2> DEFINE after == finishResult(call, reply)
    <2>3. ReplyOK(reply)
      BY RepliesOK
    <2>4. CallBills(adapter, after, Replies[c])
      BY <1>3, <1>5, <2>1, <2>3, ResultBills DEF adapter
    <2>5. after.request = call.request
      BY <1>3, ResultCounted
    <2>6. calls' = [calls EXCEPT ![c] = after] /\ recorder' = recorder
      BY <2>2 DEF Becomes
    <2> HIDE DEF after
    <2> QED
      BY <1>1, <2>4, <2>5, <2>6, BillsFrame DEF adapter
  <1>7. CASE Reject(c)
    <2> DEFINE after == emit([call EXCEPT !.phase = "failed"], call.nested, NoUsage, "error")
    <2>1. call.request.kind = "proxy" /\ call.phase = "pending" /\ Becomes(c, after)
      BY <1>7 DEF Reject, call
    <2>2. CallBills(adapter, after, Replies[c])
      <3>1. CallBills(adapter, Failing(call), Replies[c])
        BY <1>3, <1>5, <2>1, FailureBills
      <3> QED
        BY <3>1 DEF Failing
    <2>3. after.request = call.request
      BY <1>3, FailureCounted
    <2>4. calls' = [calls EXCEPT ![c] = after] /\ recorder' = recorder
      BY <2>1 DEF Becomes
    <2> HIDE DEF after
    <2> QED
      BY <1>1, <2>2, <2>3, <2>4, BillsFrame DEF adapter
  <1>8. CASE Bypass(c)
    <2> DEFINE after == [call EXCEPT !.phase = "bypassed"]
    <2>1. call.phase = "stream" /\ calls' = [calls EXCEPT ![c] = after] /\ recorder' = recorder
      BY <1>8 DEF Bypass, Becomes, call
    <2>2. call.request.kind = "proxy"
      BY <1>2, <2>1 DEF Asked
    <2>3. after.phase = "bypassed" /\ after.streaming = call.streaming /\ after.request = call.request
      BY <1>3 DEF Idle
    <2> HIDE DEF after
    <2>4. CallBills(adapter, after, Replies[c])
      BY <1>4, <2>2, <2>3 DEF CallBills, Ended
    <2> QED
      BY <1>1, <2>1, <2>3, <2>4, BillsFrame DEF adapter
  <1>9. CASE TrackSettles(c)
    <2>1. call.request.kind # "proxy" /\ \E opts : Records(c, call, opts)
      BY <1>9 DEF TrackSettles, call
    <2>2. PICK opts : Records(c, call, opts)
      BY <2>1
    <2> DEFINE after == record(call, opts)
    <2>3. calls' = [calls EXCEPT ![c] = after] /\ recorder' = recorder
      BY <2>2 DEF Records
    <2>4. after.request = call.request
      BY <1>3 DEF record, Idle
    <2> HIDE DEF after
    <2>5. ~Observing(after)
      BY <2>1, <2>4 DEF Observing
    <2> QED
      BY <1>1, <2>3, <2>5, BillsFrame
  <1> QED
    BY <1>6, <1>7, <1>8, <1>9 DEF Settles

\* Every step keeps the bills right.
LEMMA NextBills == SdkInv /\ BillsInv /\ [Next]_vars => BillsInv'
  <1> SUFFICES ASSUME SdkInv, BillsInv, [Next]_vars PROVE BillsInv'
    OBVIOUS
  <1>1. ASSUME NEW k \in Client, NEW o \in WrapOptions[k], wrap(k, o) PROVE BillsInv'
    BY <1>1, WrapBills
  <1>2. ASSUME NEW c \in Call, NEW f \in Flow, NEW q \in Requests[c], Begins(c, f, q) PROVE BillsInv'
    BY <1>2, BeginsBills
  <1>3. ASSUME NEW c \in Call, NEW f \in Flow, Consumes(c, f) PROVE BillsInv'
    BY <1>3, ConsumesBills
  <1>4. ASSUME NEW c \in Call, Settles(c) PROVE BillsInv'
    BY <1>4, SettlesBills
  <1>5. ASSUME NEW o, configure(o) PROVE BillsInv'
    BY <1>5, QuietBills DEF configure
  <1>6. ASSUME NEW f, LeaveContext(f) PROVE BillsInv'
    BY <1>6, QuietBills DEF LeaveContext
  <1>7. ASSUME NEW f, NEW x, EnterContext(f, x) PROVE BillsInv'
    BY <1>7, QuietBills DEF EnterContext
  <1>8. ASSUME NEW i, Ships(i) \/ DrainEnds(i) PROVE BillsInv'
    BY <1>8, QuietBills DEF Ships, DrainEnds
  <1>9. CASE Shutdown \/ Sigterm \/ Exit
    BY <1>9, QuietBills DEF Shutdown, Sigterm, shutdown, Exit
  <1>10. CASE UNCHANGED vars
    BY <1>10, QuietBills DEF vars
  <1> QED
    BY <1>1, <1>2, <1>3, <1>4, <1>5, <1>6, <1>7, <1>8, <1>9, <1>10 DEF Next, Runs

\* No client is wrapped and no call made at first.
LEMMA InitBills == Init => BillsInv
  <1> SUFFICES ASSUME Init PROVE BillsInv
    OBVIOUS
  <1>1. recorder = [k \in Client |-> Null] /\ calls = [c \in Call |-> Idle]
    BY DEF Init
  <1>2. ~Observing(Idle)
    BY DEF Observing, Idle
  <1> HIDE DEF Idle
  <1> QED
    BY <1>1, <1>2 DEF BillsInv, AdaptersKnown

-----------------------------------------------------------------------------
(* Attribution: what the store of nested contexts names, and who an event is for. *)

\* Two keys name the customer.
LEMMA TwoNames == \A k : canonicalKey(k) = "customer_id" <=> k \in Names
  BY DEF canonicalKey, FieldAliases, Names

\* An object names the customer by those of the two it has, unless they are null.
LEMMA NamingIs ==
  ASSUME NEW o
  PROVE  Naming(o) = {k \in DOMAIN o \cap Names : o[k].is # Null}
  BY TwoNames DEF Naming, Spelling, clean, Without

\* What remains of an object without some keys.
LEMMA WithoutKeys ==
  ASSUME NEW o, NEW keys
  PROVE  /\ DOMAIN Without(o, keys) = DOMAIN o \ keys
         /\ \A k \in DOMAIN o \ keys : Without(o, keys)[k] = o[k]
  BY DEF Without

\* An object without its nulls names what it named, by the same values and places.
LEMMA CleanNames ==
  ASSUME NEW o
  PROVE  /\ DOMAIN clean(o) \subseteq DOMAIN o /\ \A k \in DOMAIN clean(o) : clean(o)[k] = o[k]
         /\ DOMAIN clean(o) \cap Names = Naming(o)
  BY NamingIs DEF clean, Without

\* The later of the keys that name the customer, when no two are in one place.
LEMMA LatestIs ==
  ASSUME NEW o, NEW keys, keys \subseteq Names, keys # {},
         \A k \in keys : o[k].at \in Nat,
         \A j, k \in keys : o[j].at = o[k].at => j = k
  PROVE  /\ Latest(o, keys) \in keys /\ \A j \in keys : o[j].at <= o[Latest(o, keys)].at
         /\ \A k \in keys : (\A j \in keys : o[j].at <= o[k].at) => k = Latest(o, keys)
  <1>1. \E k \in keys : \A j \in keys : o[j].at <= o[k].at
    <2>1. PICK k \in keys : TRUE
      OBVIOUS
    <2>2. CASE \A j \in keys : o[j].at <= o[k].at
      BY <2>2
    <2>3. CASE \E j \in keys : ~(o[j].at <= o[k].at)
      <3>1. PICK j \in keys : ~(o[j].at <= o[k].at)
        BY <2>3
      <3>2. o[k].at <= o[j].at /\ j # k
        BY <3>1
      <3>3. keys = {j, k}
        BY <3>2 DEF Names
      <3> QED
        BY <3>2, <3>3
    <2> QED
      BY <2>2, <2>3
  <1>2. /\ Latest(o, keys) \in keys /\ \A j \in keys : o[j].at <= o[Latest(o, keys)].at
    BY <1>1 DEF Latest
  <1> DEFINE last == Latest(o, keys)
  <1> HIDE DEF last
  <1>3. ASSUME NEW k \in keys, \A j \in keys : o[j].at <= o[k].at
        PROVE  k = last
    <2>1. last \in keys /\ o[last].at <= o[k].at /\ o[k].at <= o[last].at
      BY <1>2, <1>3 DEF last
    <2>2. o[last].at = o[k].at
      BY <2>1
    <2> QED
      BY <2>1, <2>2
  <1> QED
    BY <1>2, <1>3 DEF last

\* A field of an event is given by the last key of an object that spells it.
LEMMA CustomerField ==
  ASSUME NEW o
  PROVE  /\ "customer_id" \in DOMAIN Fields(o) <=> Naming(o) # {}
         /\ Naming(o) # {} => Fields(o)["customer_id"] = Customer(o)
  <1>1. "customer_id" \in KnownFields
    BY DEF KnownFields
  <1>2. "customer_id" \in DOMAIN Fields(o) <=> \E k \in DOMAIN clean(o) : canonicalKey(k) = "customer_id"
    BY <1>1 DEF Fields
  <1>3. Naming(o) = {k \in DOMAIN clean(o) : canonicalKey(k) = "customer_id"}
    BY DEF Naming, Spelling
  <1>4. "customer_id" \in DOMAIN Fields(o) <=> Naming(o) # {}
    BY <1>2, <1>3
  <1>5. ASSUME Naming(o) # {} PROVE Fields(o)["customer_id"] = Customer(o)
    <2>1. Fields(o)["customer_id"] = o[Latest(o, Spelling(o, "customer_id"))].is
      BY <1>4, <1>5 DEF Fields
    <2> QED
      BY <1>5, <2>1 DEF Customer, Naming
  <1> QED
    BY <1>4, <1>5

\* A layer that names the customer decides, and any other leaves it.
LEMMA LayerNames ==
  ASSUME NEW meta, NEW o
  PROVE  field(Layer(meta, o).fields, "customer_id") =
           IF Naming(o) # {} THEN Customer(o) ELSE field(meta.fields, "customer_id")
  <1> DEFINE own == Fields(o)
             old == meta.fields
  <1>1. Layer(meta, o).fields = Over(own, old)
    BY DEF Layer
  <1>2. /\ "customer_id" \in DOMAIN own <=> Naming(o) # {}
        /\ Naming(o) # {} => own["customer_id"] = Customer(o)
    BY CustomerField
  <1> HIDE DEF own, old
  <1>3. field(Over(own, old), "customer_id") =
          IF "customer_id" \in DOMAIN own THEN own["customer_id"] ELSE field(old, "customer_id")
    BY DEF field, Over
  <1> QED
    BY <1>1, <1>2, <1>3 DEF old

\* The call names the customer, or else its context, when its client does not.
LEMMA MergeNames ==
  ASSUME NEW clientMeta, NEW context, NEW callMeta, Naming(clientMeta) = {}
  PROVE  field(merge(clientMeta, context, callMeta).fields, "customer_id") =
           IF Naming(callMeta) # {} THEN Customer(callMeta) ELSE Customer(context)
  <1>1. field(NoMeta.fields, "customer_id") = Null
    BY DEF NoMeta, field
  <1> DEFINE client == Layer(NoMeta, clientMeta)
             inner == Layer(client, context)
  <1>2. field(client.fields, "customer_id") = Null
    BY <1>1, LayerNames
  <1> HIDE DEF client
  <1>3. field(inner.fields, "customer_id") = Customer(context)
    BY <1>2, LayerNames DEF Customer
  <1> HIDE DEF inner
  <1>4. field(Layer(inner, callMeta).fields, "customer_id") =
          IF Naming(callMeta) # {} THEN Customer(callMeta) ELSE Customer(context)
    BY <1>3, LayerNames
  <1> QED
    BY <1>4 DEF merge, inner, client

\* The last place of a store is one none of its keys is beyond.
LEMMA EndIs ==
  ASSUME NEW o, Places(o)
  PROVE  End(o) \in Nat /\ \A k \in DOMAIN o : o[k].at \in Nat /\ o[k].at <= End(o)
  <1>1. PICK b \in Nat : \A k \in DOMAIN o : o[k].at \in 1..b
    BY DEF Places
  <1> DEFINE T == {o[k].at : k \in DOMAIN o} \cup {0}
             back == {b - x : x \in T}
  <1>2. T \subseteq Nat /\ \A x \in T : x <= b
    BY <1>1
  <1>3. 0 \in T
    OBVIOUS
  <1>4. \A k \in DOMAIN o : o[k].at \in T
    OBVIOUS
  <1> HIDE DEF T
  <1>5. back \subseteq Nat /\ back # {}
    BY <1>2, <1>3
  <1>6. PICK x \in back : \A y \in back : <<y, x>> \notin OpToRel(<, Nat)
    <2> HIDE DEF back
    <2> QED
      BY <1>5, NatLessThanWellFounded, WFMin
  <1>7. \A y \in back : ~(y < x)
    <2> HIDE DEF back
    <2> QED
      BY <1>5, <1>6 DEF OpToRel
  <1>8. PICK t \in T : x = b - t
    BY DEF back
  <1>9. \A y \in T : y <= t
    <2> SUFFICES ASSUME NEW y \in T PROVE y <= t
      OBVIOUS
    <2>1. b - y \in back
      BY DEF back
    <2>2. ~(b - y < x)
      BY <1>7, <2>1
    <2> QED
      BY <1>2, <1>8, <2>2
  <1>10. Max(T) \in T /\ \A y \in T : y <= Max(T)
    BY <1>9 DEF Max
  <1>11. End(o) = Max(T)
    BY DEF End, T
  <1> QED
    BY <1>2, <1>4, <1>10, <1>11

\* What spreading an object without its nulls over a store makes of it.
LEMMA Spreads ==
  ASSUME NEW store, Places(store), NEW ctx, IsObject(ctx)
  PROVE  LET new == Spread(store, clean(ctx))
         IN  /\ Places(new)
             /\ \A k \in Names : k \in DOMAIN new <=> k \in DOMAIN store \/ k \in Naming(ctx)
             /\ \A k \in Naming(ctx) : new[k].is = ctx[k].is
             /\ \A k \in DOMAIN store \cap Names : k \notin Naming(ctx) => new[k].is = store[k].is
             /\ \A k \in DOMAIN store : new[k].at = store[k].at
             /\ \A k \in Naming(ctx) : k \notin DOMAIN store => new[k].at = End(store) + ctx[k].at
  <1> DEFINE inner == clean(ctx)
             last == End(store)
             new == Spread(store, inner)
             m == Cardinality(DOMAIN ctx)
  <1>1. /\ DOMAIN inner \subseteq DOMAIN ctx /\ \A k \in DOMAIN inner : inner[k] = ctx[k]
        /\ DOMAIN inner \cap Names = Naming(ctx)
    BY CleanNames
  <1>2. m \in Nat /\ \A k \in DOMAIN ctx : ctx[k].at \in 1..m
    BY FS_CardinalityType DEF IsObject
  <1>3. last \in Nat
    BY EndIs
  <1>4. /\ DOMAIN new = DOMAIN store \cup DOMAIN inner
        /\ \A k \in DOMAIN new :
             /\ new[k].at = IF k \in DOMAIN store THEN store[k].at ELSE last + inner[k].at
             /\ new[k].is = IF k \in DOMAIN inner THEN inner[k].is ELSE store[k].is
    BY DEF Spread
  <1> HIDE DEF inner, last, new, m
  <1>5. Places(new)
    <2>1. PICK b \in Nat : \A k \in DOMAIN store : store[k].at \in 1..b
      BY DEF Places
    <2>2. PICK d \in Nat : d = b + last + m
      BY <1>2, <1>3
    <2>3. ASSUME NEW k \in DOMAIN new PROVE new[k].at \in 1..d
      <3>1. CASE k \in DOMAIN store
        <4>1. new[k].at = store[k].at /\ store[k].at \in 1..b
          BY <1>4, <2>1, <3>1
        <4> QED
          BY <1>2, <1>3, <2>2, <4>1
      <3>2. CASE k \notin DOMAIN store
        <4>1. k \in DOMAIN inner /\ new[k].at = last + inner[k].at
          BY <1>4, <3>2
        <4>2. inner[k].at \in 1..m
          BY <1>1, <1>2, <4>1
        <4> QED
          BY <1>2, <1>3, <2>2, <4>1, <4>2
      <3> QED
        BY <3>1, <3>2
    <2> QED
      BY <2>3 DEF Places
  <1>6. \A k \in Names : k \in DOMAIN new <=> k \in DOMAIN store \/ k \in Naming(ctx)
    BY <1>1, <1>4
  <1>7. \A k \in Naming(ctx) : new[k].is = ctx[k].is
    BY <1>1, <1>4
  <1>8. \A k \in DOMAIN store \cap Names : k \notin Naming(ctx) => new[k].is = store[k].is
    BY <1>1, <1>4
  <1>9. \A k \in DOMAIN store : new[k].at = store[k].at
    BY <1>4
  <1>10. \A k \in Naming(ctx) : k \notin DOMAIN store => new[k].at = last + ctx[k].at
    BY <1>1, <1>4
  <1> QED
    BY <1>5, <1>6, <1>7, <1>8, <1>9, <1>10 DEF new, inner, last

\* One context more: it is used last, and a spelling it is first to use is used first there.
LEMMA UsedOnce ==
  ASSUME NEW frames, NEW more, NEW n \in Nat, NEW k,
         \A i \in 1..n : more[i].given = frames[i].given
  PROVE  MoreUsed(frames, more, n, k)
  BY DEF UsedTo, MoreUsed

\* The frames below say all that the first of them do.
LEMMA SameFit ==
  ASSUME NEW frames, NEW more, NEW n \in Nat, NEW store,
         \A i \in 1..n : more[i].given = frames[i].given, Fits(frames, n, store)
  PROVE  Fits(more, n, store)
  <1>1. \A k : UsedTo(more, n, k) = UsedTo(frames, n, k)
    BY DEF UsedTo
  <1>2. \A k : \A i \in UsedTo(frames, n, k) : more[i].given = frames[i].given
    BY DEF UsedTo
  <1>3. \A k \in Names : Holds(more, n, store, k)
    BY <1>1, <1>2 DEF Fits, Holds
  <1>4. ASSUME NEW j, NEW k, Orders(frames, n, store, j, k)
        PROVE  Orders(more, n, store, j, k)
    BY <1>1, <1>2, <1>4 DEF Orders
  <1> QED
    BY <1>3, <1>4 DEF Fits

\* A context more over a store fits what the contexts with it make.
LEMMA StepFits ==
  ASSUME NEW frames, NEW more, NEW n \in Nat, NEW store,
         \A i \in 1..n : more[i].given = frames[i].given,
         Fits(frames, n, store), NEW ctx, IsObject(ctx), more[n + 1].given = ctx
  PROVE  Fits(more, n + 1, Spread(store, clean(ctx)))
  <1> DEFINE new == Spread(store, clean(ctx))
             old(k) == UsedTo(frames, n, k)
             used(k) == UsedTo(more, n + 1, k)
  <1>1. Places(store)
    BY DEF Fits
  <1>2. /\ Places(new)
        /\ \A k \in Names : k \in DOMAIN new <=> k \in DOMAIN store \/ k \in Naming(ctx)
        /\ \A k \in Naming(ctx) : new[k].is = ctx[k].is
        /\ \A k \in DOMAIN store \cap Names : k \notin Naming(ctx) => new[k].is = store[k].is
        /\ \A k \in DOMAIN store : new[k].at = store[k].at
        /\ \A k \in Naming(ctx) : k \notin DOMAIN store => new[k].at = End(store) + ctx[k].at
    BY <1>1, Spreads
  <1>3. \A k : used(k) = old(k) \cup (IF k \in Naming(ctx) THEN {n + 1} ELSE {})
    <2> SUFFICES ASSUME NEW k
                 PROVE  used(k) = old(k) \cup (IF k \in Naming(ctx) THEN {n + 1} ELSE {})
      OBVIOUS
    <2>1. MoreUsed(frames, more, n, k)
      BY UsedOnce
    <2> QED
      BY <2>1 DEF MoreUsed
  <1>4. \A k : old(k) \subseteq 1..n
    BY DEF UsedTo
  <1>5. \A k \in Naming(ctx) : k \in DOMAIN ctx /\ k \in Names /\ ctx[k].is # Null
    BY NamingIs
  <1>6. \A k : \A i \in old(k) : more[i].given = frames[i].given
    BY <1>4
  <1>7. \A k \in Names : Holds(frames, n, store, k)
    BY DEF Fits
  <1>8. \A i \in 1..n : i \in Nat /\ i < n + 1 /\ i # n + 1
    OBVIOUS
  <1>9. /\ End(store) \in Nat
        /\ \A k \in DOMAIN store : store[k].at \in Nat /\ store[k].at <= End(store)
    BY <1>1, EndIs
  <1>10. \A k \in DOMAIN ctx : ctx[k].at \in Nat /\ 1 <= ctx[k].at
    BY FS_CardinalityType DEF IsObject
  <1>11. \A j, k \in DOMAIN ctx : j # k => ctx[j].at # ctx[k].at
    BY DEF IsObject
  <1> HIDE DEF new, old, used
  <1>12. ASSUME NEW k \in Names PROVE Holds(more, n + 1, new, k)
    <2>1. CASE k \in Naming(ctx)
      <3>1. IsLast(used(k), n + 1)
        BY <1>3, <1>4, <1>8, <2>1 DEF IsLast
      <3>2. k \in DOMAIN new /\ new[k].is = ctx[k].is /\ ctx[k].is # Null
        BY <1>2, <1>5, <2>1
      <3>3. \E i \in used(k) : IsLast(used(k), i) /\ new[k].is = more[i].given[k].is
        BY <3>1, <3>2 DEF IsLast
      <3> QED
        BY <3>2, <3>3 DEF Holds, used
    <2>2. CASE k \notin Naming(ctx) /\ k \in DOMAIN store
      <3>1. used(k) = old(k)
        BY <1>3, <2>2
      <3>2. k \in DOMAIN new /\ new[k].is = store[k].is /\ store[k].is # Null
        BY <1>2, <1>7, <2>2 DEF Holds
      <3>3. \E i \in old(k) : IsLast(old(k), i) /\ store[k].is = frames[i].given[k].is
        BY <1>7, <2>2 DEF Holds, old
      <3>4. \E i \in used(k) : IsLast(used(k), i) /\ new[k].is = more[i].given[k].is
        BY <1>6, <3>1, <3>2, <3>3
      <3> QED
        BY <3>2, <3>4 DEF Holds, used
    <2>3. CASE k \notin Naming(ctx) /\ k \notin DOMAIN store
      <3>1. k \notin DOMAIN new /\ used(k) = {}
        BY <1>2, <1>3, <1>7, <2>3 DEF Holds, old
      <3> QED
        BY <3>1 DEF Holds, used
    <2> QED
      BY <2>1, <2>2, <2>3
  <1>13. ASSUME NEW k \in Names \cap DOMAIN store
         PROVE  \E l \in old(k) : IsFirst(old(k), l) /\ IsFirst(used(k), l)
    <2>1. ASSUME NEW l, IsFirst(old(k), l) PROVE IsFirst(used(k), l)
      BY <1>3, <1>4, <1>8, <2>1 DEF IsFirst
    <2>2. old(k) # {} /\ old(k) \subseteq Nat
      BY <1>4, <1>7 DEF Holds, old
    <2>3. \E l \in old(k) : IsFirst(old(k), l)
      <3>1. PICK l \in old(k) : \A y \in old(k) : <<y, l>> \notin OpToRel(<, Nat)
        BY <2>2, NatLessThanWellFounded, WFMin
      <3>2. \A y \in old(k) : ~(y < l)
        BY <2>2, <3>1 DEF OpToRel
      <3> QED
        BY <2>2, <3>2 DEF IsFirst
    <2> QED
      BY <2>1, <2>3
  <1>14. ASSUME NEW k \in Naming(ctx), k \notin DOMAIN store
         PROVE  used(k) = {n + 1} /\ IsFirst(used(k), n + 1)
    <2>1. old(k) = {}
      BY <1>5, <1>7, <1>14 DEF Holds, old
    <2>2. used(k) = {n + 1}
      BY <1>3, <2>1
    <2> QED
      BY <2>2 DEF IsFirst
  <1>15. ASSUME NEW j \in Names \cap DOMAIN new, NEW k \in Names \cap DOMAIN new, j # k
         PROVE  new[j].at # new[k].at /\ Orders(more, n + 1, new, j, k)
    <2>1. CASE j \in DOMAIN store /\ k \in DOMAIN store
      <3>1. new[j].at = store[j].at /\ new[k].at = store[k].at
        BY <1>2, <2>1
      <3>2. store[j].at # store[k].at /\ Orders(frames, n, store, j, k)
        BY <1>15, <2>1 DEF Fits
      <3>3. PICK l \in old(j), m \in old(k) :
              /\ IsFirst(old(j), l) /\ IsFirst(old(k), m)
              /\ IF l = m
                 THEN store[j].at < store[k].at <=> frames[m].given[j].at < frames[m].given[k].at
                 ELSE store[j].at < store[k].at <=> l < m
        BY <3>2 DEF Orders, old
      <3>4. IsFirst(used(j), l) /\ IsFirst(used(k), m)
        BY <1>3, <1>4, <1>8, <3>3 DEF IsFirst
      <3>5. l \in used(j) /\ m \in used(k) /\ more[m].given = frames[m].given
        BY <1>3, <1>6
      <3> QED
        BY <3>1, <3>2, <3>3, <3>4, <3>5 DEF Orders, used
    <2>2. CASE j \in DOMAIN store /\ k \notin DOMAIN store
      <3>1. k \in Naming(ctx)
        BY <1>2, <2>2
      <3>2. new[j].at = store[j].at /\ new[k].at = End(store) + ctx[k].at
        BY <1>2, <2>2, <3>1
      <3>3. new[j].at < new[k].at /\ new[j].at # new[k].at
        BY <1>5, <1>9, <1>10, <2>2, <3>1, <3>2
      <3>4. PICK l \in old(j) : IsFirst(used(j), l)
        BY <1>13, <2>2
      <3>5. l < n + 1 /\ l # n + 1 /\ l \in used(j)
        BY <1>4, <1>8, <3>4 DEF IsFirst
      <3>6. n + 1 \in used(k) /\ IsFirst(used(k), n + 1)
        BY <1>14, <2>2, <3>1
      <3> QED
        BY <3>3, <3>4, <3>5, <3>6 DEF Orders, used
    <2>3. CASE j \notin DOMAIN store /\ k \in DOMAIN store
      <3>1. j \in Naming(ctx)
        BY <1>2, <2>3
      <3>2. new[k].at = store[k].at /\ new[j].at = End(store) + ctx[j].at
        BY <1>2, <2>3, <3>1
      <3>3. ~(new[j].at < new[k].at) /\ new[j].at # new[k].at
        BY <1>5, <1>9, <1>10, <2>3, <3>1, <3>2
      <3>4. PICK l \in old(k) : IsFirst(used(k), l)
        BY <1>13, <2>3
      <3>5. l \in Nat /\ ~(n + 1 < l) /\ l # n + 1 /\ l \in used(k)
        BY <1>4, <1>8, <3>4 DEF IsFirst
      <3>6. n + 1 \in used(j) /\ IsFirst(used(j), n + 1)
        BY <1>14, <2>3, <3>1
      <3> QED
        BY <3>3, <3>4, <3>5, <3>6 DEF Orders, used
    <2>4. CASE j \notin DOMAIN store /\ k \notin DOMAIN store
      <3>1. j \in Naming(ctx) /\ k \in Naming(ctx)
        BY <1>2, <2>4
      <3>2. new[j].at = End(store) + ctx[j].at /\ new[k].at = End(store) + ctx[k].at
        BY <1>2, <2>4, <3>1
      <3>3. ctx[j].at \in Nat /\ ctx[k].at \in Nat /\ ctx[j].at # ctx[k].at
        BY <1>5, <1>10, <1>11, <1>15, <3>1
      <3>4. new[j].at # new[k].at /\ (new[j].at < new[k].at <=> ctx[j].at < ctx[k].at)
        BY <1>9, <3>2, <3>3
      <3>5. n + 1 \in used(j) /\ IsFirst(used(j), n + 1) /\ n + 1 \in used(k) /\ IsFirst(used(k), n + 1)
        BY <1>14, <2>4, <3>1
      <3> QED
        BY <3>4, <3>5 DEF Orders, used
    <2> QED
      BY <2>1, <2>2, <2>3, <2>4
  <1>16. Fits(more, n + 1, new)
    BY <1>2, <1>12, <1>15 DEF Fits
  <1> QED
    BY <1>16 DEF new

\* The first of some numbers is the least of them.
LEMMA FirstIsMin ==
  ASSUME NEW S, S \subseteq Nat, NEW i, IsFirst(S, i)
  PROVE  Min(S) = i
  <1>1. Min(S) \in S /\ \A y \in S : Min(S) <= y
    BY DEF Min, IsFirst
  <1> DEFINE least == Min(S)
  <1>2. least \in Nat /\ i \in Nat /\ least <= i /\ i <= least
    BY <1>1 DEF IsFirst
  <1> HIDE DEF least
  <1>3. least = i
    BY <1>2
  <1> QED
    BY <1>3 DEF least

\* And the last of them is the greatest.
LEMMA LastIsMax ==
  ASSUME NEW S, S \subseteq Nat, NEW i, IsLast(S, i)
  PROVE  Max(S) = i
  <1>1. Max(S) \in S /\ \A y \in S : y <= Max(S)
    BY DEF Max, IsLast
  <1> DEFINE most == Max(S)
  <1>2. most \in Nat /\ i \in Nat /\ most <= i /\ i <= most
    BY <1>1 DEF IsLast
  <1> HIDE DEF most
  <1>3. most = i
    BY <1>2
  <1> QED
    BY <1>3 DEF most

\* Of nested contexts that fit their store, the customer they name is the store's.
LEMMA InnermostIs ==
  ASSUME NEW frames, FramesOK(frames)
  PROVE  Innermost(frames) = Customer(currentContext(frames))
  <1> DEFINE n == Len(frames)
             store == currentContext(frames)
             used == UNION {Naming(frames[i].given) : i \in DOMAIN frames}
             own == Naming(store)
             at(k) == UsedTo(frames, n, k)
             Wins(k) == \A j \in used : FirstUsed(frames, j, k)
             won == CHOOSE k \in used : Wins(k)
             last == Latest(store, own)
  <1>1. n \in Nat /\ DOMAIN frames = 1..n
    BY DEF FramesOK
  <1>2. store = StoreAt(frames, n)
    <2>1. frames = <<>> <=> n = 0
      BY DEF FramesOK
    <2> QED
      BY <2>1 DEF currentContext, StoreAt, Last
  <1>3. Fits(frames, n, store)
    BY <1>1, <1>2 DEF FramesOK
  <1>4. \A k : Uses(frames, k) = at(k)
    BY <1>1 DEF Uses, UsedTo
  <1>5. \A k : k \in used <=> k \in Names /\ at(k) # {}
    BY <1>1, NamingIs DEF UsedTo
  <1>6. \A k : k \in own <=> k \in Names /\ k \in DOMAIN store /\ store[k].is # Null
    BY NamingIs
  <1>7. Innermost(frames) =
          IF used = {} THEN Null ELSE frames[Max(Uses(frames, won))].given[won].is
    BY DEF Innermost
  <1>8. Customer(store) = IF own = {} THEN Null ELSE store[last].is
    BY DEF Customer
  <1>9. \A k : at(k) \subseteq Nat
    BY <1>1 DEF UsedTo
  <1>10. \A k : \A i \in at(k) : k \in DOMAIN frames[i].given /\ frames[i].given[k].at \in Nat
    <2>1. \A k : \A i \in at(k) : IsObject(frames[i].given) /\ k \in DOMAIN frames[i].given
      BY <1>1, NamingIs DEF UsedTo, FramesOK
    <2> QED
      BY <2>1, FS_CardinalityType DEF IsObject
  <1> HIDE DEF n, store, used, own, at
  <1>11. \A k \in Names : Holds(frames, n, store, k)
    BY <1>3 DEF Fits
  <1>12. used = own /\ \A k \in own : k \in Names /\ k \in DOMAIN store
    <2>1. ASSUME NEW k PROVE k \in used <=> k \in own
      BY <1>5, <1>6, <1>11 DEF Holds, at
    <2> QED
      BY <1>6, <2>1
  <1>13. \A k \in own : store[k].at \in Nat
    <2>1. Places(store)
      BY <1>3 DEF Fits
    <2> QED
      BY <1>12, <2>1 DEF Places
  <1>14. \A j, k \in own : store[j].at = store[k].at => j = k
    BY <1>3, <1>12 DEF Fits
  <1>15. ASSUME NEW j \in own, NEW k \in own
         PROVE  FirstUsed(frames, j, k) <=> store[j].at <= store[k].at
    <2>1. CASE j = k
      <3>1. at(k) # {} /\ at(k) \subseteq Nat
        BY <1>5, <1>9, <1>12
      <3>2. Min(at(k)) \in at(k)
        BY <3>1, LeastOf
      <3>3. Min(at(k)) \in Nat /\ frames[Min(at(k))].given[k].at \in Nat
        BY <1>10, <3>1, <3>2
      <3> DEFINE i == Min(at(k))
      <3>4. FirstUsed(frames, k, k) <=>
              i <= i /\ (i = i => frames[i].given[k].at <= frames[i].given[k].at)
        BY <1>4 DEF FirstUsed
      <3> HIDE DEF i
      <3>5. FirstUsed(frames, k, k)
        BY <3>3, <3>4 DEF i
      <3> QED
        BY <1>13, <2>1, <3>5
    <2>2. CASE j # k
      <3>1. store[k].at # store[j].at /\ Orders(frames, n, store, k, j)
        BY <1>3, <1>12, <2>2 DEF Fits
      <3>2. PICK l \in at(k), m \in at(j) :
              /\ IsFirst(at(k), l) /\ IsFirst(at(j), m)
              /\ IF l = m
                 THEN store[k].at < store[j].at <=> frames[m].given[k].at < frames[m].given[j].at
                 ELSE store[k].at < store[j].at <=> l < m
        BY <3>1 DEF Orders, at
      <3>3. Min(at(k)) = l /\ Min(at(j)) = m
        BY <1>9, <3>2, FirstIsMin
      <3>4. FirstUsed(frames, j, k) <=>
              m <= l /\ (m = l => frames[m].given[j].at <= frames[m].given[k].at)
        BY <1>4, <3>3 DEF FirstUsed
      <3>5. l \in Nat /\ m \in Nat
        BY <1>9
      <3>6. l = m => frames[m].given[j].at \in Nat /\ frames[m].given[k].at \in Nat
        BY <1>10
      <3>7. store[j].at \in Nat /\ store[k].at \in Nat
        BY <1>13
      <3>8. CASE l = m
        BY <3>2, <3>4, <3>5, <3>6, <3>7, <3>8
      <3>9. CASE l # m
        BY <3>2, <3>4, <3>5, <3>7, <3>9
      <3> QED
        BY <3>8, <3>9
    <2> QED
      BY <2>1, <2>2
  <1>16. CASE own = {}
    BY <1>7, <1>8, <1>12, <1>16 DEF store
  <1>17. CASE own # {}
    <2>1. own \subseteq Names
      BY <1>12
    <2>2. /\ last \in own /\ \A j \in own : store[j].at <= store[last].at
          /\ \A k \in own : (\A j \in own : store[j].at <= store[k].at) => k = last
      BY <1>13, <1>14, <1>17, <2>1, LatestIs
    <2> HIDE DEF last
    <2>3. last \in used /\ Wins(last)
      BY <1>12, <1>15, <2>2
    <2>4. won \in used /\ Wins(won)
      <3> HIDE DEF Wins
      <3> QED
        BY <2>3
    <2> HIDE DEF won
    <2>5. won = last
      BY <1>12, <1>15, <2>2, <2>4
    <2>6. PICK i \in at(last) : IsLast(at(last), i) /\ store[last].is = frames[i].given[last].is
      BY <1>11, <1>12, <2>2 DEF Holds, at
    <2>7. Max(at(last)) = i
      BY <1>9, <2>6, LastIsMax
    <2>8. Max(Uses(frames, won)) = i
      BY <1>4, <2>5, <2>7
    <2> QED
      BY <1>7, <1>8, <1>12, <1>17, <2>5, <2>6, <2>8 DEF store
  <1> QED
    BY <1>16, <1>17

\* Flows begin outside any context.
LEMMA NoFrames == FramesOK(<<>>)
  <1>1. <<>> \in Seq({<<>>[i] : i \in DOMAIN <<>>})
    OBVIOUS
  <1>2. Len(<<>>) = 0 /\ DOMAIN <<>> = {} /\ 0..0 = {0}
    OBVIOUS
  <1>3. DOMAIN Empty = {}
    BY DEF Empty
  <1>4. \A k : UsedTo(<<>>, 0, k) = {}
    BY DEF UsedTo
  <1>5. Places(Empty)
    BY <1>3 DEF Places
  <1>6. \A k \in Names : Holds(<<>>, 0, Empty, k)
    BY <1>3, <1>4 DEF Holds
  <1>7. Fits(<<>>, 0, Empty)
    BY <1>3, <1>5, <1>6 DEF Fits
  <1>8. \A n \in 0..Len(<<>>) : Fits(<<>>, n, StoreAt(<<>>, n))
    BY <1>2, <1>7 DEF StoreAt
  <1> QED
    BY <1>1, <1>2, <1>8 DEF FramesOK

\* A context entered fits, and so do those around it.
LEMMA EnterFits ==
  ASSUME NEW frames, FramesOK(frames), NEW ctx, IsObject(ctx)
  PROVE  FramesOK(Append(frames, [given |-> ctx,
                                  store |-> Spread(currentContext(frames), clean(ctx))]))
  <1> DEFINE n == Len(frames)
             store == currentContext(frames)
             frame == [given |-> ctx, store |-> Spread(store, clean(ctx))]
             more == Append(frames, frame)
  <1>1. n \in Nat /\ DOMAIN frames = 1..n /\ frames \in Seq({frames[i] : i \in DOMAIN frames})
    BY DEF FramesOK
  <1>2. /\ Len(more) = n + 1 /\ DOMAIN more = 1..(n + 1)
        /\ \A i \in 1..n : more[i] = frames[i]
        /\ more[n + 1] = frame
    <2> HIDE DEF frame
    <2> QED
      BY <1>1
  <1>3. more \in Seq({more[i] : i \in DOMAIN more})
    <2>1. more \in Seq({frames[i] : i \in DOMAIN frames} \cup {frame})
      <3> HIDE DEF frame
      <3> QED
        BY <1>1
    <2> HIDE DEF more
    <2> QED
      BY <2>1, SequenceOfValues
  <1>4. frame.given = ctx /\ frame.store = Spread(store, clean(ctx))
    OBVIOUS
  <1>5. store = StoreAt(frames, n)
    <2>1. frames = <<>> <=> n = 0
      BY <1>1
    <2> QED
      BY <2>1 DEF currentContext, StoreAt, Last
  <1> HIDE DEF n, store, frame, more
  <1>6. \A m \in 0..n : Fits(frames, m, StoreAt(frames, m))
    BY DEF FramesOK, n
  <1>7. \A i \in 1..n : more[i].given = frames[i].given /\ more[i].store = frames[i].store
    BY <1>2
  <1>8. ASSUME NEW m \in 0..n PROVE Fits(more, m, StoreAt(more, m))
    <2>1. StoreAt(more, m) = StoreAt(frames, m)
      BY <1>1, <1>7 DEF StoreAt
    <2>2. m \in Nat /\ \A i \in 1..m : more[i].given = frames[i].given
      BY <1>1, <1>7
    <2>3. Fits(frames, m, StoreAt(frames, m))
      BY <1>6
    <2>4. Fits(more, m, StoreAt(frames, m))
      BY <2>2, <2>3, SameFit
    <2> QED
      BY <2>1, <2>4
  <1>9. Fits(more, n + 1, StoreAt(more, n + 1))
    <2>1. Fits(frames, n, store)
      BY <1>1, <1>5, <1>6
    <2>2. more[n + 1].given = ctx /\ \A i \in 1..n : more[i].given = frames[i].given
      BY <1>2, <1>4, <1>7
    <2>3. Fits(more, n + 1, Spread(store, clean(ctx)))
      BY <1>1, <2>1, <2>2, StepFits
    <2>4. StoreAt(more, n + 1) = Spread(store, clean(ctx))
      BY <1>1, <1>2, <1>4 DEF StoreAt
    <2> QED
      BY <2>3, <2>4
  <1>10. \A m \in 0..Len(more) : Fits(more, m, StoreAt(more, m))
    BY <1>1, <1>2, <1>8, <1>9
  <1>11. \A i \in DOMAIN more : IsObject(more[i].given)
    <2>1. \A i \in 1..n : IsObject(frames[i].given)
      BY <1>1 DEF FramesOK
    <2> QED
      BY <1>1, <1>2, <1>4, <1>7, <2>1
  <1>12. FramesOK(more)
    BY <1>3, <1>10, <1>11 DEF FramesOK
  <1> QED
    BY <1>12 DEF more, frame, store

\* Leaving a context leaves those around it.
LEMMA LeaveFits ==
  ASSUME NEW frames, FramesOK(frames), frames # <<>>
  PROVE  FramesOK(Front(frames))
  <1> DEFINE n == Len(frames)
             less == Front(frames)
             S == {frames[i] : i \in DOMAIN frames}
  <1>1. n \in Nat /\ n # 0 /\ DOMAIN frames = 1..n /\ frames \in Seq(S)
    BY DEF FramesOK
  <1>2. n - 1 \in Nat /\ 1..(n - 1) \subseteq 1..n /\ 0..(n - 1) \subseteq 0..n
    BY <1>1
  <1>3. less = SubSeq(frames, 1, n - 1)
    BY DEF Front
  <1>4. /\ less \in Seq(S) /\ Len(less) = n - 1 /\ DOMAIN less = 1..(n - 1)
        /\ \A i \in 1..(n - 1) : less[i] = frames[i]
    <2> HIDE DEF S, less, n
    <2> QED
      BY <1>1, <1>2, <1>3
  <1>5. less \in Seq({less[i] : i \in DOMAIN less})
    <2> HIDE DEF less, S
    <2> QED
      BY <1>4, SequenceOfValues
  <1> HIDE DEF less, n, S
  <1>6. \A i \in 1..(n - 1) : less[i].given = frames[i].given /\ less[i].store = frames[i].store
    BY <1>4
  <1>7. ASSUME NEW m \in 0..(n - 1) PROVE Fits(less, m, StoreAt(less, m))
    <2>1. StoreAt(less, m) = StoreAt(frames, m)
      BY <1>2, <1>6 DEF StoreAt
    <2>2. m \in Nat /\ \A i \in 1..m : less[i].given = frames[i].given
      BY <1>2, <1>6
    <2>3. Fits(frames, m, StoreAt(frames, m))
      BY <1>2 DEF FramesOK, n
    <2>4. Fits(less, m, StoreAt(frames, m))
      BY <2>2, <2>3, SameFit
    <2> QED
      BY <2>1, <2>4
  <1>8. \A i \in DOMAIN less : IsObject(less[i].given)
    BY <1>1, <1>2, <1>4, <1>6 DEF FramesOK
  <1>9. FramesOK(less)
    BY <1>4, <1>5, <1>7, <1>8 DEF FramesOK
  <1> QED
    BY <1>9 DEF less

\* An object that names the customer by the values and in the order of another names the same.
LEMMA SameCustomer ==
  ASSUME NEW o, IsObject(o), NEW p, Naming(p) = Naming(o), NEW d \in Nat,
         \A k \in Naming(o) : p[k].is = o[k].is /\ p[k].at = d + o[k].at
  PROVE  Customer(p) = Customer(o)
  <1> DEFINE own == Naming(o)
             last == Latest(o, own)
             late == Latest(p, own)
  <1>1. \A k \in own : k \in DOMAIN o /\ k \in Names
    BY NamingIs
  <1>2. \A k \in own : o[k].at \in Nat
    BY <1>1, FS_CardinalityType DEF IsObject
  <1>3. \A j, k \in own : o[j].at = o[k].at => j = k
    BY <1>1 DEF IsObject
  <1>4. Customer(o) = IF own = {} THEN Null ELSE o[last].is
    BY DEF Customer
  <1>5. Customer(p) = IF own = {} THEN Null ELSE p[late].is
    BY DEF Customer
  <1> HIDE DEF own
  <1>6. CASE own = {}
    BY <1>4, <1>5, <1>6
  <1>7. CASE own # {}
    <2>1. own \subseteq Names
      BY <1>1
    <2>2. \A k \in own : p[k].at \in Nat /\ p[k].at = d + o[k].at /\ p[k].is = o[k].is
      BY <1>2 DEF own
    <2>3. \A j, k \in own : p[j].at = p[k].at => j = k
      BY <1>2, <1>3, <2>2
    <2>4. /\ last \in own
          /\ \A k \in own : (\A j \in own : o[j].at <= o[k].at) => k = last
      BY <1>2, <1>3, <1>7, <2>1, LatestIs
    <2>5. late \in own /\ \A j \in own : p[j].at <= p[late].at
      BY <1>7, <2>1, <2>2, <2>3, LatestIs
    <2> HIDE DEF last, late
    <2>6. \A j \in own : o[j].at <= o[late].at
      BY <1>2, <2>2, <2>5
    <2>7. late = last
      BY <2>4, <2>5, <2>6
    <2> QED
      BY <1>4, <1>5, <1>7, <2>2, <2>4, <2>7
  <1> QED
    BY <1>6, <1>7

\* The customer an object names is not null.
LEMMA CustomerKnown ==
  ASSUME NEW o, IsObject(o), Naming(o) # {}
  PROVE  Customer(o) # Null
  <1>1. \A k \in Naming(o) : k \in DOMAIN o /\ k \in Names /\ o[k].is # Null
    BY NamingIs
  <1>2. \A k \in Naming(o) : o[k].at \in Nat
    BY <1>1, FS_CardinalityType DEF IsObject
  <1>3. \A j, k \in Naming(o) : o[j].at = o[k].at => j = k
    BY <1>1 DEF IsObject
  <1>4. Naming(o) \subseteq Names
    BY <1>1
  <1>5. Latest(o, Naming(o)) \in Naming(o)
    BY <1>2, <1>3, <1>4, LatestIs
  <1> QED
    BY <1>1, <1>5 DEF Customer

\* An event owes what its layers say when its call site is the last of them.
LEMMA MergeOwes ==
  ASSUME NEW clientMeta, Naming(clientMeta) = {}, NEW frames, FramesOK(frames),
         NEW callMeta, NEW site, IsObject(site),
         Naming(callMeta) = Naming(site), Customer(callMeta) = Customer(site)
  PROVE  field(merge(clientMeta, currentContext(frames), callMeta).fields, "customer_id") =
           Coalesce(Customer(site), Innermost(frames))
  <1>1. field(merge(clientMeta, currentContext(frames), callMeta).fields, "customer_id") =
          IF Naming(callMeta) # {} THEN Customer(callMeta) ELSE Customer(currentContext(frames))
    BY MergeNames
  <1>2. Innermost(frames) = Customer(currentContext(frames))
    BY InnermostIs
  <1>3. Naming(site) # {} => Customer(site) # Null
    BY CustomerKnown
  <1>4. Naming(site) = {} => Customer(site) = Null
    BY DEF Customer
  <1> QED
    BY <1>1, <1>2, <1>3, <1>4 DEF Coalesce

\* The event of an observed call.
LEMMA EmitOwes ==
  ASSUME NEW call, DOMAIN call = DOMAIN Idle, call.events = <<>>,
         Naming(recorder[call.request.client].meta) = {},
         IsObject(CallSite(call.request)), call.callMeta = CallSite(call.request),
         NEW frames, FramesOK(frames), NEW usage, NEW status
  PROVE  LET after == emit(call, frames, usage, status)
         IN  /\ Owes(after, frames)
             /\ after.phase = call.phase /\ after.request = call.request
             /\ after.reply = call.reply /\ after.streaming = call.streaming
             /\ after.nested = call.nested /\ after.puller = call.puller
             /\ after.callMeta = call.callMeta
  <1> DEFINE r == recorder[call.request.client]
             meta == merge(r.meta, currentContext(frames), call.callMeta)
             e == Event(r.provider, call.model, operationFor(call.request.path, r.adapter),
                        call.streaming, status, usage,
                        cost(usage, r.provider, call.model, NoOptions), meta)
             after == [call EXCEPT !.events = Append(@, e)]
  <1>1. emit(call, frames, usage, status) = after
    BY DEF emit
  <1>2. field(meta.fields, "customer_id") = Coalesce(Customer(CallSite(call.request)), Innermost(frames))
    BY MergeOwes
  <1>3. e.fields = meta.fields
    BY DEF Event
  <1> HIDE DEF e, meta
  <1>4. after.events = Append(<<>>, e)
    BY DEF Idle
  <1>5. after.events[1] = e
    BY <1>4
  <1>6. /\ after.phase = call.phase /\ after.request = call.request
        /\ after.reply = call.reply /\ after.streaming = call.streaming
        /\ after.nested = call.nested /\ after.puller = call.puller
        /\ after.callMeta = call.callMeta
    BY DEF Idle
  <1> HIDE DEF after
  <1>7. Owes(after, frames)
    BY <1>2, <1>3, <1>5, <1>6 DEF Owes
  <1> QED
    BY <1>1, <1>6, <1>7

\* The event of a call recorded by hand.
LEMMA RecordOwes ==
  ASSUME NEW call, DOMAIN call = DOMAIN Idle, call.events = <<>>,
         IsObject(CallSite(call.request)), NEW opts, Recounts(opts, CallSite(call.request)),
         FramesOK(call.nested)
  PROVE  LET after == record(call, opts)
         IN  /\ Owes(after, call.nested)
             /\ after.phase = "done" /\ after.request = call.request /\ after.reply = call.reply
             /\ after.nested = call.nested /\ after.puller = call.puller
             /\ after.callMeta = call.callMeta
  <1> DEFINE callMeta == Without(opts, NonMetaKeys)
             meta == merge(Empty, currentContext(call.nested), callMeta)
             e == RecordEvent(opts, call.nested)
             after == [call EXCEPT !.phase = "done", !.events = Append(@, e)]
  <1>1. record(call, opts) = after
    BY DEF record
  <1>2. Naming(Empty) = {}
    BY NamingIs DEF Empty
  <1>3. field(meta.fields, "customer_id") =
          Coalesce(Customer(CallSite(call.request)), Innermost(call.nested))
    BY <1>2, MergeOwes DEF Recounts
  <1>4. e.fields = meta.fields
    BY DEF RecordEvent, Event
  <1> HIDE DEF e, meta
  <1>5. after.events = Append(<<>>, e)
    BY DEF Idle
  <1>6. after.events[1] = e
    BY <1>5
  <1>7. /\ after.phase = "done" /\ after.request = call.request /\ after.reply = call.reply
        /\ after.nested = call.nested /\ after.puller = call.puller
        /\ after.callMeta = call.callMeta
    BY DEF Idle
  <1> HIDE DEF after
  <1>8. Owes(after, call.nested)
    BY <1>3, <1>4, <1>6, <1>7 DEF Owes
  <1> QED
    BY <1>1, <1>7, <1>8

\* No key that record takes for itself names the customer.
LEMMA RecordedNames ==
  ASSUME NEW opts, IsObject(opts)
  PROVE  Recounts(opts, opts)
  <1> DEFINE callMeta == Without(opts, NonMetaKeys)
  <1>1. Names \cap NonMetaKeys = {}
    BY DEF Names, NonMetaKeys, UsageKeys, UsageFields
  <1>2. /\ DOMAIN callMeta = DOMAIN opts \ NonMetaKeys
        /\ \A k \in DOMAIN opts \ NonMetaKeys : callMeta[k] = opts[k]
    BY WithoutKeys
  <1> HIDE DEF callMeta
  <1>3. Naming(callMeta) = Naming(opts)
    <2>1. ASSUME NEW k PROVE k \in Naming(callMeta) <=> k \in Naming(opts)
      BY <1>1, <1>2, NamingIs
    <2> QED
      BY <2>1
  <1>4. \A k \in Naming(opts) : k \in DOMAIN opts /\ callMeta[k] = opts[k]
    BY <1>1, <1>2, NamingIs
  <1>5. \A k \in Naming(opts) : callMeta[k].is = opts[k].is /\ callMeta[k].at = 0 + opts[k].at
    <2>1. \A k \in DOMAIN opts : opts[k].at \in Nat
      BY FS_CardinalityType DEF IsObject
    <2> QED
      BY <1>4, <2>1
  <1>6. Customer(callMeta) = Customer(opts)
    BY <1>3, <1>5, SameCustomer
  <1> QED
    BY <1>3, <1>6 DEF Recounts, callMeta

\* A tracked call is recorded with the customer it is tracked with.
LEMMA TrackedNames ==
  ASSUME NEW meta, IsObject(meta), NEW usage, NEW response, NEW status
  PROVE  Recounts(emitResult(usage, response, meta, status), meta)
  <1> DEFINE own == {"provider", "model", "operation", "status", "input_tokens",
                     "cached_input_tokens", "output_tokens", "reasoning_tokens"}
  <1>1. PICK fields : /\ DOMAIN fields = own /\ \A k \in own : fields[k].at = 0
                      /\ emitResult(usage, response, meta, status) =
                           Spread(fields, Without(meta, {"provider", "model"}))
    <2> DEFINE model  == Coalesce(Lookup(meta, "model"), Coalesce(read(response, "modelId"), <<>>))
               input  == readInt(usage, "inputTokens", readInt(usage, "promptTokens", 0))
               cached == readInt(usage, "cachedInputTokens", 0)
               provider == Coalesce(Lookup(meta, "provider"), guessProvider(model))
               noncached == NonCached(input, cached)
               output == readInt(usage, "outputTokens", readInt(usage, "completionTokens", 0))
               reasoning == readInt(usage, "reasoningTokens", 0)
               known == [provider |-> provider, model |-> model, operation |-> "chat", status |-> status,
                         input_tokens |-> noncached, cached_input_tokens |-> cached,
                         output_tokens |-> output, reasoning_tokens |-> reasoning]
               fields == [k \in DOMAIN known |-> [at |-> 0, is |-> known[k]]]
    <2>1. emitResult(usage, response, meta, status) =
            Spread(fields, Without(meta, {"provider", "model"}))
      BY ZenonT(60) DEF emitResult
    <2> HIDE DEF model, input, cached, provider, noncached, output, reasoning
    <2>2. DOMAIN known = own
      OBVIOUS
    <2> HIDE DEF known, own
    <2>3. DOMAIN fields = own /\ \A k \in own : fields[k].at = 0
      BY <2>2
    <2> HIDE DEF fields
    <2> QED
      BY <2>1, <2>3
  <1> DEFINE rest == Without(meta, {"provider", "model"})
             opts == Spread(fields, rest)
             callMeta == Without(opts, NonMetaKeys)
  <1>2. Names \cap NonMetaKeys = {} /\ Names \cap own = {} /\ Names \cap {"provider", "model"} = {}
    BY DEF Names, NonMetaKeys, UsageKeys, UsageFields
  <1>3. End(fields) = 0
    <2>1. {fields[k].at : k \in DOMAIN fields} \cup {0} = {0}
      BY <1>1
    <2>2. IsLast({0}, 0) /\ {0} \subseteq Nat
      BY DEF IsLast
    <2>3. Max({0}) = 0
      BY <2>2, LastIsMax
    <2> QED
      BY <2>1, <2>3 DEF End
  <1> HIDE DEF own
  <1>4. /\ DOMAIN rest = DOMAIN meta \ {"provider", "model"}
        /\ \A k \in DOMAIN meta \ {"provider", "model"} : rest[k] = meta[k]
    BY WithoutKeys
  <1>5. /\ DOMAIN callMeta = DOMAIN opts \ NonMetaKeys
        /\ \A k \in DOMAIN opts \ NonMetaKeys : callMeta[k] = opts[k]
    BY WithoutKeys
  <1>6. /\ DOMAIN opts = DOMAIN fields \cup DOMAIN rest
        /\ \A k \in DOMAIN rest : k \notin DOMAIN fields =>
             opts[k].at = End(fields) + rest[k].at /\ opts[k].is = rest[k].is
    BY DEF Spread
  <1> HIDE DEF rest, opts, callMeta
  <1>7. \A k \in Names : /\ k \in DOMAIN callMeta <=> k \in DOMAIN meta
                         /\ k \in DOMAIN meta => /\ callMeta[k].is = meta[k].is
                                                 /\ callMeta[k].at = 0 + meta[k].at
    BY <1>1, <1>2, <1>3, <1>4, <1>5, <1>6
  <1>8. Naming(callMeta) = Naming(meta)
    <2>1. ASSUME NEW k PROVE k \in Naming(callMeta) <=> k \in Naming(meta)
      BY <1>7, NamingIs
    <2> QED
      BY <2>1
  <1>9. \A k \in Naming(meta) : callMeta[k].is = meta[k].is /\ callMeta[k].at = 0 + meta[k].at
    BY <1>7, NamingIs
  <1>10. Customer(callMeta) = Customer(meta)
    BY <1>8, <1>9, SameCustomer
  <1> QED
    BY <1>1, <1>8, <1>10 DEF Recounts, callMeta, opts, rest

\* A call that changes is for whom it should be if its new state is.
LEMMA AttrFrame ==
  ASSUME AttrInv, recorder' = recorder, nested' = nested, NEW c \in Call, NEW call,
         calls' = [calls EXCEPT ![c] = call], DOMAIN calls = Call, CallFor(call)
  PROVE  AttrInv'
  <1>1. ASSUME NEW d \in Call PROVE CallFor(calls'[d])
    <2>1. CASE d = c
      BY <2>1
    <2>2. CASE d # c
      BY <2>2 DEF AttrInv
    <2> QED
      BY <2>1, <2>2
  <1>2. \A d \in Call : CallFor(calls[d])'
    BY <1>1 DEF CallFor, Owes
  <1> QED
    BY <1>2 DEF AttrInv

\* Steps that leave calls, contexts and recorders keep every attribution.
LEMMA QuietAttr ==
  ASSUME AttrInv, recorder' = recorder, nested' = nested, calls' = calls
  PROVE  AttrInv'
  BY DEF AttrInv

\* A client's own metadata never names a customer.
LEMMA WrapAttr ==
  ASSUME AttrInv, NEW k \in Client, NEW opts, wrap(k, opts)
  PROVE  AttrInv'
  <1> DEFINE adapter == detect(Shape[k])
             provider == providerFor(adapter, Shape[k])
             meta == ClientMeta(opts)
             queue == QueueOf(resolveIngest(opts))
             wrapped == [adapter |-> adapter, provider |-> provider, meta |-> meta, queue |-> queue]
  <1>1. /\ recorder' = [recorder EXCEPT ![k] = wrapped]
        /\ nested' = nested /\ calls' = calls
    BY DEF wrap
  <1>2. Naming(meta) = {}
    <2>1. DOMAIN meta \subseteq {"environment", "team", "service", "tags"}
      BY DEF ClientMeta
    <2> HIDE DEF meta
    <2> QED
      BY <2>1, NamingIs DEF Names
  <1> HIDE DEF adapter, provider, meta, queue
  <1>3. wrapped.meta = meta
    OBVIOUS
  <1> HIDE DEF wrapped
  <1>4. ASSUME NEW d \in Client, recorder'[d] # Null PROVE Naming(recorder'[d].meta) = {}
    <2>1. CASE recorder'[d] = wrapped
      BY <1>2, <1>3, <2>1
    <2>2. CASE recorder'[d] = recorder[d]
      BY <1>4, <2>2 DEF AttrInv
    <2> QED
      BY <1>1, <2>1, <2>2
  <1>5. \A d \in Client : (recorder[d] # Null => Naming(recorder[d].meta) = {})'
    BY <1>4
  <1> QED
    BY <1>1, <1>5 DEF AttrInv

\* Entering a context and leaving one keep what the store names.
LEMMA ContextAttr ==
  ASSUME AttrInv, NEW f \in Flow, LeaveContext(f) \/ \E x \in Contexts[f] : EnterContext(f, x)
  PROVE  AttrInv'
  <1>1. recorder' = recorder /\ calls' = calls
    BY DEF LeaveContext, EnterContext
  <1>2. FramesOK(nested[f]) /\ DOMAIN nested = Flow
    BY DEF AttrInv
  <1>3. \E frames : nested' = [nested EXCEPT ![f] = frames] /\ FramesOK(frames)
    <2>1. CASE LeaveContext(f)
      <3>1. nested[f] # <<>> /\ nested' = [nested EXCEPT ![f] = Front(nested[f])]
        BY <2>1 DEF LeaveContext
      <3>2. FramesOK(Front(nested[f]))
        BY <1>2, <3>1, LeaveFits
      <3> QED
        BY <3>1, <3>2
    <2>2. ASSUME NEW x \in Contexts[f], EnterContext(f, x)
          PROVE  \E frames : nested' = [nested EXCEPT ![f] = frames] /\ FramesOK(frames)
      <3> DEFINE frames == Append(nested[f], [given |-> x,
                             store |-> Spread(currentContext(nested[f]), clean(x))])
      <3>1. nested' = [nested EXCEPT ![f] = frames]
        BY <2>2 DEF EnterContext
      <3>2. IsObject(x)
        BY ObjectsAssumption
      <3>3. FramesOK(frames)
        BY <1>2, <3>2, EnterFits
      <3> HIDE DEF frames
      <3> QED
        BY <3>1, <3>3
    <2> QED
      BY <2>1, <2>2
  <1>4. PICK frames : nested' = [nested EXCEPT ![f] = frames] /\ FramesOK(frames)
    BY <1>3
  <1>5. DOMAIN nested' = Flow /\ \A g \in Flow : FramesOK(nested'[g])
    <2>1. ASSUME NEW g \in Flow PROVE FramesOK(nested'[g])
      <3>1. nested'[g] = frames \/ nested'[g] = nested[g]
        BY <1>2, <1>4
      <3> QED
        BY <1>4, <3>1 DEF AttrInv
    <2> QED
      BY <1>2, <1>4, <2>1
  <1>6. \A c \in Call : CallFor(calls[c])'
    BY <1>1 DEF AttrInv
  <1> QED
    BY <1>1, <1>5, <1>6 DEF AttrInv

\* A call not made yet is in no context.
LEMMA IdleFor == CallFor(Idle)
  BY NoFrames DEF CallFor, Idle

\* An observed call that was answered, threw or was rejected owes its event to where it was made.
LEMMA ResultFor ==
  ASSUME NEW call, DOMAIN call = DOMAIN Idle, call.events = <<>>, call.reply = Null,
         Naming(recorder[call.request.client].meta) = {},
         IsObject(CallSite(call.request)), call.callMeta = CallSite(call.request),
         FramesOK(call.nested), FramesOK(call.puller)
  PROVE  /\ \A reply : CallFor(finishResult(call, reply))
         /\ CallFor(Failing(call))
  <1>1. ASSUME NEW reply PROVE CallFor(finishResult(call, reply))
    <2> DEFINE ended == [call EXCEPT !.phase = "done", !.reply = reply]
               begun == [call EXCEPT !.phase = "stream", !.reply = reply]
               usage == parseUsage(recorder[call.request.client].adapter, reply.body)
               after == emit(ended, call.nested, usage, "ok")
    <2>1. CASE call.streaming /\ reply.iterable
      <3>1. finishResult(call, reply) = begun
        BY <2>1 DEF finishResult
      <3>2. /\ begun.phase = "stream" /\ begun.request = call.request
            /\ begun.callMeta = call.callMeta
            /\ begun.nested = call.nested /\ begun.puller = call.puller
        BY DEF Idle
      <3> HIDE DEF begun
      <3>3. CallFor(begun)
        BY <3>2 DEF CallFor, Ended
      <3> QED
        BY <3>1, <3>3
    <2>2. CASE ~(call.streaming /\ reply.iterable)
      <3>1. finishResult(call, reply) = after
        BY <2>2 DEF finishResult
      <3>2. /\ DOMAIN ended = DOMAIN Idle /\ ended.events = <<>> /\ ended.phase = "done"
            /\ ended.request = call.request /\ ended.callMeta = call.callMeta
            /\ ended.reply = reply /\ ended.streaming = call.streaming
            /\ ended.nested = call.nested /\ ended.puller = call.puller
        BY DEF Idle
      <3> HIDE DEF ended
      <3>3. /\ Owes(after, call.nested)
            /\ after.phase = "done" /\ after.request = call.request
            /\ after.reply = reply /\ after.streaming = call.streaming
            /\ after.nested = call.nested /\ after.puller = call.puller
            /\ after.callMeta = call.callMeta
        BY <3>2, EmitOwes
      <3> HIDE DEF after
      <3>4. ~Wrapped(after)
        BY <2>2, <3>3 DEF Wrapped
      <3>5. CallFor(after)
        BY <3>3, <3>4 DEF CallFor
      <3> QED
        BY <3>1, <3>5
    <2> QED
      BY <2>1, <2>2
  <1>2. CallFor(Failing(call))
    <2> DEFINE ended == [call EXCEPT !.phase = "failed"]
               after == emit(ended, call.nested, NoUsage, "error")
    <2>1. /\ DOMAIN ended = DOMAIN Idle /\ ended.events = <<>> /\ ended.phase = "failed"
          /\ ended.request = call.request /\ ended.callMeta = call.callMeta
          /\ ended.reply = Null
          /\ ended.nested = call.nested /\ ended.puller = call.puller
      BY DEF Idle
    <2> HIDE DEF ended
    <2>2. /\ Owes(after, call.nested)
          /\ after.phase = "failed" /\ after.request = call.request /\ after.reply = Null
          /\ after.nested = call.nested /\ after.puller = call.puller
          /\ after.callMeta = call.callMeta
      BY <2>1, EmitOwes
    <2> HIDE DEF after
    <2>3. ~Wrapped(after)
      BY <2>2 DEF Wrapped
    <2>4. CallFor(after)
      BY <2>2, <2>3 DEF CallFor
    <2> QED
      BY <2>4 DEF after, ended, Failing
  <1> QED
    BY <1>1, <1>2

\* A call recorded by hand owes its event to where it was made.
LEMMA RecordFor ==
  ASSUME NEW call, DOMAIN call = DOMAIN Idle, call.events = <<>>, call.reply = Null,
         call.request.kind # "proxy",
         IsObject(CallSite(call.request)), NEW opts, Recounts(opts, CallSite(call.request)),
         FramesOK(call.nested), FramesOK(call.puller)
  PROVE  CallFor(record(call, opts))
  <1> DEFINE after == record(call, opts)
  <1>1. /\ Owes(after, call.nested)
        /\ after.phase = "done" /\ after.request = call.request /\ after.reply = call.reply
        /\ after.nested = call.nested /\ after.puller = call.puller
        /\ after.callMeta = call.callMeta
    BY RecordOwes
  <1> HIDE DEF after
  <1>2. ~Wrapped(after)
    BY <1>1 DEF Wrapped
  <1>3. CallFor(after)
    BY <1>1, <1>2 DEF CallFor
  <1> QED
    BY <1>3 DEF after

\* A stream that ends owes its event to where it was last pulled.
LEMMA FinishFor ==
  ASSUME NEW call, Fresh(call), call.phase \in Ended, Wrapped(call),
         Naming(recorder[call.request.client].meta) = {},
         IsObject(CallSite(call.request)), call.callMeta = CallSite(call.request),
         FramesOK(call.nested), FramesOK(call.puller), NEW status
  PROVE  CallFor(finish(call, call.puller, status))
  <1> DEFINE begun == [call EXCEPT !.emitted = TRUE]
             after == emit(begun, call.puller, call.acc, status)
  <1>1. /\ DOMAIN begun = DOMAIN Idle /\ begun.events = <<>> /\ begun.phase = call.phase
        /\ begun.request = call.request /\ begun.callMeta = call.callMeta
        /\ begun.reply = call.reply /\ begun.streaming = call.streaming
        /\ begun.nested = call.nested /\ begun.puller = call.puller
    BY DEF Fresh, Idle
  <1>2. finish(call, call.puller, status) = after
    BY DEF Fresh, finish
  <1> HIDE DEF begun
  <1>3. /\ Owes(after, call.puller)
        /\ after.phase = call.phase /\ after.request = call.request
        /\ after.reply = call.reply /\ after.streaming = call.streaming
        /\ after.nested = call.nested /\ after.puller = call.puller
        /\ after.callMeta = call.callMeta
    BY <1>1, EmitOwes
  <1> HIDE DEF after
  <1>4. Wrapped(after)
    BY <1>3 DEF Wrapped
  <1>5. after.phase # "pending"
    BY <1>3 DEF Ended
  <1>6. CallFor(after)
    BY <1>3, <1>4, <1>5 DEF CallFor
  <1> QED
    BY <1>2, <1>6

\* A call is made in the context of its flow.
LEMMA BeginsAttr ==
  ASSUME SdkInv, AttrInv, NEW c \in Call, NEW f \in Flow, NEW q \in Requests[c], Begins(c, f, q)
  PROVE  AttrInv'
  <1>1. DOMAIN calls = Call
    BY DEF SdkInv, CallsOK
  <1>2. FramesOK(nested[f]) /\ FramesOK(<<>>)
    BY NoFrames DEF AttrInv
  <1>3. IsObject(CallSite(q))
    BY ObjectsAssumption
  <1>4. CASE CallThrough(c, f, q)
    <2> DEFINE call == [Idle EXCEPT !.phase = "unobserved", !.request = q]
    <2>1. calls' = [calls EXCEPT ![c] = call] /\ recorder' = recorder /\ nested' = nested
      BY <1>4 DEF CallThrough, Becomes
    <2>2. call.phase = "unobserved" /\ call.nested = <<>> /\ call.puller = <<>>
      BY DEF Idle
    <2> HIDE DEF call
    <2>3. CallFor(call)
      BY <1>2, <2>2 DEF CallFor
    <2> QED
      BY <1>1, <2>1, <2>3, AttrFrame
  <1>5. CASE RecordCall(c, f, q)
    <2> DEFINE begun == [Idle EXCEPT !.request = q, !.nested = nested[f]]
    <2>1. /\ calls' = [calls EXCEPT ![c] = record(begun, q.opts)]
          /\ recorder' = recorder /\ nested' = nested /\ q.kind = "record"
      BY <1>5 DEF RecordCall, Records
    <2>2. /\ DOMAIN begun = DOMAIN Idle /\ begun.events = <<>> /\ begun.reply = Null
          /\ begun.request = q /\ begun.nested = nested[f] /\ begun.puller = <<>>
      BY DEF Idle
    <2>3. CallSite(q) = q.opts
      BY <2>1 DEF CallSite
    <2>4. Recounts(q.opts, q.opts)
      BY <1>3, <2>3, RecordedNames
    <2> HIDE DEF begun
    <2>5. CallFor(record(begun, q.opts))
      BY <1>2, <1>3, <2>1, <2>2, <2>3, <2>4, RecordFor
    <2> QED
      BY <1>1, <2>1, <2>5, AttrFrame
  <1>6. CASE Track(c, f, q)
    <2> DEFINE call == [Idle EXCEPT !.phase = "pending", !.request = q, !.nested = nested[f]]
    <2>1. /\ calls' = [calls EXCEPT ![c] = call] /\ recorder' = recorder /\ nested' = nested
          /\ q.kind = "track"
      BY <1>6 DEF Track, Becomes
    <2>2. /\ call.phase = "pending" /\ call.reply = Null
          /\ call.request = q /\ call.nested = nested[f] /\ call.puller = <<>>
      BY DEF Idle
    <2> HIDE DEF call
    <2>3. CallFor(call)
      BY <1>2, <1>3, <2>1, <2>2 DEF CallFor, Ended
    <2> QED
      BY <1>1, <2>1, <2>3, AttrFrame
  <1>7. CASE Create(c, f, q)
    <2> DEFINE call == Created(f, q)
               waiting == [call EXCEPT !.phase = "pending"]
    <2>1. q.kind = "proxy" /\ q.client \in Client /\ recorder[q.client] # Null
      BY <1>7, RequestsAssumption DEF Create, Calls
    <2>2. /\ DOMAIN call = DOMAIN Idle /\ call.events = <<>> /\ call.request = q
          /\ call.reply = Null /\ call.callMeta = CallSite(q)
          /\ call.nested = nested[f] /\ call.puller = <<>>
      BY DEF Created, Idle
    <2>3. Naming(recorder[q.client].meta) = {}
      BY <2>1 DEF AttrInv
    <2>4. recorder' = recorder /\ nested' = nested
      BY <1>7 DEF Create, Becomes
    <2>5. \/ Becomes(c, waiting)
          \/ \E reply \in Replies[c] : Becomes(c, finishResult(call, reply))
          \/ Becomes(c, emit([call EXCEPT !.phase = "failed"], call.nested, NoUsage, "error"))
      BY <1>7 DEF Create
    <2>6. waiting.phase = "pending" /\ waiting.request = q /\ waiting.reply = Null
          /\ waiting.callMeta = CallSite(q) /\ waiting.nested = nested[f] /\ waiting.puller = <<>>
      BY <2>2 DEF Idle
    <2> HIDE DEF call
    <2>7. \/ calls' = [calls EXCEPT ![c] = waiting]
          \/ \E reply \in Replies[c] : calls' = [calls EXCEPT ![c] = finishResult(call, reply)]
          \/ calls' = [calls EXCEPT ![c] = Failing(call)]
      <3> HIDE DEF waiting
      <3> QED
        BY <2>5 DEF Becomes, Failing
    <2> HIDE DEF waiting
    <2>8. CallFor(waiting)
      BY <1>2, <1>3, <2>6 DEF CallFor, Ended
    <2>9. (\A reply : CallFor(finishResult(call, reply))) /\ CallFor(Failing(call))
      BY <1>2, <1>3, <2>2, <2>3, ResultFor
    <2>10. PICK after : calls' = [calls EXCEPT ![c] = after] /\ CallFor(after)
      BY <2>7, <2>8, <2>9
    <2> QED
      BY <1>1, <2>4, <2>10, AttrFrame
  <1> QED
    BY <1>4, <1>5, <1>6, <1>7 DEF Begins

\* A stream is pulled in the context of the flow that pulls it.
LEMMA ConsumesAttr ==
  ASSUME SdkInv, BillsInv, AttrInv, NEW c \in Call, NEW f \in Flow, Consumes(c, f)
  PROVE  AttrInv'
  <1> DEFINE Ends(phase) == [calls[c] EXCEPT !.puller = nested[f], !.phase = phase]
             Once(phase, s) == finish(Ends(phase), nested[f], s)
  <1>1. DOMAIN calls = Call
    BY DEF SdkInv, CallsOK
  <1>2. /\ calls[c].phase \in {"stream", "open"} /\ CallOK(calls[c]) /\ Asked(calls[c])
    BY DEF SdkInv, CallsOK, Consumes, Pull, PullFails, Break, Streams
  <1>3. /\ Fresh(calls[c]) /\ calls[c].request.kind = "proxy" /\ Observing(calls[c])
        /\ calls[c].request.client \in Client /\ recorder[calls[c].request.client] # Null
    BY <1>2 DEF CallOK, Asked, Fresh, Observing, Ended
  <1>4. Wrapped(calls[c])
    <2>1. Feeding(recorder[calls[c].request.client].adapter, calls[c], Replies[c])
      BY <1>2, <1>3 DEF BillsInv, CallBills
    <2> QED
      BY <2>1, RepliesAssumption DEF Feeding, Wrapped
  <1>5. /\ FramesOK(nested[f]) /\ FramesOK(calls[c].nested)
        /\ IsObject(CallSite(calls[c].request)) /\ calls[c].callMeta = CallSite(calls[c].request)
        /\ Naming(recorder[calls[c].request.client].meta) = {}
    BY <1>2, <1>3 DEF AttrInv, CallFor
  <1>6. recorder' = recorder /\ nested' = nested
    BY DEF Consumes, Pull, PullFails, Break, Becomes
  <1>7. ASSUME NEW phase \in Ended, NEW s, Becomes(c, Once(phase, s)) PROVE AttrInv'
    <2> DEFINE ended == Ends(phase)
               after == finish(ended, nested[f], s)
    <2>1. /\ DOMAIN ended = DOMAIN Idle /\ ended.events = <<>> /\ ended.emitted = FALSE
          /\ ended.phase = phase /\ ended.request = calls[c].request
          /\ ended.callMeta = calls[c].callMeta /\ ended.nested = calls[c].nested
          /\ ended.reply = calls[c].reply /\ ended.streaming = calls[c].streaming
          /\ ended.puller = nested[f]
      BY <1>3 DEF Fresh, Idle
    <2>2. calls' = [calls EXCEPT ![c] = after]
      BY <1>7 DEF Becomes
    <2> HIDE DEF ended
    <2>3. Fresh(ended) /\ Wrapped(ended)
      BY <1>4, <2>1 DEF Fresh, Wrapped
    <2>4. CallFor(after)
      BY <1>5, <2>1, <2>3, FinishFor
    <2> HIDE DEF after
    <2> QED
      BY <1>1, <1>6, <2>2, <2>4, AttrFrame
  <1>8. ASSUME NEW phase, NEW s1, NEW s2
        PROVE  finish(Once(phase, s1), nested[f], s2) = Once(phase, s1)
    <2> DEFINE ended == Ends(phase)
    <2>1. Fresh(ended)
      BY <1>3 DEF Fresh, Idle
    <2> HIDE DEF ended
    <2> DEFINE once == finish(ended, nested[f], s1)
    <2>2. Finished(once)
      BY <2>1, FinishesOnce
    <2> HIDE DEF once
    <2>3. finish(once, nested[f], s2) = once
      BY <2>2 DEF finish, Finished
    <2> QED
      BY <2>3 DEF ended, once
  <1>9. CASE Pull(c, f)
    <2> DEFINE call == [calls[c] EXCEPT !.puller = nested[f]]
               adapter == recorder[call.request.client].adapter
               chunks == Chunks(adapter, call)
               on == [call EXCEPT !.phase = "open", !.seen = @ + 1,
                        !.acc = feed(adapter, @, chunks[call.seen + 1])]
               done == finish(finish([call EXCEPT !.phase = "done"], nested[f], "ok"),
                              nested[f], "ok")
    <2>1. Becomes(c, on) \/ Becomes(c, done)
      BY <1>9 DEF Pull
    <2>2. CASE Becomes(c, on)
      <3>1. /\ call.request = calls[c].request /\ call.callMeta = calls[c].callMeta
            /\ call.nested = calls[c].nested /\ call.puller = nested[f]
            /\ DOMAIN call = DOMAIN Idle
        BY <1>3 DEF Fresh, Idle
      <3> HIDE DEF call, adapter, chunks
      <3>2. /\ on.phase = "open" /\ on.request = calls[c].request
            /\ on.callMeta = calls[c].callMeta
            /\ on.nested = calls[c].nested /\ on.puller = nested[f]
        BY <3>1 DEF Idle
      <3>3. calls' = [calls EXCEPT ![c] = on]
        BY <2>2 DEF Becomes
      <3> HIDE DEF on
      <3>4. CallFor(on)
        BY <1>5, <3>2 DEF CallFor, Ended
      <3> QED
        BY <1>1, <1>6, <3>3, <3>4, AttrFrame
    <2>3. CASE Becomes(c, done)
      <3>1. done = finish(Once("done", "ok"), nested[f], "ok")
        BY DEF Ends
      <3>2. Becomes(c, Once("done", "ok"))
        BY <1>8, <2>3, <3>1
      <3> HIDE DEF Once
      <3> QED
        BY <1>7, <3>2 DEF Ended
    <2> QED
      BY <2>1, <2>2, <2>3
  <1>10. CASE PullFails(c, f)
    <2>1. Becomes(c, finish(Once("failed", "error"), nested[f], "ok"))
      BY <1>10 DEF PullFails, Ends
    <2>2. Becomes(c, Once("failed", "error"))
      BY <1>8, <2>1
    <2> HIDE DEF Once
    <2> QED
      BY <1>7, <2>2 DEF Ended
  <1>11. CASE Break(c, f)
    <2>1. Becomes(c, Once("broken", "ok"))
      BY <1>11 DEF Break, Ends
    <2> HIDE DEF Once
    <2> QED
      BY <1>7, <2>1 DEF Ended
  <1> QED
    BY <1>9, <1>10, <1>11 DEF Consumes

\* A call that settles owes its event to where it was made, whatever its flow did since.
LEMMA SettlesAttr ==
  ASSUME SdkInv, BillsInv, AttrInv, NEW c \in Call, Settles(c)
  PROVE  AttrInv'
  <1> DEFINE call == calls[c]
  <1>1. DOMAIN calls = Call
    BY DEF SdkInv, CallsOK
  <1>2. /\ call.phase \in {"pending", "stream"} /\ CallOK(call) /\ Asked(call)
    BY DEF SdkInv, CallsOK, Settles, Resolve, Reject, Bypass, TrackSettles
  <1>3. DOMAIN call = DOMAIN Idle /\ call.events = <<>>
    BY <1>2 DEF CallOK, Ended
  <1>4. CallFor(call)
    BY DEF AttrInv
  <1>5. /\ FramesOK(call.nested) /\ FramesOK(call.puller)
        /\ IsObject(CallSite(call.request))
        /\ call.request.kind = "proxy" => call.callMeta = CallSite(call.request)
        /\ call.phase = "pending" => call.reply = Null
    BY <1>2, <1>4 DEF CallFor
  <1>6. call.request.kind = "proxy" => Naming(recorder[call.request.client].meta) = {}
    BY <1>2 DEF Asked, AttrInv
  <1>7. recorder' = recorder /\ nested' = nested
    BY DEF Settles, Resolve, Reject, Bypass, TrackSettles, Becomes, Records
  <1> HIDE DEF call
  <1>8. CASE Resolve(c) \/ Reject(c)
    <2>1. /\ call.request.kind = "proxy" /\ call.phase = "pending"
          /\ \/ \E reply \in Replies[c] : Becomes(c, finishResult(call, reply))
             \/ Becomes(c, Failing(call))
      BY <1>8 DEF Resolve, Reject, Failing, call
    <2>2. (\A reply : CallFor(finishResult(call, reply))) /\ CallFor(Failing(call))
      BY <1>3, <1>5, <1>6, <2>1, ResultFor
    <2>3. \E after : Becomes(c, after) /\ CallFor(after)
      BY <2>1, <2>2
    <2>4. PICK after : calls' = [calls EXCEPT ![c] = after] /\ CallFor(after)
      BY <2>3 DEF Becomes
    <2> QED
      BY <1>1, <1>7, <2>4, AttrFrame
  <1>9. CASE Bypass(c)
    <2> DEFINE after == [call EXCEPT !.phase = "bypassed"]
    <2>1. calls' = [calls EXCEPT ![c] = after]
      BY <1>9 DEF Bypass, Becomes, call
    <2>2. /\ after.phase = "bypassed" /\ after.request = call.request
          /\ after.callMeta = call.callMeta
          /\ after.nested = call.nested /\ after.puller = call.puller
      BY <1>3 DEF Idle
    <2> HIDE DEF after
    <2>3. CallFor(after)
      BY <1>5, <2>2 DEF CallFor, Ended
    <2> QED
      BY <1>1, <1>7, <2>1, <2>3, AttrFrame
  <1>10. CASE TrackSettles(c)
    <2> DEFINE q == call.request
    <2>1. call.phase = "pending" /\ q.kind = "track"
      BY <1>10 DEF TrackSettles, call
    <2>2. CallSite(q) = q.meta
      BY <2>1 DEF CallSite
    <2>3. \E usage, response, status :
            calls' = [calls EXCEPT ![c] = record(call, emitResult(usage, response, q.meta, status))]
      BY <1>10 DEF TrackSettles, Records, call
    <2>4. PICK usage, response, status :
            calls' = [calls EXCEPT ![c] = record(call, emitResult(usage, response, q.meta, status))]
      BY <2>3
    <2> DEFINE opts == emitResult(usage, response, q.meta, status)
    <2>5. Recounts(opts, q.meta)
      BY <1>5, <2>2, TrackedNames
    <2> HIDE DEF opts
    <2>6. CallFor(record(call, opts))
      BY <1>3, <1>5, <2>1, <2>2, <2>5, RecordFor
    <2> DEFINE after == record(call, opts)
    <2>7. calls' = [calls EXCEPT ![c] = after]
      BY <2>4 DEF opts
    <2> HIDE DEF after
    <2>8. CallFor(after)
      BY <2>6 DEF after
    <2> QED
      BY <1>1, <1>7, <2>7, <2>8, AttrFrame
  <1> QED
    BY <1>8, <1>9, <1>10 DEF Settles

\* Whom each call is for is kept by every step.
LEMMA NextAttr == SdkInv /\ BillsInv /\ AttrInv /\ [Next]_vars => AttrInv'
  <1> SUFFICES ASSUME SdkInv, BillsInv, AttrInv, [Next]_vars PROVE AttrInv'
    OBVIOUS
  <1>1. ASSUME NEW k \in Client, NEW o \in WrapOptions[k], wrap(k, o) PROVE AttrInv'
    BY <1>1, WrapAttr
  <1>2. ASSUME NEW c \in Call, NEW f \in Flow, NEW q \in Requests[c], Begins(c, f, q) PROVE AttrInv'
    BY <1>2, BeginsAttr
  <1>3. ASSUME NEW c \in Call, NEW f \in Flow, Consumes(c, f) PROVE AttrInv'
    BY <1>3, ConsumesAttr
  <1>4. ASSUME NEW c \in Call, Settles(c) PROVE AttrInv'
    BY <1>4, SettlesAttr
  <1>5. ASSUME NEW o, configure(o) PROVE AttrInv'
    BY <1>5, QuietAttr DEF configure
  <1>6. ASSUME NEW f \in Flow, LeaveContext(f) \/ \E x \in Contexts[f] : EnterContext(f, x)
        PROVE  AttrInv'
    BY <1>6, ContextAttr
  <1>7. ASSUME NEW i, Ships(i) \/ DrainEnds(i) PROVE AttrInv'
    BY <1>7, QuietAttr DEF Ships, DrainEnds
  <1>8. CASE Shutdown \/ Sigterm \/ Exit
    BY <1>8, QuietAttr DEF Shutdown, Sigterm, shutdown, Exit
  <1>9. CASE UNCHANGED vars
    BY <1>9, QuietAttr DEF vars
  <1> QED
    BY <1>1, <1>2, <1>3, <1>4, <1>5, <1>6, <1>7, <1>8, <1>9 DEF Next, Runs

\* At first no flow is in a context.
LEMMA InitAttr == Init => AttrInv
  <1> SUFFICES ASSUME Init PROVE AttrInv
    OBVIOUS
  <1>1. /\ recorder = [k \in Client |-> Null] /\ calls = [c \in Call |-> Idle]
        /\ nested = [f \in Flow |-> <<>>]
    BY DEF Init
  <1> QED
    BY <1>1, NoFrames, IdleFor DEF AttrInv

-----------------------------------------------------------------------------
(* Theorems.                                                                *)

\* The invariant holds of every reachable state.
THEOREM SdkInvariant == Spec => []SdkInv
  BY InitSdkInv, NextSdkInv, PTL DEF Spec

\* Every call that ended, however it ended, has exactly one event, and no other has one.
THEOREM SdkOneEventPerCall == Spec => []OneEventPerCall
  <1>1. SdkInv => OneEventPerCall
    BY OneAppended DEF SdkInv, CallsOK, CallOK, OneEventPerCall
  <1> QED
    BY <1>1, SdkInvariant, PTL

\* The registry reaches every live queue under its own key, and an event is in one queue,
\* or in none only if it was observed by a client whose queue has been shut down.
THEOREM SdkQueuesAccounted == Spec => []QueuesAccounted
  <1>1. SdkInv => QueuesAccounted
    <2> SUFFICES ASSUME SdkInv PROVE QueuesAccounted
      OBVIOUS
    <2>1. /\ {i \in DOMAIN queues : queues[i].state = "live"} = Registered
          /\ \A d \in DOMAIN registry : queues[registry[d]].dest = d
      BY DEF SdkInv, RegistryOK, Registered
    <2>2. ASSUME NEW c \in Call, calls[c].phase \in Ended
          PROVE  LET taken == {i \in DOMAIN queues : c \in Took(i)}
                 IN  \/ Cardinality(taken) = 1
                     \/ /\ taken = {} /\ Proxied(c)
                        /\ queues[recorder[calls[c].request.client].queue].state # "live"
      <3> DEFINE taken == {i \in DOMAIN queues : c \in Took(i)}
      <3>1. \/ \E i \in DOMAIN queues : \A j \in DOMAIN queues : c \in Took(j) <=> j = i
            \/ /\ \A j \in DOMAIN queues : c \notin Took(j)
               /\ Proxied(c)
               /\ queues[recorder[calls[c].request.client].queue].state # "live"
        BY <2>2 DEF SdkInv, TakenOnce
      <3>2. CASE \E i \in DOMAIN queues : \A j \in DOMAIN queues : c \in Took(j) <=> j = i
        <4>1. PICK i \in DOMAIN queues : taken = {i}
          BY <3>2
        <4>2. Cardinality(taken) = 1
          BY <4>1, FS_Singleton
        <4> QED  BY <4>2
      <3>3. CASE \A j \in DOMAIN queues : c \notin Took(j)
        <4>1. taken = {}
          BY <3>3
        <4> QED  BY <3>1, <3>2, <4>1
      <3> QED
        BY <3>1, <3>2, <3>3
    <2> QED
      BY <2>1, <2>2 DEF QueuesAccounted
  <1> QED
    BY <1>1, SdkInvariant, PTL

\* A process that exits on its only signal leaves events only in queues that overran
\* their time to drain, and in queues made after the signal.
THEOREM SdkSigtermDrains == Spec => []SigtermDrains
  <1>1. SdkInv => SigtermDrains
    BY DEF SdkInv, QueuesOK, QueueStates, SignalWaits, SigtermDrains
  <1> QED
    BY <1>1, SdkInvariant, PTL

\* Every bill is the one it should be.
LEMMA BillsInvariant == Spec => []BillsInv
  BY InitBills, NextBills, SdkInvariant, PTL DEF Spec

\* A stream read to its end bills as the same response unstreamed, by usage and price; one
\* that does not report usage, or a call that failed at once, bills nothing; and a stream
\* that broke off bills no other input than the response's.
THEOREM SdkStreamBillsAsCall == Spec => []StreamBillsAsCall
  <1>1. BillsInv => StreamBillsAsCall
    <2> SUFFICES ASSUME BillsInv, NEW c \in Call, Proxied(c)
                 PROVE  BillsAsCall(recorder[calls[c].request.client].adapter, calls[c])
      BY DEF StreamBillsAsCall
    <2>1. Observing(calls[c]) /\ calls[c].phase \in Ended
      BY DEF Proxied, Observing, Ended
    <2> QED
      BY <2>1 DEF BillsInv, CallBills
  <1> QED
    BY <1>1, BillsInvariant, PTL

\* An event is attributed to the customer its call names, or else to the one that the contexts
\* the call was made in name, or those a stream was last pulled in: never to another flow's.
THEOREM SdkAttributedToInnermost == Spec => []AttributedToInnermost
  <1>1. AttrInv => AttributedToInnermost
    BY DEF AttrInv, CallFor, Owes, AttributedToInnermost, Ended
  <1>2. Spec => []AttrInv
    BY InitAttr, NextAttr, SdkInvariant, BillsInvariant, PTL DEF Spec
  <1> QED
    BY <1>1, <1>2, PTL
=============================================================================
