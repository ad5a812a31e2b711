-------------------------------- MODULE Sdk ---------------------------------
(***************************************************************************)
(* The TypeScript SDK around its queue (sdks/typescript/src: wrap.ts,      *)
(* proxy.ts, record.ts, vercel.ts, context.ts).  A program wraps provider  *)
(* clients, enters and leaves request contexts in concurrent async flows,  *)
(* calls the provider, consumes streams, records calls by hand, and is     *)
(* shut down.  Each call owes the queue one event.  JavaScript runs one    *)
(* step at a time: a step is what happens between two awaits.              *)
(***************************************************************************)
EXTENDS Integers, Sequences, SequencesExt, FiniteSets, Adapters, Pricing, Metadata

CONSTANTS
  Flow,        (* async flows, each with its own AsyncLocalStorage store     *)
  Contexts,    (* [Flow -> contexts it may pass to requestContext]           *)
  MaxNest,     (* [Flow -> requestContext calls it nests at most]            *)
  Client,      (* provider clients the program wraps                         *)
  Shape,       (* [Client -> what detection sees of it]                      *)
  WrapOptions, (* [Client -> options it may be wrapped with]                 *)
  Configs,     (* options given to configure                                 *)
  Env,         (* COSTOBS_INGEST_URL and COSTOBS_API_KEY, as set             *)
  Call,        (* calls the program makes                                    *)
  Requests,    (* [Call -> requests it may be]                               *)
  Replies,     (* [Call -> what the provider may answer: iterable, body]     *)
  MaxShutdowns (* calls of shutdown, by the program and by SIGTERM           *)

(* A client that is called is one the program may wrap.                     *)
ASSUME RequestsAssumption ==
  \A c \in Call : \A q \in Requests[c] : q.kind = "proxy" => q.client \in Client

-----------------------------------------------------------------------------
(* What a provider streams for a reply: OpenAI reports usage on a last chunk *)
(* if asked to, and for its Responses API inside the response; Anthropic the *)
(* input first and the output last; Gemini running totals.                   *)

MessageStart(u) == [type |-> "message_start", message |-> [usage |-> [u EXCEPT !.output_tokens = 1]]]

MessageDelta(u) == [type |-> "message_delta", usage |-> [output_tokens |-> field(u, "output_tokens")]]

asksForUsage(sent) == read(field(sent, "stream_options"), "include_usage") = TRUE

Chunks(adapter, call) ==
  LET u == read(call.reply.body, UsageKey(adapter))
  IN  IF adapter \in {"anthropic", "gemini"} /\ u = Null THEN << [type |-> "ping"] >>
      ELSE IF adapter = "anthropic" THEN << MessageStart(u), MessageDelta(u) >>
      ELSE IF adapter = "gemini"
           THEN << [usageMetadata |-> [u EXCEPT !.candidatesTokenCount = 1]], [usageMetadata |-> u] >>
      ELSE IF operationFor(call.request.path, adapter) = "responses"
           THEN << [type |-> "response.completed", response |-> call.reply.body] >>
      ELSE IF asksForUsage(call.sent) THEN << [usage |-> Null], [usage |-> u] >>
      ELSE << [usage |-> Null] >>

(* A reply is an answer, and the objects it is streamed in are objects.      *)
ASSUME RepliesAssumption ==
  \A c \in Call : \A reply \in Replies[c] :
    /\ reply # Null
    /\ LET u == read(reply.body, "usage")
       IN  u # Null => /\ MessageStart(u).message # Null /\ MessageStart(u).message.usage # Null
                       /\ MessageDelta(u).usage # Null

(* What a call says of itself: the metadata of a proxied one, the options of *)
(* a recorded one, or what a tracked one is tracked with.                    *)
CallSite(q) ==
  IF q.kind = "proxy" THEN Coalesce(read(q.options, "costobs"), Empty)
  ELSE IF q.kind = "record" THEN q.opts
  ELSE q.meta

(* Contexts and the metadata of calls are objects.                           *)
ASSUME ObjectsAssumption ==
  /\ \A f \in Flow : \A ctx \in Contexts[f] : IsObject(ctx)
  /\ \A c \in Call : \A q \in Requests[c] : IsObject(CallSite(q))

VARIABLES
  config,      \* CONFIG
  registry,    \* QUEUES: [keys registered -> index of the queue]
  queues,      \* every TelemetryQueue made
  recorder,    \* [Client -> its Recorder, Null until wrapped]
  nested,      \* [Flow -> its requestContext calls: the context given, the store made]
  calls,       \* [Call -> its CallState and the closure of its stream]
  shutdowns,   \* calls of shutdown so far
  waits,       \* the queues each SIGTERM handler awaits
  exited       \* process.exit was called

ingestVars == <<registry, queues>>
processVars == <<shutdowns, waits, exited>>
vars == <<config, ingestVars, recorder, nested, calls, processVars>>

-----------------------------------------------------------------------------
(* Queues, by what their callers see of them (TsQueue has the rest).        *)

DefaultUrl == "http://localhost:8080"

(* The key of QUEUES: a base URL and an API key. *)
resolveIngest(opts) ==
  <<Coalesce(Lookup(opts, "ingestUrl"),
      Coalesce(read(config, "ingestUrl"), Coalesce(read(Env, "ingestUrl"), DefaultUrl))),
    Coalesce(Lookup(opts, "apiKey"),
      Coalesce(read(config, "apiKey"), Coalesce(read(Env, "apiKey"), "")))>>

NewQueue(dest) == [dest |-> dest, state |-> "live", buffer |-> {}, shipped |-> {}]

(* getQueue: the queue's index, and QUEUES and the queues with it in them.  *)
QueueOf(dest) == IF dest \in DOMAIN registry THEN registry[dest] ELSE Len(queues) + 1

RegistryWith(dest) ==
  [d \in DOMAIN registry \cup {dest} |-> IF d = dest THEN QueueOf(dest) ELSE registry[d]]

QueuesWith(dest) ==
  IF dest \in DOMAIN registry THEN queues ELSE Append(queues, NewQueue(dest))

enqueue(qs, i, c) ==
  IF qs[i].state # "live" THEN qs ELSE [qs EXCEPT ![i].buffer = @ \cup {c}]

-----------------------------------------------------------------------------
(* Events.                                                                  *)

Event(provider, model, operation, stream, status, usage, price, meta) ==
  [provider |-> provider, model |-> model, operation |-> operation,
   stream |-> stream, status |-> status, usage |-> usage, cost |-> price,
   fields |-> meta.fields, tags |-> meta.tags]

NoOptions == [batch |-> FALSE, finetuned |-> FALSE]

(* currentContext: the store of the innermost requestContext call.          *)
currentContext(frames) == IF frames = <<>> THEN Empty ELSE Last(frames).store

(* emit: the event of an observed call, in the context its code runs in.    *)
emit(call, ctx, usage, status) ==
  LET r == recorder[call.request.client]
      e == Event(r.provider, call.model, operationFor(call.request.path, r.adapter),
                 call.streaming, status, usage,
                 cost(usage, r.provider, call.model, NoOptions),
                 merge(r.meta, currentContext(ctx), call.callMeta))
  IN  [call EXCEPT !.events = Append(@, e)]

finish_Again(call, ctx, status) == emit([call EXCEPT !.emitted = TRUE], ctx, call.acc, status)

(* finish: the closure of a stream, which emits only once. *)
finish(call, ctx, status) ==
  IF call.emitted THEN call
  ELSE emit([call EXCEPT !.emitted = TRUE], ctx, call.acc, status)

(* finishResult: a stream is wrapped, anything else is billed.              *)
finishResult(call, reply) ==
  IF call.streaming /\ reply.iterable
  THEN [call EXCEPT !.phase = "stream", !.reply = reply]
  ELSE emit([call EXCEPT !.phase = "done", !.reply = reply], call.nested,
            parseUsage(recorder[call.request.client].adapter, reply.body), "ok")

UsageKeys == UsageFields \ {"total_tokens"}

NonMetaKeys == UsageKeys \cup {"provider", "model", "operation", "status",
  "error_type", "stream", "latency_ms", "cost_usd", "ingestUrl", "apiKey"}

(* record: one billable call, priced and attributed where it is recorded.   *)
RecordEvent(opts, ctx) ==
  LET usage == makeUsage([k \in UsageKeys |-> Lookup(opts, k)])
      operation == Coalesce(Lookup(opts, "operation"), "chat")
  IN  Event(Lookup(opts, "provider"), Lookup(opts, "model"), operation,
            Coalesce(Lookup(opts, "stream"), FALSE),
            Coalesce(Lookup(opts, "status"), "ok"), usage,
            Coalesce(Lookup(opts, "cost_usd"),
                     cost(usage, Lookup(opts, "provider"), Lookup(opts, "model"), NoOptions)),
            merge(Empty, currentContext(ctx), Without(opts, NonMetaKeys)))

record(call, opts) ==
  [call EXCEPT !.phase = "done", !.events = Append(@, RecordEvent(opts, call.nested))]

(* emitResult: what trackGenerateText and trackStreamText record.           *)
Stems == [gpt |-> "openai", o3 |-> "openai", o4 |-> "openai", claude |-> "anthropic",
  gemini |-> "gemini", grok |-> "xai", mistral |-> "mistral", deepseek |-> "deepseek"]

guessProvider(model) ==
  IF model # <<>> /\ Head(model) \in DOMAIN Stems THEN Stems[Head(model)] ELSE "vercel-ai"

emitResult(usage, response, meta, status) ==
  LET model  == Coalesce(Lookup(meta, "model"), Coalesce(read(response, "modelId"), <<>>))
      input  == readInt(usage, "inputTokens", readInt(usage, "promptTokens", 0))
      cached == readInt(usage, "cachedInputTokens", 0)
      fields == [provider |-> Coalesce(Lookup(meta, "provider"), guessProvider(model)),
                 model |-> model, operation |-> "chat", status |-> status,
                 input_tokens |-> NonCached(input, cached), cached_input_tokens |-> cached,
                 output_tokens |-> readInt(usage, "outputTokens",
                                     readInt(usage, "completionTokens", 0)),
                 reasoning_tokens |-> readInt(usage, "reasoningTokens", 0)]
  IN  Spread([k \in DOMAIN fields |-> [at |-> 0, is |-> fields[k]]],
             Without(meta, {"provider", "model"}))

-----------------------------------------------------------------------------
(* The program.                                                             *)

Idle == [phase |-> "idle", request |-> Null, nested |-> <<>>, model |-> Null,
         callMeta |-> Empty, streaming |-> FALSE, sent |-> Null, reply |-> Null,
         seen |-> 0, acc |-> NoUsage, emitted |-> FALSE, events |-> <<>>,
         puller |-> <<>>]

Init ==
  /\ config = << >> /\ registry = << >> /\ queues = <<>>
  /\ recorder = [c \in Client |-> Null]
  /\ nested = [f \in Flow |-> <<>>]
  /\ calls = [c \in Call |-> Idle]
  /\ shutdowns = 0 /\ waits = {} /\ exited = FALSE

configure(opts) ==
  /\ config' = opts @@ config
  /\ UNCHANGED <<ingestVars, recorder, nested, calls, processVars>>

IngestKeys == {"ingestUrl", "apiKey"}

ClientMeta(opts) ==
  LET own == {"environment", "team", "service"}
  IN  [k \in (own \cap DOMAIN opts) \cup {"tags"} |->
         IF k = "tags" THEN [at |-> End(opts) + 1, is |-> Without(opts, own \cup IngestKeys)]
         ELSE opts[k]]

wrap(c, opts) ==
  LET adapter == detect(Shape[c])
      dest    == resolveIngest(opts)
  IN  /\ recorder[c] = Null /\ adapter # Null
      /\ recorder' = [recorder EXCEPT ![c] =
           [adapter |-> adapter, provider |-> providerFor(adapter, Shape[c]),
            meta |-> ClientMeta(opts), queue |-> QueueOf(dest)]]
      /\ registry' = RegistryWith(dest) /\ queues' = QueuesWith(dest)
      /\ UNCHANGED <<config, nested, calls, processVars>>

(* fn runs with ctx merged over the store, and what it started lives on.    *)
EnterContext(f, ctx) ==
  /\ Len(nested[f]) < MaxNest[f]
  /\ nested' = [nested EXCEPT ![f] =
       Append(@, [given |-> ctx, store |-> Spread(currentContext(@), clean(ctx))])]
  /\ UNCHANGED <<config, ingestVars, recorder, calls, processVars>>

LeaveContext(f) ==
  /\ nested[f] # <<>>
  /\ nested' = [nested EXCEPT ![f] = Front(@)]
  /\ UNCHANGED <<config, ingestVars, recorder, calls, processVars>>

(* A call's new state; an event it gained goes to its recorder's queue.     *)
Becomes(c, call) ==
  /\ calls' = [calls EXCEPT ![c] = call]
  /\ queues' = IF Len(call.events) = Len(calls[c].events) THEN queues
               ELSE enqueue(queues, recorder[call.request.client].queue, c)
  /\ UNCHANGED <<config, registry, recorder, nested, processVars>>

(* The same for a recorded call, whose queue is looked up, or made, now.    *)
Records(c, call, opts) ==
  LET dest == resolveIngest(opts)
  IN  /\ calls' = [calls EXCEPT ![c] = record(call, opts)]
      /\ registry' = RegistryWith(dest)
      /\ queues' = enqueue(QueuesWith(dest), QueueOf(dest), c)
      /\ UNCHANGED <<config, recorder, nested, processVars>>

(* wrappedCreate up to the provider call: what it captures and forwards.    *)
Created(f, q) ==
  LET adapter   == recorder[q.client].adapter
      bare      == [k \in DOMAIN q.options \ {"costobs"} |-> q.options[k]]
      streaming == isStreamingMethod(q.path) \/ isStream(adapter, bare)
      sent      == IF streaming /\ ~isStreamingMethod(q.path)
                   THEN prepareStreamOptions(adapter, bare) ELSE bare
  IN  [Idle EXCEPT !.request = q, !.nested = nested[f], !.streaming = streaming,
                   !.model = modelFromOptions(adapter, sent), !.sent = sent,
                   !.callMeta = CallSite(q)]

Calls(c, f, q) ==
  calls[c].phase = "idle" /\ q.kind = "proxy" /\ recorder[q.client] # Null

(* A method that is not terminal is the provider's own: nothing sees it.    *)
CallThrough(c, f, q) ==
  /\ Calls(c, f, q) /\ ~Observed(q.path, recorder[q.client].adapter)
  /\ Becomes(c, [Idle EXCEPT !.phase = "unobserved", !.request = q])

Create(c, f, q) ==
  /\ Calls(c, f, q) /\ Observed(q.path, recorder[q.client].adapter)
  /\ LET call == Created(f, q)
     IN  \/ Becomes(c, [call EXCEPT !.phase = "pending"])          \* a promise
         \/ \E reply \in Replies[c] : Becomes(c, finishResult(call, reply))
         \/ Becomes(c, emit([call EXCEPT !.phase = "failed"], call.nested,
                            NoUsage, "error"))                     \* it threw

Resolve(c) ==
  /\ calls[c].phase = "pending" /\ calls[c].request.kind = "proxy"
  /\ \E reply \in Replies[c] : Becomes(c, finishResult(calls[c], reply))

Reject(c) ==
  /\ calls[c].phase = "pending" /\ calls[c].request.kind = "proxy"
  /\ Becomes(c, emit([calls[c] EXCEPT !.phase = "failed"], calls[c].nested,
                     NoUsage, "error"))

Streams(c) == calls[c].phase \in {"stream", "open"}

(* The consumer, in flow f, asks for the next chunk: the generator runs in   *)
(* f's context, feeds the accumulator, and finishes when there is no more.   *)
Pull(c, f) ==
  /\ Streams(c)
  /\ LET call == [calls[c] EXCEPT !.puller = nested[f]]
         adapter == recorder[call.request.client].adapter
         chunks == Chunks(adapter, call)
     IN  Becomes(c,
           IF call.seen < Len(chunks)
           THEN [call EXCEPT !.phase = "open", !.seen = @ + 1,
                             !.acc = feed(adapter, @, chunks[call.seen + 1])]
           ELSE finish(finish([call EXCEPT !.phase = "done"], nested[f], "ok"),
                       nested[f], "ok"))

(* The provider's stream raises: finish in the catch, then in the finally.  *)
PullFails(c, f) ==
  /\ Streams(c)
  /\ LET call == [calls[c] EXCEPT !.puller = nested[f], !.phase = "failed"]
     IN  Becomes(c, finish(finish(call, nested[f], "error"), nested[f], "ok"))

(* The consumer breaks at a chunk: the generator's finally finishes.        *)
Break(c, f) ==
  /\ calls[c].phase = "open"
  /\ Becomes(c, finish([calls[c] EXCEPT !.puller = nested[f], !.phase = "broken"],
                       nested[f], "ok"))

(* It never begins, or takes the stream through tee() or another method of   *)
(* the original: the generator does not run.                                 *)
Bypass(c) ==
  /\ calls[c].phase = "stream"
  /\ Becomes(c, [calls[c] EXCEPT !.phase = "bypassed"])

RecordCall(c, f, q) ==
  /\ calls[c].phase = "idle" /\ q.kind = "record"
  /\ Records(c, [Idle EXCEPT !.request = q, !.nested = nested[f]], q.opts)

(* trackGenerateText, or trackStreamText when q.streamed.                    *)
Track(c, f, q) ==
  /\ calls[c].phase = "idle" /\ q.kind = "track"
  /\ Becomes(c, [Idle EXCEPT !.phase = "pending", !.request = q, !.nested = nested[f]])

(* The tracked promises settle; a stream's model may be known all the same.  *)
TrackSettles(c) ==
  LET q == calls[c].request
  IN  /\ calls[c].phase = "pending" /\ q.kind = "track"
      /\ \/ Records(c, calls[c], emitResult(q.usage, q.response, q.meta, "ok"))
         \/ Records(c, calls[c],
              emitResult(Null, IF q.streamed THEN q.response ELSE Null, q.meta, "error"))

-----------------------------------------------------------------------------
(* The life of the queues and of the process.                               *)

Ships(i) ==
  /\ queues[i].buffer # {}
  /\ queues' = [queues EXCEPT ![i].shipped = @ \cup queues[i].buffer, ![i].buffer = {}]
  /\ UNCHANGED <<config, registry, recorder, nested, calls, processVars>>

Registered == {registry[d] : d \in DOMAIN registry}

Stopping == [i \in DOMAIN queues |->
  IF i \in Registered THEN [queues[i] EXCEPT !.state = "draining"] ELSE queues[i]]

shutdown_KeepsRegistry ==
  /\ shutdowns < MaxShutdowns
  /\ queues' = Stopping
  /\ shutdowns' = shutdowns + 1
  /\ UNCHANGED <<config, registry, recorder, nested, calls>>

shutdown ==
  /\ shutdowns < MaxShutdowns
  /\ registry' = << >> /\ queues' = Stopping
  /\ shutdowns' = shutdowns + 1
  /\ UNCHANGED <<config, recorder, nested, calls>>

Shutdown == shutdown /\ UNCHANGED <<waits, exited>>

Sigterm == shutdown /\ waits' = waits \cup {Registered} /\ UNCHANGED exited

(* A queue's own shutdown returns: it is empty, or it took too long.        *)
DrainEnds(i) ==
  /\ queues[i].state = "draining"
  /\ \E late \in BOOLEAN :
       /\ late \/ queues[i].buffer = {}
       /\ queues' = [queues EXCEPT ![i].state = IF late THEN "late" ELSE "stopped"]
  /\ UNCHANGED <<config, registry, recorder, nested, calls, processVars>>

Exit_NoWait ==
  /\ waits # {} /\ exited' = TRUE
  /\ UNCHANGED <<config, ingestVars, recorder, nested, calls, shutdowns, waits>>

Exit ==
  /\ \E w \in waits : \A i \in w : queues[i].state \in {"stopped", "late"}
  /\ exited' = TRUE
  /\ UNCHANGED <<config, ingestVars, recorder, nested, calls, shutdowns, waits>>

Begins(c, f, q) == CallThrough(c, f, q) \/ Create(c, f, q) \/ RecordCall(c, f, q) \/ Track(c, f, q)

Consumes(c, f) == Pull(c, f) \/ PullFails(c, f) \/ Break(c, f)

Settles(c) == Resolve(c) \/ Reject(c) \/ Bypass(c) \/ TrackSettles(c)

Runs ==
  \/ \E o \in Configs : configure(o)
  \/ \E c \in Client : \E o \in WrapOptions[c] : wrap(c, o)
  \/ \E f \in Flow : LeaveContext(f) \/ \E x \in Contexts[f] : EnterContext(f, x)
  \/ \E c \in Call, f \in Flow : \E q \in Requests[c] : Begins(c, f, q)
  \/ \E c \in Call, f \in Flow : Consumes(c, f)
  \/ \E c \in Call : Settles(c)
  \/ \E i \in DOMAIN queues : Ships(i) \/ DrainEnds(i)
  \/ Shutdown \/ Sigterm \/ Exit

Next == ~exited /\ Runs

Spec == Init /\ [][Next]_vars

-----------------------------------------------------------------------------
Phases == {"idle", "unobserved", "pending", "stream", "open", "done", "failed",
           "broken", "bypassed"}

Ended == {"done", "failed", "broken"}

(* Every call that ended, however it ended, has exactly one event: a stream  *)
(* that was exhausted, raised, or was broken off, whose generator finishes   *)
(* in up to three places, and a call that threw, rejected or was tracked.    *)
(* One that is under way, bypassed or not observed has none.                 *)
OneEventPerCall ==
  \A c \in Call :
    /\ calls[c].phase \in Phases
    /\ Len(calls[c].events) = IF calls[c].phase \in Ended THEN 1 ELSE 0

Proxied(c) == calls[c].phase \in Ended /\ calls[c].request.kind = "proxy"

Wrapped(call) == call.reply # Null /\ call.streaming /\ call.reply.iterable

(* A provider only reports the usage of a stream it was asked to report, and *)
(* the accumulator does not look where the Responses API puts it.            *)
Metered(adapter, call) ==
  \/ adapter # "openai"
  \/ operationFor(call.request.path, "openai") # "responses" /\ asksForUsage(call.sent)

Bills(e, u) == e.usage = u /\ e.cost = cost(u, e.provider, e.model, NoOptions)

BillsAsCall(adapter, call) ==
  LET e == call.events[1]
      whole == parseUsage(adapter, call.reply.body)
  IN  IF call.phase = "done"
      THEN Bills(e, IF Wrapped(call) /\ ~Metered(adapter, call) THEN NoUsage ELSE whole)
      ELSE IF Wrapped(call) THEN e.usage.input_tokens \in {0, whole.input_tokens}
           ELSE e.usage = NoUsage /\ e.cost = 0

(* A stream read to its end bills as the same response would have unstreamed *)
(* (accumulators against parseUsage), and with the same price; one that is   *)
(* not metered bills nothing, and so does any call that failed at once.  One *)
(* that broke off bills its input, if it was reported, and no other.         *)
StreamBillsAsCall ==
  \A c \in Call : Proxied(c) =>
    BillsAsCall(recorder[calls[c].request.client].adapter, calls[c])

(* The keys of an object that name the customer, in either spelling.         *)
Naming(object) == Spelling(object, "customer_id")

Customer(object) ==
  IF Naming(object) = {} THEN Null ELSE object[Latest(object, Naming(object))].is

(* Where a spelling was first used, and where last, of contexts nested.      *)
Uses(frames, k) == {i \in DOMAIN frames : k \in Naming(frames[i].given)}

FirstUsed(frames, j, k) ==
  LET m == Min(Uses(frames, j))
      n == Min(Uses(frames, k))
  IN  m <= n /\ (m = n => frames[m].given[j].at <= frames[m].given[k].at)

(* The innermost context that names a customer wins, as context.ts says, but *)
(* among those that spell the key as it was spelled last of all spellings.   *)
Innermost(frames) ==
  LET used == UNION {Naming(frames[i].given) : i \in DOMAIN frames}
      won  == CHOOSE k \in used : \A j \in used : FirstUsed(frames, j, k)
  IN  IF used = {} THEN Null ELSE frames[Max(Uses(frames, won))].given[won].is

(* An event is attributed to the context the call was made in, whatever the  *)
(* flow has entered or left by the time the call settles; a stream's, to the *)
(* context of the flow that last pulled it; never to another flow's.  What   *)
(* the call itself names comes first.                                        *)
AttributedToInnermost ==
  \A c \in Call : calls[c].phase \in Ended =>
    field(calls[c].events[1].fields, "customer_id") =
      Coalesce(Customer(CallSite(calls[c].request)),
               Innermost(IF Wrapped(calls[c]) THEN calls[c].puller ELSE calls[c].nested))

Took(i) == queues[i].buffer \cup queues[i].shipped

(* Every live queue is the one registered under its own key, so flush and    *)
(* shutdown reach it.  A call's event is in one queue at most, and in none   *)
(* only if it was observed by a client whose queue has been shut down: a     *)
(* recorded or tracked call is never lost to a stopped queue.                *)
QueuesAccounted ==
  /\ {i \in DOMAIN queues : queues[i].state = "live"} = Registered
  /\ \A d \in DOMAIN registry : queues[registry[d]].dest = d
  /\ \A c \in Call : calls[c].phase \in Ended =>
       LET taken == {i \in DOMAIN queues : c \in Took(i)}
       IN  \/ Cardinality(taken) = 1
           \/ /\ taken = {} /\ Proxied(c)
              /\ queues[recorder[calls[c].request.client].queue].state # "live"

(* A process that exits on its only SIGTERM, without an earlier shutdown,    *)
(* leaves events behind only in queues that overran their time to drain and  *)
(* in queues made after the signal, which nothing stops.                     *)
SigtermDrains ==
  exited /\ shutdowns = 1 =>
    \A i \in DOMAIN queues :
      queues[i].buffer # {} => queues[i].state \in {"late", "live"}
=============================================================================
