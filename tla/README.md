# Verification of costobs

costobs records what calls to language-model providers cost.  SDKs in Go, Python
and TypeScript wrap a provider's client, turn each call into an event and ship
events in batches to the ingest service, which authenticates, deduplicates and
buffers them and writes them to ClickHouse.  Two workers read the store: alertd
fires alerts when spend crosses a rule's threshold, billsyncd imports what the
providers billed.  A dashboard reads all of it.

This directory holds TLA+ modules of the parts where order, failure and
concurrency decide, the TLC configurations that check them, and TLAPS proofs.
`tlc -config X.cfg M` runs a configuration, `tlapm M.tla` checks a proof module.
`PROJECT.json` lists runs, mutants, hazards, theorems and the source lines every
definition stands for.

## Inventory

Paths are relative to the repository; ingest stands for `services/ingest`.

| Component | State | Operations | Talks to |
|---|---|---|---|
| ingest `internal/httpapi` | none of its own | POST /v1/events, healthz | authenticator, dedup, buffer |
| ingest `internal/dedup` | ids with the time seen, 32 locked shards | Seen, evict | handlers, a sweeper goroutine |
| ingest `internal/batch` | buffer, one-slot flush channel, stop and done | Add, Run, flush, Shutdown | handlers, writer |
| ingest `internal/chwriter` | a connection | Insert, RetryInsert | ClickHouse |
| ingest `internal/auth` | cache of verified keys with a TTL | Authenticate, PurgeExpired, LookupByPrefix, Seed | Postgres |
| ingest `internal/model` | none | decode, Validate | handlers |
| ingest `cmd/ingest` | life of the process | serve, drain on SIGTERM, seed | all of the above |
| Go SDK `queue.go` | channel, local batch, in-flight count | enqueue, run, ship, flushWait, close | ingest over HTTP |
| Python SDK `telemetry.py` | queue.Queue with its task count, sender thread | enqueue, flush, shutdown | ingest |
| TypeScript SDK `telemetry.ts` | buffer, one async tick, timer | enqueue, tick, flush, shutdown | ingest |
| SDK wrap, proxy, record, vercel | registry of queues, one recorder per client, one accumulator per stream | configure, wrap, observe a call or stream, record, shutdown, SIGTERM | provider client, queue |
| SDK adapters | none | detect a client, find its terminal methods, parse a response, feed an accumulator | proxies |
| SDK pricing, metadata, context | price table, a store per async flow | price a usage, nest contexts, merge metadata | proxies, record |
| alertd | the rules of one cycle | evaluate, deliver with retries, MarkFired | Postgres, ClickHouse, webhooks |
| billsyncd | none between cycles | fetch pages, upsert days | provider billing APIs, ClickHouse |
| dashboard `lib` | none | queries of each page, forecast | ClickHouse |
| dashboard `app`, `components` | the URL, and the form of the requests page | render a page, apply, reset, page, go back | queries, the browser |
| migrations | raw events with a TTL, three rollups, replacing bills | insert, merge, expire | ingest, billsyncd, queries |
| helm, compose, scripts, site | declarations | | |

What is hard in each, and what makes it right:

- **Buffer.** Handlers, loop and Shutdown interleave; inserts fail or succeed
  unheard.  Right: no accepted event vanishes or counts twice, a full buffer
  wakes the loop, a drain is complete, memory is bounded.
- **Handler and dedup.** Concurrent retries of one body, a refusal after dedup, a
  400 midway, expiry.  Right: an id passes once per TTL, the answer tells the
  client what happened, the counters balance.
- **Process.** SIGTERM with handlers running, a crash, a restart.  Right: a graceful
  exit loses nothing, everything accepted settles.
- **Authenticator.** Revocation between lookup and store.  Right: a bounded stay of
  a revoked key, no crossing of orgs.
- **SDK queues.** Overflow, retries of requests that arrived, several callers of
  flush and shutdown at once, a stop in the middle of a send.  Right: every event
  is shipped, counted dropped or known to be left behind; flush and close wait.
- **alertd.** A slow cycle, failing targets, a stamp that is not written.  Right: no
  repeat within the cooldown, no rule or target skipped, a prompt stop.
- **Proxies and streams.**  A stream ends in a loop, a catch or a finally, in the
  async flow of whoever reads it, or never.  Right: one event for a call, whatever
  ends it, and attributed to a context a reader can name.
- **Registry.**  Queues by destination, configure between two wraps, shutdown while
  recorders live on, SIGTERM after a shutdown.  Right: a live queue is one that
  shutdown reaches, and an event is in one queue.
- **Adapters, pricing, metadata.**  Usage comes in pieces, cumulative or final; layers
  spell one key in two ways.  Right: a stream bills as the call would have.
- **Rollups and queries.**  Merges happen at any time, events come late, bills twice,
  ranges are cut in hours here and in days there.  Right: all pages agree, and on the
  events of the range.
- **Requests page.**  Two queries and an OFFSET over moving rows; a form that copies the
  URL while navigations overtake each other.  Right: a walk over the pages misses
  nothing, and the form is that of the list.
- **Forecast.**  Three ways to count days: rows, dates, the clock.  Right: a repeating
  history is continued, and the month's estimate adds each of its days once.
- **billsyncd** (planned).  Right: a day converges to what the provider reported last.

`PROJECT.json` lists 40 hazards with their lines, and for each the properties that
would catch it or the reason none does yet.  What the list leaves out is at its end.

## Modules

| Module | Code | Built on |
|---|---|---|
| `Sink` | abstract: a bounded place that takes events and settles each group once | |
| `Batch` | buffer, flush loop, RetryInsert, Shutdown | implements `Sink` |
| `Ingest` | handler, dedup, counters, process life | EXTENDS `Batch`, composing its actions |
| `IngestAuth` | authenticator over Postgres | |
| `GoQueue`, `PyQueue` | SDK queues | implement `Sink` |
| `TsQueue` | SDK queue of one thread | |
| `Alertd` | alert worker | |
| `Adapters` | what the TypeScript SDK knows of each provider: clients, methods, usage | |
| `Pricing`, `Metadata` | price of a usage; contexts and the merge of metadata | `Adapters` |
| `Sdk` | wrap, proxies, streams, record, vercel, registry, shutdown | EXTENDS the three above |
| `Rollups` | ClickHouse tables, their views, merges and TTL | |
| `Queries`, `Forecast` | what the pages select and project | EXTEND `Rollups` |
| `Dashboard` | pages, and the requests page in a browser | EXTENDS `Forecast`, composing writers and readers |
| `Merges` | the pages beside themselves over tables that nothing grouped or merged | EXTENDS `Dashboard` and has a second instance of it |
| `IngestProofs`, `IngestAuthProofs`, `GoQueueProofs`, `PyQueueProofs`, `TsQueueProofs`, `AlertdProofs`, `SdkProofs`, `DashboardProofs` | theorems | each EXTENDS the module it is named after; `IngestProofs` has the buffer's (`Batch`) as well |
| `MCBatch`, `MCIngest`, `MCAlertd`, `MCIngestAuth`, `MCSdk`, `MCDashboard` | values of constants for TLC | |

The other modules are run directly under their configurations.

**Sink.**  `pending`, `settledOk`, `settledLost` and the bound `Limit`.  An event is
taken once, waits, and a non-empty group of waiting events is settled together, as
written or as lost, and never moves again.  A drop is explicit: nothing leaves
`pending` otherwise.  It is what a caller of each buffer may rely on.

**Batch.**  A step is one goroutine between two synchronisations.  `AddFits` and
`AddFull` are the critical section of Add; `AddReturn` is what follows the unlock,
so another goroutine may come between the depth being read and the signal.  The
loop's select is `LoopTick`, `LoopFlushReq`, `LoopStop`; both flushers share
`Swap`, `InsertOk`, `InsertErr`, `BackoffElapsed`, `BackoffCancelled`.  An
`InsertErr` may leave rows: the server applied a Send whose answer was lost.
`ShutdownDrain` joins the two reads of Depth before a flush: only an Add can come
between them, so the second read may only be larger, which the model has by
letting that Add come first.  The order inside a batch decides nothing, so
buffers are sets of occurrences.

**Ingest.**  One request per element of `Request`, its body a sequence of ids; a
retry is another request with the same body.  `ScanFresh`, `ScanDuplicate` and
`ScanInvalid` are one round of the handler's loop, since Seen is atomic under its
shard's lock and rounds of different requests interleave.  `Expire` is both ways
an id is forgotten.  `EndProcess` is all that dies with the process.  `Deny` stands
for all answers before the counters: it never touches shared state.

**IngestAuth.**  Authenticate reads its clock, looks into the cache, queries,
verifies and stores in separate steps.  `until` is a history variable: the last
instant a key was active for an org.

**GoQueue.**  `local` events of the goroutine and the channel are apart, which is
what flushWait cannot see.  **PyQueue.**  The queue, the task count, the thread,
and each statement of shutdown that another thread can interleave.
**TsQueue.**  A step is what runs between two awaits; `TickOn` is the synchronous
start of tick that enqueue, flush, the timer and shutdown all call.

**Alertd.**  Rules in the order of their ids, which the query asks for (`ById`: the one
sequence of the enabled rules that ascends); `loadedLast` is the copy the cycle decides
on; a rule is over its threshold or not.  A rule that does not unmarshal (`Garbled`) fails
the load of all.  A signal cancels the context, after which queries, POSTs and MarkFired
fail.  `fired`, `unmarked`, `faulted` and `answered` are history: when the latest alert of
a rule was fired, whether its stamp is missing and who is to blame, and whether a target
answered it 2xx.

**Adapters, Pricing, Metadata.**  Pure operators.  A provider's object is a function,
and a missing key and null both read as `Null`.  A JavaScript object whose key order
matters (a context, the metadata of a call) is a function from its keys to the value and
the place of each: a spread keeps the place of a key it overrides (`Spread`), and of two
spellings of one field the one in the later place decides (`Latest`).  A model's
name is the sequence of its parts, a rate an integer.  `docs/pricing.md:58-60` says a
rule has an operation; `find` ignores it (`pricing.ts:158`), as the code does.

**Sdk.**  A step is what JavaScript runs between two awaits.  `Create` is the call up to
its promise, or whole when the method returns or throws at once; `Pull` is one turn
of the generator, in the flow that pulls; `finish` is the closure that the loop, the
catch and the finally all call.  `Becomes` is the only way an event reaches a queue
of a recorder, `Records` of a destination.  A queue is what its callers see of it;
`TsQueue` has the rest.  What a provider streams (`Chunks`) is external.

**Rollups.**  A row of a rollup is the set of events it sums, so that merging is a
union and a sum is what a query makes of it.  An insert feeds the raw table and the three
views in one step.  `getRequests` is the set of the pages the database may answer: rows of
one millisecond, which `ORDER BY ts` leaves in any order, share the places they take
(`Twins`, `Places`), and each query chooses again.  **Queries** are the SQL of `lib/queries.ts` as
sets; **Forecast** its arithmetic over integers.  **Dashboard** has what each page
computes, and the requests page: `load` is the pending navigation with its two
queries, `push` replaces it, `Render` commits URL and view and re-reads the form
when the filters changed (`Resync`), `Back` shows an earlier entry.

## Runs

| Run | Shows | Bounds and why they suffice |
|---|---|---|
| `batch` | safety and refinement of the buffer | 4 occurrences, 2 handlers, trigger 2, cap 3, 2 attempts: a call can cross the trigger, fill, be refused; a batch can fail, be retried, be cancelled; symmetric in both |
| `ingest` | dedup, acknowledgement, counters, graceful exit | 3 requests overlapping in ids, one ending invalid, trigger 1, cap 2, no restart |
| `ingest_live` | everything accepted settles | 2 overlapping requests, 2 attempts, 1 restart |
| `ingest_ack` | violation, below | a batch, its retry, and one that fills the buffer between |
| `go_queue` | drain, return, refinement | 2 events, channel of 1, batches of 2, 2 attempts, 2 closers, 1 waiter |
| `py_queue` | task count, flush, drain, refinement | queue of 1 so that the sentinel competes, 2 events, 2 attempts, 2 closers, 1 waiter |
| `ts_queue` | order, flush, settling | 4 events, 1 closer, 1 waiter, so that a second batch forms behind a send |
| `alertd` | cooldown, completeness, stop | 2 rules with different cooldowns, 2 targets of which one cannot be posted to, a rule that does not unmarshal, 2 attempts, 2 clock readings |
| `alertd_sigterm` | violation, below | 1 rule, 1 target |
| `ingest_auth` | revocation | 2 keys of one prefix, 2 orgs, 2 calls, TTL 1, 3 clock readings |
| `sdk` | one event per call, its usage, price, attribution and queue, shutdown | a client of each of the 4 adapters, 2 flows, 3 nested contexts, 2 calls, 2 keys, 2 shutdowns |
| `dashboard` | agreement of the pages, completeness of a walk, the form, reconciliation, forecast | 6 events on 4 days in 2 months, two of them of one millisecond, 3 bills of which two are of one day and one a credit, 2 syncs, pages of 2, 3 navigations, 3 midnights at most |


Two runs bound their instance by a constraint, stated in their MC module.  In `sdk`
(`PartAtATime`) contexts and OpenAI's ways to call meet one call and quiet queues, the
queues meet two calls of an Anthropic client and no context, the other adapters a client
that is alone, and a
third level of contexts no stream: the parts share only the events of a call, which
each has.  In `dashboard` (`HalfAtATime`) writers run to every state of the tables with
no reader, and readers over tables that only gain rows and one day: the figures are
functions of the tables, and the requests page reads the raw table alone.  The properties
`Unread...` therefore compare a figure in the states no browser has come to; what is
proved of `RollupsAgree` and `ReconAgree` is of all.

A type invariant stands inside an invariant of the same run (`TasksExact`, `InOrder`,
`ServerAgrees`, `CountersBalance`, `EveryTargetTried`, `OneEventPerCall`); those of the
buffer and the authenticator are theorems.

Deadlock checking is off where a system really ends: every event has been offered
and every caller has returned, or the process is down for good.  The alert worker and
the authenticator go on for ever, and their runs check it; the SDK's program and the
dashboard's visitor may stop.

Each property of a passing run has a mutant in `PROJECT.json`: a definition of the
model in a form a plausible bug would give it (the operators named
`Definition_Fault`), under which TLC finds the property violated.

### What the violations show

1. `ingest_ack`: an id enters the dedup set before Add may refuse the batch, and
   stays.  The retry that the 429 asks for is a duplicate, answered 202, and its
   events are nowhere.  `AckExplained` is the true reading of a 202.
2. `alertd_sigterm`: a SIGTERM between the 2xx of a target and MarkFired loses the
   stamp: MarkFired fails on the cancelled context, the worker stops, and the restarted
   one sends the alert again within its cooldown.  `CooldownHonoured` says when it holds.

### What the properties concede

Where the code does less than a reader would expect, the property says exactly what
it does, and a stronger one fails:

- Go `Flush` may return true while up to a batch waits in the goroutine
  (`FlushLeavesOneBatch`).
- The room Python's shutdown makes for its sentinel can be taken by a producer, and
  the failure is swallowed; the drain is certain once the sentinel is in the queue
  (`SentinelDrains`).
- Of three nested contexts that spell a key `customerId`, `customer_id`, `customerId`
  the middle one wins, although `context.ts:38` has the inner one win; and a stream's
  event takes the context of the flow that last pulled it (`AttributedToInnermost`,
  `Innermost`).
- A streamed call of the Responses API, and a streamed chat with `include_usage`
  false, is billed at zero (`StreamBillsAsCall`, `Metered`).
- A recorder whose queue was shut down loses its events (`QueuesAccounted`), and a
  SIGTERM after an earlier shutdown, or with a queue made after it, exits without
  them (`SigtermDrains`).
- A walk over the pages may miss as many rows at its end as came between the count
  and the rows of the last page; and of rows of one millisecond, where a page ends
  between them, it may list one twice and another never (`WalkShowsAll` is of the rows
  with a timestamp of their own; without that exception TLC refutes it).
- Of several queries of one page the model takes the answers from one state of the tables:
  the overview (`page.tsx:46`) and the reconciliation (`reconciliation/page.tsx:33`) send
  theirs together, so rows that come in between may be in one figure and not in the next.
- `latency_p95` and `out_tokens` of the prompts (`queries.ts:510-511`) are in no page of the
  model, so `MergesInvisible` says nothing of them.
- The cooldown is counted from the clock of one cycle to that of another, as the code
  does, not from the end of a delivery (`CooldownHonoured`).
- The reconciliation's tiles leave out a provider whose bills in the range come to
  nothing or, with credits, to less; its chart one that was never billed (`ReconAgree`).
- The month-end estimate stops at the horizon, at the gap of a missing day the series is
  compressed, and a day of more credit than cost is projected as one of no cost
  (`UnreadForecastFollows`).
- The overview's comparison with last month takes as many days from the first of that
  month as this one has run: after a shorter month it runs into the current one.  The
  model has the query; no property states the span.

### Fairness

Weak fairness of a goroutine, thread or tick says that it is scheduled and that its
calls end, which the code ensures with timeouts (30 s for a flush, 5 s for a
post, 10 s for a delivery).  Strong fairness is used twice, for the `stop` case of
the ingest loop's select and the signal case of alertd's: Go chooses among ready
cases at random, so a ready case is not passed over for ever although a ticker is
ready as often.  In the Go queue a tick on an empty batch changes nothing, so weak
fairness of its goroutine is enough.  Nothing is assumed of requests, enqueues,
signals, crashes, restarts, the answers of servers, or of the callers of flush and
shutdown, but that a closer of the Go queue returns once the goroutine it waits for
has ended.  The invariants of `sdk` and `dashboard` need no fairness.

## Proofs

All theorems hold for every value of the constants under the named assumptions, one per
module (`BatchAssumption`, `IngestAssumption`, `IngestAuthAssumption`,
`GoQueueAssumption`, `PyQueueAssumption`, `TsQueueAssumption`, `AlertdAssumption`,
`RequestsAssumption`, `RepliesAssumption`, `RulesAssumption`, `EventAssumption`, `ModelAssumption`, `BillAssumption`,
`ObjectsAssumption`, `LimitAssumption`, `ForecastAssumption`, `DashboardAssumption`): any finite set of events
or rules, any set of handlers, keys, orgs, closers, waiters, flows, clients or calls, any
trigger, cap, page size and number of attempts.
They say what the code's configuration and schema do: sizes and attempts are positive
numbers, ids of rules are distinct numbers, the rates of a price are numbers, a reply and
the usage in it are objects, a context and the metadata of a call are objects of finitely
many keys, each in a place of its own, an event has a model (ingest refuses one without,
`event.go:170`), a bill is a number and may be a credit, a season has a day.  TLC evaluates each on the instances of the
runs.

Each of these modules has an inductive invariant, a conjunction of named parts; the SDK's and
the dashboard's have others that build on it.  Every
part has a lemma that says which others it needs to survive a step; the properties of
the runs follow from the conjunction.  TLC checked each invariant on the instances of the
runs before it was proved.

**IngestProofs, the buffer.**  `IInv` is `BufferInv`, which speaks of what is in memory and in the
table and holds after a restart too, and `Conservation`, which does not.  `BufferInv` is
the types, `MemoryBounded`, `NoLostWakeup` and

- `Apart`: an event is in the buffer, in one flight, written or lost, never in two;
- `Holding`: a flusher has a batch exactly while it inserts it or waits to, and is
  then at an attempt between 1 and RetryAttempts;
- `Handover`: once main drains, the loop is done and stop is closed.  With `Holding`
  it gives `OneFlusher`;
- `RowCount`: an event outside accepted or in the buffer has no row, and one in
  flight at most as many as attempts were made.  It gives `StoreAgrees`;
- `DrainLeaves`: once the drain swapped the buffer, what it holds came late.  It
  gives `CleanDrain`.

`BatchInductive` proves it; the properties follow.  `BatchImplementsSink` maps the
initial states and every step to a step or stutter of `Sink`, with `IInv`.

**IngestProofs, the process.**  A process that ends takes the buffer with it, so the composed process
keeps `BufferInv` but not `Conservation`.  `ProcessInv` joins to it

- `DedupOnce` itself: the atomic test-and-set of Seen makes it inductive;
- `Handlers` and `Begun`: a handler holds only events behind its index; Add took all of
  what it holds or refused all of it; nothing ahead of the index went anywhere;
- `Explained`: dedup knows only ids of events that passed it, and what a handler passed
  by is held or a duplicate of one that passed.  With `Handlers` it gives `AckExplained`:
  the 202 comes only behind the last event and after Add took what was held;
- `Balance`: received = inserted + dropped + what is on its way.  `PendingIs` says, event
  by event, what is on its way, and `FlushBalance` and `HandlerBalance` count what each
  step takes off.  It gives `CountersBalance`;
- `Kept`: an accepted event is in the buffer, in flight, written or lost, or was in
  memory when a process ended (`gone`): the safety half of `Settled`, across crashes;
- `Stopping`: the stop channel is closed when the HTTP server is, handlers outlive that
  only if its shutdown timed out, and only they add late.  It gives the action property
  `GracefulExit`.

**GoQueueProofs.**  `QueueInv`: an event is in one place (`Places`); what run holds at
each point (`Running`); how often the server may have taken an event by then, which a
lost answer followed by a retry makes more than once (`Deliveries`, for `ServerAgrees`);
run drains only after stop, and once it found the channel empty only late events come
(`Draining`, for `CloseDrains`); a flush that saw an empty channel leaves the batch
(`Promises`, for `FlushLeavesOneBatch`); and the bounds of channel and batch, which the
refinement of `Sink` needs (`GoQueueImplementsSink`).

**PyQueueProofs.**  `Tasks` is the count of unfinished tasks, for `TasksExact`;
`Promises` gives `FlushShips` from it: a count of zero leaves nothing queued or held.
`Sentinels` is what makes the drain complete: the events due, those recorded before the
first sentinel landed, stay ahead of every sentinel in the queue, however many shutdowns
evict from its head and put another at its end, so a thread past any sentinel has no due
event in the queue.  With `Places`, `Running` and `Bounded` it gives `DrainComplete` and
`PyQueueImplementsSink`.

**TsQueueProofs.**  `OneTick`: tick is under way exactly while `flushing` says so, then
holds a batch and counts one in flight; it is why four callers start at most one.
`Ordered`: what was settled, the batch and the buffer, in that order, are what was taken,
in the order it was taken (`InOrder`); `Promises` gives `FlushShips`.

**AlertdProofs.**  `WorkerInv` says of the worker's locals where they are in the cycle:
the rules behind the index were looked at (`Looked`, for `CycleCoversRules`), the targets
behind the other index tried (`Tried`, with `Attempted`, for `EveryTargetTried`), and the
alert in progress is its rule's latest and not marked (`Alerting`).  `Stamps`: only an
alert that was not marked is missing in Postgres; `Copies`: the cycle's copy of a stamp
is Postgres's unless such an alert is pending.  Together they give `CooldownHonoured`,
which is a property of the step that fires.

**IngestAuthProofs.**  `AuthInv` adds to the types and to `StaleAtMostTTL` that clock
readings lie in the past (`ClocksPast`), that a row active now has been active until
now (`ActiveNow`), that a record a call carries between lookup and store was active
when the call had started (`Looked`), that an answer is an org only at the end
(`AnswerLast`), and that an entry expires no later than TTL after the last instant its
key was active for its org (`EntriesExpire`, proved as `AuthEntriesExpire`).  A hit then
answers only before that instant plus TTL (`AuthRevocation`).

**SdkProofs.**  `SdkInv` makes `OneEventPerCall`, `QueuesAccounted` and `SigtermDrains`
inductive:

- `CallsOK`: a call that has not ended has no event and its closure has not emitted; one
  that has ended has one; only a call on a wrapped client streams;
- `QueuesOK`, `RegistryOK`, `RecordersOK`: a queue that stopped in time is empty, the
  registry names exactly the live queues, a recorder's queue exists;
- `TakenOnce`: no queue took a call that has not ended, and at most one took one that has;
- `SignalWaits`: a signal with no shutdown before it waits for all queues that drain.

A step of a call is reduced to two lemmas, `BecomesSdkInv` for a call with a recorder and
`RecordsSdkInv` for one recorded by hand; `FinishesOnce` says why the calls of `finish` in
the loop, the catch and the finally emit once.  What an event contains is left open in
`SdkInv`, so its three theorems hold whatever the adapters and prices compute.

`BillsInv` makes `StreamBillsAsCall` inductive: a stream under way has been fed the chunks
its consumer has seen and nothing else (`Feeding`), a call that waits was fed nothing, and
one that ended is billed as it should be (`CallBills`).  That a stream fed to its end
yields what `parseUsage` reads in the whole response is `StreamsFeed`, by provider and by
the number of chunks; that it then has the same price needs only that `cost` is a function
of the usage; that no usage costs nothing (`NothingIsFree`) needs that the exact or the
longest rule `find` chooses is one of the list (`FindsRule`), which is an induction on the
lengths of the models' names.

`AttrInv` makes `AttributedToInnermost` inductive.  A flow's frames fit (`FramesOK`): the
store after each holds every spelling of the customer with the value the last context to
use it gave (`Holds`), in the order in which the spellings were first used (`Orders`).
Entering a context appends one frame that fits and leaving drops the last (`ContextAttr`),
so `merge` reads in the innermost store exactly what `Innermost` says of the contexts.  A
call keeps the frames it was made in or was last pulled in, and the customer its call site
names (`CallFor`); the event it emits owes its customer to these (`Owes`), whatever its
flow has entered or left meanwhile.  A client's own metadata never names one.

**DashboardProofs.**  `DashInv` has three parts.

- `TablesOK`: each rollup holds every event once, in a row of its key, and the three hold
  the same events, the raw rows among them: a view groups a block by its key
  (`PartitionGrows`), a merge takes a union of rows of one key (`PartitionMerges`).
- `FormInv`: what was not typed since is what the latest push was made of (`FormKept`),
  where a push may be overtaken by another or by Back.  It gives `FormMatchesUrl`.
- `WalkInv`: what is still to be seen and still in the range is in the list of the page
  shown, and what stands before the end of that page was seen (`Chain`); the list of a
  page that is loading holds all of that too, each row after at least as many newer ones
  (`Continued`): a row only moves towards the end of the list, so paging forward cannot
  jump over it, and the rows that leave are at the end.  A row alone in its millisecond has
  one place in whatever order a query answers in (`PageRows`), and was alone in every list
  before it (`Continued`: rows of one millisecond leave together).  `WalkEnds` counts what
  the last page leaves, which gives `WalkShowsAll`.

`BillsOK`, inductive on its own, says that the bills are a finite set, no two of them stamped
alike and none later than the clock: each day then has one last bill (`LastOf`).  `RawsOK`
says that an event the rollups count is a raw row until it expires (`DashboardRaws`).

`SamePages` (and with it `MergesInvisible`) follows from `TablesOK` and `BillsOK` by the
queries alone, in three layers.  What `MapThenSumSet` evaluates is a sum that takes away one
element after the other: `SubsetInduction`, an induction over the subsets of a finite set on
the well-foundedness of their sizes, shows that it exists and does not depend on the order
(`IterExists`, `IterAgree`), and then what it is of a part, of two parts and of a set of
disjoint rows (`SigmaPartRemoves`, `SigmaSplits`, `SigmaOfRows`).  So a sum over the rows of a
rollup is one over the events in them (`EventSums`, `RowSums`), and a grouping of rows by a
column that is one value in each row is that of their events (`GroupsAre`).  A query selects
rows and groups them by columns the rollup's key decides (`KeysDecide`), hence answers the
same of the events apart (`SameOverview` to `SameReconciliation`); the pages are made of
these answers (`SameAllPages`).

`RollupsAgree` is proved from `TablesOK` and `RawsOK` (`SameFigures`).  A range a page may
ask for is younger than the TTL, so the raw rows of it are the events that every rollup
counts there, and whole days are the same by hours, by dates and by timestamps
(`HoursOfDays`).  Each table of a page is then a grouping of one set of events.  That it
sums up to the set takes the algorithms: `Sorted` puts every group once into the sequence
(an induction over the groups), a cut at the limit keeps all of a shorter sequence, and the
sum over the groups of the sums of their rows is that over the rows (`SigmaOfRows`).
`ReconAgree` (`SameSpend`) splits the providers with rows by whether one was ever billed and
by the sign of what it was billed: what the tiles drop of the former is exactly what the
chart has more.  It needs `BillsOK`: a day with two last bills would count twice.

`ForecastFollows` is proved from `TablesOK` (`SameFollows`), for every length of a season of
one day at least and every horizon.  The daily series comes in the order of its days, each
once (`SpendDaily`): `Sorted` takes the earliest of the groups that are left, which have a
day each.  If it has as many days as it spans, each is at its place (`DaysInPlace`).  If it
repeats its first season, every full season is that one (`RepeatedSeasons`), so the fit
starts with its mean as the level, no trend, and what each day differs from the mean
(`OffsetsAre`).  Such a fit is `Learned`, and a day that is as the season has it leaves it so
(`LearnedKeeps`): blending a number with itself gives the number, whatever the weight.  An
induction over the days (`NatsReached`, on the well-foundedness of `<`) carries that to the
end of the series (`HoltWintersLearns`).  A projected day is then the season's, at the place
its date has, and the month-end estimate, a sum over points, is one over the days they stand
for (`PointsSum`).  Of a series that does not
repeat nothing is proved.

It assumes that a raw row is kept longer than a range reaches back (180 days and 90, in
the code), and that the two queries of a page end within a day of its rendering (`InTime`;
the client gives up after 30 seconds).

Only model-checked: every liveness property and, with them, that a shutdown ends
(fairness and ENABLED are beyond the prover).  Every safety property the passing runs check
is a theorem.

## Not modelled, and why

Metrics and logs; the contents of events, payloads and hashes; DNS, TLS and the
HTTP transport beyond "arrived, did not, or arrived unheard"; number formats; what
the dashboard draws, its settings page, which lists rows of Postgres, and the
exponential curve of the forecast; the site and the deployment files.  Python's fork
and interpreter shutdown.  One replica of ingest: dedup is per instance by design.
The clock of dedup is an expiry at any time, which allows every timing and is
therefore safe for the properties stated.  The proxies, adapters, prices and metadata
of the Python and Go SDKs: those of the TypeScript SDK stand for them only where the
code is alike, which nothing here shows.

Assumed, where the code under `src/` does not decide: an insert into `events` reaches
the raw table and its views together; ClickHouse merges rows of one key only; one clock
for all queries of a page; no event is of a day after today when it is inserted, which
`Validate` (`event.go:162`) does not look at; the browser's Back shows the page it had cached; of
two pushes of a router the later wins; divisions of the forecast round down.

Hazards that were found and that neither the list nor a property has: dedup's Seen reads
its clock before the lock (`dedup.go:47`); two instances seed one prefix between SELECT
and INSERT (`pgstore.go:112`); a body larger than the buffer's capacity is refused for
ever (`main.go:124`); an error of Postgres is a 401, on which the SDKs drop a batch
(`auth.go:85`); two snapshots of LoadEnabledRules (`pgstore.go` of alertd); an event that
`json.dumps` cannot serialise is retried like a failed transport (`telemetry.py:187`); one
rule whose scope or config is not a JSON object fails the load of all (`pgstore.go:69-74` of
alertd), so that no rule is evaluated while it is enabled, although `main.go:148-150` has it
that a bad rule cannot block others: the model has it as the guard of `Load`, and
`CycleCoversRules` speaks of loaded rules only.

## Plan

In this order; each step takes the place of the smaller of two runs that ask alike.

1. `Pipeline`: an SDK queue against `Ingest`, events from enqueue to row, with
   retries of ambiguous requests, 429, 401 and 400, and the body too large to fit.
2. `Dedup`: Seen, evict and shards with a clock, reading `now` before the lock; its
   promise is the atomic set `Ingest` uses (refinement).
3. `Billsync`: cycles, pages and ambiguous upserts, in place of the step `SyncBill`.
4. `AlertEval` and the two snapshots of LoadEnabledRules, in place of `over`.
5. The proxies and accumulators of Go and Python, against `Adapters`.
6. `Seed`: two instances seeding around the unique index.
