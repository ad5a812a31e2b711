------------------------------ MODULE Rollups -------------------------------
(***************************************************************************)
(* The ClickHouse tables the dashboard reads                               *)
(* (db/clickhouse/migrations).  An insert into events feeds the rollups,   *)
(* row by row per block; merges combine rows of one key whenever they      *)
(* like, and a reader may come before or after.  A rollup row is the set   *)
(* of events it sums, so that merging rows is taking their union.          *)
(***************************************************************************)
EXTENDS Integers, Sequences, SequencesExt, FiniteSets, FiniteSetsExt

CONSTANTS
  Event,      (* rows the ingest service may insert, ts in ticks             *)
  Bill,       (* rows billsyncd may insert: org, provider, date, billed_usd  *)
  FirstDay,   (* the day the instance begins                                 *)
  LastDay,    (* the day it ends                                             *)
  Ttl,        (* days a raw event is kept                                    *)
  MaxSyncs    (* inserts of billed rows                                      *)

ASSUME EventAssumption ==
  /\ IsFiniteSet(Event)
  /\ \A e \in Event : e.ts \in Nat /\ e.cost \in Int /\ e.tokens \in Int
  /\ FirstDay \in Nat

(* The ingest service refuses an event without a model.                      *)
ASSUME ModelAssumption == \A e \in Event : e.model # ""

ASSUME BillAssumption == \A b \in Bill : b.billed_usd \in Int

Hour == 10    (* ticks *)
Day  == 100

toDate(e) == e.ts \div Day
toStartOfHour(e) == e.ts \div Hour

VARIABLES
  today,               \* today()
  events,              \* raw rows
  cost_daily,          \* SummingMergeTree
  cost_attr_hourly,    \* SummingMergeTree
  prompt_version_daily,\* AggregatingMergeTree
  billed_daily,        \* ReplacingMergeTree(synced_at)
  synced               \* the clock billsyncd stamps synced_at with

rollupVars == <<cost_daily, cost_attr_hourly, prompt_version_daily>>
storeVars == <<today, events, rollupVars, billed_daily, synced>>

(* The ORDER BY keys, by which rows are grouped and merged. *)
DailyKey(e)  == <<e.org, toDate(e), e.provider, e.model>>
AttrKey(e)   == <<e.org, toStartOfHour(e), e.customer, e.feature, e.team>>
PromptKey(e) == <<e.org, toDate(e), e.prompt, e.version, e.model>>
BilledKey(b) == <<b.org, b.provider, b.date>>

Sample(row) == CHOOSE e \in row : TRUE

Grouped(S, Key(_)) == {{e \in S : Key(e) = k} : k \in {Key(e) : e \in S}}

StoreInit ==
  /\ today = FirstDay /\ events = {}
  /\ cost_daily = {} /\ cost_attr_hourly = {} /\ prompt_version_daily = {}
  /\ billed_daily = {} /\ synced = 0

(* A block of events arrives, its days late if it comes to that but none     *)
(* ahead of its time (the ingest service does not look); the three           *)
(* materialized views group it and append.                                  *)
Insert(block) ==
  /\ block # {} /\ \A e \in block : toDate(e) <= today
  /\ \A row \in cost_daily : row \cap block = {}
  /\ events' = events \cup block
  /\ cost_daily' = cost_daily \cup Grouped(block, DailyKey)
  /\ cost_attr_hourly' = cost_attr_hourly \cup Grouped(block, AttrKey)
  /\ prompt_version_daily' = prompt_version_daily \cup Grouped(block, PromptKey)
  /\ UNCHANGED <<today, billed_daily, synced>>

(* A merge leaves one row for each key of the parts it takes: some key, here. *)
Merged(table, Key(_)) ==
  {(table \ same) \cup {UNION same} :
     same \in {{r \in table : Key(Sample(r)) = k} : k \in {Key(Sample(r)) : r \in table}}}

MergeDaily ==
  /\ cost_daily' \in Merged(cost_daily, DailyKey) \ {cost_daily}
  /\ UNCHANGED <<today, events, cost_attr_hourly, prompt_version_daily, billed_daily, synced>>

MergeAttr ==
  /\ cost_attr_hourly' \in Merged(cost_attr_hourly, AttrKey) \ {cost_attr_hourly}
  /\ UNCHANGED <<today, events, cost_daily, prompt_version_daily, billed_daily, synced>>

MergePrompt ==
  /\ prompt_version_daily' \in Merged(prompt_version_daily, PromptKey) \ {prompt_version_daily}
  /\ UNCHANGED <<today, events, cost_daily, cost_attr_hourly, billed_daily, synced>>

(* billsyncd writes a day's bill again, corrected or not, a second later.   *)
SyncBill(b) ==
  /\ synced < MaxSyncs /\ b.date <= today
  /\ synced' = synced + 1
  /\ billed_daily' = billed_daily \cup {[bill |-> b, synced_at |-> synced']}
  /\ UNCHANGED <<today, events, rollupVars>>

MergeBilled ==
  /\ \E old, new \in billed_daily :
       /\ BilledKey(old.bill) = BilledKey(new.bill) /\ old.synced_at < new.synced_at
       /\ billed_daily' = billed_daily \ {old}
  /\ UNCHANGED <<today, events, rollupVars, synced>>

Merge == MergeDaily \/ MergeAttr \/ MergePrompt \/ MergeBilled

(* TTL: raw events go, their rollups stay. *)
ExpireEvents ==
  /\ \E e \in events : toDate(e) + Ttl < today /\ events' = events \ {e}
  /\ UNCHANGED <<today, rollupVars, billed_daily, synced>>

Midnight ==
  /\ today < LastDay /\ today' = today + 1
  /\ UNCHANGED <<events, rollupVars, billed_daily, synced>>

StoreNext ==
  \/ \E block \in kSubset(1, Event) \cup kSubset(2, Event) : Insert(block)
  \/ \E b \in Bill : SyncBill(b)
  \/ Merge \/ ExpireEvents \/ Midnight
=============================================================================
