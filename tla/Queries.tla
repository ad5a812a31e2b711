------------------------------ MODULE Queries -------------------------------
(***************************************************************************)
(* The dashboard's queries (apps/dashboard/lib/queries.ts): each is what   *)
(* its SQL selects from the tables as they are, for one organisation.      *)
(***************************************************************************)
EXTENDS Rollups

CONSTANTS
  MonthDays,      (* days of each month, from the month day 0 is in          *)
  BreakdownLimit  (* LIMIT of the breakdowns                                 *)

ASSUME LimitAssumption == BreakdownLimit \in Nat \ {0}

Cost(S)   == MapThenSumSet(LAMBDA e : e.cost, S)
Tokens(S) == MapThenSumSet(LAMBDA e : e.tokens, S)

(* The rows of a rollup for an organisation and its dates, both inclusive.  *)
Rows(table, org, from, to) ==
  {row \in table : Sample(row).org = org /\ toDate(Sample(row)) \in from..to}

TotalCost(rows)   == MapThenSumSet(Cost, rows)
TotalTokens(rows) == MapThenSumSet(Tokens, rows)
Requests(rows)    == MapThenSumSet(Cardinality, rows)

GroupBy(rows, Key(_)) ==
  {LET group == {r \in rows : Key(Sample(r)) = k}
   IN  [key |-> k, cost_usd |-> TotalCost(group), requests |-> Requests(group)] :
     k \in {Key(Sample(r)) : r \in rows}}

(* ORDER BY: one that comes before all others, then the rest.               *)
Sorted(S, Before(_, _)) ==
  MapThenFoldSet(LAMBDA x, rest : <<x>> \o rest, <<>>, LAMBDA x : x,
                 LAMBDA T : CHOOSE x \in T : \A y \in T : Before(x, y), S)

(* ORDER BY d *)
ByDay(groups) == Sorted(groups, LAMBDA a, b : a.key <= b.key)

(* ORDER BY total_cost DESC LIMIT n *)
Top(groups, n) ==
  LET sorted == Sorted(groups, LAMBDA a, b : a.cost_usd >= b.cost_usd)
  IN  SubSeq(sorted, 1, Min({n, Len(sorted)}))

getOverviewTotals(org, from, to) ==
  LET rows == Rows(cost_daily, org, from, to)
  IN  [cost_usd |-> TotalCost(rows), total_tokens |-> TotalTokens(rows),
       requests |-> Requests(rows)]

getDailySpend(org, from, to) ==
  ByDay(GroupBy(Rows(cost_daily, org, from, to), toDate))

getCostByProvider(org, from, to) ==
  Top(GroupBy(Rows(cost_daily, org, from, to), LAMBDA e : e.provider), 12)

getCostByModel(org, from, to) ==
  Top(GroupBy(Rows(cost_daily, org, from, to), LAMBDA e : e.model), 8)

-----------------------------------------------------------------------------
(* Breakdowns: the table is chosen by the dimensions asked for.             *)

DailyDims == {"provider", "model"}
AttrDims  == {"customer", "feature", "team"}

Label(value) == IF value = "" THEN "(none)" ELSE value

mapBreakdown(groups) ==
  [i \in DOMAIN groups |->
     [groups[i] EXCEPT !.key = [j \in DOMAIN @ |-> Label(@[j])]]]

(* The raw table, a row for each event: hours, bounded by whole days. *)
RawRows(org, from, to) ==
  {{e} : e \in {e \in events : /\ e.org = org
                               /\ e.ts >= from * Day /\ e.ts < to * Day + Day}}

HourRows_ToMidnight(org, from, to) ==
  {row \in cost_attr_hourly :
     LET hour == toStartOfHour(Sample(row)) * Hour
     IN  Sample(row).org = org /\ hour >= from * Day /\ hour <= to * Day}

HourRows(org, from, to) ==
  {row \in cost_attr_hourly :
     LET hour == toStartOfHour(Sample(row)) * Hour
     IN  /\ Sample(row).org = org
         /\ hour >= from * Day /\ hour < to * Day + Day}

(* dims is <<primary>> or <<primary, secondary>>. *)
BreakdownRows(org, from, to, dims) ==
  CASE ToSet(dims) \subseteq DailyDims -> Rows(cost_daily, org, from, to)
    [] ToSet(dims) \subseteq AttrDims  -> HourRows(org, from, to)
    [] OTHER                           -> RawRows(org, from, to)

getBreakdown(org, from, to, dims) ==
  mapBreakdown(Top(GroupBy(BreakdownRows(org, from, to, dims),
                           LAMBDA e : [i \in DOMAIN dims |-> e[dims[i]]]),
                   BreakdownLimit))

getTagBreakdown(org, from, to, tagKey) ==
  mapBreakdown(Top(GroupBy({r \in RawRows(org, from, to) : tagKey \in DOMAIN Sample(r).tags},
                           LAMBDA e : <<e.tags[tagKey]>>),
                   BreakdownLimit))

-----------------------------------------------------------------------------
(* The request list: one page of the raw rows that pass the filters.        *)

FilterKeys == {"provider", "model", "feature", "customer", "trace", "status"}

buildEventFilters(org, f) ==
  {e \in UNION RawRows(org, f.from, f.to) :
     \A k \in FilterKeys \cap DOMAIN f.where : e[k] = f.where[k]}

(* ORDER BY ts DESC and by nothing else: the rows before e, the rows of its  *)
(* millisecond, and the places these share among them.                      *)
Newer(rows, e) == {f \in rows : f.ts > e.ts}
Twins(rows, e) == {f \in rows : f.ts = e.ts}
Place(rows, e) == Cardinality(Newer(rows, e))
Places(rows, e) == Place(rows, e)..(Place(rows, e) + Cardinality(Twins(rows, e)) - 1)

(* LIMIT and OFFSET: what may be on a page, whose order nothing else depends *)
(* on.  Rows of one millisecond come in any order, another at each query.    *)
getRequests(org, f) ==
  LET rows == buildEventFilters(org, f)
      window == f.offset..(f.offset + f.limit - 1)
  IN  {page \in SUBSET rows :
         \A e \in rows : Cardinality(page \cap Twins(rows, e))
                          = Cardinality(window \cap Places(rows, e))}

countRequests(org, f) == Cardinality(buildEventFilters(org, f))

-----------------------------------------------------------------------------
(* Prompts: the states of one prompt, merged by version and model.          *)

listPromptKeys(org) ==
  {Sample(r).prompt : r \in {r \in prompt_version_daily : Sample(r).org = org}} \ {""}

(* Of the columns the output tokens and the 95th percentile of the latencies *)
(* are left out, and with them what merging does to a quantile.              *)
getPromptComparison(org, promptKey, from, to) ==
  {[key |-> g.key, cost_usd |-> g.cost_usd, requests |-> g.requests] :
     g \in GroupBy({r \in Rows(prompt_version_daily, org, from, to) :
                      Sample(r).prompt = promptKey},
                   LAMBDA e : <<Label(e.version), Label(e.model)>>)}

-----------------------------------------------------------------------------
(* Reconciliation: the SDK's sums against the last bill of each day.        *)

BillRows(org, from, to) ==
  {b \in billed_daily : b.bill.org = org /\ b.bill.date \in from..to}

Billed_EveryRow(rows) == MapThenSumSet(LAMBDA b : b.bill.billed_usd, rows)

(* argMax(billed_usd, synced_at) of each provider and date. *)
Billed(rows) ==
  LET latest(k) == CHOOSE b \in rows :
        /\ BilledKey(b.bill) = k
        /\ \A c \in rows : BilledKey(c.bill) = k => c.synced_at <= b.synced_at
  IN  MapThenSumSet(LAMBDA k : latest(k).bill.billed_usd, {BilledKey(b.bill) : b \in rows})

getReconciliationByProvider(org, from, to) ==
  LET rows  == Rows(cost_daily, org, from, to)
      bills == BillRows(org, from, to)
      providers == {Sample(r).provider : r \in rows} \cup {b.bill.provider : b \in bills}
  IN  {[provider |-> p,
        tracked_usd |-> TotalCost({r \in rows : Sample(r).provider = p}),
        billed_usd |-> Billed({b \in bills : b.bill.provider = p})] : p \in providers}

ByDate(rows) == Sorted(rows, LAMBDA a, b : a.date <= b.date)

getReconciliationDaily_AllProviders(org, from, to) ==
  LET rows  == Rows(cost_daily, org, from, to)
      bills == BillRows(org, from, to)
      days  == {toDate(Sample(r)) : r \in rows} \cup {b.bill.date : b \in bills}
  IN  ByDate({[date |-> d,
               tracked_usd |-> TotalCost({r \in rows : toDate(Sample(r)) = d}),
               billed_usd |-> Billed({b \in bills : b.bill.date = d})] : d \in days})

getReconciliationDaily(org, from, to) ==
  LET everBilled == {b.bill.provider : b \in {b \in billed_daily : b.bill.org = org}}
      rows  == {r \in Rows(cost_daily, org, from, to) : Sample(r).provider \in everBilled}
      bills == BillRows(org, from, to)
      days  == {toDate(Sample(r)) : r \in rows} \cup {b.bill.date : b \in bills}
  IN  ByDate({[date |-> d,
               tracked_usd |-> TotalCost({r \in rows : toDate(Sample(r)) = d}),
               billed_usd |-> Billed({b \in bills : b.bill.date = d})] : d \in days})

-----------------------------------------------------------------------------
(* The calendar, and the queries that depend on today().                    *)

MonthStart(m) == FoldLeft(LAMBDA sum, n : sum + n, 0, SubSeq(MonthDays, 1, m - 1))

MonthOf(day) == CHOOSE m \in DOMAIN MonthDays :
  MonthStart(m) <= day /\ day < MonthStart(m) + MonthDays[m]

toStartOfMonth(day) == MonthStart(MonthOf(day))

(* toStartOfMonth(today() - INTERVAL 1 MONTH) *)
LastMonthStart == MonthStart(MonthOf(today) - 1)

MoMPrevious == LastMonthStart..(LastMonthStart + (today - toStartOfMonth(today)))

getMoMTotals(org) ==
  LET own  == {r \in cost_daily : Sample(r).org = org}
      cur  == TotalCost({r \in own : toDate(Sample(r)) >= toStartOfMonth(today)})
      prev == TotalCost({r \in own : toDate(Sample(r)) \in MoMPrevious})
  IN  [current_mtd |-> cur, previous_mtd |-> prev,
       delta_pct |-> IF prev > 0 THEN <<((cur - prev) * 100) \div prev>> ELSE <<>>]

getDailyTotalsForForecast(org, days) == getDailySpend(org, today - days, today - 1)
=============================================================================
