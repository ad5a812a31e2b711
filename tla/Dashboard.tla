----------------------------- MODULE Dashboard ------------------------------
(***************************************************************************)
(* The dashboard (apps/dashboard): what each page computes of the tables,  *)
(* and the requests page as a browser shows it.  A page is rendered on the *)
(* server for the parameters of a URL, its two queries racing the writers  *)
(* of the tables; the browser pushes URLs built from the one it shows, the *)
(* latest push winning, and keeps a form beside them.                      *)
(***************************************************************************)
EXTENDS Forecast

CONSTANTS
  DefaultOrg,  (* COSTOBS_DEFAULT_ORG_SLUG, "" when unset                    *)
  RangeDays,   (* [range keys -> days]                                       *)
  SaneTags,    (* the tag parameters that are well formed                    *)
  PageSize,    (* PAGE_SIZE                                                  *)
  Typed,       (* what is typed: pairs of a field of the form and a value    *)
  MaxVisits    (* URLs pushed                                                *)

(* A raw event is kept longer (180 days) than any range reaches back; the     *)
(* form has a Select for the range, of the options of lib/range.ts.          *)
ASSUME DashboardAssumption ==
  /\ DOMAIN RangeDays = {"7", "30", "90"}
  /\ \A raw \in DOMAIN RangeDays : RangeDays[raw] \in Nat \ {0} /\ RangeDays[raw] <= Ttl
  /\ Ttl \in Nat
  /\ PageSize \in Nat \ {0}
  /\ MaxVisits \in Nat
  /\ \A t \in Typed : t[1] = "range" => t[2] \in DOMAIN RangeDays

VARIABLES
  url,      \* the committed search parameters
  form,     \* v, the state of RequestsFilters
  load,     \* the pending navigation, <<>> when there is none
  view,     \* the page shown, <<>> before the first
  entries,  \* the browser's entries before it, each with its view
  visits,   \* URLs pushed so far
  unsent,   \* the form holds what no shown or pending URL has (ghost)
  walk      \* rows to see since page 1 was loaded, and rows seen (ghost)

browserVars == <<url, form, load, view, entries, visits, unsent, walk>>
vars == <<storeVars, browserVars>>

-----------------------------------------------------------------------------
(* lib/tenant.ts, lib/auth.ts, lib/range.ts                                 *)

(* AuthMode "none"; with "oidc" every page fails.                            *)
currentOrgSlug == IF DefaultOrg = "" THEN "default" ELSE DefaultOrg

parseRange(raw) == IF raw \in {"7", "90"} THEN raw ELSE "30"

resolveRange(raw) ==
  LET key == parseRange(raw)
  IN  [key |-> key, from |-> today - (RangeDays[key] - 1), to |-> today]

-----------------------------------------------------------------------------
(* The pages that only read.  Their queries are sent together, and each is   *)
(* answered when it is: here all of a page read one state of the tables.     *)

KpiCards(kpis) == IF kpis.requests > 0 THEN kpis.cost_usd \div kpis.requests ELSE 0

OverviewPage(raw) ==
  LET org    == currentOrgSlug
      range  == resolveRange(raw)
      totals == getOverviewTotals(org, range.from, range.to)
  IN  IF totals.requests = 0 THEN [gettingStarted |-> TRUE]
      ELSE [kpis       |-> totals, avgCost |-> KpiCards(totals),
            daily      |-> getDailySpend(org, range.from, range.to),
            byProvider |-> getCostByProvider(org, range.from, range.to),
            byModel    |-> getCostByModel(org, range.from, range.to),
            mom        |-> getMoMTotals(org).delta_pct]

parseDim(v, fallback) == IF v \in DailyDims \cup AttrDims THEN <<v>> ELSE fallback

parseTagKey(v) == IF v \in SaneTags THEN v ELSE ""

(* A tag key overrides the dimensions. *)
BreakdownPage(sp) ==
  LET range == resolveRange(sp.range)
      dims  == parseDim(sp.primary, <<"feature">>) \o parseDim(sp.secondary, <<>>)
      tag   == parseTagKey(sp.tag)
  IN  IF tag # "" THEN getTagBreakdown(currentOrgSlug, range.from, range.to, tag)
      ELSE getBreakdown(currentOrgSlug, range.from, range.to, dims)

(* The prompt asked for if it is listed, else the first in some order.      *)
PromptsPage(sp) ==
  LET range == resolveRange(sp.range)
      keys  == listPromptKeys(currentOrgSlug)
      selected == IF sp.prompt_key \in keys THEN sp.prompt_key ELSE CHOOSE k \in keys : TRUE
  IN  IF keys = {} THEN {}
      ELSE getPromptComparison(currentOrgSlug, selected, range.from, range.to)

DriftChip(row) ==
  IF row.billed_usd > 0 /\ row.tracked_usd > 0
  THEN <<((row.billed_usd - row.tracked_usd) * 100) \div row.tracked_usd>>
  ELSE <<>>   \* "no billing data"

TrackedIn(rows) == MapThenSumSet(LAMBDA r : r.tracked_usd, rows)
BilledIn(rows)  == MapThenSumSet(LAMBDA r : r.billed_usd, rows)

ReconciliationView(rows, daily) ==
  LET withBilling == {r \in rows : r.billed_usd > 0}
      tracked == TrackedIn(withBilling)
      billed  == BilledIn(withBilling)
  IN  [tracked |-> tracked, billed |-> billed, untracked |-> AtLeast0(billed - tracked),
       drift |-> {<<r.provider, DriftChip(r)>> : r \in rows}, daily |-> daily]

ReconciliationPage(raw) ==
  LET range == resolveRange(raw)
  IN  ReconciliationView(getReconciliationByProvider(currentOrgSlug, range.from, range.to),
                         getReconciliationDaily(currentOrgSlug, range.from, range.to))

-----------------------------------------------------------------------------
(* The requests page: its parameters, and what the server makes of them.    *)

FormKeys == FilterKeys \cup {"range"}

Bare == [filters |-> [k \in FormKeys |-> ""], page |-> 0]

AsPage(p) == Max({1, p})

(* The prop initial of RequestsFilters. *)
Initial(u) == [u.filters EXCEPT !.range = parseRange(@)]

(* A rendering begins: the range is resolved, the two queries are sent.     *)
RequestsPage(u) ==
  LET range == resolveRange(u.filters.range)
  IN  [to |-> u, rows |-> <<>>, total |-> <<>>, failed |-> FALSE,
       matching |-> {}, counted |-> {},
       query |-> [from |-> range.from, to |-> range.to,
                  where |-> [k \in {k \in FilterKeys : u.filters[k] # ""} |-> u.filters[k]],
                  limit |-> PageSize, offset |-> (AsPage(u.page) - 1) * PageSize]]

totalPages_Floor(total) == Max({1, total \div PageSize})

totalPages(total) == Max({1, (total + PageSize - 1) \div PageSize})

BrowserInit ==
  /\ url = Bare /\ form = Initial(Bare) /\ load = <<>> /\ view = <<>>
  /\ entries = <<>> /\ visits = 0 /\ unsent = FALSE
  /\ walk = [toSee |-> {}, seen |-> {}]

(* router.push: the navigation replaces the one that is pending.            *)
push(u) ==
  /\ visits < MaxVisits /\ visits' = visits + 1
  /\ load' = <<RequestsPage(u)>>

Open ==
  /\ view = <<>> /\ load = <<>> /\ push(Bare)
  /\ UNCHANGED <<url, form, view, entries, unsent, walk>>

setV(k, val) ==
  /\ view # <<>> /\ form[k] # val
  /\ form' = [form EXCEPT ![k] = val] /\ unsent' = TRUE
  /\ UNCHANGED <<url, load, view, entries, visits, walk>>

apply ==
  /\ view # <<>> /\ push([filters |-> form, page |-> 1])
  /\ unsent' = FALSE
  /\ UNCHANGED <<url, form, view, entries, walk>>

reset ==
  /\ view # <<>> /\ push(Bare)
  /\ form' = Initial(Bare) /\ unsent' = FALSE
  /\ UNCHANGED <<url, view, entries, walk>>

(* A pending URL with other filters is forgotten, and what it was sent from *)
(* stays in the form.                                                       *)
Overtaken == load # <<>> /\ Initial(load[1].to) # Initial(url)

(* Prev and Next, where they are enabled. *)
Buttons ==
  IF view = <<>> \/ view[1].failed THEN {}
  ELSE ({view[1].page - 1} \ {0})
       \cup {p \in {view[1].page + 1} : view[1].page < totalPages(view[1].total)}

go(p) ==
  /\ p \in Buttons /\ push([url EXCEPT !.page = p])
  /\ unsent' = (unsent \/ Overtaken)
  /\ UNCHANGED <<url, form, view, entries, walk>>

Pending == load # <<>> /\ ~load[1].failed

(* A query that was answered did not take longer than a day since the range    *)
(* was resolved: the client of ClickHouse gives up before.                   *)
InTime == today <= load[1].query.to + 1

QueryRows ==
  /\ Pending /\ InTime /\ load[1].rows = <<>>
  /\ \E page \in getRequests(currentOrgSlug, load[1].query) :
       load' = <<[load[1] EXCEPT
         !.rows = <<page>>,
         !.matching = buildEventFilters(currentOrgSlug, load[1].query)]>>
  /\ UNCHANGED <<url, form, view, entries, visits, unsent, walk>>

QueryCount ==
  /\ Pending /\ InTime /\ load[1].total = <<>>
  /\ load' = <<[load[1] EXCEPT
       !.total = <<countRequests(currentOrgSlug, load[1].query)>>,
       !.counted = buildEventFilters(currentOrgSlug, load[1].query)]>>
  /\ UNCHANGED <<url, form, view, entries, visits, unsent, walk>>

QueryFails ==
  /\ Pending /\ (load[1].rows = <<>> \/ load[1].total = <<>>)
  /\ load' = <<[load[1] EXCEPT !.failed = TRUE]>>
  /\ UNCHANGED <<url, form, view, entries, visits, unsent, walk>>

Resync_OnMountOnly(u) == unsent' = (unsent \/ Overtaken) /\ UNCHANGED form

(* useEffect on JSON.stringify(initial) *)
Resync(u) ==
  IF Initial(u) # Initial(url) THEN form' = Initial(u) /\ unsent' = FALSE
  ELSE unsent' = (unsent \/ Overtaken) /\ UNCHANGED form

Shown(l) ==
  [page |-> AsPage(l.to.page), failed |-> l.failed,
   rows |-> OrElse(l.rows, {}), total |-> OrElse(l.total, 0),
   matching |-> l.matching, counted |-> l.counted]

Render ==
  /\ load # <<>> /\ (load[1].failed \/ (load[1].rows # <<>> /\ load[1].total # <<>>))
  /\ LET shown == Shown(load[1])
         seen  == IF shown.failed THEN {} ELSE shown.rows
     IN  /\ view' = <<shown>>
         /\ walk' = IF shown.page > 1 THEN [walk EXCEPT !.seen = @ \cup seen]
                    ELSE [toSee |-> IF shown.failed THEN {} ELSE shown.matching,
                          seen |-> seen]
  /\ url' = load[1].to /\ load' = <<>> /\ Resync(load[1].to)
  /\ entries' = IF view = <<>> THEN entries ELSE Append(entries, [url |-> url, view |-> view])
  /\ UNCHANGED visits

(* The browser's back button shows an entry again as it was.                *)
Back ==
  /\ entries # <<>>
  /\ url' = Last(entries).url /\ view' = Last(entries).view
  /\ entries' = Front(entries) /\ load' = <<>> /\ Resync(Last(entries).url)
  /\ walk' = [toSee |-> {}, seen |-> {}]
  /\ UNCHANGED visits

Browse ==
  \/ Open \/ apply \/ reset \/ Back
  \/ \E t \in Typed : setV(t[1], t[2])
  \/ \E p \in Buttons : go(p)
  \/ QueryRows \/ QueryCount \/ QueryFails \/ Render

Init == StoreInit /\ BrowserInit

Next == (StoreNext /\ UNCHANGED browserVars) \/ (Browse /\ UNCHANGED storeVars)

Spec == Init /\ [][Next]_vars

-----------------------------------------------------------------------------
Orgs == {e.org : e \in Event}

AllDims == {<<d>> : d \in DailyDims \cup AttrDims}
           \cup {<<"provider", "model">>, <<"customer", "feature">>, <<"model", "team">>}

SumOf(groups, Field(_)) == Total([i \in DOMAIN groups |-> Field(groups[i])])

SumsUp(groups, rows) ==
  /\ SumOf(groups, LAMBDA g : g.cost_usd) = Cost(rows)
  /\ SumOf(groups, LAMBDA g : g.requests) = Cardinality(rows)

UncutSumsUp(groups, limit, rows) == Len(groups) < limit => SumsUp(groups, rows)

RequestsOfGroups(groups) == MapThenSumSet(LAMBDA g : g.requests, groups)

Tagged(rows, key) == {e \in rows : key \in DOMAIN e.tags}

FiguresAgree(org, from, to) ==
  LET rows == UNION RawRows(org, from, to)
  IN  /\ getOverviewTotals(org, from, to)
           = [cost_usd |-> Cost(rows), total_tokens |-> Tokens(rows),
              requests |-> Cardinality(rows)]
      /\ SumsUp(getDailySpend(org, from, to), rows)
      /\ UncutSumsUp(getCostByProvider(org, from, to), 12, rows)
      /\ UncutSumsUp(getCostByModel(org, from, to), 8, rows)
      /\ \A dims \in AllDims :
           UncutSumsUp(getBreakdown(org, from, to, dims), BreakdownLimit, rows)
      /\ \A p \in listPromptKeys(org) :
           RequestsOfGroups(getPromptComparison(org, p, from, to))
             = Cardinality({e \in rows : e.prompt = p})
      /\ \A key \in SaneTags :
           UncutSumsUp(getTagBreakdown(org, from, to, key), BreakdownLimit, Tagged(rows, key))
      /\ \A g \in ToSet(getBreakdown(org, from, to, <<"model">>)) :
           g.requests = countRequests(org, [from |-> from, to |-> to,
                                            where |-> [model |-> g.key[1]]])

(* Wherever a cost is shown it is the same: the overview, its daily series   *)
(* and its tables, every breakdown (of the daily rollup, of the hourly one,  *)
(* of the raw rows) and the prompts agree, for each organisation alone, on   *)
(* the events of the range, whether or not parts were merged and however     *)
(* late events came.  A table that was not cut at its limit sums up to that. *)
(* A model's row of a breakdown counts the requests listed of the model.     *)
RollupsAgree ==
  \A org \in Orgs, raw \in DOMAIN RangeDays :
    FiguresAgree(org, resolveRange(raw).from, resolveRange(raw).to)

(* The figures depend on the tables alone, and a browser changes no table: an  *)
(* instance compares them in the states no browser has come to.              *)
UnreadRollupsAgree == visits = 0 => RollupsAgree

(* What the pages that only read show of a range, each of one state of the   *)
(* tables, but for two columns of the prompts (see getPromptComparison).     *)
Pages(raw) ==
  [overview |-> OverviewPage(raw), reconciliation |-> ReconciliationPage(raw),
   forecast |-> ForecastPage(currentOrgSlug),
   prompts |-> PromptsPage([range |-> raw, prompt_key |-> ""]),
   breakdown |-> [dim \in {"", "customer", "model"} |-> [tag \in {""} \cup SaneTags |->
     BreakdownPage([range |-> raw, primary |-> dim, secondary |-> "provider", tag |-> tag])]]]

(* The rows of a list that no other row of it shares the millisecond with.   *)
Alone(rows) == {e \in rows : Twins(rows, e) = {e}}

(* Whoever pages from the first to the last page of a list has seen every    *)
(* request that was in it when page 1 was loaded, is in it still and has a   *)
(* timestamp of its own there, however many came in or left its range on the *)
(* way, but for as many at the end as came between the count and the rows of *)
(* the last page.  Of rows of one millisecond nothing is promised: where a   *)
(* page ends between them, one may be listed twice and another never.        *)
WalkShowsAll ==
  (view # <<>> /\ ~view[1].failed /\ view[1].page >= totalPages(view[1].total)) =>
    Cardinality((walk.toSee \cap Alone(view[1].matching)) \ walk.seen)
      <= Cardinality(view[1].matching \ view[1].counted)

(* With no navigation pending, the form shows the filters of the list below  *)
(* it, unless something typed was not sent: typed after the last apply, or   *)
(* sent in a push that another overtook.                                     *)
FormMatchesUrl == (load = <<>> /\ ~unsent) => form = Initial(url)

SpendReconciles(org, from, to) ==
  LET rows  == getReconciliationByProvider(org, from, to)
      daily == getReconciliationDaily(org, from, to)
      tiles == ReconciliationView(rows, daily)
      everBilled == {b.bill.provider : b \in {b \in billed_daily : b.bill.org = org}}
      outside == {r \in rows : r.provider \in everBilled /\ r.billed_usd <= 0}
  IN  /\ SumOf(daily, LAMBDA d : d.billed_usd) = tiles.billed + BilledIn(outside)
      /\ SumOf(daily, LAMBDA d : d.tracked_usd) = tiles.tracked + TrackedIn(outside)

(* The tiles and the daily chart of the reconciliation differ by exactly     *)
(* what was tracked, and billed, of the providers that were billed once and  *)
(* of which the bills in the range come to nothing, or less.                 *)
ReconAgree ==
  \A org \in Orgs, raw \in DOMAIN RangeDays :
    SpendReconciles(org, resolveRange(raw).from, resolveRange(raw).to)

(* As UnreadRollupsAgree. *)
UnreadReconAgree == visits = 0 => ReconAgree

(* A history of two seasons at least, without a missing day, that repeats.   *)
Repeats(history, ys) ==
  LET n == Len(history)
  IN  /\ n >= 2 * Season /\ history[n].key = history[1].key + n - 1
      /\ \A i \in 1..(n - Season) : ys[i] = ys[i + Season]

(* What a day of it costs, or one it would go on to.                         *)
Spent(history, ys, day) ==
  LET again == ys[((day - history[1].key) % Season) + 1]
  IN  IF day <= history[Len(history)].key THEN again ELSE AtLeast0(again)

SpentIn(history, ys, days) == MapThenSumSet(LAMBDA day : Spent(history, ys, day), days)

Continues(history, ys, result) ==
  LET n == Len(history)
      last == history[n].key
      inMonth == toStartOfMonth(today)..monthEnd
  IN  Repeats(history, ys) =>
        /\ \A h \in 1..Horizon :
             /\ result.points[n + h].date = last + h
             /\ result.points[n + h].seasonal = <<Spent(history, ys, last + h)>>
        /\ result.monthEndEstimateSeasonal =
             <<SpentIn(history, ys, inMonth \cap history[1].key..(last + Horizon))>>

(* A history without a missing day that repeats its season is continued as   *)
(* it is, from the day after its last, but a day of more credit than cost as *)
(* one of no cost; the month-end estimate adds to the month's days of it the *)
(* days it continues to, today among them, up to the end of the month or of  *)
(* the horizon.                                                              *)
ForecastFollows ==
  \A org \in Orgs :
    LET history == getDailyTotalsForForecast(org, History)
    IN  Continues(history, [i \in DOMAIN history |-> history[i].cost_usd],
                  buildForecast(history, Horizon))

(* As UnreadRollupsAgree. *)
UnreadForecastFollows == visits = 0 => ForecastFollows
=============================================================================
