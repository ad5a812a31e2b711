-------------------------- MODULE DashboardProofs ---------------------------
(***************************************************************************)
(* Proofs about Dashboard for every set of events, ranges, typed values,    *)
(* page size and length of the instance.                                    *)
(*                                                                          *)
(* TablesOK is about the tables: whatever parts are merged, each rollup     *)
(* holds every event once, in a row of its key.  FormInv is about the form  *)
(* of the requests page: what it shows is what the latest push was made of. *)
(* WalkInv is about a walk over the pages: what was seen up to the page     *)
(* shown (Chain), and why the page that is loading continues it (Continued).*)
(* RawsOK is about the raw rows: an event is one until it expires.  BillsOK *)
(* is about the bills: each was written at a second of its own.             *)
(*                                                                          *)
(* What the pages show are sums over finite sets, in some order or by some  *)
(* choice of the next element.  Sigma is the sum that no such choice can    *)
(* change; the sections about sums prove that each one the queries make is  *)
(* it, and that it is the same of rows, of groups of them and of events.    *)
(***************************************************************************)
EXTENDS Merges, SequenceTheorems, FiniteSetTheorems, WellFoundedInduction, TLAPS

-----------------------------------------------------------------------------
(* The tables.                                                              *)

DailyOf  == [e \in Event |-> DailyKey(e)]
AttrOf   == [e \in Event |-> AttrKey(e)]
PromptOf == [e \in Event |-> PromptKey(e)]

\* A rollup holds each event in one row, with others of its key only.
Partition(table, key) ==
  /\ \A row \in table : row # {} /\ row \subseteq Event
  /\ \A row \in table : \A d, e \in row : key[d] = key[e]
  /\ \A q, r \in table : q \cap r # {} => q = r

TablesOK ==
  /\ today \in Nat
  /\ Partition(cost_daily, DailyOf)
  /\ Partition(cost_attr_hourly, AttrOf)
  /\ Partition(prompt_version_daily, PromptOf)
  /\ UNION cost_daily \subseteq Event
  /\ UNION cost_attr_hourly = UNION cost_daily
  /\ UNION prompt_version_daily = UNION cost_daily
  /\ events \subseteq UNION cost_daily
  /\ \A e \in events : toDate(e) <= today

-----------------------------------------------------------------------------
(* What the browser holds.                                                  *)

Value == {"", "30"} \cup {t[2] : t \in Typed} \cup DOMAIN RangeDays

Filters == [FormKeys -> Value]

Url == [filters : Filters, page : Nat]

Maybe(S) == {<<>>} \cup [1..1 -> S]

View == [page : Nat \ {0}, failed : BOOLEAN, rows : SUBSET Event, total : Nat,
         matching : SUBSET Event, counted : SUBSET Event]

Query == [from : Int, to : Nat, where : UNION {[K -> Value] : K \in SUBSET FilterKeys},
          limit : {PageSize}, offset : Nat]

Loading == [to : Url, rows : Maybe(SUBSET Event), total : Maybe(Nat), failed : BOOLEAN,
            matching : SUBSET Event, counted : SUBSET Event, query : Query]

BrowserTypeOK ==
  /\ url \in Url
  /\ form \in Filters /\ form["range"] \in DOMAIN RangeDays
  /\ load \in Maybe(Loading)
  /\ view \in Maybe(View)
  /\ entries \in Seq([url : Url, view : Maybe(View)])
  /\ visits \in Nat /\ unsent \in BOOLEAN
  /\ walk \in [toSee : SUBSET Event, seen : SUBSET Event]

\* Before the first page is shown its URL has no parameters; no entry of the
\* browser is without a page.
Opened ==
  /\ view = <<>> => url = Bare
  /\ \A n \in DOMAIN entries : entries[n].view # <<>>

\* What was not typed since is what the latest push was made of.
Latest == IF load = <<>> THEN url ELSE load[1].to

FormKept == ~unsent => form = Initial(Latest)

FormInv == BrowserTypeOK /\ Opened /\ FormKept

-----------------------------------------------------------------------------
(* What a page and a walk show.                                             *)

\* The days of a range, and what passes the filters of a URL.
Span(u) == RangeDays[parseRange(u.filters["range"])] - 1

Where(u) == [k \in {k \in FilterKeys : u.filters[k] # ""} |-> u.filters[k]]

Passes(u, e) ==
  /\ e.org = currentOrgSlug
  /\ \A k \in FilterKeys : u.filters[k] # "" => e[k] = u.filters[k]

\* A row selected stays in the table until it expires.
KeptOrExpired(e) ==
  /\ e \in UNION cost_daily /\ toDate(e) <= today
  /\ e \in events \/ toDate(e) + Ttl < today

\* The queries of a page that is loading, and their answers.
Asked(l) ==
  /\ l.query.to <= today
  /\ l.query.from = l.query.to - Span(l.to)
  /\ l.query.where = Where(l.to)
  /\ l.query.offset = (AsPage(l.to.page) - 1) * PageSize

\* A page has the rows of its places, as far as these are determined.
Window(l) == l.query.offset..(l.query.offset + PageSize - 1)

OnPage(l) ==
  /\ l.rows[1] \subseteq l.matching
  /\ \A e \in Alone(l.matching) : e \in l.rows[1] <=> Place(l.matching, e) \in Window(l)

Answered(l) ==
  /\ l.rows = <<>> => l.matching = {}
  /\ l.rows # <<>> =>
       /\ OnPage(l)
       /\ \A e \in l.matching : Passes(l.to, e) /\ KeptOrExpired(e)
  /\ l.total # <<>> => l.total[1] = Cardinality(l.counted)

\* The page shown: what it lists still passes its filters, what is to be seen and is
\* still in the range is in its list, and what comes before its end was seen.
Chain(v) ==
  /\ \A e \in v.matching : Passes(url, e) /\ KeptOrExpired(e)
  /\ \A e \in walk.toSee \cap events : toDate(e) >= today - Span(url) => e \in v.matching
  /\ \A e \in walk.toSee \cap Alone(v.matching) :
       Place(v.matching, e) < v.page * PageSize => e \in walk.seen

\* A page beyond the first that is loading is the one before or after the page
\* shown; it lists what that one listed, unless it left the range, after at least
\* as many newer rows and with the others of its millisecond.
Continued(l, v) ==
  /\ l.to.filters = url.filters /\ l.to.page <= v.page + 1
  /\ \A e \in v.matching : toDate(e) <= l.query.to
  /\ \A e \in walk.toSee \cap events : toDate(e) >= l.query.from => e \in v.matching
  /\ l.rows # <<>> =>
       /\ \A e \in walk.toSee \cap events : toDate(e) >= l.query.from => e \in l.matching
       /\ \A e \in walk.toSee \cap l.matching :
            /\ e \in v.matching
            /\ Newer(v.matching, e) \subseteq Newer(l.matching, e)
            /\ Twins(v.matching, e) \subseteq Twins(l.matching, e)

\* A page that did not fail shows how many rows were counted for it.
Counted(v) == ~v.failed => v.total = Cardinality(v.counted)

WalkInv ==
  /\ walk.toSee \subseteq UNION cost_daily
  /\ load # <<>> => Asked(load[1]) /\ Answered(load[1])
  /\ view # <<>> => Counted(view[1])
  /\ \A n \in DOMAIN entries : Counted(entries[n].view[1])
  /\ load # <<>> /\ load[1].to.page > 1 => view # <<>> /\ ~view[1].failed
  /\ view # <<>> /\ ~view[1].failed /\ walk.toSee # {} =>
       /\ Chain(view[1])
       /\ load # <<>> /\ load[1].to.page > 1 => Continued(load[1], view[1])

DashInv == TablesOK /\ FormInv /\ WalkInv

-----------------------------------------------------------------------------
(* The tables: inserts and merges.                                          *)

\* The rows a view makes of a block: one for each key in it.
Views(rows, block, key) ==
  \A row : row \in rows <=> \E d \in block : row = {e \in block : key[e] = key[d]}

\* What a merge leaves: the rows of one key have become one.
Merges(merged, table, key) ==
  \E same \in SUBSET table :
    /\ same # {} /\ merged = (table \ same) \cup {UNION same}
    /\ \A q, r \in same : key[Sample(q)] = key[Sample(r)]

\* Rows grouped from a block of new events join a rollup as further rows.
LEMMA PartitionGrows ==
  ASSUME NEW table, NEW key, Partition(table, key),
         NEW block, block \subseteq Event, block \cap UNION table = {},
         NEW rows, Views(rows, block, key)
  PROVE  Partition(table \cup rows, key) /\ UNION (table \cup rows) = (UNION table) \cup block
  <1> DEFINE all == table \cup rows
  <1>1. /\ \A row \in rows : row # {} /\ row \subseteq block
        /\ \A row \in rows : \A d, e \in row : key[d] = key[e]
        /\ \A q, r \in rows : q \cap r # {} => q = r
    <2>1. ASSUME NEW row \in rows
          PROVE  row # {} /\ row \subseteq block /\ \A d, e \in row : key[d] = key[e]
      <3>1. PICK d \in block : row = {e \in block : key[e] = key[d]}
        BY DEF Views
      <3>2. d \in row
        BY <3>1
      <3> QED
        BY <3>1, <3>2
    <2>2. ASSUME NEW q \in rows, NEW r \in rows, NEW e \in q \cap r
          PROVE  q = r
      <3>1. PICK d \in block : q = {x \in block : key[x] = key[d]}
        BY DEF Views
      <3>2. PICK f \in block : r = {x \in block : key[x] = key[f]}
        BY DEF Views
      <3>3. key[d] = key[f]
        BY <2>2, <3>1, <3>2
      <3> QED
        BY <3>1, <3>2, <3>3
    <2> QED
      BY <2>1, <2>2
  <1>2. \A d \in block : \E row \in rows : d \in row
    <2>1. ASSUME NEW d \in block
          PROVE  \E row \in rows : d \in row
      <3>1. {e \in block : key[e] = key[d]} \in rows /\ d \in {e \in block : key[e] = key[d]}
        BY DEF Views
      <3> QED
        BY <3>1
    <2> QED
      BY <2>1
  <1>3. \A q \in table : \A r \in rows : q \cap r = {}
    BY <1>1
  <1>4. Partition(all, key)
    <2>1. \A row \in all : row # {} /\ row \subseteq Event
      BY <1>1 DEF Partition
    <2>2. \A row \in all : \A d, e \in row : key[d] = key[e]
      BY <1>1 DEF Partition
    <2>3. \A q, r \in all : q \cap r # {} => q = r
      BY <1>1, <1>3 DEF Partition
    <2> HIDE DEF all
    <2> QED
      BY <2>1, <2>2, <2>3 DEF Partition
  <1>5. UNION rows = block
    BY <1>1, <1>2
  <1> QED
    BY <1>4, <1>5

\* A merge of the rows of one key leaves one row of that key, and loses no event.
LEMMA PartitionMerges ==
  ASSUME NEW table, NEW key, Partition(table, key),
         NEW merged, Merges(merged, table, key)
  PROVE  Partition(merged, key) /\ UNION merged = UNION table
  <1>0. PICK same \in SUBSET table :
          /\ same # {} /\ merged = (table \ same) \cup {UNION same}
          /\ \A q, r \in same : key[Sample(q)] = key[Sample(r)]
    BY DEF Merges
  <1>1. ASSUME NEW row \in table
        PROVE  Sample(row) \in row
    <2>1. \E e \in row : TRUE
      BY DEF Partition
    <2> QED
      BY <2>1 DEF Sample
  <1>2. UNION same # {} /\ UNION same \subseteq Event
    BY <1>0 DEF Partition
  <1>3. ASSUME NEW d \in UNION same, NEW e \in UNION same
        PROVE  key[d] = key[e]
    <2>1. PICK q \in same, r \in same : d \in q /\ e \in r
      BY <1>3
    <2> QED
      BY <1>0, <1>1, <2>1 DEF Partition
  <1>4. \A q \in table \ same : q \cap UNION same = {}
    BY <1>0 DEF Partition
  <1>5. Partition(merged, key)
    <2>1. \A row \in merged : row # {} /\ row \subseteq Event
      BY <1>0, <1>2 DEF Partition
    <2>2. \A row \in merged : \A d, e \in row : key[d] = key[e]
      BY <1>0, <1>3 DEF Partition
    <2>3. \A q, r \in merged : q \cap r # {} => q = r
      <3>1. ASSUME NEW q \in merged, NEW r \in merged, q \cap r # {}, q \in table \ same
            PROVE  q = r
        <4>1. r \in table \ same
          BY <1>0, <1>4, <3>1
        <4> QED
          BY <3>1, <4>1 DEF Partition
      <3>2. ASSUME NEW q \in merged, NEW r \in merged, q \cap r # {}, q = UNION same
            PROVE  q = r
        BY <1>0, <1>4, <3>2
      <3> QED
        BY <1>0, <3>1, <3>2
    <2> QED
      BY <2>1, <2>2, <2>3 DEF Partition
  <1>6. UNION merged = UNION table
    BY <1>0
  <1> QED
    BY <1>5, <1>6

\* GROUP BY of the three views groups by their keys.
LEMMA Groups ==
  ASSUME NEW block, block \subseteq Event
  PROVE  /\ Views(Grouped(block, DailyKey), block, DailyOf)
         /\ Views(Grouped(block, AttrKey), block, AttrOf)
         /\ Views(Grouped(block, PromptKey), block, PromptOf)
  <1>1. Views(Grouped(block, DailyKey), block, DailyOf)
    <2> DEFINE Same(d) == {e \in block : DailyKey(e) = DailyKey(d)}
    <2>1. \A d \in block : Same(d) = {e \in block : DailyOf[e] = DailyOf[d]}
      BY DEF DailyOf
    <2>2. \A row : row \in Grouped(block, DailyKey) <=> \E d \in block : row = Same(d)
      BY DEF Grouped
    <2> HIDE DEF Same
    <2> QED
      BY <2>1, <2>2 DEF Views
  <1>2. Views(Grouped(block, AttrKey), block, AttrOf)
    <2> DEFINE Same(d) == {e \in block : AttrKey(e) = AttrKey(d)}
    <2>1. \A d \in block : Same(d) = {e \in block : AttrOf[e] = AttrOf[d]}
      BY DEF AttrOf
    <2>2. \A row : row \in Grouped(block, AttrKey) <=> \E d \in block : row = Same(d)
      BY DEF Grouped
    <2> HIDE DEF Same
    <2> QED
      BY <2>1, <2>2 DEF Views
  <1>3. Views(Grouped(block, PromptKey), block, PromptOf)
    <2> DEFINE Same(d) == {e \in block : PromptKey(e) = PromptKey(d)}
    <2>1. \A d \in block : Same(d) = {e \in block : PromptOf[e] = PromptOf[d]}
      BY DEF PromptOf
    <2>2. \A row : row \in Grouped(block, PromptKey) <=> \E d \in block : row = Same(d)
      BY DEF Grouped
    <2> HIDE DEF Same
    <2> QED
      BY <2>1, <2>2 DEF Views
  <1> QED
    BY <1>1, <1>2, <1>3

\* What a merge takes out and puts in.
LEMMA Merging ==
  ASSUME NEW table, \A row \in table : row # {} /\ row \subseteq Event, NEW merged
  PROVE  /\ merged \in Merged(table, DailyKey) => Merges(merged, table, DailyOf)
         /\ merged \in Merged(table, AttrKey) => Merges(merged, table, AttrOf)
         /\ merged \in Merged(table, PromptKey) => Merges(merged, table, PromptOf)
  <1>1. ASSUME NEW row \in table
        PROVE  Sample(row) \in Event
    <2>1. \E e \in row : TRUE
      OBVIOUS
    <2> QED
      BY <2>1 DEF Sample
  <1>2. ASSUME merged \in Merged(table, DailyKey)
        PROVE  Merges(merged, table, DailyOf)
    <2>1. PICK s \in table :
            LET same == {r \in table : DailyKey(Sample(r)) = DailyKey(Sample(s))}
            IN  merged = (table \ same) \cup {UNION same}
      BY <1>2, SMTT(30) DEF Merged
    <2> DEFINE same == {r \in table : DailyKey(Sample(r)) = DailyKey(Sample(s))}
    <2>2. same \in SUBSET table /\ same # {} /\ merged = (table \ same) \cup {UNION same}
      BY <2>1
    <2>3. \A q, r \in same : DailyOf[Sample(q)] = DailyOf[Sample(r)]
      BY <1>1 DEF DailyOf
    <2> HIDE DEF same
    <2> QED
      BY <2>2, <2>3 DEF Merges
  <1>3. ASSUME merged \in Merged(table, AttrKey)
        PROVE  Merges(merged, table, AttrOf)
    <2>1. PICK s \in table :
            LET same == {r \in table : AttrKey(Sample(r)) = AttrKey(Sample(s))}
            IN  merged = (table \ same) \cup {UNION same}
      BY <1>3 DEF Merged
    <2> DEFINE same == {r \in table : AttrKey(Sample(r)) = AttrKey(Sample(s))}
    <2>2. same \in SUBSET table /\ same # {} /\ merged = (table \ same) \cup {UNION same}
      BY <2>1
    <2>3. \A q, r \in same : AttrOf[Sample(q)] = AttrOf[Sample(r)]
      BY <1>1 DEF AttrOf
    <2> HIDE DEF same
    <2> QED
      BY <2>2, <2>3 DEF Merges
  <1>4. ASSUME merged \in Merged(table, PromptKey)
        PROVE  Merges(merged, table, PromptOf)
    <2>1. PICK s \in table :
            LET same == {r \in table : PromptKey(Sample(r)) = PromptKey(Sample(s))}
            IN  merged = (table \ same) \cup {UNION same}
      BY <1>4 DEF Merged
    <2> DEFINE same == {r \in table : PromptKey(Sample(r)) = PromptKey(Sample(s))}
    <2>2. same \in SUBSET table /\ same # {} /\ merged = (table \ same) \cup {UNION same}
      BY <2>1
    <2>3. \A q, r \in same : PromptOf[Sample(q)] = PromptOf[Sample(r)]
      BY <1>1 DEF PromptOf
    <2> HIDE DEF same
    <2> QED
      BY <2>2, <2>3 DEF Merges
  <1> QED
    BY <1>2, <1>3, <1>4

\* The parts of TablesOK depend on no more than they say.
LEMMA SameTables ==
  ASSUME TablesOK, UNCHANGED <<today, events>>,
         Partition(cost_daily', DailyOf), UNION cost_daily' = UNION cost_daily,
         Partition(cost_attr_hourly', AttrOf), UNION cost_attr_hourly' = UNION cost_attr_hourly,
         Partition(prompt_version_daily', PromptOf),
         UNION prompt_version_daily' = UNION prompt_version_daily
  PROVE  TablesOK'
  BY DEF TablesOK, DailyOf, AttrOf, PromptOf, DailyKey, AttrKey, PromptKey, toDate, toStartOfHour, Partition

\* Every step of a writer keeps the tables, whatever is merged, late or expired.
LEMMA StepTables ==
  ASSUME TablesOK, StoreNext
  PROVE  TablesOK'
  <1> USE DEF TablesOK, rollupVars
  <1>1. ASSUME NEW block \in kSubset(1, Event) \cup kSubset(2, Event), Insert(block)
        PROVE  TablesOK'
    <2>1. block \subseteq Event
      BY DEF kSubset
    <2>2. /\ block \cap UNION cost_daily = {} /\ \A e \in block : toDate(e) <= today
          /\ UNCHANGED today /\ events' = events \cup block
          /\ cost_daily' = cost_daily \cup Grouped(block, DailyKey)
          /\ cost_attr_hourly' = cost_attr_hourly \cup Grouped(block, AttrKey)
          /\ prompt_version_daily' = prompt_version_daily \cup Grouped(block, PromptKey)
      BY <1>1 DEF Insert
    <2>3. /\ block \cap UNION cost_attr_hourly = {} /\ block \cap UNION prompt_version_daily = {}
      BY <2>2
    <2>4. Partition(cost_daily', DailyOf) /\ UNION cost_daily' = (UNION cost_daily) \cup block
      <3> DEFINE rows == Grouped(block, DailyKey)
      <3>1. Views(rows, block, DailyOf)
        BY <2>1, Groups
      <3>2. Partition(cost_daily, DailyOf) /\ block \cap UNION cost_daily = {}
        BY <2>2, <2>3
      <3>3. cost_daily' = cost_daily \cup rows
        BY <2>2
      <3> HIDE DEF rows, TablesOK
      <3>4. Partition(cost_daily \cup rows, DailyOf) /\ UNION (cost_daily \cup rows) = (UNION cost_daily) \cup block
        BY <2>1, <3>1, <3>2, PartitionGrows
      <3> QED
        BY <3>3, <3>4 DEF DailyOf
    <2>5. Partition(cost_attr_hourly', AttrOf) /\ UNION cost_attr_hourly' = (UNION cost_attr_hourly) \cup block
      <3> DEFINE rows == Grouped(block, AttrKey)
      <3>1. Views(rows, block, AttrOf)
        BY <2>1, Groups
      <3>2. Partition(cost_attr_hourly, AttrOf) /\ block \cap UNION cost_attr_hourly = {}
        BY <2>2, <2>3
      <3>3. cost_attr_hourly' = cost_attr_hourly \cup rows
        BY <2>2
      <3> HIDE DEF rows, TablesOK
      <3>4. Partition(cost_attr_hourly \cup rows, AttrOf) /\ UNION (cost_attr_hourly \cup rows) = (UNION cost_attr_hourly) \cup block
        BY <2>1, <3>1, <3>2, PartitionGrows
      <3> QED
        BY <3>3, <3>4 DEF AttrOf
    <2>6. Partition(prompt_version_daily', PromptOf) /\ UNION prompt_version_daily' = (UNION prompt_version_daily) \cup block
      <3> DEFINE rows == Grouped(block, PromptKey)
      <3>1. Views(rows, block, PromptOf)
        BY <2>1, Groups
      <3>2. Partition(prompt_version_daily, PromptOf) /\ block \cap UNION prompt_version_daily = {}
        BY <2>2, <2>3
      <3>3. prompt_version_daily' = prompt_version_daily \cup rows
        BY <2>2
      <3> HIDE DEF rows, TablesOK
      <3>4. Partition(prompt_version_daily \cup rows, PromptOf) /\ UNION (prompt_version_daily \cup rows) = (UNION prompt_version_daily) \cup block
        BY <2>1, <3>1, <3>2, PartitionGrows
      <3> QED
        BY <3>3, <3>4 DEF PromptOf
    <2> QED
      BY <2>1, <2>2, <2>4, <2>5, <2>6 DEF DailyOf, AttrOf, PromptOf
  <1>2. CASE MergeDaily
    <2>1. Partition(cost_daily, DailyOf) /\ cost_daily' \in Merged(cost_daily, DailyKey)
      BY <1>2 DEF MergeDaily
    <2>2. Partition(cost_daily', DailyOf) /\ UNION cost_daily' = UNION cost_daily
      <3> HIDE DEF TablesOK
      <3>1. \A row \in cost_daily : row # {} /\ row \subseteq Event
        BY <2>1 DEF Partition
      <3>2. Merges(cost_daily', cost_daily, DailyOf)
        BY <2>1, <3>1, Merging
      <3>3. \A merged : Merges(merged, cost_daily, DailyOf) =>
              Partition(merged, DailyOf) /\ UNION merged = UNION cost_daily
        BY <2>1, PartitionMerges
      <3> QED
        BY <3>2, <3>3 DEF DailyOf
    <2>3. UNCHANGED <<today, events, cost_attr_hourly, prompt_version_daily>>
      BY <1>2 DEF MergeDaily
    <2> QED
      BY <2>2, <2>3, SameTables
  <1>3. CASE MergeAttr
    <2>1. Partition(cost_attr_hourly, AttrOf) /\ cost_attr_hourly' \in Merged(cost_attr_hourly, AttrKey)
      BY <1>3 DEF MergeAttr
    <2>2. Partition(cost_attr_hourly', AttrOf) /\ UNION cost_attr_hourly' = UNION cost_attr_hourly
      <3> HIDE DEF TablesOK
      <3>1. \A row \in cost_attr_hourly : row # {} /\ row \subseteq Event
        BY <2>1 DEF Partition
      <3>2. Merges(cost_attr_hourly', cost_attr_hourly, AttrOf)
        BY <2>1, <3>1, Merging
      <3>3. \A merged : Merges(merged, cost_attr_hourly, AttrOf) =>
              Partition(merged, AttrOf) /\ UNION merged = UNION cost_attr_hourly
        BY <2>1, PartitionMerges
      <3> QED
        BY <3>2, <3>3 DEF AttrOf
    <2>3. UNCHANGED <<today, events, cost_daily, prompt_version_daily>>
      BY <1>3 DEF MergeAttr
    <2> QED
      BY <2>2, <2>3, SameTables
  <1>4. CASE MergePrompt
    <2>1. Partition(prompt_version_daily, PromptOf) /\ prompt_version_daily' \in Merged(prompt_version_daily, PromptKey)
      BY <1>4 DEF MergePrompt
    <2>2. Partition(prompt_version_daily', PromptOf) /\ UNION prompt_version_daily' = UNION prompt_version_daily
      <3> HIDE DEF TablesOK
      <3>1. \A row \in prompt_version_daily : row # {} /\ row \subseteq Event
        BY <2>1 DEF Partition
      <3>2. Merges(prompt_version_daily', prompt_version_daily, PromptOf)
        BY <2>1, <3>1, Merging
      <3>3. \A merged : Merges(merged, prompt_version_daily, PromptOf) =>
              Partition(merged, PromptOf) /\ UNION merged = UNION prompt_version_daily
        BY <2>1, PartitionMerges
      <3> QED
        BY <3>2, <3>3 DEF PromptOf
    <2>3. UNCHANGED <<today, events, cost_daily, cost_attr_hourly>>
      BY <1>4 DEF MergePrompt
    <2> QED
      BY <2>2, <2>3, SameTables
  <1>5. CASE (\E b \in Bill : SyncBill(b)) \/ MergeBilled
    <2>1. UNCHANGED <<today, events, rollupVars>>
      BY <1>5 DEF SyncBill, MergeBilled
    <2> QED
      BY <2>1, SameTables
  <1>6. CASE ExpireEvents
    <2>1. events' \subseteq events /\ UNCHANGED <<today, rollupVars>>
      BY <1>6 DEF ExpireEvents
    <2> QED
      BY <2>1 DEF DailyOf, AttrOf, PromptOf
  <1>7. CASE Midnight
    <2>1. today' = today + 1 /\ UNCHANGED <<events, rollupVars>>
      BY <1>7 DEF Midnight
    <2>2. \A e \in events : toDate(e) \in Int
      BY EventAssumption DEF toDate, Day
    <2> QED
      BY <2>1, <2>2 DEF DailyOf, AttrOf, PromptOf
  <1> QED
    BY <1>1, <1>2, <1>3, <1>4, <1>5, <1>6, <1>7 DEF StoreNext, Merge

-----------------------------------------------------------------------------
(* Values of the browser.                                                   *)

\* An optional value is absent, or one.
LEMMA MaybeOne ==
  ASSUME NEW S
  PROVE  /\ \A m \in Maybe(S) : m # <<>> => m[1] \in S /\ m = <<m[1]>>
         /\ \A x \in S : <<x>> \in Maybe(S)
         /\ <<>> \in Maybe(S)
         /\ \A x : <<x>> # <<>> /\ <<x>>[1] = x
  BY DEF Maybe

\* Pages are counted from 1.
LEMMA PageNumber == \A p \in Nat : AsPage(p) = IF p > 1 THEN p ELSE 1
  BY DEF AsPage, Max

\* parseRange answers a key of the ranges, and its own answers with themselves.
LEMMA RangeKeys ==
  \A raw : /\ parseRange(raw) \in DOMAIN RangeDays
           /\ raw \in DOMAIN RangeDays => parseRange(raw) = raw
  BY DashboardAssumption DEF parseRange

\* The filters of a URL as the form shows them; those of a URL pushed from the form
\* are the form.
LEMMA InitialForm ==
  /\ \A u \in Url : Initial(u) \in Filters /\ Initial(u)["range"] \in DOMAIN RangeDays
  /\ \A f \in Filters : f["range"] \in DOMAIN RangeDays => Initial([filters |-> f, page |-> 1]) = f
  /\ \A u, w \in Url : u.filters = w.filters => Initial(u) = Initial(w)
  <1>1. ASSUME NEW u \in Url
        PROVE  Initial(u) \in Filters /\ Initial(u)["range"] \in DOMAIN RangeDays
    <2>1. u.filters \in [FormKeys -> Value] /\ "range" \in FormKeys
      BY DEF Url, Filters, FormKeys
    <2>2. parseRange(u.filters["range"]) \in DOMAIN RangeDays /\ parseRange(u.filters["range"]) \in Value
      BY RangeKeys DEF Value
    <2> QED
      BY <2>1, <2>2 DEF Initial, Filters
  <1>2. ASSUME NEW f \in Filters, f["range"] \in DOMAIN RangeDays
        PROVE  Initial([filters |-> f, page |-> 1]) = f
    BY <1>2, RangeKeys DEF Initial, Filters
  <1>3. ASSUME NEW u \in Url, NEW w \in Url, u.filters = w.filters
        PROVE  Initial(u) = Initial(w)
    BY <1>3 DEF Initial
  <1> QED
    BY <1>1, <1>2, <1>3

\* The URL without parameters.
LEMMA BareUrl == Bare \in Url /\ Bare.page = 0
  BY DEF Bare, Url, Filters, Value

\* A rendering that begins has asked its queries and has no answer.
LEMMA Begins ==
  ASSUME today \in Nat, NEW u \in Url
  PROVE  LET l == RequestsPage(u)
         IN  /\ l \in Loading /\ l.to = u /\ l.rows = <<>> /\ l.total = <<>> /\ ~l.failed
             /\ l.matching = {} /\ l.counted = {}
             /\ Asked(l) /\ Answered(l) /\ l.query.to = today
  <1> DEFINE l == RequestsPage(u)
             from == today - Span(u)
             where == Where(u)
             q == [from |-> from, to |-> today, where |-> where,
                   limit |-> PageSize, offset |-> (AsPage(u.page) - 1) * PageSize]
  <1>1. l = [to |-> u, rows |-> <<>>, total |-> <<>>, failed |-> FALSE, matching |-> {},
             counted |-> {}, query |-> q]
    BY DEF RequestsPage, resolveRange, Span, Where
  <1>2. from \in Int
    BY RangeKeys, DashboardAssumption DEF Span
  <1>3. where \in UNION {[K -> Value] : K \in SUBSET FilterKeys}
    <2>1. \A k \in FilterKeys : u.filters[k] \in Value
      BY DEF Url, Filters, FormKeys
    <2>2. where \in [{k \in FilterKeys : u.filters[k] # ""} -> Value]
      BY <2>1 DEF Where
    <2>3. {k \in FilterKeys : u.filters[k] # ""} \in SUBSET FilterKeys
      OBVIOUS
    <2> HIDE DEF where
    <2> QED
      BY <2>2, <2>3
  <1>4. (AsPage(u.page) - 1) * PageSize \in Nat
    <2>1. AsPage(u.page) - 1 \in Nat
      BY PageNumber DEF Url
    <2> QED
      BY <2>1, DashboardAssumption
  <1>5. q \in Query
    <2> HIDE DEF from, where
    <2> QED
      BY <1>2, <1>3, <1>4, DashboardAssumption DEF Query
  <1>6. l \in Loading
    <2> HIDE DEF q
    <2> QED
      BY <1>1, <1>5 DEF Loading, Maybe
  <1>7. /\ l.to = u /\ l.rows = <<>> /\ l.total = <<>> /\ l.failed = FALSE
        /\ l.matching = {} /\ l.counted = {} /\ l.query = q
    <2> HIDE DEF q
    <2> QED
      BY <1>1
  <1>8. q.from = from /\ q.to = today /\ q.where = where /\ q.offset = (AsPage(u.page) - 1) * PageSize
    <2> HIDE DEF where, from
    <2> QED
      OBVIOUS
  <1>9. Asked(l)
    <2>1. l.query.where = Where(l.to)
      <3> HIDE DEF l, q
      <3> QED
        BY <1>7, <1>8
    <2>2. l.query.to = today /\ l.query.from = from /\ l.to = u
      <3> HIDE DEF l, q, from
      <3> QED
        BY <1>7, <1>8
    <2>3. l.query.offset = (AsPage(l.to.page) - 1) * PageSize
      <3> HIDE DEF l, q
      <3> QED
        BY <1>7, <1>8
    <2>4. l.query.to <= today /\ l.query.from = l.query.to - Span(l.to)
      <3> HIDE DEF l
      <3> QED
        BY <2>2
    <2> HIDE DEF l
    <2> QED
      BY <2>1, <2>3, <2>4 DEF Asked
  <1>10. Answered(l)
    <2> HIDE DEF l, q
    <2> QED
      BY <1>7 DEF Answered
  <1>11. l.query.to = today
    <2> HIDE DEF l, q
    <2> QED
      BY <1>7, <1>8
  <1> HIDE DEF l
  <1>12. /\ l \in Loading /\ l.to = u /\ l.rows = <<>> /\ l.total = <<>> /\ ~l.failed
         /\ l.matching = {} /\ l.counted = {} /\ Asked(l) /\ Answered(l) /\ l.query.to = today
    BY <1>6, <1>7, <1>9, <1>10, <1>11
  <1> QED
    BY <1>12 DEF l

\* router.push leaves a rendering that begins.
LEMMA Pushed ==
  ASSUME today \in Nat, BrowserTypeOK, NEW u \in Url, push(u)
  PROVE  /\ load' \in Maybe(Loading) /\ load' # <<>> /\ visits' \in Nat
         /\ load'[1].to = u /\ load'[1].rows = <<>> /\ load'[1].total = <<>>
         /\ Asked(load'[1]) /\ Answered(load'[1]) /\ load'[1].query.to = today
  BY Begins, MaybeOne DEF push, BrowserTypeOK

\* The day of an event, and the instants of a span of days.
LEMMA Days ==
  ASSUME NEW e \in Event
  PROVE  /\ toDate(e) \in Nat /\ e.ts \in Nat
         /\ \A from, to \in Int : (e.ts >= from * Day /\ e.ts < to * Day + Day) <=>
                                  (from <= toDate(e) /\ toDate(e) <= to)
         /\ \A f \in Event : f.ts > e.ts => toDate(f) >= toDate(e)
  BY EventAssumption DEF toDate, Day

\* What the queries of a page select.
LEMMA Selected ==
  ASSUME events \subseteq Event, NEW l \in Loading, Asked(l)
  PROVE  /\ buildEventFilters(currentOrgSlug, l.query) \subseteq events
         /\ \A e \in events :
              e \in buildEventFilters(currentOrgSlug, l.query) <=>
                Passes(l.to, e) /\ l.query.from <= toDate(e) /\ toDate(e) <= l.query.to
  <1>1. l.query.from \in Int /\ l.query.to \in Int
    BY DEF Loading, Query
  <1>2. UNION RawRows(currentOrgSlug, l.query.from, l.query.to) =
          {e \in events : /\ e.org = currentOrgSlug
                          /\ e.ts >= l.query.from * Day /\ e.ts < l.query.to * Day + Day}
    BY DEF RawRows
  <1>3. buildEventFilters(currentOrgSlug, l.query) =
          {e \in events :
             /\ e.org = currentOrgSlug
             /\ e.ts >= l.query.from * Day /\ e.ts < l.query.to * Day + Day
             /\ \A k \in FilterKeys \cap DOMAIN l.query.where : e[k] = l.query.where[k]}
    BY <1>2 DEF buildEventFilters
  <1>4. /\ FilterKeys \cap DOMAIN l.query.where = {k \in FilterKeys : l.to.filters[k] # ""}
        /\ \A k \in {k \in FilterKeys : l.to.filters[k] # ""} : l.query.where[k] = l.to.filters[k]
    BY DEF Asked, Where
  <1>5. ASSUME NEW e \in events
        PROVE  e \in buildEventFilters(currentOrgSlug, l.query) <=>
                 Passes(l.to, e) /\ l.query.from <= toDate(e) /\ toDate(e) <= l.query.to
    <2>1. (e.ts >= l.query.from * Day /\ e.ts < l.query.to * Day + Day) <=>
            (l.query.from <= toDate(e) /\ toDate(e) <= l.query.to)
      BY <1>1, Days
    <2>2. (\A k \in FilterKeys \cap DOMAIN l.query.where : e[k] = l.query.where[k]) <=>
            (\A k \in FilterKeys : l.to.filters[k] # "" => e[k] = l.to.filters[k])
      BY <1>4
    <2> QED
      BY <1>3, <2>1, <2>2 DEF Passes
  <1> QED
    BY <1>3, <1>5

\* The steps of the browser that answer or fail a query of the page loading.
Loads == QueryRows \/ QueryCount \/ QueryFails

\* What they change: one answer, from the table as it is.
LEMMA Loaded ==
  ASSUME events \subseteq Event, BrowserTypeOK, load # <<>> => Asked(load[1]), Loads
  PROVE  /\ load # <<>> /\ load' # <<>> /\ load' \in Maybe(Loading)
         /\ load'[1].to = load[1].to /\ load'[1].query = load[1].query
         /\ UNCHANGED <<url, form, view, entries, visits, unsent, walk>>
  <1> DEFINE l == load[1]
  <1>1. load # <<>> /\ l \in Loading /\ Asked(l)
    BY MaybeOne DEF Loads, QueryRows, QueryCount, QueryFails, Pending, BrowserTypeOK
  <1>2. UNCHANGED <<url, form, view, entries, visits, unsent, walk>>
    BY DEF Loads, QueryRows, QueryCount, QueryFails
  <1> DEFINE M == buildEventFilters(currentOrgSlug, l.query)
  <1>3. M \subseteq Event
    BY <1>1, Selected
  <1> HIDE DEF M
  <1>4. CASE QueryRows
    <2>1. PICK R \in getRequests(currentOrgSlug, l.query) :
                 load' = <<[l EXCEPT !.rows = <<R>>, !.matching = M]>>
      BY <1>4 DEF QueryRows, M
    <2> DEFINE after == [l EXCEPT !.rows = <<R>>, !.matching = M]
    <2>2. R \in SUBSET Event
      BY <1>3 DEF getRequests, M
    <2>3. <<R>> \in Maybe(SUBSET Event)
      BY <2>2, MaybeOne
    <2>4. after \in Loading /\ after.to = l.to /\ after.query = l.query
      BY <1>1, <1>3, <2>3 DEF Loading
    <2>5. load' = <<after>>
      BY <2>1
    <2> HIDE DEF after
    <2> QED
      BY <1>1, <1>2, <2>4, <2>5, MaybeOne
  <1>5. CASE QueryCount
    <2> DEFINE n == Cardinality(M)
               after == [l EXCEPT !.total = <<n>>, !.counted = M]
    <2>1. load' = <<after>>
      BY <1>5 DEF QueryCount, countRequests, M
    <2>2. n \in Nat
      BY <1>3, EventAssumption, FS_Subset, FS_CardinalityType
    <2> HIDE DEF n
    <2>3. <<n>> \in Maybe(Nat)
      BY <2>2, MaybeOne
    <2>4. after \in Loading /\ after.to = l.to /\ after.query = l.query
      BY <1>1, <1>3, <2>3 DEF Loading
    <2> HIDE DEF after
    <2> QED
      BY <1>1, <1>2, <2>1, <2>4, MaybeOne
  <1>6. CASE QueryFails
    <2> DEFINE after == [l EXCEPT !.failed = TRUE]
    <2>1. load' = <<after>>
      BY <1>6 DEF QueryFails
    <2>2. after \in Loading /\ after.to = l.to /\ after.query = l.query
      BY <1>1 DEF Loading
    <2> HIDE DEF after
    <2> QED
      BY <1>1, <1>2, <2>1, <2>2, MaybeOne
  <1> QED
    BY <1>4, <1>5, <1>6 DEF Loads

-----------------------------------------------------------------------------
(* The form.                                                                *)

\* What Render shows is a page.
LEMMA ShownPage ==
  ASSUME NEW l \in Loading
  PROVE  LET v == Shown(l)
         IN  /\ v \in View
             /\ v.page = AsPage(l.to.page) /\ v.failed = l.failed
             /\ v.matching = l.matching /\ v.counted = l.counted
             /\ l.rows # <<>> => v.rows = l.rows[1]
             /\ l.total # <<>> => v.total = l.total[1]
  <1>1. /\ l.to.page \in Nat /\ l.rows \in Maybe(SUBSET Event) /\ l.total \in Maybe(Nat)
        /\ l.failed \in BOOLEAN /\ l.matching \in SUBSET Event /\ l.counted \in SUBSET Event
    BY DEF Loading, Url
  <1>2. OrElse(l.rows, {}) \in SUBSET Event
    BY <1>1, MaybeOne DEF OrElse
  <1>3. OrElse(l.total, 0) \in Nat
    BY <1>1, MaybeOne DEF OrElse
  <1>4. AsPage(l.to.page) \in Nat \ {0}
    BY <1>1, PageNumber
  <1> QED
    BY <1>1, <1>2, <1>3, <1>4 DEF Shown, View, OrElse

\* Resync keeps the form a form, and follows the URL committed.
LEMMA Resynced ==
  ASSUME BrowserTypeOK, NEW u \in Url, Resync(u)
  PROVE  /\ form' \in Filters /\ form'["range"] \in DOMAIN RangeDays /\ unsent' \in BOOLEAN
         /\ Initial(u) # Initial(url) => form' = Initial(u)
         /\ Initial(u) = Initial(url) => form' = form /\ (~unsent' => ~unsent /\ ~Overtaken)
  BY InitialForm DEF Resync, BrowserTypeOK

\* An entry of the browser is a URL with the page it showed.
Entry == [url : Url, view : Maybe(View)]

\* The browser's values keep their types, and the form what it was pushed from.
LEMMA StepForm ==
  ASSUME TablesOK, FormInv, load # <<>> => Asked(load[1]), Browse
  PROVE  FormInv'
  <1>0. today \in Nat /\ events \subseteq Event
    BY DEF TablesOK
  <1>1. /\ url \in Url /\ form \in Filters /\ form["range"] \in DOMAIN RangeDays
        /\ load \in Maybe(Loading) /\ view \in Maybe(View) /\ entries \in Seq(Entry)
        /\ visits \in Nat /\ unsent \in BOOLEAN
        /\ walk \in [toSee : SUBSET Event, seen : SUBSET Event]
        /\ BrowserTypeOK
    BY DEF FormInv, BrowserTypeOK, Entry
  <1>2. /\ view = <<>> => url = Bare
        /\ \A n \in DOMAIN entries : entries[n].view # <<>>
        /\ ~unsent => form = Initial(Latest)
    BY DEF FormInv, Opened, FormKept
  <1>3. CASE Open
    <2>1. push(Bare) /\ view = <<>> /\ load = <<>> /\ UNCHANGED <<url, form, view, entries, unsent, walk>>
      BY <1>3 DEF Open
    <2>2. load' \in Maybe(Loading) /\ load' # <<>> /\ visits' \in Nat /\ load'[1].to = Bare
      BY <1>0, <1>1, <2>1, BareUrl, Pushed
    <2>3. BrowserTypeOK'
      BY <1>1, <2>1, <2>2 DEF BrowserTypeOK
    <2> QED
      BY <1>2, <2>1, <2>2, <2>3 DEF FormInv, Opened, FormKept, Latest
  <1>4. ASSUME NEW typed \in Typed, setV(typed[1], typed[2])
        PROVE  FormInv'
    <2>1. /\ form' = [form EXCEPT ![typed[1]] = typed[2]] /\ unsent' = TRUE
          /\ UNCHANGED <<url, load, view, entries, visits, walk>>
      BY <1>4 DEF setV
    <2>2. form' \in Filters
      <3>1. typed[2] \in Value
        BY DEF Value
      <3> QED
        BY <1>1, <2>1, <3>1 DEF Filters
    <2>3. form'["range"] \in DOMAIN RangeDays
      BY <1>1, <2>1, DashboardAssumption DEF Filters, FormKeys
    <2>4. BrowserTypeOK'
      BY <1>1, <2>1, <2>2, <2>3 DEF BrowserTypeOK
    <2> QED
      BY <1>2, <2>1, <2>4 DEF FormInv, Opened, FormKept
  <1>5. CASE apply
    <2> DEFINE u == [filters |-> form, page |-> 1]
    <2>1. push(u) /\ unsent' = FALSE /\ view # <<>> /\ UNCHANGED <<url, form, view, entries, walk>>
      BY <1>5 DEF apply
    <2>2. u \in Url /\ Initial(u) = form
      BY <1>1, InitialForm DEF Url
    <2> HIDE DEF u
    <2>3. load' \in Maybe(Loading) /\ load' # <<>> /\ visits' \in Nat /\ load'[1].to = u
      BY <1>0, <1>1, <2>1, <2>2, Pushed
    <2>4. BrowserTypeOK'
      BY <1>1, <2>1, <2>3 DEF BrowserTypeOK
    <2>5. form' = Initial(Latest)'
      BY <2>1, <2>2, <2>3 DEF Latest, Initial
    <2> QED
      BY <1>2, <2>1, <2>4, <2>5 DEF FormInv, Opened, FormKept
  <1>6. CASE reset
    <2>1. /\ push(Bare) /\ form' = Initial(Bare) /\ unsent' = FALSE /\ view # <<>>
          /\ UNCHANGED <<url, view, entries, walk>>
      BY <1>6 DEF reset
    <2>2. load' \in Maybe(Loading) /\ load' # <<>> /\ visits' \in Nat /\ load'[1].to = Bare
      BY <1>0, <1>1, <2>1, BareUrl, Pushed
    <2>3. BrowserTypeOK'
      BY <1>1, <2>1, <2>2, BareUrl, InitialForm DEF BrowserTypeOK
    <2>4. form' = Initial(Latest)'
      BY <2>1, <2>2 DEF Latest, Initial
    <2> QED
      BY <1>2, <2>1, <2>3, <2>4 DEF FormInv, Opened, FormKept
  <1>7. ASSUME NEW p \in Buttons, go(p)
        PROVE  FormInv'
    <2> DEFINE u == [url EXCEPT !.page = p]
    <2>1. /\ push(u) /\ unsent' = (unsent \/ Overtaken)
          /\ UNCHANGED <<url, form, view, entries, walk>>
      BY <1>7 DEF go
    <2>2. view # <<>> /\ p \in Nat
      <3>1. view # <<>> /\ p \in {view[1].page - 1, view[1].page + 1}
        BY DEF Buttons
      <3>2. view[1].page \in Nat \ {0}
        BY <1>1, <3>1, MaybeOne DEF View
      <3> QED
        BY <3>1, <3>2
    <2>3. u \in Url /\ u.filters = url.filters
      BY <1>1, <2>2 DEF Url
    <2>4. Initial(u) = Initial(url)
      BY <1>1, <2>3, InitialForm
    <2> HIDE DEF u
    <2>5. load' \in Maybe(Loading) /\ load' # <<>> /\ visits' \in Nat /\ load'[1].to = u
      BY <1>0, <1>1, <2>1, <2>3, Pushed
    <2>6. BrowserTypeOK'
      BY <1>1, <2>1, <2>5 DEF BrowserTypeOK, Overtaken
    <2>7. ASSUME ~unsent'
          PROVE  form' = Initial(Latest)'
      <3>1. ~unsent /\ ~Overtaken
        BY <2>1, <2>7
      <3>2. form = Initial(url)
        BY <1>2, <3>1 DEF Overtaken, Latest
      <3> QED
        BY <2>1, <2>4, <2>5, <3>2 DEF Latest, Initial
    <2> QED
      BY <1>2, <2>1, <2>2, <2>6, <2>7 DEF FormInv, Opened, FormKept
  <1>8. CASE Loads
    <2>1. /\ load # <<>> /\ load' # <<>> /\ load' \in Maybe(Loading) /\ load'[1].to = load[1].to
          /\ UNCHANGED <<url, form, view, entries, visits, unsent, walk>>
      BY <1>0, <1>1, <1>8, Loaded
    <2>2. BrowserTypeOK'
      BY <1>1, <2>1 DEF BrowserTypeOK
    <2>3. Latest' = Latest
      BY <2>1 DEF Latest
    <2> QED
      BY <1>2, <2>1, <2>2, <2>3 DEF FormInv, Opened, FormKept, Initial
  <1>9. CASE Render
    <2>1. load # <<>> /\ load[1] \in Loading /\ load[1].to \in Url
      BY <1>1, <1>9, MaybeOne DEF Render, Loading
    <2>2. /\ view' = <<Shown(load[1])>> /\ url' = load[1].to /\ load' = <<>> /\ Resync(load[1].to)
          /\ entries' = IF view = <<>> THEN entries ELSE Append(entries, [url |-> url, view |-> view])
          /\ visits' = visits
      BY <1>9 DEF Render
    <2>3. walk' \in [toSee : SUBSET Event, seen : SUBSET Event]
      <3> DEFINE v == Shown(load[1])
                 new == IF v.failed THEN {} ELSE v.rows
      <3>1. v \in View /\ v.rows \in SUBSET Event /\ v.matching \in SUBSET Event
        BY <2>1, ShownPage DEF View
      <3>2. walk' = IF v.page > 1 THEN [walk EXCEPT !.seen = @ \cup new]
                    ELSE [toSee |-> IF v.failed THEN {} ELSE v.matching, seen |-> new]
        BY <1>9 DEF Render
      <3>3. new \in SUBSET Event
        BY <3>1
      <3> HIDE DEF v, new
      <3> QED
        BY <1>1, <3>1, <3>2, <3>3
    <2>4. view' \in Maybe(View) /\ view' # <<>>
      BY <2>1, <2>2, ShownPage, MaybeOne
    <2>5. entries' \in Seq(Entry) /\ \A n \in DOMAIN entries' : entries'[n].view # <<>>
      <3>1. CASE view = <<>>
        BY <1>1, <1>2, <2>2, <3>1
      <3>2. CASE view # <<>>
        <4> DEFINE e == [url |-> url, view |-> view]
        <4>1. e \in Entry /\ e.view # <<>>
          BY <1>1, <3>2 DEF Entry
        <4>2. entries' = Append(entries, e)
          BY <2>2, <3>2
        <4> HIDE DEF e
        <4> QED
          BY <1>1, <1>2, <4>1, <4>2, AppendProperties
      <3> QED
        BY <3>1, <3>2
    <2>6. /\ form' \in Filters /\ form'["range"] \in DOMAIN RangeDays /\ unsent' \in BOOLEAN
          /\ Initial(load[1].to) # Initial(url) => form' = Initial(load[1].to)
          /\ Initial(load[1].to) = Initial(url) => form' = form /\ (~unsent' => ~unsent /\ ~Overtaken)
      BY <1>1, <2>1, <2>2, Resynced
    <2>7. BrowserTypeOK'
      BY <1>1, <2>1, <2>2, <2>3, <2>4, <2>5, <2>6, MaybeOne DEF BrowserTypeOK, Entry
    <2>8. ASSUME ~unsent'
          PROVE  form' = Initial(Latest)'
      <3>1. form' = Initial(load[1].to)
        BY <1>2, <2>1, <2>6, <2>8 DEF Latest
      <3> QED
        BY <2>2, <3>1 DEF Latest, Initial
    <2> QED
      BY <2>4, <2>5, <2>7, <2>8 DEF FormInv, Opened, FormKept
  <1>10. CASE Back
    <2>1. /\ entries # <<>> /\ url' = Last(entries).url /\ view' = Last(entries).view
          /\ entries' = Front(entries) /\ load' = <<>> /\ Resync(Last(entries).url)
          /\ walk' = [toSee |-> {}, seen |-> {}] /\ visits' = visits
      BY <1>10 DEF Back
    <2>2. /\ Last(entries) \in Entry /\ Last(entries).view # <<>>
          /\ entries' \in Seq(Entry) /\ \A n \in DOMAIN entries' : entries'[n].view # <<>>
      <3>1. Len(entries) \in Nat \ {0} /\ DOMAIN entries = 1..Len(entries)
        BY <1>1, <2>1, EmptySeq, LenProperties
      <3>2. Last(entries) = entries[Len(entries)]
        BY DEF Last
      <3>3. /\ Front(entries) \in Seq(Entry) /\ Len(Front(entries)) = Len(entries) - 1
            /\ \A n \in 1..(Len(entries) - 1) : Front(entries)[n] = entries[n]
        BY <1>1, <3>1 DEF Front
      <3>4. DOMAIN Front(entries) = 1..(Len(entries) - 1)
        BY <3>3, LenProperties
      <3>5. Last(entries) \in Entry /\ Last(entries).view # <<>>
        BY <1>1, <1>2, <3>1, <3>2, ElementOfSeq
      <3> QED
        BY <1>2, <2>1, <3>1, <3>3, <3>4, <3>5
    <2>3. Last(entries).url \in Url /\ Last(entries).view \in Maybe(View)
      BY <2>2 DEF Entry
    <2>4. /\ form' \in Filters /\ form'["range"] \in DOMAIN RangeDays /\ unsent' \in BOOLEAN
          /\ Initial(Last(entries).url) # Initial(url) => form' = Initial(Last(entries).url)
          /\ Initial(Last(entries).url) = Initial(url) => form' = form /\ (~unsent' => ~unsent /\ ~Overtaken)
      BY <1>1, <2>1, <2>3, Resynced
    <2>5. BrowserTypeOK'
      BY <1>1, <2>1, <2>2, <2>3, <2>4, MaybeOne DEF BrowserTypeOK, Entry
    <2>6. ASSUME ~unsent'
          PROVE  form' = Initial(Latest)'
      <3>1. form' = Initial(Last(entries).url)
        <4>1. CASE Initial(Last(entries).url) # Initial(url)
          BY <2>4, <4>1
        <4>2. CASE Initial(Last(entries).url) = Initial(url)
          <5>1. form' = form /\ ~unsent /\ ~Overtaken
            BY <2>4, <2>6, <4>2
          <5>2. form = Initial(url)
            BY <1>2, <5>1 DEF Overtaken, Latest
          <5> QED
            BY <4>2, <5>1, <5>2
        <4> QED
          BY <4>1, <4>2
      <3> QED
        BY <2>1, <3>1 DEF Latest, Initial
    <2> QED
      BY <2>1, <2>2, <2>5, <2>6 DEF FormInv, Opened, FormKept
  <1> QED
    BY <1>3, <1>4, <1>5, <1>6, <1>7, <1>8, <1>9, <1>10 DEF Browse, Loads

-----------------------------------------------------------------------------
(* The walk.                                                                *)

\* A writer takes back nothing: days pass, a row that was inserted is in the rollup,
\* and one that is gone from the raw table has expired.
LEMMA StoreKeeps ==
  ASSUME TablesOK, StoreNext
  PROVE  /\ today' \in Nat /\ today <= today'
         /\ UNION cost_daily \subseteq UNION cost_daily'
         /\ \A e \in UNION cost_daily : e \in events' => e \in events
         /\ \A e \in Event : KeptOrExpired(e) => KeptOrExpired(e)'
  <1>1. today \in Nat /\ UNION cost_daily \subseteq Event
    BY DEF TablesOK
  <1>2. /\ today' = today \/ today' = today + 1
        /\ UNION cost_daily \subseteq UNION cost_daily'
        /\ \A e \in UNION cost_daily : e \in events' => e \in events
        /\ \A e \in events : e \in events' \/ toDate(e) + Ttl < today
    <2>1. ASSUME NEW block, Insert(block)
          PROVE  /\ today' = today /\ cost_daily \subseteq cost_daily' /\ events \subseteq events'
                 /\ \A e \in UNION cost_daily : e \in events' => e \in events
      BY <2>1 DEF Insert
    <2>2. CASE MergeDaily
      <3>1. PICK same \in SUBSET cost_daily : cost_daily' = (cost_daily \ same) \cup {UNION same}
        BY <2>2 DEF MergeDaily, Merged
      <3> QED
        BY <2>2, <3>1 DEF MergeDaily
    <2>3. CASE MergeAttr \/ MergePrompt \/ (\E b \in Bill : SyncBill(b)) \/ MergeBilled
      <3>1. UNCHANGED <<today, events, cost_daily>>
        BY <2>3 DEF MergeAttr, MergePrompt, SyncBill, MergeBilled, rollupVars
      <3> QED
        BY <3>1
    <2>4. CASE ExpireEvents
      BY <2>4 DEF ExpireEvents, rollupVars
    <2>5. CASE Midnight
      BY <2>5 DEF Midnight, rollupVars
    <2> QED
      BY <2>1, <2>2, <2>3, <2>4, <2>5 DEF StoreNext, Merge
  <1>3. ASSUME NEW e \in Event, KeptOrExpired(e)
        PROVE  KeptOrExpired(e)'
    <2>1. toDate(e) \in Nat /\ Ttl \in Nat
      BY Days, DashboardAssumption
    <2>2. toDate(e) <= today'
      BY <1>1, <1>2, <1>3, <2>1 DEF KeptOrExpired
    <2>3. e \in events' \/ toDate(e) + Ttl < today'
      BY <1>1, <1>2, <1>3, <2>1 DEF KeptOrExpired
    <2>4. e \in UNION cost_daily'
      BY <1>2, <1>3 DEF KeptOrExpired
    <2> QED
      BY <2>2, <2>3, <2>4 DEF KeptOrExpired, toDate
  <1> QED
    BY <1>1, <1>2, <1>3

\* Days of a range: none is longer than a raw event is kept.
LEMMA Spans ==
  \A u : Span(u) \in Nat /\ Span(u) < Ttl
  BY RangeKeys, DashboardAssumption DEF Span

\* The walk does not depend on what the writers do.
LEMMA StoreWalk ==
  ASSUME TablesOK, FormInv, WalkInv, StoreNext, UNCHANGED browserVars
  PROVE  WalkInv'
  <1>1. /\ today \in Nat /\ today' \in Nat /\ today <= today'
        /\ UNION cost_daily \subseteq UNION cost_daily'
        /\ \A e \in UNION cost_daily : e \in events' => e \in events
        /\ \A e \in Event : KeptOrExpired(e) => KeptOrExpired(e)'
    BY StoreKeeps DEF TablesOK
  <1>2. UNCHANGED <<url, load, view, entries, walk>>
    BY DEF browserVars
  <1>3. /\ load # <<>> => load[1] \in Loading
        /\ view # <<>> => view[1] \in View
    BY MaybeOne DEF FormInv, BrowserTypeOK
  <1>4. walk.toSee \subseteq UNION cost_daily /\ walk.toSee \subseteq Event
    BY DEF WalkInv, FormInv, BrowserTypeOK
  <1>5. ASSUME NEW l \in Loading, Asked(l), Answered(l)
        PROVE  Asked(l)' /\ Answered(l)'
    <2>1. l.query.to \in Nat /\ l.matching \subseteq Event
      BY <1>1, <1>5 DEF Asked, Loading, Query
    <2>2. l.query.to <= today'
      <3>1. l.query.to <= today
        BY <1>5 DEF Asked
      <3> QED
        BY <1>1, <2>1, <3>1
    <2>3. Asked(l)'
      BY <1>5, <2>2 DEF Asked, Span, parseRange, Where
    <2>4. \A e \in l.matching : KeptOrExpired(e) => KeptOrExpired(e)'
      BY <1>1, <2>1
    <2>5. Answered(l)'
      BY <1>5, <2>4 DEF Answered, OnPage, Window, Passes, currentOrgSlug, Alone, Twins, Place, Newer
    <2> QED
      BY <2>3, <2>5
  <1>6. ASSUME NEW v \in View, Chain(v)
        PROVE  Chain(v)'
    <2>1. \A e \in v.matching : KeptOrExpired(e) => KeptOrExpired(e)'
      BY <1>1 DEF View
    <2>2. \A e \in v.matching : Passes(url, e)' /\ KeptOrExpired(e)'
      BY <1>2, <1>6, <2>1 DEF Chain, Passes, currentOrgSlug
    <2>3. ASSUME NEW e \in walk'.toSee \cap events', toDate(e) >= today' - Span(url)
          PROVE  e \in v.matching
      <3>1. e \in walk.toSee \cap events /\ toDate(e) \in Nat
        BY <1>1, <1>2, <1>4, Days
      <3>2. toDate(e) >= today - Span(url)
        BY <1>1, <2>3, <3>1, Spans
      <3> QED
        BY <1>6, <3>1, <3>2 DEF Chain
    <2>4. \A e \in walk'.toSee \cap Alone(v.matching) :
            Place(v.matching, e) < v.page * PageSize => e \in walk'.seen
      BY <1>2, <1>6 DEF Chain
    <2> QED
      BY <1>2, <2>2, <2>3, <2>4 DEF Chain, Span, toDate, parseRange, Alone, Twins, Place, Newer
  <1>7. ASSUME NEW l \in Loading, NEW v \in View, Continued(l, v)
        PROVE  Continued(l, v)'
    <2>1. \A e \in walk'.toSee \cap events' : e \in walk.toSee \cap events
      BY <1>1, <1>2, <1>4
    <2> QED
      BY <1>2, <1>7, <2>1 DEF Continued, toDate, Newer, Twins
  <1>8. load' # <<>> => Asked(load[1])' /\ Answered(load[1])'
    BY <1>2, <1>3, <1>5 DEF WalkInv
  <1>9. view' # <<>> /\ ~view'[1].failed /\ walk'.toSee # {} =>
          /\ Chain(view[1])'
          /\ load' # <<>> /\ load'[1].to.page > 1 => Continued(load[1], view[1])'
    BY <1>2, <1>3, <1>6, <1>7 DEF WalkInv
  <1>10. walk'.toSee \subseteq UNION cost_daily'
    BY <1>1, <1>2, <1>4
  <1>11. /\ view' # <<>> => Counted(view[1])'
         /\ \A n \in DOMAIN entries' : Counted(entries[n].view[1])'
         /\ load' # <<>> /\ load'[1].to.page > 1 => view' # <<>> /\ ~view'[1].failed
    BY <1>2 DEF WalkInv, Counted
  <1> QED
    BY <1>2, <1>8, <1>9, <1>10, <1>11 DEF WalkInv

\* The writers do nothing while the browser does.
LEMMA SameStore ==
  ASSUME UNCHANGED storeVars
  PROVE  UNCHANGED <<today, events, cost_daily>>
  BY DEF storeVars, rollupVars

\* A page of a list has the rows of its places, whichever of the rows of a millisecond
\* come first.
LEMMA PageRows ==
  ASSUME NEW f, f.offset \in Nat, f.limit = PageSize,
         NEW R \in getRequests(currentOrgSlug, f), buildEventFilters(currentOrgSlug, f) \subseteq Event
  PROVE  LET M == buildEventFilters(currentOrgSlug, f)
         IN  /\ R \subseteq M
             /\ \A e \in Alone(M) : e \in R <=> Place(M, e) \in f.offset..(f.offset + PageSize - 1)
  <1> DEFINE M == buildEventFilters(currentOrgSlug, f)
             W == f.offset..(f.offset + PageSize - 1)
  <1>1. /\ R \subseteq M
        /\ \A e \in M : Cardinality(R \cap Twins(M, e)) = Cardinality(W \cap Places(M, e))
    BY DEF getRequests
  <1> HIDE DEF M, W
  <1>2. ASSUME NEW e \in Alone(M)
        PROVE  e \in R <=> Place(M, e) \in W
    <2>1. e \in M /\ Twins(M, e) = {e}
      BY DEF Alone
    <2>2. Place(M, e) \in Nat
      BY EventAssumption, FS_Subset, FS_CardinalityType DEF Place, Newer, M
    <2>3. Places(M, e) = {Place(M, e)}
      <3>1. Cardinality({e}) = 1
        BY FS_Singleton
      <3>2. Places(M, e) = Place(M, e)..(Place(M, e) + 1 - 1)
        BY <2>1, <3>1 DEF Places
      <3> QED
        BY <2>2, <3>2
    <2>4. Cardinality(R \cap {e}) = Cardinality(W \cap {Place(M, e)})
      BY <1>1, <2>1, <2>3
    <2>5. \A S, x : Cardinality(S \cap {x}) = IF x \in S THEN 1 ELSE 0
      <3> SUFFICES ASSUME NEW S, NEW x
                   PROVE  Cardinality(S \cap {x}) = IF x \in S THEN 1 ELSE 0
        OBVIOUS
      <3>1. S \cap {x} = IF x \in S THEN {x} ELSE {}
        OBVIOUS
      <3> QED
        BY <3>1, FS_Singleton, FS_EmptySet
    <2>6. (IF e \in R THEN 1 ELSE 0) = (IF Place(M, e) \in W THEN 1 ELSE 0)
      BY <2>4, <2>5
    <2> QED
      BY <2>6
  <1> QED
    BY <1>1, <1>2 DEF M, W

\* The answer with the rows of a page.
LEMMA RowsAnswered ==
  ASSUME events \subseteq Event, BrowserTypeOK, load # <<>> => Asked(load[1]), QueryRows
  PROVE  LET M == buildEventFilters(currentOrgSlug, load[1].query)
         IN  /\ load[1].rows = <<>> /\ load'[1].rows # <<>> /\ load'[1].matching = M
             /\ load'[1].query = load[1].query /\ OnPage(load'[1])
             /\ load'[1].total = load[1].total /\ load'[1].counted = load[1].counted
  <1> DEFINE l == load[1]
             M == buildEventFilters(currentOrgSlug, l.query)
  <1>1. PICK R \in getRequests(currentOrgSlug, l.query) :
               load' = <<[l EXCEPT !.rows = <<R>>, !.matching = M]>>
    BY DEF QueryRows
  <1> DEFINE after == [l EXCEPT !.rows = <<R>>, !.matching = M]
  <1>2. l \in Loading /\ l.query.limit = PageSize /\ l.query.offset \in Nat /\ l.rows = <<>>
    <2>1. load # <<>> /\ l.rows = <<>>
      BY DEF QueryRows, Pending
    <2>2. l \in Loading
      BY <2>1, MaybeOne DEF BrowserTypeOK
    <2> HIDE DEF l
    <2>3. l.query.limit = PageSize /\ l.query.offset \in Nat
      BY <2>2 DEF Loading, Query
    <2> QED
      BY <2>1, <2>2, <2>3
  <1>3. load'[1] = after
    BY <1>1
  <1>4. M \subseteq Event
    <2>1. load # <<>>
      BY DEF QueryRows, Pending
    <2> QED
      BY <1>2, <2>1, Selected
  <1>5. /\ R \subseteq M
        /\ \A e \in Alone(M) : e \in R <=> Place(M, e) \in l.query.offset..(l.query.offset + PageSize - 1)
    <2> HIDE DEF l
    <2> QED
      BY <1>2, <1>4, PageRows
  <1>6. /\ after.rows = <<R>> /\ after.matching = M /\ after.query = l.query
        /\ after.total = l.total /\ after.counted = l.counted
    <2> HIDE DEF M
    <2> QED
      BY <1>2 DEF Loading
  <1>7. after.rows # <<>> /\ after.rows[1] = R
    <2> HIDE DEF after
    <2> QED
      BY <1>6
  <1> HIDE DEF after, l, M
  <1>8. OnPage(load'[1])
    BY <1>3, <1>5, <1>6, <1>7 DEF OnPage, Window
  <1>9. /\ l.rows = <<>> /\ load'[1].rows # <<>> /\ load'[1].matching = M
        /\ load'[1].query = l.query
        /\ load'[1].total = l.total /\ load'[1].counted = l.counted
    BY <1>2, <1>3, <1>6, <1>7
  <1> QED
    BY <1>8, <1>9 DEF l, M

\* The answer with their count, and no answer.
LEMMA OtherAnswered ==
  ASSUME BrowserTypeOK, QueryCount \/ QueryFails
  PROVE  /\ load'[1].rows = load[1].rows /\ load'[1].matching = load[1].matching
         /\ load'[1].total # <<>> /\ load'[1].total # load[1].total =>
              load'[1].total[1] = Cardinality(load'[1].counted)
         /\ load'[1].total = load[1].total => load'[1].counted = load[1].counted
  <1> DEFINE l == load[1]
             M == buildEventFilters(currentOrgSlug, l.query)
  <1>1. l \in Loading
    BY MaybeOne DEF QueryCount, QueryFails, Pending, BrowserTypeOK
  <1>2. CASE QueryCount
    <2> DEFINE n == Cardinality(M)
               after == [l EXCEPT !.total = <<n>>, !.counted = M]
    <2>1. load'[1] = after /\ l.total = <<>>
      BY <1>2 DEF QueryCount, countRequests
    <2>2. /\ after.rows = l.rows /\ after.matching = l.matching
          /\ after.total = <<n>> /\ after.counted = M
      <3> HIDE DEF M, n
      <3> QED
        BY <1>1 DEF Loading
    <2>3. after.total # <<>> /\ after.total[1] = Cardinality(after.counted)
      <3> HIDE DEF after, M
      <3> QED
        BY <2>2
    <2> HIDE DEF after, l
    <2>4. /\ load'[1].rows = l.rows /\ load'[1].matching = l.matching
          /\ load'[1].total[1] = Cardinality(load'[1].counted) /\ load'[1].total # l.total
      BY <2>1, <2>2, <2>3
    <2> QED
      BY <2>4 DEF l
  <1>3. CASE QueryFails
    <2> DEFINE after == [l EXCEPT !.failed = TRUE]
    <2>1. load'[1] = after
      BY <1>3 DEF QueryFails
    <2>2. /\ after.rows = l.rows /\ after.matching = l.matching
          /\ after.total = l.total /\ after.counted = l.counted
      BY <1>1 DEF Loading
    <2> HIDE DEF after, l
    <2>3. /\ load'[1].rows = l.rows /\ load'[1].matching = l.matching
          /\ load'[1].total = l.total /\ load'[1].counted = l.counted
      BY <2>1, <2>2
    <2> QED
      BY <2>3 DEF l
  <1> QED
    BY <1>2, <1>3

\* An answer keeps the walk: the rows of a page beyond the first are of a list that
\* continues the one of the page shown.
LEMMA LoadsWalk ==
  ASSUME TablesOK, FormInv, WalkInv, Loads, UNCHANGED storeVars
  PROVE  WalkInv'
  <1> DEFINE l == load[1]
             m == load'[1]
             v == view[1]
             M == buildEventFilters(currentOrgSlug, l.query)
  <1>1. /\ today \in Nat /\ events \subseteq UNION cost_daily /\ events \subseteq Event
        /\ \A e \in events : toDate(e) <= today
    BY DEF TablesOK
  <1>2. UNCHANGED <<today, events, cost_daily>>
    BY SameStore
  <1>3. BrowserTypeOK /\ (load # <<>> => Asked(l) /\ Answered(l))
    BY DEF FormInv, WalkInv
  <1>4. /\ load # <<>> /\ load' # <<>> /\ m \in Loading
        /\ m.to = l.to /\ m.query = l.query
        /\ UNCHANGED <<url, form, view, entries, visits, unsent, walk>>
    BY <1>1, <1>3, Loaded, MaybeOne
  <1>5. l \in Loading /\ (view # <<>> => v \in View) /\ walk.toSee \subseteq Event
    BY <1>3, <1>4, MaybeOne DEF BrowserTypeOK
  <1>6. /\ M \subseteq events
        /\ \A e \in events : e \in M <=>
             Passes(l.to, e) /\ l.query.from <= toDate(e) /\ toDate(e) <= l.query.to
    BY <1>1, <1>3, <1>4, <1>5, Selected
  <1>7. /\ l.query.from \in Int /\ l.query.to \in Nat /\ l.query.to <= today
        /\ l.query.from = l.query.to - Span(l.to)
    BY <1>3, <1>4, <1>5 DEF Asked, Loading, Query
  <1>8. Asked(load[1])'
    BY <1>2, <1>3, <1>4 DEF Asked, Span, parseRange, Where
  <1>9. /\ walk'.toSee \subseteq UNION cost_daily'
        /\ view' # <<>> => Counted(view[1])'
        /\ \A n \in DOMAIN entries' : Counted(entries[n].view[1])'
        /\ load' # <<>> /\ load'[1].to.page > 1 => view' # <<>> /\ ~view'[1].failed
    BY <1>2, <1>4 DEF WalkInv, Counted
  <1>10. view # <<>> /\ ~v.failed /\ walk.toSee # {} => Chain(view[1])'
    BY <1>2, <1>4 DEF WalkInv, Chain, Span, parseRange, Passes, currentOrgSlug, KeptOrExpired,
                      toDate, Alone, Twins, Place, Newer
  <1>11. view # <<>> /\ ~v.failed /\ walk.toSee # {} /\ l.to.page > 1 => Chain(v) /\ Continued(l, v)
    BY <1>4 DEF WalkInv
  <1>12. CASE QueryRows
    <2>1. /\ l.rows = <<>> /\ m.rows # <<>> /\ m.matching = M /\ OnPage(m)
          /\ m.total = l.total /\ m.counted = l.counted
      BY <1>1, <1>3, <1>12, RowsAnswered
    <2>2. today <= l.query.to + 1
      BY <1>12 DEF QueryRows, InTime
    <2>3. Answered(load[1])'
      <3>1. \A e \in M : Passes(l.to, e) /\ KeptOrExpired(e)'
        <4>1. \A e \in M : Passes(l.to, e)
          BY <1>6
        <4>2. \A e \in M : KeptOrExpired(e)'
          BY <1>1, <1>2, <1>6 DEF KeptOrExpired, toDate
        <4> HIDE DEF M
        <4> QED
          BY <4>1, <4>2
      <3>2. m.total # <<>> => m.total[1] = Cardinality(m.counted)
        BY <1>3, <1>4, <2>1 DEF Answered
      <3> HIDE DEF M, l
      <3> QED
        BY <1>2, <1>4, <2>1, <3>1, <3>2, ZenonT(40)
           DEF Answered, OnPage, Window, Alone, Twins, Place, Newer, Passes, currentOrgSlug
    <2>4. ASSUME view # <<>>, ~v.failed, walk.toSee # {}, l.to.page > 1
          PROVE  Continued(load[1], view[1])'
      <3>1. /\ l.to.filters = url.filters /\ l.to.page <= v.page + 1
            /\ \A e \in v.matching : toDate(e) <= l.query.to
            /\ \A e \in walk.toSee \cap events : toDate(e) >= l.query.from => e \in v.matching
        BY <1>11, <2>4 DEF Continued
      <3>2. \A e \in v.matching : Passes(l.to, e) /\ KeptOrExpired(e) /\ e \in Event
        BY <1>5, <1>11, <2>4, <3>1 DEF Chain, Passes, View
      <3>3. ASSUME NEW e \in v.matching, toDate(e) >= l.query.from
            PROVE  e \in M
        <4>1. toDate(e) \in Nat /\ toDate(e) <= l.query.to
          BY <3>1, <3>2, Days
        <4>2. e \in events
          <5>1. e \in events \/ toDate(e) + Ttl < today
            BY <3>2 DEF KeptOrExpired
          <5>2. Span(l.to) \in Nat /\ Span(l.to) < Ttl /\ Ttl \in Nat
            BY Spans, DashboardAssumption
          <5> HIDE DEF l
          <5> QED
            BY <1>1, <1>7, <2>2, <3>3, <4>1, <5>1, <5>2
        <4> QED
          BY <1>6, <3>2, <3>3, <4>1, <4>2
      <3>4. \A e \in walk.toSee \cap events : toDate(e) >= l.query.from => e \in M
        BY <3>1, <3>3
      <3>5. ASSUME NEW e \in walk.toSee \cap M
            PROVE  /\ e \in v.matching
                   /\ Newer(v.matching, e) \subseteq Newer(M, e)
                   /\ Twins(v.matching, e) \subseteq Twins(M, e)
        <4>1. e \in events /\ toDate(e) >= l.query.from /\ toDate(e) \in Nat
          BY <1>1, <1>6, <1>7, Days
        <4>2. e \in v.matching
          BY <3>1, <4>1
        <4>3. ASSUME NEW f \in v.matching, f.ts >= e.ts
              PROVE  f \in M
          <5>1. toDate(f) >= toDate(e) /\ toDate(f) \in Nat
            BY <1>1, <3>2, <4>1, <4>3, Days
          <5>2. toDate(f) >= l.query.from
            BY <1>7, <4>1, <5>1
          <5> QED
            BY <3>3, <5>2
        <4>4. \A f \in Newer(v.matching, e) \cup Twins(v.matching, e) : f \in v.matching /\ f.ts >= e.ts
          <5>1. \A f \in v.matching : f.ts \in Nat
            BY <3>2, EventAssumption
          <5>2. e.ts \in Nat
            BY <1>1, <4>1, EventAssumption
          <5> QED
            BY <5>1, <5>2 DEF Newer, Twins
        <4> QED
          BY <4>2, <4>3, <4>4 DEF Newer, Twins
      <3> HIDE DEF M, l
      <3> QED
        BY <1>2, <1>4, <2>1, <3>1, <3>4, <3>5 DEF Continued, toDate, Newer, Twins
    <2> QED
      BY <1>4, <1>8, <1>9, <1>10, <2>3, <2>4 DEF WalkInv
  <1>13. CASE QueryCount \/ QueryFails
    <2>1. /\ m.rows = l.rows /\ m.matching = l.matching
          /\ m.total # <<>> /\ m.total # l.total => m.total[1] = Cardinality(m.counted)
          /\ m.total = l.total => m.counted = l.counted
      BY <1>3, <1>13, OtherAnswered
    <2>2. Answered(load[1])'
      <3>1. \A e : KeptOrExpired(e) => KeptOrExpired(e)'
        BY <1>2 DEF KeptOrExpired, toDate
      <3>2. /\ l.rows = <<>> => l.matching = {}
            /\ l.rows # <<>> =>
                 /\ OnPage(l)
                 /\ \A e \in l.matching : Passes(l.to, e) /\ KeptOrExpired(e)'
        BY <1>3, <1>4, <3>1 DEF Answered
      <3>3. m.total # <<>> => m.total[1] = Cardinality(m.counted)
        BY <1>3, <1>4, <2>1 DEF Answered
      <3> HIDE DEF l
      <3> QED
        BY <1>2, <1>4, <2>1, <3>2, <3>3
           DEF Answered, OnPage, Window, Alone, Twins, Place, Newer, Passes, currentOrgSlug
    <2>3. ASSUME view # <<>>, ~v.failed, walk.toSee # {}, l.to.page > 1
          PROVE  Continued(load[1], view[1])'
      BY <1>2, <1>4, <1>11, <2>1, <2>3 DEF Continued, toDate, Newer, Twins
    <2> QED
      BY <1>4, <1>8, <1>9, <1>10, <2>2, <2>3 DEF WalkInv
  <1> QED
    BY <1>12, <1>13 DEF Loads

\* A push starts a rendering; of a page beyond the first only from the page shown.
LEMMA PushWalk ==
  ASSUME TablesOK, FormInv, WalkInv, UNCHANGED storeVars,
         NEW u \in Url, push(u), UNCHANGED <<url, view, entries, walk>>,
         u.page > 1 => /\ view # <<>> /\ ~view[1].failed
                       /\ u.filters = url.filters /\ u.page <= view[1].page + 1
  PROVE  WalkInv'
  <1> DEFINE v == view[1]
  <1>1. today \in Nat /\ BrowserTypeOK /\ UNCHANGED <<today, events, cost_daily>>
    BY SameStore DEF TablesOK, FormInv
  <1>2. /\ load' # <<>> /\ load'[1].to = u /\ load'[1].rows = <<>> /\ load'[1].total = <<>>
        /\ Asked(load'[1]) /\ Answered(load'[1]) /\ load'[1].query.to = today
    BY <1>1, Pushed
  <1>3. Asked(load[1])' /\ Answered(load[1])'
    <2>1. Asked(load[1])'
      BY <1>1, <1>2 DEF Asked, Span, parseRange, Where
    <2>2. Answered(load[1])'
      BY <1>2 DEF Answered
    <2> QED
      BY <2>1, <2>2
  <1>4. /\ view' # <<>> => Counted(view[1])'
        /\ \A n \in DOMAIN entries' : Counted(entries[n].view[1])'
        /\ load'[1].to.page > 1 => view' # <<>> /\ ~view'[1].failed
        /\ walk'.toSee \subseteq UNION cost_daily'
    BY <1>1, <1>2 DEF WalkInv, Counted
  <1>5. ASSUME view # <<>>, ~v.failed, walk.toSee # {}
        PROVE  /\ Chain(view[1])'
               /\ u.page > 1 => Continued(load[1], view[1])'
    <2>1. Chain(v)
      BY <1>5 DEF WalkInv
    <2>2. Chain(view[1])'
      BY <1>1, <2>1 DEF Chain, Span, parseRange, Passes, currentOrgSlug, KeptOrExpired,
                        toDate, Alone, Twins, Place, Newer
    <2>3. ASSUME u.page > 1
          PROVE  Continued(load[1], view[1])'
      <3>1. \A e \in v.matching : toDate(e) <= today
        BY <2>1 DEF Chain, KeptOrExpired
      <3>2. load'[1].query.from = today - Span(url)
        BY <1>2, <2>3 DEF Asked, Span
      <3>3. \A e \in walk.toSee \cap events : toDate(e) >= load'[1].query.from => e \in v.matching
        BY <2>1, <3>2 DEF Chain
      <3> QED
        BY <1>1, <1>2, <2>3, <3>1, <3>3 DEF Continued, toDate
    <2> QED
      BY <2>2, <2>3
  <1> QED
    BY <1>2, <1>3, <1>4, <1>5 DEF WalkInv

\* Back ends the walk.
LEMMA BackWalk ==
  ASSUME FormInv, WalkInv, Back
  PROVE  WalkInv'
  <1>1. /\ entries # <<>> /\ view' = Last(entries).view /\ entries' = Front(entries)
        /\ load' = <<>> /\ walk' = [toSee |-> {}, seen |-> {}]
    BY DEF Back
  <1>2. entries \in Seq(Entry)
    BY DEF FormInv, BrowserTypeOK, Entry
  <1>3. Len(entries) \in Nat \ {0} /\ DOMAIN entries = 1..Len(entries)
    BY <1>1, <1>2, EmptySeq, LenProperties
  <1>4. Last(entries) = entries[Len(entries)]
    BY DEF Last
  <1>5. /\ Front(entries) \in Seq(Entry) /\ Len(Front(entries)) = Len(entries) - 1
        /\ \A n \in 1..(Len(entries) - 1) : Front(entries)[n] = entries[n]
    BY <1>2, <1>3 DEF Front
  <1>6. DOMAIN Front(entries) = 1..(Len(entries) - 1)
    BY <1>5, LenProperties
  <1>7. \A n \in DOMAIN entries : Counted(entries[n].view[1])
    BY DEF WalkInv
  <1>8. Counted(view[1])'
    BY <1>1, <1>3, <1>4, <1>7 DEF Counted
  <1>9. \A n \in DOMAIN entries' : Counted(entries[n].view[1])'
    BY <1>1, <1>3, <1>5, <1>6, <1>7 DEF Counted
  <1>10. walk'.toSee = {}
    BY <1>1
  <1> QED
    BY <1>1, <1>8, <1>9, <1>10 DEF WalkInv

\* How many rows come before the end of a page, and before its start.
LEMMA RowsBefore ==
  \A n \in Nat \ {0} : n * PageSize \in Nat /\ (n - 1) * PageSize \in Nat
  <1> SUFFICES ASSUME NEW n \in Nat \ {0}
               PROVE  n * PageSize \in Nat /\ (n - 1) * PageSize \in Nat
    OBVIOUS
  <1>1. n \in Nat /\ n - 1 \in Nat /\ PageSize \in Nat
    BY DashboardAssumption
  <1>2. \A a, b \in Nat : a * b \in Nat
    OBVIOUS
  <1> QED
    BY <1>1, <1>2

\* A page that is rendered begins a walk, or continues the one it is shown in.
LEMMA RenderWalk ==
  ASSUME TablesOK, FormInv, WalkInv, Render, UNCHANGED storeVars
  PROVE  WalkInv'
  <1> DEFINE l == load[1]
             w == Shown(l)
             v == view[1]
             new == IF w.failed THEN {} ELSE w.rows
  <1>1. /\ load # <<>> /\ view' = <<w>> /\ url' = l.to /\ load' = <<>>
        /\ l.failed \/ (l.rows # <<>> /\ l.total # <<>>)
        /\ walk' = IF w.page > 1 THEN [walk EXCEPT !.seen = @ \cup new]
                   ELSE [toSee |-> IF w.failed THEN {} ELSE w.matching, seen |-> new]
        /\ entries' = IF view = <<>> THEN entries ELSE Append(entries, [url |-> url, view |-> view])
    BY DEF Render
  <1>2. UNCHANGED <<today, events, cost_daily>>
    BY SameStore
  <1>3. /\ l \in Loading /\ l.to.page \in Nat
        /\ walk \in [toSee : SUBSET Event, seen : SUBSET Event]
        /\ view # <<>> => v \in View
    BY <1>1, MaybeOne DEF FormInv, BrowserTypeOK, Loading, Url
  <1>4. Asked(l) /\ Answered(l)
    BY <1>1 DEF WalkInv
  <1>5. /\ w \in View /\ w.page = AsPage(l.to.page) /\ w.failed = l.failed
        /\ w.matching = l.matching /\ w.counted = l.counted
        /\ l.rows # <<>> => w.rows = l.rows[1]
        /\ l.total # <<>> => w.total = l.total[1]
    BY <1>3, ShownPage
  <1>6. /\ view'[1] = w /\ view' # <<>>
    BY <1>1
  <1>7. today \in Nat
    BY DEF TablesOK
  <1> HIDE DEF w, new
  <1>8. Counted(w)
    BY <1>1, <1>4, <1>5 DEF Counted, Answered
  <1>9. ASSUME ~w.failed
        PROVE  /\ l.rows # <<>> /\ w.rows = l.rows[1] /\ new = w.rows
               /\ \A e \in Alone(w.matching) : e \in w.rows <=>
                    Place(w.matching, e) \in l.query.offset..(l.query.offset + PageSize - 1)
               /\ l.query.offset = (w.page - 1) * PageSize
               /\ \A e \in w.matching : Passes(l.to, e) /\ KeptOrExpired(e)
    <2>1. l.rows # <<>> /\ w.rows = l.rows[1] /\ new = w.rows
      BY <1>1, <1>5, <1>9 DEF new
    <2>2. /\ \A e \in Alone(l.matching) : e \in l.rows[1] <=>
               Place(l.matching, e) \in l.query.offset..(l.query.offset + PageSize - 1)
          /\ \A e \in l.matching : Passes(l.to, e) /\ KeptOrExpired(e)
      BY <1>4, <2>1 DEF Answered, OnPage, Window
    <2>3. l.query.offset = (w.page - 1) * PageSize
      BY <1>4, <1>5 DEF Asked
    <2> QED
      BY <1>5, <2>1, <2>2, <2>3
  <1>10. \A e : Place(w.matching, e) \in Nat
    BY <1>5, EventAssumption, FS_Subset, FS_CardinalityType DEF Place, Newer, View
  <1>11. walk'.toSee \subseteq UNION cost_daily
    <2>1. CASE w.page > 1
      BY <1>1, <1>3, <2>1 DEF WalkInv
    <2>2. CASE ~(w.page > 1) /\ w.failed
      BY <1>1, <2>2
    <2>3. CASE ~(w.page > 1) /\ ~w.failed
      <3>1. walk'.toSee = w.matching
        BY <1>1, <2>3
      <3> QED
        BY <1>9, <2>3, <3>1 DEF KeptOrExpired
    <2> QED
      BY <2>1, <2>2, <2>3
  <1>12. \A n \in DOMAIN entries' : Counted(entries'[n].view[1])
    <2>1. entries \in Seq(Entry) /\ \A n \in DOMAIN entries : Counted(entries[n].view[1])
      BY DEF FormInv, BrowserTypeOK, WalkInv, Entry
    <2>2. CASE view = <<>>
      BY <1>1, <2>1, <2>2
    <2>3. CASE view # <<>>
      <3> DEFINE e == [url |-> url, view |-> view]
      <3>1. e \in Entry /\ Counted(e.view[1])
        BY <2>3 DEF FormInv, BrowserTypeOK, WalkInv, Entry
      <3>2. entries' = Append(entries, e)
        BY <1>1, <2>3
      <3> HIDE DEF e
      <3> QED
        BY <2>1, <3>1, <3>2, AppendProperties
    <2> QED
      BY <2>2, <2>3
  <1>13. ASSUME ~w.failed, walk'.toSee # {}
         PROVE  /\ \A e \in walk'.toSee \cap events : toDate(e) >= today - Span(l.to) => e \in w.matching
                /\ \A e \in walk'.toSee \cap Alone(w.matching) :
                     Place(w.matching, e) < w.page * PageSize => e \in walk'.seen
    <2>1. CASE ~(w.page > 1)
      <3>1. walk'.toSee = w.matching /\ walk'.seen = w.rows
        BY <1>1, <1>9, <1>13, <2>1
      <3>2. w.page = 1 /\ PageSize \in Nat
        BY <1>5, <2>1, DashboardAssumption DEF View
      <3>3. l.query.offset = 0 /\ w.page * PageSize = PageSize
        BY <1>9, <1>13, <3>2
      <3>4. \A e \in Alone(w.matching) : Place(w.matching, e) < PageSize => e \in w.rows
        BY <1>9, <1>10, <1>13, <3>2, <3>3
      <3> QED
        BY <3>1, <3>3, <3>4
    <2>2. CASE w.page > 1
      <3>1. l.to.page > 1 /\ w.page = l.to.page
        BY <1>3, <1>5, <2>2, PageNumber
      <3>2. walk'.toSee = walk.toSee /\ walk'.seen = walk.seen \cup w.rows
        BY <1>1, <1>3, <1>9, <1>13, <2>2
      <3>3. view # <<>> /\ ~v.failed
        BY <1>1, <3>1 DEF WalkInv
      <3>4. Chain(v) /\ Continued(l, v) /\ v \in View
        BY <1>1, <1>3, <1>13, <3>1, <3>2, <3>3 DEF WalkInv
      <3>5. /\ l.to.filters = url.filters /\ l.to.page <= v.page + 1
            /\ \A e \in walk.toSee \cap events : toDate(e) >= l.query.from => e \in w.matching
            /\ \A e \in walk.toSee \cap w.matching :
                 /\ e \in v.matching
                 /\ Newer(v.matching, e) \subseteq Newer(w.matching, e)
                 /\ Twins(v.matching, e) \subseteq Twins(w.matching, e)
        BY <1>5, <1>9, <1>13, <3>4 DEF Continued
      <3>6. ASSUME NEW e \in walk'.toSee \cap events, toDate(e) >= today - Span(l.to)
            PROVE  e \in w.matching
        <4>1. toDate(e) >= l.query.from
          <5>1. /\ l.query.from = l.query.to - Span(l.to) /\ l.query.to <= today
            BY <1>4 DEF Asked
          <5>2. l.query.to \in Nat /\ Span(l.to) \in Nat /\ toDate(e) \in Nat
            BY <1>3, <3>2, Spans, Days DEF Loading, Query
          <5> HIDE DEF l
          <5> QED
            BY <1>7, <3>6, <5>1, <5>2
        <4> QED
          BY <3>2, <3>5, <3>6, <4>1
      <3>7. ASSUME NEW e \in walk'.toSee \cap Alone(w.matching), Place(w.matching, e) < w.page * PageSize
            PROVE  e \in walk'.seen
        <4>1. /\ PageSize \in Nat \ {0} /\ w.page \in Nat \ {0} /\ v.page \in Nat \ {0}
              /\ w.page <= v.page + 1
          BY <1>5, <3>1, <3>4, <3>5, DashboardAssumption DEF View
        <4>2. CASE Place(w.matching, e) >= (w.page - 1) * PageSize
          <5>1. (w.page - 1) * PageSize + PageSize = w.page * PageSize
            BY <4>1
          <5>2. (w.page - 1) * PageSize \in Nat /\ w.page * PageSize \in Nat
            BY <4>1, RowsBefore
          <5>3. Place(w.matching, e) \in l.query.offset..(l.query.offset + PageSize - 1)
            BY <1>9, <1>10, <1>13, <3>7, <4>1, <4>2, <5>1, <5>2
          <5>4. e \in w.rows
            BY <1>9, <1>13, <5>3
          <5> QED
            BY <3>2, <5>4
        <4>3. CASE Place(w.matching, e) < (w.page - 1) * PageSize
          <5>1. e \in walk.toSee /\ e \in Alone(v.matching) /\ Newer(v.matching, e) \subseteq Newer(w.matching, e)
            <6>1. e \in walk.toSee \cap w.matching /\ Twins(w.matching, e) = {e}
              BY <3>2, <3>7 DEF Alone
            <6>2. e \in v.matching /\ Twins(v.matching, e) \subseteq {e} /\ e \in Twins(v.matching, e)
              BY <3>5, <6>1 DEF Twins
            <6> QED
              BY <3>5, <6>1, <6>2 DEF Alone
          <5>2. Place(v.matching, e) <= Place(w.matching, e)
            <6>1. IsFiniteSet(Newer(w.matching, e))
              BY <1>5, EventAssumption, FS_Subset DEF Newer, View
            <6> QED
              BY <5>1, <6>1, FS_Subset DEF Place
          <5>3. Place(v.matching, e) \in Nat
            BY <3>4, EventAssumption, FS_Subset, FS_CardinalityType DEF Place, Newer, View
          <5>4. (w.page - 1) * PageSize <= v.page * PageSize
            <6>1. w.page - 1 <= v.page /\ w.page - 1 \in Nat
              BY <4>1
            <6> DEFINE a == w.page - 1
                       b == v.page
            <6>2. a \in Nat /\ b \in Nat /\ a <= b
              BY <4>1, <6>1
            <6> HIDE DEF a, b
            <6>3. a * PageSize <= b * PageSize
              BY <4>1, <6>2
            <6> QED
              BY <6>3 DEF a, b
          <5>5. Place(v.matching, e) < v.page * PageSize
            <6>1. (w.page - 1) * PageSize \in Nat /\ v.page * PageSize \in Nat
              BY <4>1, RowsBefore
            <6> QED
              BY <1>10, <4>3, <5>2, <5>3, <5>4, <6>1
          <5>6. e \in walk.seen
            BY <3>4, <5>1, <5>5 DEF Chain
          <5> QED
            BY <3>2, <5>6
        <4> QED
          <5>1. (w.page - 1) * PageSize \in Nat
            BY <4>1, RowsBefore
          <5> QED
            BY <1>10, <4>2, <4>3, <5>1
      <3> QED
        BY <3>6, <3>7
    <2> QED
      BY <2>1, <2>2
  <1>14. ASSUME ~w.failed, walk'.toSee # {}
         PROVE  Chain(view[1])'
    <2>1. \A e \in w.matching : Passes(l.to, e) /\ KeptOrExpired(e)'
      BY <1>2, <1>9, <1>14 DEF KeptOrExpired, toDate
    <2> QED
      BY <1>1, <1>2, <1>6, <1>13, <1>14, <2>1 DEF Chain, Span, parseRange, Passes, currentOrgSlug,
                                             toDate, Alone, Twins, Place, Newer
  <1> QED
    BY <1>1, <1>2, <1>6, <1>8, <1>11, <1>12, <1>14 DEF WalkInv, Counted

\* Every step of the browser keeps the walk.
LEMMA StepWalk ==
  ASSUME TablesOK, FormInv, WalkInv, Browse, UNCHANGED storeVars
  PROVE  WalkInv'
  <1>1. /\ url \in Url /\ form \in Filters
        /\ view # <<>> => view[1] \in View
    BY MaybeOne DEF FormInv, BrowserTypeOK
  <1>2. CASE Open
    BY <1>2, BareUrl, PushWalk DEF Open
  <1>3. CASE apply
    <2> DEFINE u == [filters |-> form, page |-> 1]
    <2>1. push(u) /\ UNCHANGED <<url, view, entries, walk>>
      BY <1>3 DEF apply
    <2>2. u \in Url /\ ~(u.page > 1)
      BY <1>1 DEF Url
    <2> HIDE DEF u
    <2> QED
      BY <2>1, <2>2, PushWalk
  <1>4. CASE reset
    BY <1>4, BareUrl, PushWalk DEF reset
  <1>5. ASSUME NEW p \in Buttons, go(p)
        PROVE  WalkInv'
    <2> DEFINE u == [url EXCEPT !.page = p]
    <2>1. push(u) /\ UNCHANGED <<url, view, entries, walk>>
      BY <1>5 DEF go
    <2>2. /\ view # <<>> /\ ~view[1].failed
          /\ p \in {view[1].page - 1, view[1].page + 1}
      BY DEF Buttons
    <2>3. view[1].page \in Nat \ {0}
      BY <1>1, <2>2 DEF View
    <2>4. p \in Nat /\ p <= view[1].page + 1
      BY <2>2, <2>3
    <2>5. u \in Url /\ u.filters = url.filters /\ u.page = p
      BY <1>1, <2>4 DEF Url
    <2> HIDE DEF u
    <2> QED
      BY <2>1, <2>2, <2>4, <2>5, PushWalk
  <1>6. ASSUME NEW t \in Typed, setV(t[1], t[2])
        PROVE  WalkInv'
    <2>1. UNCHANGED <<url, load, view, entries, walk>>
      BY <1>6 DEF setV
    <2>2. UNCHANGED <<today, events, cost_daily>>
      BY SameStore
    <2> QED
      BY <2>1, <2>2 DEF WalkInv, Asked, Answered, OnPage, Window, Counted, Chain, Continued, KeptOrExpired,
           toDate, Passes, currentOrgSlug, Span, parseRange, Alone, Twins, Place, Newer, Where
  <1>7. CASE Loads
    BY <1>7, LoadsWalk
  <1>8. CASE Render
    BY <1>8, RenderWalk
  <1>9. CASE Back
    BY <1>9, BackWalk
  <1> QED
    BY <1>2, <1>3, <1>4, <1>5, <1>6, <1>7, <1>8, <1>9 DEF Browse, Loads

\* Nothing but the tables is in the parts about the tables, nothing but the browser in
\* those about the form.
LEMMA StoreOrBrowse ==
  /\ TablesOK /\ UNCHANGED storeVars => TablesOK'
  /\ FormInv /\ UNCHANGED browserVars => FormInv'
  /\ WalkInv /\ UNCHANGED vars => WalkInv'
  <1>1. ASSUME TablesOK, UNCHANGED storeVars
        PROVE  TablesOK'
    BY <1>1 DEF storeVars, rollupVars, TablesOK, Partition, toDate, DailyOf, AttrOf, PromptOf,
                DailyKey, AttrKey, PromptKey, toStartOfHour
  <1>2. ASSUME FormInv, UNCHANGED browserVars
        PROVE  FormInv'
    BY <1>2 DEF browserVars, FormInv, BrowserTypeOK, Opened, FormKept, Latest, Initial, parseRange
  <1>3. ASSUME WalkInv, UNCHANGED vars
        PROVE  WalkInv'
    <2>1. UNCHANGED <<url, load, view, entries, walk, today, events, cost_daily>>
      BY <1>3, SameStore DEF vars, browserVars
    <2> QED
      BY <1>3, <2>1 DEF WalkInv, Asked, Answered, OnPage, Window, Counted, Chain, Continued, KeptOrExpired,
           toDate, Passes, currentOrgSlug, Span, parseRange, Alone, Twins, Place, Newer, Where
  <1> QED
    BY <1>1, <1>2, <1>3

\* No table has a row, and the browser shows nothing.
LEMMA InitDash == Init => DashInv
  <1> SUFFICES ASSUME Init PROVE DashInv
    OBVIOUS
  <1>1. TablesOK
    BY EventAssumption DEF Init, StoreInit, TablesOK, Partition
  <1>2. /\ url = Bare /\ form = Initial(Bare) /\ load = <<>> /\ view = <<>>
        /\ entries = <<>> /\ visits = 0 /\ unsent = FALSE
        /\ walk = [toSee |-> {}, seen |-> {}]
    BY DEF Init, BrowserInit
  <1>3. entries \in Seq([url : Url, view : Maybe(View)]) /\ DOMAIN entries = {}
    BY <1>2
  <1>4. BrowserTypeOK
    BY <1>2, <1>3, BareUrl, InitialForm, MaybeOne DEF BrowserTypeOK
  <1>5. FormInv
    BY <1>2, <1>3, <1>4 DEF FormInv, Opened, FormKept, Latest
  <1>6. WalkInv
    BY <1>2, <1>3 DEF WalkInv
  <1> QED
    BY <1>1, <1>5, <1>6 DEF DashInv

\* Every step keeps the invariant: the writers leave the browser alone, and the
\* browser the tables.
LEMMA StepDash == DashInv /\ [Next]_vars => DashInv'
  <1> SUFFICES ASSUME DashInv, [Next]_vars PROVE DashInv'
    OBVIOUS
  <1>1. TablesOK /\ FormInv /\ WalkInv /\ (load # <<>> => Asked(load[1]))
    BY DEF DashInv, WalkInv
  <1>2. CASE StoreNext /\ UNCHANGED browserVars
    BY <1>1, <1>2, StepTables, StoreWalk, StoreOrBrowse DEF DashInv
  <1>3. CASE Browse /\ UNCHANGED storeVars
    BY <1>1, <1>3, StepForm, StepWalk, StoreOrBrowse DEF DashInv
  <1>4. CASE UNCHANGED vars
    BY <1>1, <1>4, StoreOrBrowse DEF DashInv, vars
  <1> QED
    BY <1>2, <1>3, <1>4 DEF Next

-----------------------------------------------------------------------------
(* Sums over finite sets.                                                   *)

\* Induction over the subsets of a finite set.
LEMMA SubsetInduction ==
  ASSUME NEW U, IsFiniteSet(U), NEW P,
         \A s \in SUBSET U : (\A x \in s : s \ {x} \in P) => s \in P
  PROVE  SUBSET U \subseteq P
  <1> SUFFICES ASSUME NEW bad \in SUBSET U, bad \notin P PROVE FALSE
    OBVIOUS
  <1> DEFINE T == {Cardinality(s) : s \in (SUBSET U) \ P}
  <1>1. \A s \in SUBSET U : IsFiniteSet(s) /\ Cardinality(s) \in Nat
    BY FS_Subset, FS_CardinalityType
  <1>2. T \subseteq Nat /\ T # {}
    BY <1>1
  <1>3. PICK n \in T : \A m \in T : <<m, n>> \notin OpToRel(<, Nat)
    <2> HIDE DEF T
    <2> QED
      BY <1>2, NatLessThanWellFounded, WFMin
  <1>4. \A m \in T : ~(m < n)
    BY <1>2, <1>3 DEF OpToRel
  <1>5. PICK s \in (SUBSET U) \ P : n = Cardinality(s)
    BY <1>3
  <1>6. ASSUME NEW x \in s
        PROVE  s \ {x} \in P
    <2>1. Cardinality(s \ {x}) = Cardinality(s) - 1
      BY <1>1, FS_RemoveElement
    <2>2. Cardinality(s \ {x}) < n
      BY <1>1, <1>5, <2>1
    <2> QED
      BY <1>4, <2>2
  <1> QED
    BY <1>5, <1>6

Pick(s) == CHOOSE x \in s : TRUE

Step(f, g, t) == IF t = {} THEN 0 ELSE f[Pick(t)] + g[t \ {Pick(t)}]

Iter(g, f, U) == g = [t \in SUBSET U |-> Step(f, g, t)]

\* What is picked from a set is in it.
LEMMA Picked == \A s : s # {} => Pick(s) \in s
  BY DEF Pick

\* Two sums by one recursion agree on what they both sum.
LEMMA IterAgree ==
  ASSUME NEW U, NEW V, NEW W, IsFiniteSet(W), W \subseteq U, W \subseteq V,
         NEW f, NEW g, Iter(g, f, U), NEW e, NEW h, Iter(h, e, V),
         \A x \in W : f[x] = e[x]
  PROVE  g[W] = h[W]
  <1> DEFINE P == {s \in SUBSET W : g[s] = h[s]}
  <1>1. ASSUME NEW s \in SUBSET W, \A x \in s : s \ {x} \in P
        PROVE  g[s] = h[s]
    <2>1. g[s] = Step(f, g, s) /\ h[s] = Step(e, h, s)
      BY DEF Iter
    <2>2. s # {} => Pick(s) \in s
      BY Picked
    <2>3. Step(f, g, s) = Step(e, h, s)
      BY <1>1, <2>2 DEF Step
    <2> QED
      BY <2>1, <2>3
  <1>2. SUBSET W \subseteq P
    <2>1. \A s \in SUBSET W : (\A x \in s : s \ {x} \in P) => s \in P
      BY <1>1
    <2> HIDE DEF P
    <2> QED
      BY <2>1, SubsetInduction
  <1> QED
    BY <1>2

Summable(f, S) == IsFiniteSet(S) /\ f \in [S -> Int]

Sums(g, f, U) == g \in [SUBSET U -> Int] /\ Iter(g, f, U)

Turn(g, base, pick, join, t) ==
  IF t = {} THEN base ELSE join[pick[t]][g[t \ {pick[t]}]]

Fold(g, base, pick, join, U) == g = [t \in SUBSET U |-> Turn(g, base, pick, join, t)]

Picks(pick, U) == \A t \in SUBSET U : t # {} => pick[t] \in t

\* A recursion that takes one element after another away has a solution.
LEMMA FoldExists ==
  ASSUME NEW U, IsFiniteSet(U), NEW R, NEW base \in R, NEW pick, Picks(pick, U),
         NEW join \in [U -> [R -> R]]
  PROVE  \E g \in [SUBSET U -> R] : Fold(g, base, pick, join, U)
  <1> DEFINE Turned(g, t) == Turn(g, base, pick, join, t)
             Upto(g, n) == \A t \in SUBSET U : Cardinality(t) < n => g[t] = Turned(g, t)
             Bad == {n \in Nat : ~ \E g \in [SUBSET U -> R] : Upto(g, n)}
  <1>0. \A s \in SUBSET U : IsFiniteSet(s) /\ Cardinality(s) \in Nat
    BY FS_Subset, FS_CardinalityType
  <1>p. \A t \in SUBSET U : t # {} => pick[t] \in t
    BY DEF Picks
  <1>1. ASSUME NEW n \in Nat, NEW g \in [SUBSET U -> R], Upto(g, n)
        PROVE  \E h \in [SUBSET U -> R] : Upto(h, n + 1)
    <2> DEFINE h == [t \in SUBSET U |-> IF Cardinality(t) = n THEN Turned(g, t) ELSE g[t]]
    <2>1. ASSUME NEW t \in SUBSET U
          PROVE  Turned(g, t) \in R
      <3>1. CASE t # {}
        <4>1. pick[t] \in U /\ g[t \ {pick[t]}] \in R
          BY <1>p, <3>1
        <4> QED
          BY <3>1, <4>1 DEF Turn
      <3> QED
        BY <3>1 DEF Turn
    <2>2. h \in [SUBSET U -> R]
      BY <2>1, SMTT(30)
    <2>3. ASSUME NEW t \in SUBSET U, Cardinality(t) < n + 1
          PROVE  Turned(h, t) = Turned(g, t)
      <3>1. CASE t # {}
        <4> DEFINE r == t \ {pick[t]}
        <4>1. pick[t] \in t
          BY <1>p, <3>1
        <4>2. Cardinality(r) = Cardinality(t) - 1 /\ r \in SUBSET U
          BY <1>0, <4>1, FS_RemoveElement
        <4>3. h[r] = g[r]
          BY <1>0, <2>3, <4>2
        <4> QED
          BY <3>1, <4>3 DEF Turn
      <3> QED
        BY <3>1, SMTT(30) DEF Turn
    <2> HIDE DEF Turned
    <2>4. ASSUME NEW t \in SUBSET U, Cardinality(t) < n + 1
          PROVE  h[t] = Turned(g, t)
      <3>1. CASE Cardinality(t) = n
        BY <3>1
      <3>2. CASE Cardinality(t) # n
        <4>1. Cardinality(t) < n
          BY <1>0, <2>4, <3>2
        <4> QED
          BY <1>1, <3>2, <4>1
      <3> QED
        BY <3>1, <3>2
    <2>5. Upto(h, n + 1)
      BY <2>3, <2>4
    <2> QED
      BY <2>2, <2>5
  <1>2. \E g \in [SUBSET U -> R] : Upto(g, 0)
    <2>1. [t \in SUBSET U |-> base] \in [SUBSET U -> R]
      OBVIOUS
    <2>2. Upto([t \in SUBSET U |-> base], 0)
      BY <1>0
    <2> QED
      BY <2>1, <2>2
  <1>3. Bad = {}
    <2> SUFFICES ASSUME Bad # {} PROVE FALSE
      OBVIOUS
    <2>1. PICK n \in Bad : \A m \in Bad : <<m, n>> \notin OpToRel(<, Nat)
      <3>1. Bad \subseteq Nat
        OBVIOUS
      <3> HIDE DEF Bad
      <3> QED
        BY <3>1, NatLessThanWellFounded, WFMin
    <2>2. \A m \in Bad : ~(m < n)
      BY <2>1 DEF OpToRel
    <2>3. n # 0
      BY <1>2
    <2>4. n - 1 \in Nat /\ n - 1 < n /\ n = (n - 1) + 1
      BY <2>3
    <2>5. n - 1 \notin Bad
      BY <2>2, <2>4
    <2>6. PICK g \in [SUBSET U -> R] : Upto(g, n - 1)
      BY <2>4, <2>5
    <2> HIDE DEF Upto
    <2>7. \E h \in [SUBSET U -> R] : Upto(h, n)
      BY <1>1, <2>4, <2>6
    <2> QED
      BY <2>7
  <1>4. PICK g \in [SUBSET U -> R] : Upto(g, Cardinality(U) + 1)
    <2>1. Cardinality(U) + 1 \in Nat
      BY <1>0
    <2> HIDE DEF Upto
    <2> QED
      BY <1>3, <2>1
  <1>5. \A t \in SUBSET U : g[t] = Turned(g, t)
    <2> HIDE DEF Turned
    <2> TAKE t \in SUBSET U
    <2>1. Cardinality(t) <= Cardinality(U) /\ Cardinality(t) \in Nat /\ Cardinality(U) \in Nat
      BY <1>0, FS_Subset
    <2> QED
      BY <1>4, <2>1
  <1>6. Fold(g, base, pick, join, U)
    BY <1>5 DEF Fold
  <1> QED
    BY <1>6

\* So has the recursion of a sum.
LEMMA IterExists ==
  ASSUME NEW U, NEW f, Summable(f, U)
  PROVE  \E g : Sums(g, f, U)
  <1> DEFINE pick == [t \in SUBSET U |-> Pick(t)]
             join == [x \in U |-> [r \in Int |-> f[x] + r]]
  <1>1. IsFiniteSet(U) /\ join \in [U -> [Int -> Int]]
    BY DEF Summable
  <1>2. Picks(pick, U)
    BY Picked DEF Picks
  <1>3. PICK g \in [SUBSET U -> Int] : Fold(g, 0, pick, join, U)
    <2>1. 0 \in Int
      OBVIOUS
    <2> HIDE DEF pick, join
    <2> QED
      BY <1>1, <1>2, <2>1, FoldExists
  <1>4. ASSUME NEW t \in SUBSET U
        PROVE  Turn(g, 0, pick, join, t) = Step(f, g, t)
    <2>1. CASE t # {}
      <3>1. Pick(t) \in U /\ pick[t] = Pick(t) /\ g[t \ {Pick(t)}] \in Int
        BY <2>1, Picked
      <3> QED
        BY <2>1, <3>1 DEF Step, Turn
    <2> QED
      BY <2>1 DEF Step, Turn
  <1>5. Iter(g, f, U)
    BY <1>3, <1>4 DEF Fold, Iter
  <1> QED
    BY <1>5 DEF Sums

\* Which element is taken first does not matter.
LEMMA IterRemoves ==
  ASSUME NEW U, NEW f, Summable(f, U), NEW g, Sums(g, f, U)
  PROVE  \A s \in SUBSET U : \A x \in s : g[s] = f[x] + g[s \ {x}]
  <1>0. IsFiniteSet(U)
    BY DEF Summable
  <1>f. f \in [U -> Int] /\ g \in [SUBSET U -> Int] /\ Iter(g, f, U)
    BY DEF Summable, Sums
  <1> DEFINE P == {s \in SUBSET U : \A x \in s : g[s] = f[x] + g[s \ {x}]}
  <1>1. ASSUME NEW s \in SUBSET U, \A y \in s : s \ {y} \in P, NEW x \in s
        PROVE  g[s] = f[x] + g[s \ {x}]
    <2> DEFINE p == Pick(s)
    <2>1. p \in s
      BY Picked
    <2>2. g[s] = f[p] + g[s \ {p}]
      BY <1>f, <2>1 DEF Iter, Step
    <2> HIDE DEF p
    <2>3. CASE x = p
      BY <2>2, <2>3
    <2>4. CASE x # p
      <3> DEFINE r == s \ {p, x}
      <3>1. (s \ {p}) \ {x} = r /\ (s \ {x}) \ {p} = r /\ x \in s \ {p} /\ p \in s \ {x}
        BY <2>1, <2>4
      <3>2. g[s \ {p}] = f[x] + g[r]
        BY <1>1, <2>1, <3>1
      <3>3. g[s \ {x}] = f[p] + g[r]
        BY <1>1, <2>1, <3>1
      <3>4. f[x] \in Int /\ f[p] \in Int /\ g[r] \in Int
        BY <1>f, <2>1
      <3> QED
        BY <2>2, <3>2, <3>3, <3>4
    <2> QED
      BY <2>3, <2>4
  <1>2. SUBSET U \subseteq P
    <2>1. \A s \in SUBSET U : (\A x \in s : s \ {x} \in P) => s \in P
      BY <1>1
    <2> HIDE DEF P
    <2> QED
      BY <1>0, <2>1, SubsetInduction
  <1>3. \A s \in SUBSET U : s \in P
    <2> HIDE DEF P
    <2> QED
      BY <1>2
  <1>4. \A s : s \in P => \A x \in s : g[s] = f[x] + g[s \ {x}]
    OBVIOUS
  <1> HIDE DEF P
  <1> QED
    BY <1>3, <1>4

-----------------------------------------------------------------------------
(* Sums.                                                                    *)

\* The sum of a function over its domain.
Sigma(f) == (CHOOSE g : Sums(g, f, DOMAIN f))[DOMAIN f]

\* Any part of what can be summed can be.
LEMMA SummablePart ==
  ASSUME NEW f, NEW S, Summable(f, S), NEW A \in SUBSET S
  PROVE  Summable(Restrict(f, A), A) /\ \A x \in A : Restrict(f, A)[x] = f[x]
  BY FS_Subset DEF Summable, Restrict

\* Every recursion over a set that holds the domain sums the function.
LEMMA SigmaIs ==
  ASSUME NEW S, NEW f, Summable(f, S),
         NEW U, S \subseteq U, NEW e, NEW g, Iter(g, e, U), \A x \in S : e[x] = f[x]
  PROVE  Sigma(f) = g[S]
  <1> DEFINE h == CHOOSE h : Sums(h, f, S)
  <1>1. DOMAIN f = S /\ IsFiniteSet(S)
    BY DEF Summable
  <1>2. Sums(h, f, S)
    BY IterExists
  <1>3. Sigma(f) = h[S]
    BY <1>1 DEF Sigma
  <1> HIDE DEF h
  <1>4. Iter(h, f, S)
    BY <1>2 DEF Sums
  <1>5. g[S] = h[S]
    BY <1>1, <1>4, IterAgree
  <1> QED
    BY <1>3, <1>5

\* A sum is an integer.
LEMMA SigmaType ==
  ASSUME NEW S, NEW f, Summable(f, S)
  PROVE  Sigma(f) \in Int
  <1>1. PICK g : Sums(g, f, S)
    BY IterExists
  <1>2. Iter(g, f, S) /\ g[S] \in Int
    BY <1>1 DEF Sums
  <1>3. Sigma(f) = g[S]
    BY <1>2, SigmaIs
  <1> QED
    BY <1>2, <1>3

\* The sum of nothing.
LEMMA SigmaEmpty == \A f : Summable(f, {}) => Sigma(f) = 0
  <1> SUFFICES ASSUME NEW f, Summable(f, {}) PROVE Sigma(f) = 0
    OBVIOUS
  <1>1. PICK g : Sums(g, f, {})
    BY IterExists
  <1>2. Iter(g, f, {}) /\ g[{}] = 0
    BY <1>1 DEF Sums, Iter, Step
  <1>3. Sigma(f) = g[{}]
    BY <1>2, SigmaIs
  <1> QED
    BY <1>2, <1>3

\* A sum is any one of its terms and the sum of the others.
LEMMA SigmaRemoves ==
  ASSUME NEW S, NEW f, Summable(f, S), NEW x \in S
  PROVE  Sigma(f) = f[x] + Sigma(Restrict(f, S \ {x}))
  <1> DEFINE rest == Restrict(f, S \ {x})
  <1>1. PICK g : Sums(g, f, S)
    BY IterExists
  <1>2. Iter(g, f, S)
    BY <1>1 DEF Sums
  <1>3. Sigma(f) = g[S]
    BY <1>2, SigmaIs
  <1>4. Summable(rest, S \ {x}) /\ \A y \in S \ {x} : f[y] = rest[y]
    BY SummablePart
  <1> HIDE DEF rest
  <1>5. Sigma(rest) = g[S \ {x}]
    BY <1>2, <1>4, SigmaIs
  <1>6. g[S] = f[x] + g[S \ {x}]
    BY <1>1, IterRemoves
  <1>7. Sigma(f) = f[x] + Sigma(rest)
    BY <1>3, <1>5, <1>6
  <1> QED
    BY <1>7 DEF rest

\* Parts of parts.
LEMMA RestrictTwice ==
  \A f, A, B : B \subseteq A => Restrict(Restrict(f, A), B) = Restrict(f, B)
  BY DEF Restrict

\* A part of a function's domain is summed by taking one away.
LEMMA SigmaPartRemoves ==
  ASSUME NEW S, NEW f, Summable(f, S), NEW A \in SUBSET S, NEW x \in A
  PROVE  Sigma(Restrict(f, A)) = f[x] + Sigma(Restrict(f, A \ {x}))
  <1> DEFINE e == Restrict(f, A)
  <1>1. Summable(e, A) /\ e[x] = f[x] /\ Restrict(e, A \ {x}) = Restrict(f, A \ {x})
    BY SummablePart, RestrictTwice
  <1>2. SUFFICES Sigma(e) = f[x] + Sigma(Restrict(f, A \ {x}))
    OBVIOUS
  <1> HIDE DEF e
  <1>3. Sigma(e) = e[x] + Sigma(Restrict(e, A \ {x}))
    BY <1>1, SigmaRemoves
  <1> QED
    BY <1>1, <1>3

\* Two parts that have nothing in common are summed apart.
LEMMA SigmaSplits ==
  ASSUME NEW S, NEW f, Summable(f, S), NEW A \in SUBSET S, NEW B \in SUBSET S, A \cap B = {}
  PROVE  Sigma(Restrict(f, A \cup B)) = Sigma(Restrict(f, A)) + Sigma(Restrict(f, B))
  <1> DEFINE On(s) == Sigma(Restrict(f, s))
             P == {s \in SUBSET A : On(s \cup B) = On(s) + On(B)}
  <1>0. \A s \in SUBSET S : On(s) \in Int
    <2> TAKE s \in SUBSET S
    <2>1. Summable(Restrict(f, s), s)
      BY SummablePart
    <2> QED
      BY <2>1, SigmaType
  <1>1. \A s \in SUBSET S : \A x \in s : On(s) = f[x] + On(s \ {x})
    <2> TAKE s \in SUBSET S
    <2> TAKE x \in s
    <2> QED
      BY SigmaPartRemoves
  <1>2. On({}) = 0
    <2>1. Summable(Restrict(f, {}), {})
      BY SummablePart
    <2> QED
      BY <2>1, SigmaEmpty
  <1>f. \A x \in S : f[x] \in Int
    BY DEF Summable
  <1> HIDE DEF On
  <1>3. ASSUME NEW s \in SUBSET A, \A x \in s : s \ {x} \in P
        PROVE  On(s \cup B) = On(s) + On(B)
    <2>0. s \in SUBSET S /\ s \cup B \in SUBSET S
      OBVIOUS
    <2>1. CASE s = {}
      <3>1. s \cup B = B
        BY <2>1
      <3> QED
        BY <1>0, <1>2, <2>1, <3>1
    <2>2. CASE s # {}
      <3>1. PICK x \in s : TRUE
        BY <2>2
      <3>2. (s \cup B) \ {x} = (s \ {x}) \cup B /\ x \in s \cup B
        BY <3>1
      <3>3. On(s \cup B) = f[x] + On((s \ {x}) \cup B)
        BY <1>1, <2>0, <3>2
      <3>4. On((s \ {x}) \cup B) = On(s \ {x}) + On(B)
        BY <1>3
      <3>5. On(s) = f[x] + On(s \ {x})
        BY <1>1, <2>0
      <3>6. f[x] \in Int /\ On(s \ {x}) \in Int /\ On(B) \in Int
        BY <1>0, <1>f, <2>0
      <3> QED
        BY <3>3, <3>4, <3>5, <3>6
    <2> QED
      BY <2>1, <2>2
  <1>4. SUBSET A \subseteq P
    <2>1. \A s \in SUBSET A : (\A x \in s : s \ {x} \in P) => s \in P
      BY <1>3
    <2>2. IsFiniteSet(A)
      BY FS_Subset DEF Summable
    <2> HIDE DEF P
    <2> QED
      BY <2>1, <2>2, SubsetInduction
  <1>5. A \in P
    <2> HIDE DEF P
    <2> QED
      BY <1>4
  <1>6. On(A \cup B) = On(A) + On(B)
    BY <1>5
  <1> QED
    BY <1>6 DEF On

\* Disjoint rows, each summed, sum to what is in them all.
LEMMA SigmaOfRows ==
  ASSUME NEW rows, IsFiniteSet(rows), \A q, r \in rows : q \cap r # {} => q = r,
         NEW f, Summable(f, UNION rows),
         NEW h, h = [r \in rows |-> Sigma(Restrict(f, r))]
  PROVE  Summable(h, rows) /\ Sigma(h) = Sigma(f)
  <1> DEFINE S == UNION rows
             Row(s) == Sigma(Restrict(f, s))
             Of(t) == Sigma(Restrict(h, t))
             P == {t \in SUBSET rows : Of(t) = Row(UNION t)}
  <1>1. \A r \in SUBSET S : Row(r) \in Int
    <2> TAKE r \in SUBSET S
    <2>1. Summable(Restrict(f, r), r)
      BY SummablePart
    <2> QED
      BY <2>1, SigmaType
  <1>2. \A a, b \in SUBSET S : a \cap b = {} => Row(a \cup b) = Row(a) + Row(b)
    BY SigmaSplits
  <1>3. Row({}) = 0
    <2>1. Summable(Restrict(f, {}), {})
      BY SummablePart
    <2> QED
      BY <2>1, SigmaEmpty
  <1>4. Restrict(f, S) = f /\ Restrict(h, rows) = h
    BY DEF Restrict, Summable
  <1>5. \A r \in rows : h[r] = Row(r) /\ r \in SUBSET S
    OBVIOUS
  <1>6. Row(S) = Sigma(f)
    BY <1>4
  <1> HIDE DEF Row, S
  <1>7. Summable(h, rows)
    <2>1. \A r \in rows : h[r] \in Int
      BY <1>1, <1>5
    <2>2. h = [r \in rows |-> h[r]]
      OBVIOUS
    <2> QED
      BY <2>1, <2>2 DEF Summable
  <1>8. \A t \in SUBSET rows : \A x \in t : Of(t) = h[x] + Of(t \ {x})
    <2> TAKE t \in SUBSET rows
    <2> TAKE x \in t
    <2> QED
      BY <1>7, SigmaPartRemoves
  <1>9. Of({}) = 0
    <2>1. Summable(Restrict(h, {}), {})
      BY <1>7, SummablePart
    <2> QED
      BY <2>1, SigmaEmpty
  <1>10. Of(rows) = Sigma(h)
    BY <1>4
  <1> HIDE DEF Of
  <1>11. ASSUME NEW t \in SUBSET rows, \A x \in t : t \ {x} \in P
         PROVE  Of(t) = Row(UNION t)
    <2>1. CASE t = {}
      <3>1. UNION t = {}
        BY <2>1
      <3> QED
        BY <1>3, <1>9, <2>1, <3>1
    <2>2. CASE t # {}
      <3>1. PICK x \in t : TRUE
        BY <2>2
      <3> DEFINE rest == UNION (t \ {x})
      <3>2. UNION t = x \cup rest /\ x \cap rest = {} /\ x \in SUBSET S /\ rest \in SUBSET S
        BY <1>5, <3>1
      <3>3. Row(UNION t) = Row(x) + Row(rest)
        BY <1>2, <3>2
      <3>4. Of(t \ {x}) = Row(rest)
        BY <1>11, <3>1
      <3> QED
        BY <1>5, <1>8, <3>1, <3>3, <3>4
    <2> QED
      BY <2>1, <2>2
  <1>12. SUBSET rows \subseteq P
    <2>1. \A s \in SUBSET rows : (\A x \in s : s \ {x} \in P) => s \in P
      BY <1>11
    <2> HIDE DEF P
    <2> QED
      BY <2>1, SubsetInduction
  <1>13. rows \in P
    <2> HIDE DEF P
    <2> QED
      BY <1>12
  <1>14. Of(rows) = Row(S)
    BY <1>13 DEF S
  <1> QED
    BY <1>6, <1>7, <1>10, <1>14

-----------------------------------------------------------------------------
(* The figures.                                                             *)

\* What MapThenSumSet evaluates, of a function.
SumBy(f, S) == (CHOOSE g : g = [t \in SUBSET S |-> Step(f, g, t)])[S]

\* It is the sum.
LEMMA SumByIs ==
  ASSUME NEW S, NEW f, Summable(f, S)
  PROVE  SumBy(f, S) = Sigma(f)
  <1> DEFINE g == CHOOSE g : g = [t \in SUBSET S |-> Step(f, g, t)]
  <1>1. PICK h : Sums(h, f, S)
    BY IterExists
  <1>2. h = [t \in SUBSET S |-> Step(f, h, t)]
    BY <1>1 DEF Sums, Iter
  <1>3. g = [t \in SUBSET S |-> Step(f, g, t)]
    BY <1>2
  <1>4. SumBy(f, S) = g[S]
    BY DEF SumBy
  <1> HIDE DEF g
  <1>5. Iter(g, f, S)
    BY <1>3 DEF Iter
  <1>6. Sigma(f) = g[S]
    BY <1>5, SigmaIs
  <1> QED
    BY <1>4, <1>6

\* The costs of events are summed.
LEMMA CostIs ==
  ASSUME NEW S, NEW f, Summable(f, S), \A e \in S : f[e] = e.cost
  PROVE  Cost(S) = Sigma(f)
  <1> DEFINE Body(g) == [s \in SUBSET S |->
               IF s = {} THEN 0 ELSE (CHOOSE x \in s : TRUE).cost + g[s \ {CHOOSE x \in s : TRUE}]]
  <1>1. Cost(S) = (CHOOSE g : g = Body(g))[S]
    BY DEF Cost, MapThenSumSet, MapThenFoldSet
  <1>2. \A h : Body(h) = [t \in SUBSET S |-> Step(f, h, t)]
    <2> TAKE h
    <2>1. \A s \in SUBSET S : s # {} => (CHOOSE x \in s : TRUE) \in S
      OBVIOUS
    <2> QED
      BY <2>1 DEF Step, Pick
  <1> HIDE DEF Body
  <1>3. Cost(S) = SumBy(f, S)
    BY <1>1, <1>2 DEF SumBy
  <1> QED
    BY <1>3, SumByIs

\* The tokens of events are summed.
LEMMA TokensIs ==
  ASSUME NEW S, NEW f, Summable(f, S), \A e \in S : f[e] = e.tokens
  PROVE  Tokens(S) = Sigma(f)
  <1> DEFINE Body(g) == [s \in SUBSET S |->
               IF s = {} THEN 0 ELSE (CHOOSE x \in s : TRUE).tokens + g[s \ {CHOOSE x \in s : TRUE}]]
  <1>1. Tokens(S) = (CHOOSE g : g = Body(g))[S]
    BY DEF Tokens, MapThenSumSet, MapThenFoldSet
  <1>2. \A h : Body(h) = [t \in SUBSET S |-> Step(f, h, t)]
    <2> TAKE h
    <2>1. \A s \in SUBSET S : s # {} => (CHOOSE x \in s : TRUE) \in S
      OBVIOUS
    <2> QED
      BY <2>1 DEF Step, Pick
  <1> HIDE DEF Body
  <1>3. Tokens(S) = SumBy(f, S)
    BY <1>1, <1>2 DEF SumBy
  <1> QED
    BY <1>3, SumByIs

\* The costs of rows are summed.
LEMMA TotalCostIs ==
  ASSUME NEW S, NEW f, Summable(f, S), \A e \in S : f[e] = Cost(e)
  PROVE  TotalCost(S) = Sigma(f)
  <1> DEFINE Body(g) == [s \in SUBSET S |->
               IF s = {} THEN 0 ELSE Cost((CHOOSE x \in s : TRUE)) + g[s \ {CHOOSE x \in s : TRUE}]]
  <1>1. TotalCost(S) = (CHOOSE g : g = Body(g))[S]
    BY DEF TotalCost, MapThenSumSet, MapThenFoldSet
  <1>2. \A h : Body(h) = [t \in SUBSET S |-> Step(f, h, t)]
    <2> TAKE h
    <2>1. \A s \in SUBSET S : s # {} => (CHOOSE x \in s : TRUE) \in S
      OBVIOUS
    <2> QED
      BY <2>1 DEF Step, Pick
  <1> HIDE DEF Body
  <1>3. TotalCost(S) = SumBy(f, S)
    BY <1>1, <1>2 DEF SumBy
  <1> QED
    BY <1>3, SumByIs

\* The tokens of rows are summed.
LEMMA TotalTokensIs ==
  ASSUME NEW S, NEW f, Summable(f, S), \A e \in S : f[e] = Tokens(e)
  PROVE  TotalTokens(S) = Sigma(f)
  <1> DEFINE Body(g) == [s \in SUBSET S |->
               IF s = {} THEN 0 ELSE Tokens((CHOOSE x \in s : TRUE)) + g[s \ {CHOOSE x \in s : TRUE}]]
  <1>1. TotalTokens(S) = (CHOOSE g : g = Body(g))[S]
    BY DEF TotalTokens, MapThenSumSet, MapThenFoldSet
  <1>2. \A h : Body(h) = [t \in SUBSET S |-> Step(f, h, t)]
    <2> TAKE h
    <2>1. \A s \in SUBSET S : s # {} => (CHOOSE x \in s : TRUE) \in S
      OBVIOUS
    <2> QED
      BY <2>1 DEF Step, Pick
  <1> HIDE DEF Body
  <1>3. TotalTokens(S) = SumBy(f, S)
    BY <1>1, <1>2 DEF SumBy
  <1> QED
    BY <1>3, SumByIs

\* The events of rows are counted.
LEMMA RequestsIs ==
  ASSUME NEW S, NEW f, Summable(f, S), \A e \in S : f[e] = Cardinality(e)
  PROVE  Requests(S) = Sigma(f)
  <1> DEFINE Body(g) == [s \in SUBSET S |->
               IF s = {} THEN 0 ELSE Cardinality((CHOOSE x \in s : TRUE)) + g[s \ {CHOOSE x \in s : TRUE}]]
  <1>1. Requests(S) = (CHOOSE g : g = Body(g))[S]
    BY DEF Requests, MapThenSumSet, MapThenFoldSet
  <1>2. \A h : Body(h) = [t \in SUBSET S |-> Step(f, h, t)]
    <2> TAKE h
    <2>1. \A s \in SUBSET S : s # {} => (CHOOSE x \in s : TRUE) \in S
      OBVIOUS
    <2> QED
      BY <2>1 DEF Step, Pick
  <1> HIDE DEF Body
  <1>3. Requests(S) = SumBy(f, S)
    BY <1>1, <1>2 DEF SumBy
  <1> QED
    BY <1>3, SumByIs

CostOf   == [e \in Event |-> e.cost]
TokensOf == [e \in Event |-> e.tokens]
OneOf    == [e \in Event |-> 1]

\* Rows of a rollup: no event is in two of them.
Apiece(rows) ==
  /\ \A r \in rows : r # {} /\ r \subseteq Event
  /\ \A q, r \in rows : q \cap r # {} => q = r

\* Costs and tokens are numbers of their last digit.
LEMMA Amounts == Summable(CostOf, Event) /\ Summable(TokensOf, Event) /\ Summable(OneOf, Event)
  BY EventAssumption DEF Summable, CostOf, TokensOf, OneOf

\* A set is counted by ones.
LEMMA CardinalityIs ==
  ASSUME NEW S \in SUBSET Event
  PROVE  Cardinality(S) = Sigma(Restrict(OneOf, S))
  <1> DEFINE On(s) == Sigma(Restrict(OneOf, s))
             P == {s \in SUBSET S : Cardinality(s) = On(s)}
  <1>1. \A s \in SUBSET Event : \A x \in s : On(s) = OneOf[x] + On(s \ {x})
    <2> TAKE s \in SUBSET Event
    <2> TAKE x \in s
    <2> QED
      BY Amounts, SigmaPartRemoves
  <1>2. On({}) = 0
    <2>1. Summable(Restrict(OneOf, {}), {})
      BY Amounts, SummablePart
    <2> QED
      BY <2>1, SigmaEmpty
  <1>3. \A s \in SUBSET Event : IsFiniteSet(s) /\ Cardinality(s) \in Nat
    BY EventAssumption, FS_Subset, FS_CardinalityType
  <1> HIDE DEF On
  <1>4. ASSUME NEW s \in SUBSET S, \A x \in s : s \ {x} \in P
        PROVE  Cardinality(s) = On(s)
    <2>1. CASE s = {}
      BY <1>2, <2>1, FS_EmptySet
    <2>2. CASE s # {}
      <3>1. PICK x \in s : TRUE
        BY <2>2
      <3>2. Cardinality(s \ {x}) = Cardinality(s) - 1
        BY <1>3, FS_RemoveElement
      <3>3. On(s) = 1 + On(s \ {x})
        BY <1>1 DEF OneOf
      <3>4. On(s \ {x}) = Cardinality(s \ {x})
        BY <1>4
      <3> QED
        BY <1>3, <3>2, <3>3, <3>4
    <2> QED
      BY <2>1, <2>2
  <1>5. SUBSET S \subseteq P
    <2>1. \A s \in SUBSET S : (\A x \in s : s \ {x} \in P) => s \in P
      BY <1>4
    <2>2. IsFiniteSet(S)
      BY <1>3
    <2> HIDE DEF P
    <2> QED
      BY <2>1, <2>2, SubsetInduction
  <1>6. S \in P
    <2> HIDE DEF P
    <2> QED
      BY <1>5
  <1> QED
    BY <1>6 DEF On

\* The figures of events.
LEMMA EventSums ==
  ASSUME NEW S \in SUBSET Event
  PROVE  /\ Cost(S) = Sigma(Restrict(CostOf, S))
         /\ Tokens(S) = Sigma(Restrict(TokensOf, S))
         /\ Cardinality(S) = Sigma(Restrict(OneOf, S))
  <1>1. Cost(S) = Sigma(Restrict(CostOf, S))
    <2> DEFINE f == Restrict(CostOf, S)
    <2>1. Summable(f, S) /\ \A e \in S : f[e] = e.cost
      BY Amounts, SummablePart DEF CostOf
    <2> HIDE DEF f
    <2>2. Cost(S) = Sigma(f)
      BY <2>1, CostIs
    <2> QED
      BY <2>2 DEF f
  <1>2. Tokens(S) = Sigma(Restrict(TokensOf, S))
    <2> DEFINE f == Restrict(TokensOf, S)
    <2>1. Summable(f, S) /\ \A e \in S : f[e] = e.tokens
      BY Amounts, SummablePart DEF TokensOf
    <2> HIDE DEF f
    <2>2. Tokens(S) = Sigma(f)
      BY <2>1, TokensIs
    <2> QED
      BY <2>2 DEF f
  <1> QED
    BY <1>1, <1>2, CardinalityIs

\* The figures of rows are the figures of the events in them.
LEMMA RowSums ==
  ASSUME NEW rows, Apiece(rows)
  PROVE  /\ TotalCost(rows) = Cost(UNION rows)
         /\ TotalTokens(rows) = Tokens(UNION rows)
         /\ Requests(rows) = Cardinality(UNION rows)
  <1> DEFINE S == UNION rows
  <1>0. S \in SUBSET Event /\ \A r \in rows : r \in SUBSET S /\ r \in SUBSET Event
    BY DEF Apiece
  <1>1. IsFiniteSet(rows) /\ \A q, r \in rows : q \cap r # {} => q = r
    <2>1. rows \in SUBSET SUBSET Event
      BY <1>0
    <2>2. IsFiniteSet(SUBSET Event)
      BY EventAssumption, FS_SUBSET
    <2>3. IsFiniteSet(rows)
      BY <2>1, <2>2, FS_Subset
    <2> QED
      BY <2>3 DEF Apiece
  <1>2. ASSUME NEW f, Summable(f, Event)
        PROVE  LET h == [r \in rows |-> Sigma(Restrict(f, r))]
               IN  Summable(h, rows) /\ Sigma(h) = Sigma(Restrict(f, S))
    <2> DEFINE e == Restrict(f, S)
    <2>1. Summable(e, S)
      BY <1>0, <1>2, SummablePart
    <2>2. \A r \in rows : Restrict(e, r) = Restrict(f, r)
      BY <1>0, RestrictTwice
    <2> HIDE DEF e
    <2> DEFINE h == [r \in rows |-> Sigma(Restrict(e, r))]
    <2>3. h = [r \in rows |-> Sigma(Restrict(f, r))]
      BY <2>2
    <2>4. h = [r \in rows |-> Sigma(Restrict(e, r))]
      OBVIOUS
    <2> HIDE DEF h
    <2>5. Summable(h, rows) /\ Sigma(h) = Sigma(e)
      BY <1>1, <2>1, <2>4, SigmaOfRows
    <2> QED
      BY <2>3, <2>5 DEF e
  <1>3. \A r \in rows : /\ Cost(r) = Sigma(Restrict(CostOf, r))
                        /\ Tokens(r) = Sigma(Restrict(TokensOf, r))
                        /\ Cardinality(r) = Sigma(Restrict(OneOf, r))
    BY <1>0, EventSums
  <1>4. /\ Cost(S) = Sigma(Restrict(CostOf, S))
        /\ Tokens(S) = Sigma(Restrict(TokensOf, S))
        /\ Cardinality(S) = Sigma(Restrict(OneOf, S))
    BY <1>0, EventSums
  <1> HIDE DEF S
  <1>5. TotalCost(rows) = Cost(S)
    <2> DEFINE h == [r \in rows |-> Sigma(Restrict(CostOf, r))]
    <2>1. Summable(h, rows) /\ Sigma(h) = Sigma(Restrict(CostOf, S))
      BY <1>2, Amounts
    <2>2. \A r \in rows : h[r] = Cost(r)
      BY <1>3
    <2> HIDE DEF h
    <2> QED
      BY <1>4, <2>1, <2>2, TotalCostIs
  <1>6. TotalTokens(rows) = Tokens(S)
    <2> DEFINE h == [r \in rows |-> Sigma(Restrict(TokensOf, r))]
    <2>1. Summable(h, rows) /\ Sigma(h) = Sigma(Restrict(TokensOf, S))
      BY <1>2, Amounts
    <2>2. \A r \in rows : h[r] = Tokens(r)
      BY <1>3
    <2> HIDE DEF h
    <2> QED
      BY <1>4, <2>1, <2>2, TotalTokensIs
  <1>7. Requests(rows) = Cardinality(S)
    <2> DEFINE h == [r \in rows |-> Sigma(Restrict(OneOf, r))]
    <2>1. Summable(h, rows) /\ Sigma(h) = Sigma(Restrict(OneOf, S))
      BY <1>2, Amounts
    <2>2. \A r \in rows : h[r] = Cardinality(r)
      BY <1>3
    <2> HIDE DEF h
    <2> QED
      BY <1>4, <2>1, <2>2, RequestsIs
  <1> QED
    BY <1>5, <1>6, <1>7 DEF S

-----------------------------------------------------------------------------
(* What a query makes of rows, and of the events in them.                   *)

\* A column that is one value in each row.
Uniform(rows, key) == \A row \in rows : \A d, e \in row : key[d] = key[e]

Group(k, rows) == [key |-> k, cost_usd |-> TotalCost(rows), requests |-> Requests(rows)]

GroupsOf(rows, key) ==
  {Group(k, {r \in rows : key[Sample(r)] = k}) : k \in {key[Sample(r)] : r \in rows}}

GroupsOfEvents(S, key) ==
  {LET group == {e \in S : key[e] = k}
   IN  [key |-> k, cost_usd |-> Cost(group), requests |-> Cardinality(group)] :
     k \in {key[e] : e \in S}}

\* A row's sample is one of its events.
LEMMA Sampled ==
  ASSUME NEW rows, Apiece(rows), NEW r \in rows
  PROVE  Sample(r) \in r /\ Sample(r) \in Event
  <1>1. \E e \in r : TRUE
    BY DEF Apiece
  <1>2. Sample(r) \in r
    BY <1>1 DEF Sample
  <1> QED
    BY <1>2 DEF Apiece

\* Rows picked by their sample are rows, of the events picked.
LEMMA PickedRows ==
  ASSUME NEW rows, Apiece(rows), NEW sel,
         \A r \in rows : \A d, e \in r : d \in sel <=> e \in sel
  PROVE  LET picked == {r \in rows : Sample(r) \in sel}
         IN  Apiece(picked) /\ UNION picked = (UNION rows) \cap sel
  <1> DEFINE picked == {r \in rows : Sample(r) \in sel}
  <1>1. Apiece(picked)
    BY DEF Apiece
  <1>2. \A r \in rows : Sample(r) \in r
    BY Sampled
  <1>3. UNION picked = (UNION rows) \cap sel
    <2>1. ASSUME NEW e \in UNION picked
          PROVE  e \in (UNION rows) \cap sel
      BY <1>2
    <2>2. ASSUME NEW e \in (UNION rows) \cap sel
          PROVE  e \in UNION picked
      BY <1>2
    <2> QED
      BY <2>1, <2>2
  <1> QED
    BY <1>1, <1>3

\* GROUP BY a column that is one value in each row groups the events.
LEMMA GroupsAre ==
  ASSUME NEW rows, Apiece(rows), NEW key, Uniform(rows, key)
  PROVE  GroupsOf(rows, key) = GroupsOfEvents(UNION rows, key)
  <1> DEFINE S == UNION rows
             Alike(k) == {r \in rows : key[Sample(r)] = k}
             Within(k) == {e \in S : key[e] = k}
  <1>1. \A r \in rows : Sample(r) \in r
    BY Sampled
  <1>2. {key[Sample(r)] : r \in rows} = {key[e] : e \in S}
    <2>1. \A r \in rows : \E e \in S : key[e] = key[Sample(r)]
      BY <1>1
    <2>2. \A e \in S : \E r \in rows : key[e] = key[Sample(r)]
      BY <1>1 DEF Uniform
    <2> QED
      BY <2>1, <2>2
  <1>3. \A k : TotalCost(Alike(k)) = Cost(Within(k)) /\ Requests(Alike(k)) = Cardinality(Within(k))
    <2> TAKE k
    <2>1. Apiece(Alike(k))
      BY DEF Apiece
    <2>2. UNION Alike(k) = Within(k)
      BY <1>1 DEF Uniform
    <2> HIDE DEF Alike, Within
    <2> QED
      BY <2>1, <2>2, RowSums
  <1> DEFINE Row(k) == [key |-> k, cost_usd |-> TotalCost(Alike(k)), requests |-> Requests(Alike(k))]
             Sum(k) == [key |-> k, cost_usd |-> Cost(Within(k)), requests |-> Cardinality(Within(k))]
             Keys == {key[e] : e \in S}
  <1>4. \A k : Row(k) = Sum(k)
    <2> HIDE DEF Alike, Within
    <2> QED
      BY <1>3
  <1>5. GroupsOf(rows, key) = {Row(k) : k \in Keys}
    BY <1>2 DEF GroupsOf, Group
  <1>6. GroupsOfEvents(S, key) = {Sum(k) : k \in Keys}
    BY DEF GroupsOfEvents
  <1> HIDE DEF S, Row, Sum, Keys
  <1>7. GroupsOf(rows, key) = GroupsOfEvents(S, key)
    BY <1>4, <1>5, <1>6
  <1> QED
    BY <1>7 DEF S

-----------------------------------------------------------------------------
(* The columns that are grouped by.                                         *)

DateOf     == [e \in Event |-> toDate(e)]
ProviderOf == [e \in Event |-> e.provider]
ModelOf    == [e \in Event |-> e.model]
LabelsOf   == [e \in Event |-> <<Label(e.version), Label(e.model)>>]
DimsOf(dims) == [e \in Event |-> [i \in DOMAIN dims |-> e[dims[i]]]]

\* Grouping by an expression is grouping by the column it is.
LEMMA GroupedBy ==
  ASSUME NEW rows, Apiece(rows)
  PROVE  /\ GroupBy(rows, toDate) = GroupsOf(rows, DateOf)
         /\ GroupBy(rows, LAMBDA e : e.provider) = GroupsOf(rows, ProviderOf)
         /\ GroupBy(rows, LAMBDA e : e.model) = GroupsOf(rows, ModelOf)
         /\ GroupBy(rows, LAMBDA e : <<Label(e.version), Label(e.model)>>) = GroupsOf(rows, LabelsOf)
         /\ \A dims : GroupBy(rows, LAMBDA e : [i \in DOMAIN dims |-> e[dims[i]]])
                        = GroupsOf(rows, DimsOf(dims))
  <1>1. \A r \in rows : Sample(r) \in Event
    BY Sampled
  <1>2. GroupBy(rows, toDate) = GroupsOf(rows, DateOf)
    BY <1>1 DEF GroupBy, GroupsOf, Group, DateOf
  <1>3. GroupBy(rows, LAMBDA e : e.provider) = GroupsOf(rows, ProviderOf)
    BY <1>1 DEF GroupBy, GroupsOf, Group, ProviderOf
  <1>4. GroupBy(rows, LAMBDA e : e.model) = GroupsOf(rows, ModelOf)
    BY <1>1 DEF GroupBy, GroupsOf, Group, ModelOf
  <1>5. GroupBy(rows, LAMBDA e : <<Label(e.version), Label(e.model)>>) = GroupsOf(rows, LabelsOf)
    BY <1>1 DEF GroupBy, GroupsOf, Group, LabelsOf
  <1>6. ASSUME NEW dims
        PROVE  GroupBy(rows, LAMBDA e : [i \in DOMAIN dims |-> e[dims[i]]])
                 = GroupsOf(rows, DimsOf(dims))
    <2> DEFINE Of(r) == [i \in DOMAIN dims |-> Sample(r)[dims[i]]]
    <2>1. \A r \in rows : DimsOf(dims)[Sample(r)] = Of(r)
      BY <1>1 DEF DimsOf
    <2>2. GroupBy(rows, LAMBDA e : [i \in DOMAIN dims |-> e[dims[i]]]) =
            {Group(k, {r \in rows : Of(r) = k}) : k \in {Of(r) : r \in rows}}
      BY DEF GroupBy, Group
    <2> DEFINE key == DimsOf(dims)
               Here(k) == {r \in rows : key[Sample(r)] = k}
               There(k) == {r \in rows : Of(r) = k}
    <2>3. GroupsOf(rows, key) = {Group(k, Here(k)) : k \in {key[Sample(r)] : r \in rows}}
      BY DEF GroupsOf
    <2>4. \A r \in rows : key[Sample(r)] = Of(r)
      BY <2>1
    <2> HIDE DEF Of, key
    <2>5. \A k : Here(k) = There(k)
      BY <2>4
    <2>6. {key[Sample(r)] : r \in rows} = {Of(r) : r \in rows}
      BY <2>4
    <2>7. GroupBy(rows, LAMBDA e : [i \in DOMAIN dims |-> e[dims[i]]]) =
            {Group(k, There(k)) : k \in {Of(r) : r \in rows}}
      BY <2>2
    <2> HIDE DEF Here, There
    <2>8. GroupBy(rows, LAMBDA e : [i \in DOMAIN dims |-> e[dims[i]]]) = GroupsOf(rows, key)
      BY <2>3, <2>5, <2>6, <2>7
    <2> QED
      BY <2>8 DEF key
  <1> QED
    BY <1>2, <1>3, <1>4, <1>5, <1>6

-----------------------------------------------------------------------------
(* The queries, of any tables.                                              *)

TotalsOf(daily, org, from, to) ==
  LET rows == Rows(daily, org, from, to)
  IN  [cost_usd |-> TotalCost(rows), total_tokens |-> TotalTokens(rows),
       requests |-> Requests(rows)]

SpendOf(daily, org, from, to) == ByDay(GroupBy(Rows(daily, org, from, to), toDate))

ProvidersOf(daily, org, from, to) ==
  Top(GroupBy(Rows(daily, org, from, to), LAMBDA e : e.provider), 12)

ModelsOf(daily, org, from, to) ==
  Top(GroupBy(Rows(daily, org, from, to), LAMBDA e : e.model), 8)

MoMOf(daily, org) ==
  LET own  == {r \in daily : Sample(r).org = org}
      cur  == TotalCost({r \in own : toDate(Sample(r)) >= toStartOfMonth(today)})
      prev == TotalCost({r \in own : toDate(Sample(r)) \in MoMPrevious})
  IN  [current_mtd |-> cur, previous_mtd |-> prev,
       delta_pct |-> IF prev > 0 THEN <<((cur - prev) * 100) \div prev>> ELSE <<>>]

HoursOf(hourly, org, from, to) ==
  {row \in hourly :
     LET hour == toStartOfHour(Sample(row)) * Hour
     IN  /\ Sample(row).org = org
         /\ hour >= from * Day /\ hour < to * Day + Day}

BreakdownOf(rows, dims) ==
  mapBreakdown(Top(GroupBy(rows, LAMBDA e : [i \in DOMAIN dims |-> e[dims[i]]]), BreakdownLimit))

RowsOf(daily, hourly, org, from, to, dims) ==
  CASE ToSet(dims) \subseteq DailyDims -> Rows(daily, org, from, to)
    [] ToSet(dims) \subseteq AttrDims  -> HoursOf(hourly, org, from, to)
    [] OTHER                           -> RawRows(org, from, to)

PromptsOf(prompts, org) == {Sample(r).prompt : r \in {r \in prompts : Sample(r).org = org}} \ {""}

OfPrompt(rows, p) == {r \in rows : Sample(r).prompt = p}

ComparisonOf(rows) ==
  {[key |-> g.key, cost_usd |-> g.cost_usd, requests |-> g.requests] :
     g \in GroupBy(rows, LAMBDA e : <<Label(e.version), Label(e.model)>>)}

BillsOf(bills, org, from, to) == {b \in bills : b.bill.org = org /\ b.bill.date \in from..to}

TilesOf(rows, bills) ==
  LET providers == {Sample(r).provider : r \in rows} \cup {b.bill.provider : b \in bills}
  IN  {[provider |-> p,
        tracked_usd |-> TotalCost({r \in rows : Sample(r).provider = p}),
        billed_usd |-> Billed({b \in bills : b.bill.provider = p})] : p \in providers}

EverBilled(bills, org) == {b.bill.provider : b \in {b \in bills : b.bill.org = org}}

DaysOf(rows, bills) ==
  LET days == {toDate(Sample(r)) : r \in rows} \cup {b.bill.date : b \in bills}
  IN  ByDate({[date |-> d,
               tracked_usd |-> TotalCost({r \in rows : toDate(Sample(r)) = d}),
               billed_usd |-> Billed({b \in bills : b.bill.date = d})] : d \in days})

-----------------------------------------------------------------------------

\* The totals read the daily rollup.
LEMMA TotalsRead ==
  /\ \A org, from, to :
       getOverviewTotals(org, from, to) = TotalsOf(cost_daily, org, from, to)
  /\ \A org, from, to :
       Unmerged!getOverviewTotals(org, from, to) = TotalsOf(Apart(cost_daily), org, from, to)
  BY DEF TotalsOf, Unmerged!getOverviewTotals, getOverviewTotals, Unmerged!TotalCost, TotalCost,
         Unmerged!Cost, Cost, Unmerged!TotalTokens, TotalTokens, Unmerged!Tokens, Tokens,
         Unmerged!Requests, Requests, Unmerged!Cardinality, Cardinality, Unmerged!Rows, Rows,
         Unmerged!Sample, Sample, Unmerged!toDate, toDate, Unmerged!Day, Day,
         Unmerged!MapThenSumSet, MapThenSumSet, Unmerged!MapThenFoldSet, MapThenFoldSet

\* The daily series reads the daily rollup.
LEMMA SpendRead ==
  /\ \A org, from, to :
       getDailySpend(org, from, to) = SpendOf(cost_daily, org, from, to)
  /\ \A org, from, to :
       Unmerged!getDailySpend(org, from, to) = SpendOf(Apart(cost_daily), org, from, to)
  BY DEF SpendOf, Unmerged!getDailySpend, getDailySpend, Unmerged!ByDay, ByDay,
         Unmerged!GroupBy, GroupBy, Unmerged!TotalCost, TotalCost, Unmerged!Cost, Cost,
         Unmerged!Requests, Requests, Unmerged!Cardinality, Cardinality, Unmerged!MapThenSumSet,
         MapThenSumSet, Unmerged!MapThenFoldSet, MapThenFoldSet, Unmerged!Rows, Rows,
         Unmerged!Sample, Sample, Unmerged!toDate, toDate, Unmerged!Day, Day,
         Unmerged!Sorted, Sorted

\* The table of providers reads the daily rollup.
LEMMA ProvidersRead ==
  /\ \A org, from, to :
       getCostByProvider(org, from, to) = ProvidersOf(cost_daily, org, from, to)
  /\ \A org, from, to :
       Unmerged!getCostByProvider(org, from, to) = ProvidersOf(Apart(cost_daily), org, from, to)
  BY DEF ProvidersOf, Unmerged!getCostByProvider, getCostByProvider, Unmerged!Top, Top,
         Unmerged!Min, Min, Unmerged!GroupBy, GroupBy, Unmerged!TotalCost, TotalCost,
         Unmerged!Cost, Cost, Unmerged!Requests, Requests, Unmerged!Cardinality, Cardinality,
         Unmerged!MapThenSumSet, MapThenSumSet, Unmerged!MapThenFoldSet, MapThenFoldSet,
         Unmerged!Rows, Rows, Unmerged!Sample, Sample, Unmerged!toDate, toDate, Unmerged!Day,
         Day, Unmerged!Sorted, Sorted

\* The table of models reads the daily rollup.
LEMMA ModelsRead ==
  /\ \A org, from, to :
       getCostByModel(org, from, to) = ModelsOf(cost_daily, org, from, to)
  /\ \A org, from, to :
       Unmerged!getCostByModel(org, from, to) = ModelsOf(Apart(cost_daily), org, from, to)
  BY SMTT(30) DEF ModelsOf, Unmerged!getCostByModel, getCostByModel, Unmerged!Top, Top, Unmerged!Min,
         Min, Unmerged!GroupBy, GroupBy, Unmerged!TotalCost, TotalCost, Unmerged!Cost, Cost,
         Unmerged!Requests, Requests, Unmerged!Cardinality, Cardinality, Unmerged!MapThenSumSet,
         MapThenSumSet, Unmerged!MapThenFoldSet, MapThenFoldSet, Unmerged!Rows, Rows,
         Unmerged!Sample, Sample, Unmerged!toDate, toDate, Unmerged!Day, Day,
         Unmerged!Sorted, Sorted

\* The comparison of months reads the daily rollup.
LEMMA MoMRead ==
  /\ \A org :
       getMoMTotals(org) = MoMOf(cost_daily, org)
  /\ \A org :
       Unmerged!getMoMTotals(org) = MoMOf(Apart(cost_daily), org)
  BY DEF MoMOf, Unmerged!getMoMTotals, getMoMTotals, Unmerged!TotalCost, TotalCost,
         Unmerged!Cost, Cost, Unmerged!MapThenSumSet, MapThenSumSet, Unmerged!Sample, Sample,
         Unmerged!toDate, toDate, Unmerged!Day, Day, Unmerged!MoMPrevious, MoMPrevious,
         Unmerged!LastMonthStart, LastMonthStart, Unmerged!toStartOfMonth, toStartOfMonth,
         Unmerged!MonthOf, MonthOf, Unmerged!MonthStart, MonthStart, Unmerged!FoldLeft,
         FoldLeft, Unmerged!MapThenFoldSet, MapThenFoldSet, Unmerged!Max, Max

\* The rows of a breakdown are of the rollup of its dimensions, or raw.
LEMMA RowsRead ==
  /\ \A org, from, to, dims :
       BreakdownRows(org, from, to, dims) = RowsOf(cost_daily, cost_attr_hourly, org, from, to, dims)
  /\ \A org, from, to, dims :
       Unmerged!BreakdownRows(org, from, to, dims) = RowsOf(Apart(cost_daily), Apart(cost_attr_hourly), org, from, to, dims)
  BY DEF RowsOf, HoursOf, Unmerged!BreakdownRows, BreakdownRows, Unmerged!DailyDims, DailyDims,
         Unmerged!AttrDims, AttrDims, Unmerged!ToSet, ToSet, Unmerged!HourRows, HourRows,
         Unmerged!toStartOfHour, toStartOfHour, Unmerged!Hour, Hour, Unmerged!RawRows, RawRows,
         Unmerged!Rows, Rows, Unmerged!Sample, Sample, Unmerged!toDate, toDate, Unmerged!Day,
         Day

\* A breakdown groups them.
LEMMA BreakdownRead ==
  /\ \A org, from, to, dims :
       getBreakdown(org, from, to, dims) = BreakdownOf(BreakdownRows(org, from, to, dims), dims)
  /\ \A org, from, to, dims :
       Unmerged!getBreakdown(org, from, to, dims)
         = BreakdownOf(Unmerged!BreakdownRows(org, from, to, dims), dims)
  BY DEF BreakdownOf, Unmerged!getBreakdown, getBreakdown, Unmerged!mapBreakdown, mapBreakdown,
         Unmerged!Label, Label, Unmerged!Top, Top, Unmerged!Min, Min, Unmerged!Sample, Sample,
         Unmerged!GroupBy, GroupBy, Unmerged!TotalCost, TotalCost, Unmerged!Cost, Cost,
         Unmerged!Requests, Requests, Unmerged!Cardinality, Cardinality, Unmerged!MapThenSumSet,
         MapThenSumSet, Unmerged!MapThenFoldSet, MapThenFoldSet, Unmerged!Sorted, Sorted

\* A breakdown by tag reads the raw rows.
LEMMA TagsRead ==
  \A org, from, to, key : Unmerged!getTagBreakdown(org, from, to, key) = getTagBreakdown(org, from, to, key)
  BY DEF Unmerged!getTagBreakdown, getTagBreakdown, Unmerged!mapBreakdown, mapBreakdown,
         Unmerged!Label, Label, Unmerged!RawRows, RawRows, Unmerged!Top, Top, Unmerged!Min, Min,
         Unmerged!Sample, Sample, Unmerged!Day, Day, Unmerged!GroupBy, GroupBy,
         Unmerged!TotalCost, TotalCost, Unmerged!Cost, Cost, Unmerged!Requests, Requests,
         Unmerged!Cardinality, Cardinality, Unmerged!MapThenSumSet, MapThenSumSet,
         Unmerged!MapThenFoldSet, MapThenFoldSet, Unmerged!Sorted, Sorted

\* The prompts listed are those of the prompt rollup.
LEMMA PromptsRead ==
  /\ \A org :
       listPromptKeys(org) = PromptsOf(prompt_version_daily, org)
  /\ \A org :
       Unmerged!listPromptKeys(org) = PromptsOf(Apart(prompt_version_daily), org)
  BY DEF PromptsOf, Unmerged!listPromptKeys, listPromptKeys, Unmerged!Sample, Sample

\* The comparison of a prompt reads the prompt rollup.
LEMMA ComparisonRead ==
  /\ \A org, p, from, to :
       getPromptComparison(org, p, from, to) = ComparisonOf(OfPrompt(Rows(prompt_version_daily, org, from, to), p))
  /\ \A org, p, from, to :
       Unmerged!getPromptComparison(org, p, from, to) = ComparisonOf(OfPrompt(Rows(Apart(prompt_version_daily), org, from, to), p))
  BY DEF ComparisonOf, OfPrompt, Unmerged!getPromptComparison, getPromptComparison,
         Unmerged!Label, Label, Unmerged!GroupBy, GroupBy, Unmerged!TotalCost, TotalCost,
         Unmerged!Cost, Cost, Unmerged!Requests, Requests, Unmerged!Cardinality, Cardinality,
         Unmerged!MapThenSumSet, MapThenSumSet, Unmerged!MapThenFoldSet, MapThenFoldSet,
         Unmerged!Rows, Rows, Unmerged!Sample, Sample, Unmerged!toDate, toDate, Unmerged!Day,
         Day

\* The tiles read the daily rollup and the bills.
LEMMA TilesRead ==
  /\ \A org, from, to :
       getReconciliationByProvider(org, from, to) = TilesOf(Rows(cost_daily, org, from, to), BillsOf(billed_daily, org, from, to))
  /\ \A org, from, to :
       Unmerged!getReconciliationByProvider(org, from, to) = TilesOf(Rows(Apart(cost_daily), org, from, to), BillsOf(LastBills, org, from, to))
  BY DEF TilesOf, BillsOf, Unmerged!getReconciliationByProvider, getReconciliationByProvider,
         Unmerged!BillRows, BillRows, Unmerged!Billed, Billed, Unmerged!BilledKey, BilledKey,
         Unmerged!TotalCost, TotalCost, Unmerged!Cost, Cost, Unmerged!Rows, Rows,
         Unmerged!Sample, Sample, Unmerged!toDate, toDate, Unmerged!Day, Day,
         Unmerged!MapThenSumSet, MapThenSumSet, Unmerged!MapThenFoldSet, MapThenFoldSet

\* The daily chart reads the daily rollup and the bills.
LEMMA DaysRead ==
  /\ \A org, from, to :
       getReconciliationDaily(org, from, to) = DaysOf({r \in Rows(cost_daily, org, from, to) : Sample(r).provider \in EverBilled(billed_daily, org)}, BillsOf(billed_daily, org, from, to))
  /\ \A org, from, to :
       Unmerged!getReconciliationDaily(org, from, to) = DaysOf({r \in Rows(Apart(cost_daily), org, from, to) : Sample(r).provider \in EverBilled(LastBills, org)}, BillsOf(LastBills, org, from, to))
  BY DEF DaysOf, BillsOf, EverBilled, Unmerged!getReconciliationDaily, getReconciliationDaily,
         Unmerged!BillRows, BillRows, Unmerged!Billed, Billed, Unmerged!BilledKey, BilledKey,
         Unmerged!ByDate, ByDate, Unmerged!TotalCost, TotalCost, Unmerged!Cost, Cost,
         Unmerged!Cardinality, Cardinality, Unmerged!Rows, Rows, Unmerged!Sample, Sample,
         Unmerged!toDate, toDate, Unmerged!Day, Day, Unmerged!MapThenSumSet, MapThenSumSet,
         Unmerged!MapThenFoldSet, MapThenFoldSet, Unmerged!Sorted, Sorted

-----------------------------------------------------------------------------
(* A rollup and its events apart.                                           *)

RowsFrom(table, sel) == {r \in table : Sample(r) \in sel}

\* A key that two events share decides a column, or whether they are selected.
Decides(key, col) == \A d, e \in Event : key[d] = key[e] => col[d] = col[e]
Keeps(key, sel) == sel \subseteq Event /\ \A d, e \in Event : key[d] = key[e] => (d \in sel <=> e \in sel)

\* A rollup that was never grouped holds the same events, by the same keys.
LEMMA ApartIs ==
  ASSUME NEW table, NEW key, Partition(table, key)
  PROVE  Partition(Apart(table), key) /\ UNION Apart(table) = UNION table
  BY DEF Partition, Apart

\* The rows of the events selected are rows, of all of them.
LEMMA RowsFromIs ==
  ASSUME NEW table, NEW key, Partition(table, key), NEW sel, Keeps(key, sel)
  PROVE  /\ Apiece(RowsFrom(table, sel)) /\ UNION RowsFrom(table, sel) = (UNION table) \cap sel
         /\ \A col : Decides(key, col) => Uniform(RowsFrom(table, sel), col)
         /\ \A r \in table : Sample(r) \in r /\ Sample(r) \in Event
  <1>1. Apiece(table)
    BY DEF Partition, Apiece
  <1>2. \A r \in table : \A d, e \in r : d \in sel <=> e \in sel
    BY DEF Partition, Keeps
  <1>3. Apiece(RowsFrom(table, sel)) /\ UNION RowsFrom(table, sel) = (UNION table) \cap sel
    BY <1>1, <1>2, PickedRows DEF RowsFrom
  <1>4. ASSUME NEW col, Decides(key, col)
        PROVE  Uniform(RowsFrom(table, sel), col)
    BY <1>4 DEF Partition, Decides, Uniform, RowsFrom
  <1> QED
    BY <1>1, <1>3, <1>4, Sampled

\* The values of a column.
Values(rows, col) == {col[Sample(r)] : r \in rows}
ValuesOf(S, col) == {col[e] : e \in S}

\* A column that is one value in each row has the values of the samples.
LEMMA SampledColumn ==
  \A some, col : Apiece(some) /\ Uniform(some, col) =>
    Values(some, col) = ValuesOf(UNION some, col)
  <1> SUFFICES ASSUME NEW some, Apiece(some), NEW col, Uniform(some, col)
               PROVE  Values(some, col) = ValuesOf(UNION some, col)
    OBVIOUS
  <1>1. \A r \in some : Sample(r) \in r
    BY Sampled
  <1>2. \A r \in some : \E e \in UNION some : col[e] = col[Sample(r)]
    BY <1>1
  <1>3. \A e \in UNION some : \E r \in some : col[e] = col[Sample(r)]
    BY <1>1 DEF Uniform
  <1> QED
    BY <1>2, <1>3 DEF Values, ValuesOf

\* Whatever is read of two sets of rows is the same.
Alike(rows, apart, key) ==
  /\ Apiece(rows) /\ Apiece(apart) /\ UNION rows = UNION apart
  /\ TotalCost(rows) = TotalCost(apart)
  /\ TotalTokens(rows) = TotalTokens(apart)
  /\ Requests(rows) = Requests(apart)
  /\ \A col : Decides(key, col) =>
       /\ GroupsOf(rows, col) = GroupsOf(apart, col)
       /\ Values(rows, col) = Values(apart, col)

\* So it is of the rows selected of a rollup as it is, and of its events apart.
LEMMA SameRows ==
  ASSUME NEW table, NEW key, Partition(table, key), NEW sel, Keeps(key, sel)
  PROVE  Alike(RowsFrom(table, sel), RowsFrom(Apart(table), sel), key)
  <1> DEFINE rows  == RowsFrom(table, sel)
             apart == RowsFrom(Apart(table), sel)
  <1>1. Apiece(rows) /\ UNION rows = (UNION table) \cap sel
    BY RowsFromIs
  <1>2. Apiece(apart) /\ UNION apart = (UNION table) \cap sel
    BY ApartIs, RowsFromIs
  <1>3. ASSUME NEW col, Decides(key, col)
        PROVE  Uniform(rows, col) /\ Uniform(apart, col)
    <2>1. Partition(Apart(table), key)
      BY ApartIs
    <2> QED
      BY <1>3, <2>1, RowsFromIs
  <1> HIDE DEF rows, apart
  <1>5. ASSUME NEW col, Decides(key, col)
        PROVE  /\ GroupsOf(rows, col) = GroupsOf(apart, col)
               /\ Values(rows, col) = Values(apart, col)
    <2>1. Uniform(rows, col) /\ Uniform(apart, col) /\ UNION rows = UNION apart
      BY <1>1, <1>2, <1>3, <1>5
    <2>2. GroupsOf(rows, col) = GroupsOf(apart, col)
      BY <1>1, <1>2, <2>1, GroupsAre
    <2>3. Values(rows, col) = ValuesOf(UNION rows, col)
      BY <1>1, <2>1, SampledColumn
    <2>4. Values(apart, col) = ValuesOf(UNION apart, col)
      BY <1>2, <2>1, SampledColumn
    <2> QED
      BY <2>1, <2>2, <2>3, <2>4
  <1>6. /\ TotalCost(rows) = TotalCost(apart)
        /\ TotalTokens(rows) = TotalTokens(apart)
        /\ Requests(rows) = Requests(apart)
    BY <1>1, <1>2, RowSums
  <1>7. UNION rows = UNION apart
    BY <1>1, <1>2
  <1> QED
    BY <1>1, <1>2, <1>5, <1>6, <1>7 DEF Alike, rows, apart

\* What the rollups are keyed by.
LEMMA KeysDecide ==
  /\ Decides(DailyOf, DateOf) /\ Decides(DailyOf, ProviderOf) /\ Decides(DailyOf, ModelOf)
  /\ Decides(PromptOf, LabelsOf)
  /\ \A dims : ToSet(dims) \subseteq DailyDims => Decides(DailyOf, DimsOf(dims))
  /\ \A dims : ToSet(dims) \subseteq AttrDims => Decides(AttrOf, DimsOf(dims))
  /\ \A d, e \in Event : DailyOf[d] = DailyOf[e] =>
       d.org = e.org /\ toDate(d) = toDate(e) /\ d.provider = e.provider
  /\ \A d, e \in Event : AttrOf[d] = AttrOf[e] =>
       d.org = e.org /\ toStartOfHour(d) = toStartOfHour(e)
  /\ \A d, e \in Event : PromptOf[d] = PromptOf[e] =>
       d.org = e.org /\ toDate(d) = toDate(e) /\ d.prompt = e.prompt
  <1>1. \A d, e \in Event : DailyOf[d] = DailyOf[e] =>
          d.org = e.org /\ toDate(d) = toDate(e) /\ d.provider = e.provider /\ d.model = e.model
    BY DEF DailyOf, DailyKey
  <1>2. \A d, e \in Event : AttrOf[d] = AttrOf[e] =>
          /\ d.org = e.org /\ toStartOfHour(d) = toStartOfHour(e)
          /\ d.customer = e.customer /\ d.feature = e.feature /\ d.team = e.team
    BY DEF AttrOf, AttrKey
  <1>3. \A d, e \in Event : PromptOf[d] = PromptOf[e] =>
          /\ d.org = e.org /\ toDate(d) = toDate(e) /\ d.prompt = e.prompt
          /\ d.version = e.version /\ d.model = e.model
    BY DEF PromptOf, PromptKey
  <1>4. Decides(DailyOf, DateOf) /\ Decides(DailyOf, ProviderOf) /\ Decides(DailyOf, ModelOf)
    BY <1>1 DEF Decides, DateOf, ProviderOf, ModelOf
  <1>5. Decides(PromptOf, LabelsOf)
    BY <1>3 DEF Decides, LabelsOf
  <1>6. ASSUME NEW dims, ToSet(dims) \subseteq DailyDims
        PROVE  Decides(DailyOf, DimsOf(dims))
    <2>1. \A d, e \in Event : DailyOf[d] = DailyOf[e] =>
            \A i \in DOMAIN dims : d[dims[i]] = e[dims[i]]
      BY <1>1, <1>6 DEF ToSet, DailyDims
    <2> QED
      BY <2>1 DEF Decides, DimsOf
  <1>7. ASSUME NEW dims, ToSet(dims) \subseteq AttrDims
        PROVE  Decides(AttrOf, DimsOf(dims))
    <2>1. \A d, e \in Event : AttrOf[d] = AttrOf[e] =>
            \A i \in DOMAIN dims : d[dims[i]] = e[dims[i]]
      BY <1>2, <1>7 DEF ToSet, AttrDims
    <2> QED
      BY <2>1 DEF Decides, DimsOf
  <1> QED
    BY <1>1, <1>2, <1>3, <1>4, <1>5, <1>6, <1>7

\* The rows of a range are those of the events in it.
InRange(org, from, to) == {e \in Event : e.org = org /\ toDate(e) \in from..to}

\* What a query reads of a range are the rows of the events of the range.
LEMMA RowsAre ==
  ASSUME NEW table, Apiece(table), NEW org, NEW from, NEW to
  PROVE  Rows(table, org, from, to) = RowsFrom(table, InRange(org, from, to))
  <1>1. \A r \in table : Sample(r) \in Event
    BY Sampled
  <1> QED
    BY <1>1 DEF Rows, RowsFrom, InRange

-----------------------------------------------------------------------------
(* The queries answer the same of the events apart.                         *)

\* A key decides the range an event is in, and the hour.
LEMMA PickedKept ==
  /\ \A org, from, to : Keeps(DailyOf, InRange(org, from, to)) /\ Keeps(PromptOf, InRange(org, from, to))
  /\ \A org, from, to, p : Keeps(DailyOf, {e \in InRange(org, from, to) : e.provider = p})
  /\ \A org, from, to, d : Keeps(DailyOf, {e \in InRange(org, from, to) : toDate(e) = d})
  /\ \A org, from, to, p : Keeps(PromptOf, {e \in InRange(org, from, to) : e.prompt = p})
  /\ \A org, days : Keeps(DailyOf, {e \in Event : e.org = org /\ toDate(e) \in days})
  /\ \A org : Keeps(PromptOf, {e \in Event : e.org = org})
  /\ \A org, hours : Keeps(AttrOf, {e \in Event : e.org = org /\ toStartOfHour(e) \in hours})
  BY KeysDecide DEF Keeps, InRange

\* The totals and the tables of the overview.
LEMMA SameOverview ==
  ASSUME NEW table, Partition(table, DailyOf), NEW org, NEW from, NEW to
  PROVE  /\ TotalsOf(Apart(table), org, from, to) = TotalsOf(table, org, from, to)
         /\ SpendOf(Apart(table), org, from, to) = SpendOf(table, org, from, to)
         /\ ProvidersOf(Apart(table), org, from, to) = ProvidersOf(table, org, from, to)
         /\ ModelsOf(Apart(table), org, from, to) = ModelsOf(table, org, from, to)
  <1> DEFINE rows  == Rows(table, org, from, to)
             apart == Rows(Apart(table), org, from, to)
             sel   == InRange(org, from, to)
  <1>1. Partition(Apart(table), DailyOf) /\ Apiece(table) /\ Apiece(Apart(table))
    BY ApartIs DEF Partition, Apiece
  <1>2. rows = RowsFrom(table, sel) /\ apart = RowsFrom(Apart(table), sel)
    BY <1>1, RowsAre
  <1>3. Keeps(DailyOf, sel)
    BY PickedKept
  <1> HIDE DEF rows, apart, sel
  <1>4. /\ Apiece(rows) /\ Apiece(apart)
        /\ TotalCost(rows) = TotalCost(apart) /\ TotalTokens(rows) = TotalTokens(apart)
        /\ Requests(rows) = Requests(apart)
        /\ \A col : Decides(DailyOf, col) => GroupsOf(rows, col) = GroupsOf(apart, col)
    <2>1. Alike(rows, apart, DailyOf)
      BY <1>2, <1>3, SameRows
    <2> QED
      BY <2>1 DEF Alike
  <1>5. /\ GroupsOf(rows, DateOf) = GroupsOf(apart, DateOf)
        /\ GroupsOf(rows, ProviderOf) = GroupsOf(apart, ProviderOf)
        /\ GroupsOf(rows, ModelOf) = GroupsOf(apart, ModelOf)
    BY <1>4, KeysDecide
  <1>6. TotalsOf(Apart(table), org, from, to) = TotalsOf(table, org, from, to)
    BY <1>4 DEF TotalsOf, rows, apart
  <1>7. GroupBy(apart, toDate) = GroupBy(rows, toDate)
    BY <1>4, <1>5, GroupedBy
  <1>8. GroupBy(apart, LAMBDA e : e.provider) = GroupBy(rows, LAMBDA e : e.provider)
    BY <1>4, <1>5, GroupedBy
  <1>9. GroupBy(apart, LAMBDA e : e.model) = GroupBy(rows, LAMBDA e : e.model)
    BY <1>4, <1>5, GroupedBy
  <1>10. SpendOf(Apart(table), org, from, to) = SpendOf(table, org, from, to)
    BY <1>7 DEF SpendOf, rows, apart
  <1>11. ProvidersOf(Apart(table), org, from, to) = ProvidersOf(table, org, from, to)
    BY <1>8 DEF ProvidersOf, rows, apart
  <1>12. ModelsOf(Apart(table), org, from, to) = ModelsOf(table, org, from, to)
    BY <1>9 DEF ModelsOf, rows, apart
  <1> QED
    BY <1>6, <1>10, <1>11, <1>12

\* The comparison of two months.
LEMMA SameMonths ==
  ASSUME NEW table, Partition(table, DailyOf), NEW org
  PROVE  MoMOf(Apart(table), org) = MoMOf(table, org)
  <1> DEFINE Sel(days) == {e \in Event : e.org = org /\ toDate(e) \in days}
             now == {d \in {toDate(e) : e \in Event} : d >= toStartOfMonth(today)}
  <1>1. Apiece(table) /\ Apiece(Apart(table))
    BY ApartIs DEF Partition, Apiece
  <1>2. ASSUME NEW t, Apiece(t)
        PROVE  /\ {r \in {r \in t : Sample(r).org = org} : toDate(Sample(r)) >= toStartOfMonth(today)}
                    = RowsFrom(t, Sel(now))
               /\ {r \in {r \in t : Sample(r).org = org} : toDate(Sample(r)) \in MoMPrevious}
                    = RowsFrom(t, Sel(MoMPrevious))
    <2>1. \A r \in t : Sample(r) \in Event
      BY <1>2, Sampled
    <2> QED
      BY <2>1 DEF RowsFrom
  <1>3. \A days : TotalCost(RowsFrom(table, Sel(days))) = TotalCost(RowsFrom(Apart(table), Sel(days)))
    <2> TAKE days
    <2>1. Keeps(DailyOf, Sel(days))
      BY PickedKept
    <2> HIDE DEF Sel
    <2> QED
      BY <2>1, SameRows DEF Alike
  <1> HIDE DEF Sel, now
  <1> QED
    BY <1>1, <1>2, <1>3 DEF MoMOf

\* A breakdown by dimensions of one rollup, or of the raw rows.
LEMMA SameBreakdown ==
  ASSUME NEW daily, Partition(daily, DailyOf), NEW hourly, Partition(hourly, AttrOf),
         NEW org, NEW from, NEW to, NEW dims, 1 \in DOMAIN dims
  PROVE  BreakdownOf(RowsOf(Apart(daily), Apart(hourly), org, from, to, dims), dims)
           = BreakdownOf(RowsOf(daily, hourly, org, from, to, dims), dims)
  <1> DEFINE rows  == RowsOf(daily, hourly, org, from, to, dims)
             apart == RowsOf(Apart(daily), Apart(hourly), org, from, to, dims)
  <1>0. ~(ToSet(dims) \subseteq DailyDims /\ ToSet(dims) \subseteq AttrDims)
    <2>1. dims[1] \in ToSet(dims)
      BY DEF ToSet
    <2>2. DailyDims \cap AttrDims = {}
      BY DEF DailyDims, AttrDims
    <2> QED
      BY <2>1, <2>2
  <1>1. Apiece(daily) /\ Apiece(Apart(daily)) /\ Apiece(hourly) /\ Apiece(Apart(hourly))
    BY ApartIs DEF Partition, Apiece
  <1>2. ASSUME Apiece(rows), Apiece(apart), GroupsOf(rows, DimsOf(dims)) = GroupsOf(apart, DimsOf(dims))
        PROVE  BreakdownOf(apart, dims) = BreakdownOf(rows, dims)
    <2> HIDE DEF rows, apart
    <2>1. GroupBy(apart, LAMBDA e : [i \in DOMAIN dims |-> e[dims[i]]])
            = GroupBy(rows, LAMBDA e : [i \in DOMAIN dims |-> e[dims[i]]])
      BY <1>2, GroupedBy
    <2> QED
      BY <2>1 DEF BreakdownOf
  <1>3. CASE ToSet(dims) \subseteq DailyDims
    <2> DEFINE sel == InRange(org, from, to)
    <2>1. rows = RowsFrom(daily, sel) /\ apart = RowsFrom(Apart(daily), sel)
      BY <1>0, <1>1, <1>3, RowsAre DEF RowsOf
    <2>2. Keeps(DailyOf, sel) /\ Decides(DailyOf, DimsOf(dims))
      BY <1>3, PickedKept, KeysDecide
    <2> HIDE DEF sel, rows, apart
    <2>3. Apiece(rows) /\ Apiece(apart) /\ GroupsOf(rows, DimsOf(dims)) = GroupsOf(apart, DimsOf(dims))
      <3>1. Alike(rows, apart, DailyOf)
        BY <2>1, <2>2, SameRows
      <3> QED
        BY <2>1, <2>2, <3>1 DEF Alike
    <2> QED
      BY <1>2, <2>3 DEF rows, apart
  <1>4. CASE ToSet(dims) \subseteq AttrDims
    <2> DEFINE hours == {h \in {toStartOfHour(e) : e \in Event} :
                           h * Hour >= from * Day /\ h * Hour < to * Day + Day}
               sel   == {e \in Event : e.org = org /\ toStartOfHour(e) \in hours}
    <2>1. ASSUME NEW t, Apiece(t)
          PROVE  HoursOf(t, org, from, to) = RowsFrom(t, sel)
      <3>1. \A r \in t : Sample(r) \in Event
        BY <2>1, Sampled
      <3> QED
        BY <3>1 DEF HoursOf, RowsFrom
    <2>2. rows = RowsFrom(hourly, sel) /\ apart = RowsFrom(Apart(hourly), sel)
      <3>1. rows = HoursOf(hourly, org, from, to) /\ apart = HoursOf(Apart(hourly), org, from, to)
        BY <1>0, <1>4 DEF RowsOf
      <3> QED
        BY <1>1, <2>1, <3>1
    <2> HIDE DEF hours
    <2>3. Keeps(AttrOf, sel)
      BY KeysDecide DEF Keeps
    <2>4. Decides(AttrOf, DimsOf(dims))
      BY <1>4, KeysDecide
    <2> HIDE DEF sel, rows, apart
    <2>5. Apiece(rows) /\ Apiece(apart) /\ GroupsOf(rows, DimsOf(dims)) = GroupsOf(apart, DimsOf(dims))
      <3>1. Alike(rows, apart, AttrOf)
        BY <2>2, <2>3, <2>4, SameRows
      <3> QED
        BY <2>2, <2>3, <2>4, <3>1 DEF Alike
    <2> QED
      BY <1>2, <2>5 DEF rows, apart
  <1>5. CASE ~(ToSet(dims) \subseteq DailyDims) /\ ~(ToSet(dims) \subseteq AttrDims)
    BY <1>5 DEF RowsOf
  <1> QED
    BY <1>3, <1>4, <1>5

\* The prompts listed, and the comparison of one.
LEMMA SamePrompts ==
  ASSUME NEW table, Partition(table, PromptOf), NEW org
  PROVE  /\ PromptsOf(Apart(table), org) = PromptsOf(table, org)
         /\ \A p, from, to :
              ComparisonOf(OfPrompt(Rows(Apart(table), org, from, to), p))
                = ComparisonOf(OfPrompt(Rows(table, org, from, to), p))
  <1>1. Apiece(table) /\ Apiece(Apart(table))
    BY ApartIs DEF Partition, Apiece
  <1>2. PromptsOf(Apart(table), org) = PromptsOf(table, org)
    <2> DEFINE own == {e \in Event : e.org = org}
               name == [e \in Event |-> e.prompt]
               Listed(t) == {Sample(r).prompt : r \in {r \in t : Sample(r).org = org}}
    <2>1. Keeps(PromptOf, own) /\ Decides(PromptOf, name)
      <3>1. Decides(PromptOf, name)
        BY KeysDecide DEF Decides
      <3> QED
        BY <3>1, PickedKept
    <2>2. ASSUME NEW t, Apiece(t)
          PROVE  Listed(t) = Values(RowsFrom(t, own), name)
      <3>1. \A r \in t : Sample(r) \in Event
        BY <2>2, Sampled
      <3> QED
        BY <3>1 DEF RowsFrom, Values
    <2> HIDE DEF own, name, Listed
    <2>3. Values(RowsFrom(table, own), name) = Values(RowsFrom(Apart(table), own), name)
      <3>1. Alike(RowsFrom(table, own), RowsFrom(Apart(table), own), PromptOf)
        BY <2>1, SameRows
      <3> QED
        BY <2>1, <3>1 DEF Alike
    <2>4. Listed(Apart(table)) = Listed(table)
      BY <1>1, <2>2, <2>3
    <2> QED
      BY <2>4 DEF PromptsOf, Listed
  <1>3. ASSUME NEW p, NEW from, NEW to
        PROVE  ComparisonOf(OfPrompt(Rows(Apart(table), org, from, to), p))
                 = ComparisonOf(OfPrompt(Rows(table, org, from, to), p))
    <2> DEFINE sel == {e \in InRange(org, from, to) : e.prompt = p}
               Those(t) == OfPrompt(Rows(t, org, from, to), p)
               rows == Those(table)
               apart == Those(Apart(table))
    <2>1. \A t : Apiece(t) => Those(t) = RowsFrom(t, sel)
      <3> SUFFICES ASSUME NEW t, Apiece(t) PROVE Those(t) = RowsFrom(t, sel)
        OBVIOUS
      <3>1. \A r \in t : Sample(r) \in Event
        BY Sampled
      <3>2. Rows(t, org, from, to) = RowsFrom(t, InRange(org, from, to))
        BY RowsAre
      <3> QED
        BY <3>1, <3>2 DEF RowsFrom, OfPrompt
    <2>2. Keeps(PromptOf, sel)
      BY KeysDecide DEF Keeps, InRange
    <2>3. rows = RowsFrom(table, sel) /\ apart = RowsFrom(Apart(table), sel)
      BY <1>1, <2>1
    <2> HIDE DEF sel, rows, apart, Those
    <2>4. Apiece(rows) /\ Apiece(apart) /\ GroupsOf(rows, LabelsOf) = GroupsOf(apart, LabelsOf)
      <3>1. Alike(rows, apart, PromptOf)
        BY <2>2, <2>3, SameRows
      <3> QED
        BY <3>1, KeysDecide DEF Alike
    <2>5. GroupBy(apart, LAMBDA e : <<Label(e.version), Label(e.model)>>)
            = GroupBy(rows, LAMBDA e : <<Label(e.version), Label(e.model)>>)
      BY <2>4, GroupedBy
    <2>6. ComparisonOf(apart) = ComparisonOf(rows)
      BY <2>5 DEF ComparisonOf
    <2> QED
      BY <2>6 DEF rows, apart, Those
  <1> QED
    BY <1>2, <1>3

-----------------------------------------------------------------------------
(* The bills.                                                               *)

\* The bills are some sums of money, each written at a second of its own.
BillsOK ==
  /\ synced \in Nat
  /\ IsFiniteSet(billed_daily)
  /\ \A b \in billed_daily : b.bill \in Bill /\ b.synced_at \in 1..synced
  /\ \A b, c \in billed_daily : b.synced_at = c.synced_at => b = c

\* A set of numbers up to a bound has a last one.
LEMMA LastOf ==
  ASSUME NEW n \in Nat, NEW T \in SUBSET (1..n), T # {}
  PROVE  \E m \in T : \A k \in T : k <= m
  <1> DEFINE back == {n - k : k \in T}
  <1>1. back \subseteq Nat /\ back # {}
    <2>1. \A k \in T : k \in 1..n /\ n - k \in Nat
      OBVIOUS
    <2> QED
      BY <2>1
  <1>2. PICK b \in back : \A c \in back : <<c, b>> \notin OpToRel(<, Nat)
    <2> HIDE DEF back
    <2> QED
      BY <1>1, NatLessThanWellFounded, WFMin
  <1>3. \A c \in back : ~(c < b)
    BY <1>1, <1>2 DEF OpToRel
  <1>4. PICK m \in T : b = n - m
    OBVIOUS
  <1>5. \A k \in T : k \in Int /\ ~(n - k < n - m)
    BY <1>3, <1>4
  <1> QED
    BY <1>4, <1>5

\* The bills of some keys.
BillsFrom(bills, keys) == {b \in bills : BilledKey(b.bill) \in keys}

\* A day's last bill is the last whether or not those it replaced are gone.
LEMMA SameBills ==
  ASSUME BillsOK, NEW keys
  PROVE  /\ Billed(BillsFrom(LastBills, keys)) = Billed(BillsFrom(billed_daily, keys))
         /\ {BilledKey(b.bill) : b \in BillsFrom(LastBills, keys)}
              = {BilledKey(b.bill) : b \in BillsFrom(billed_daily, keys)}
  <1> DEFINE all  == BillsFrom(billed_daily, keys)
             last == BillsFrom(LastBills, keys)
             IsLast(bills, k, b) == BilledKey(b.bill) = k /\
                \A c \in bills : BilledKey(c.bill) = k => c.synced_at <= b.synced_at
             ks == {BilledKey(b.bill) : b \in all}
  <1>1. ASSUME NEW k \in ks
        PROVE  \E b \in last : \A c : (c \in all /\ IsLast(all, k, c)) <=> c = b
    <2> DEFINE T == {b.synced_at : b \in {b \in billed_daily : BilledKey(b.bill) = k}}
    <2>1. T \in SUBSET (1..synced) /\ T # {} /\ synced \in Nat
      BY DEF BillsOK, BillsFrom
    <2>2. PICK m \in T : \A n \in T : n <= m
      <3> HIDE DEF T
      <3> QED
        BY <2>1, LastOf
    <2>3. PICK b \in billed_daily : BilledKey(b.bill) = k /\ b.synced_at = m
      OBVIOUS
    <2>4. \A c \in billed_daily : BilledKey(c.bill) = k => c.synced_at <= b.synced_at
      BY <2>2, <2>3
    <2>5. b \in last /\ b \in all /\ IsLast(all, k, b)
      BY <2>3, <2>4 DEF LastBills, BillsFrom
    <2>6. ASSUME NEW c \in all, IsLast(all, k, c)
          PROVE  c = b
      <3>1. c.synced_at <= b.synced_at /\ b.synced_at <= c.synced_at /\ c \in billed_daily
        BY <2>4, <2>5, <2>6 DEF BillsFrom
      <3>2. c.synced_at \in Int /\ b.synced_at \in Int
        BY <3>1 DEF BillsOK
      <3>3. c.synced_at = b.synced_at
        BY <3>1, <3>2
      <3> QED
        BY <3>1, <3>3 DEF BillsOK
    <2> HIDE DEF IsLast, all, last
    <2> QED
      BY <2>5, <2>6
  <1>2. last \subseteq all
    BY DEF BillsFrom, LastBills
  <1>3. ASSUME NEW k \in ks, NEW b \in last
        PROVE  IsLast(last, k, b) <=> IsLast(all, k, b)
    <2>1. \A c \in all : BilledKey(c.bill) = BilledKey(b.bill) => c.synced_at <= b.synced_at
      BY DEF BillsFrom, LastBills
    <2> QED
      BY <1>2, <2>1
  <1>4. {BilledKey(b.bill) : b \in last} = ks
    <2>1. \A k \in ks : \E b \in last : BilledKey(b.bill) = k
      BY <1>1
    <2> QED
      BY <1>2, <2>1
  <1> DEFINE LatestOf(bills, k) == CHOOSE b \in bills : IsLast(bills, k, b)
  <1>5. ASSUME NEW k \in ks
        PROVE  LatestOf(last, k) = LatestOf(all, k)
    <2>1. PICK b \in last : \A c : (c \in all /\ IsLast(all, k, c)) <=> c = b
      BY <1>1
    <2> HIDE DEF IsLast, all, last
    <2>2. \A c : (c \in last /\ IsLast(last, k, c)) <=> c = b
      BY <1>2, <1>3, <2>1
    <2> QED
      BY <2>1, <2>2
  <1> DEFINE Body(bills, g) == [s \in SUBSET ks |->
               IF s = {} THEN 0
               ELSE LatestOf(bills, CHOOSE x \in s : TRUE).bill.billed_usd
                      + g[s \ {CHOOSE x \in s : TRUE}]]
  <1>6. Billed(all) = (CHOOSE g : g = Body(all, g))[ks]
    BY DEF Billed, MapThenSumSet, MapThenFoldSet
  <1>7. Billed(last) = (CHOOSE g : g = Body(last, g))[ks]
    BY <1>4 DEF Billed, MapThenSumSet, MapThenFoldSet
  <1>8. \A g : Body(last, g) = Body(all, g)
    <2> HIDE DEF LatestOf, ks, all, last
    <2>1. \A s \in SUBSET ks : s # {} => (CHOOSE x \in s : TRUE) \in ks
      OBVIOUS
    <2> QED
      BY <1>5, <2>1
  <1>9. Billed(last) = Billed(all)
    <2> HIDE DEF Body
    <2> QED
      BY <1>6, <1>7, <1>8
  <1> QED
    BY <1>4, <1>9

\* The keys of the bills of an organisation and its dates.
BillKeys(org, dates) ==
  {k \in {BilledKey(b.bill) : b \in billed_daily} : k[1] = org /\ k[3] \in dates}

\* Bills by their columns, and what is in a column.
OfProvider(bills, p) == {b \in bills : b.bill.provider = p}
OfDate(bills, d)     == {b \in bills : b.bill.date = d}
ProvidersIn(bills)   == {b.bill.provider : b \in bills}
DatesIn(bills)       == {b.bill.date : b \in bills}
KeysIn(bills)        == {BilledKey(b.bill) : b \in bills}

\* A bill's key has its columns.
LEMMA BillColumns ==
  /\ \A b : /\ BilledKey(b.bill)[1] = b.bill.org /\ BilledKey(b.bill)[2] = b.bill.provider
           /\ BilledKey(b.bill)[3] = b.bill.date
  /\ \A bills : ProvidersIn(bills) = {k[2] : k \in KeysIn(bills)}
  /\ \A bills : DatesIn(bills) = {k[3] : k \in KeysIn(bills)}
  <1>1. \A b : /\ BilledKey(b.bill)[1] = b.bill.org /\ BilledKey(b.bill)[2] = b.bill.provider
              /\ BilledKey(b.bill)[3] = b.bill.date
    BY DEF BilledKey
  <1>2. ASSUME NEW bills
        PROVE  ProvidersIn(bills) = {k[2] : k \in KeysIn(bills)}
    BY <1>1 DEF ProvidersIn, KeysIn
  <1>3. ASSUME NEW bills
        PROVE  DatesIn(bills) = {k[3] : k \in KeysIn(bills)}
    BY <1>1 DEF DatesIn, KeysIn
  <1> QED
    BY <1>1, <1>2, <1>3

\* The bills selected of the table, and of the last bills.
LEMMA SameBillsOf ==
  ASSUME BillsOK, NEW org, NEW from, NEW to
  PROVE  LET all  == BillsOf(billed_daily, org, from, to)
             last == BillsOf(LastBills, org, from, to)
         IN  /\ ProvidersIn(last) = ProvidersIn(all) /\ DatesIn(last) = DatesIn(all)
             /\ \A p : Billed(OfProvider(last, p)) = Billed(OfProvider(all, p))
             /\ \A d : Billed(OfDate(last, d)) = Billed(OfDate(all, d))
  <1> DEFINE all  == BillsOf(billed_daily, org, from, to)
             last == BillsOf(LastBills, org, from, to)
             keys == BillKeys(org, from..to)
  <1>1. \A b \in LastBills : b \in billed_daily
    BY DEF LastBills
  <1>2. ASSUME NEW bills, \A b \in bills : b \in billed_daily
        PROVE  /\ BillsOf(bills, org, from, to) = BillsFrom(bills, keys)
               /\ \A p : OfProvider(BillsOf(bills, org, from, to), p)
                           = BillsFrom(bills, {k \in keys : k[2] = p})
               /\ \A d : OfDate(BillsOf(bills, org, from, to), d)
                           = BillsFrom(bills, {k \in keys : k[3] = d})
    <2>1. \A b \in bills : BilledKey(b.bill) \in {BilledKey(c.bill) : c \in billed_daily}
      BY <1>2
    <2>2. \A b \in bills : BilledKey(b.bill) \in keys <=> b.bill.org = org /\ b.bill.date \in from..to
      BY <2>1, BillColumns DEF BillKeys
    <2> HIDE DEF keys
    <2>3. BillsOf(bills, org, from, to) = BillsFrom(bills, keys)
      BY <2>2 DEF BillsOf, BillsFrom
    <2>4. ASSUME NEW p
          PROVE  OfProvider(BillsOf(bills, org, from, to), p) = BillsFrom(bills, {k \in keys : k[2] = p})
      BY <2>3, BillColumns DEF OfProvider, BillsFrom
    <2>5. ASSUME NEW d
          PROVE  OfDate(BillsOf(bills, org, from, to), d) = BillsFrom(bills, {k \in keys : k[3] = d})
      BY <2>3, BillColumns DEF OfDate, BillsFrom
    <2> QED
      BY <2>3, <2>4, <2>5
  <1>3. KeysIn(last) = KeysIn(all)
    <2>1. last = BillsFrom(LastBills, keys) /\ all = BillsFrom(billed_daily, keys)
      BY <1>1, <1>2
    <2> QED
      BY <2>1, SameBills DEF KeysIn
  <1>4. ASSUME NEW p
        PROVE  Billed(OfProvider(last, p)) = Billed(OfProvider(all, p))
    <2> DEFINE some == {k \in keys : k[2] = p}
    <2>1. OfProvider(last, p) = BillsFrom(LastBills, some)
      BY <1>1, <1>2
    <2>2. OfProvider(all, p) = BillsFrom(billed_daily, some)
      BY <1>2
    <2> HIDE DEF some, all, last
    <2> QED
      BY <2>1, <2>2, SameBills
  <1>5. ASSUME NEW d
        PROVE  Billed(OfDate(last, d)) = Billed(OfDate(all, d))
    <2> DEFINE some == {k \in keys : k[3] = d}
    <2>1. OfDate(last, d) = BillsFrom(LastBills, some)
      BY <1>1, <1>2
    <2>2. OfDate(all, d) = BillsFrom(billed_daily, some)
      BY <1>2
    <2> HIDE DEF some, all, last
    <2> QED
      BY <2>1, <2>2, SameBills
  <1> HIDE DEF all, last
  <1>6. ProvidersIn(last) = ProvidersIn(all) /\ DatesIn(last) = DatesIn(all)
    BY <1>3, BillColumns
  <1> QED
    BY <1>4, <1>5, <1>6 DEF all, last

\* The providers that were ever billed.
LEMMA SameEverBilled ==
  ASSUME BillsOK, NEW org
  PROVE  EverBilled(LastBills, org) = EverBilled(billed_daily, org)
  <1>1. \A b \in LastBills : b \in billed_daily
    BY DEF LastBills
  <1>2. ASSUME NEW b \in billed_daily
        PROVE  \E c \in LastBills : c.bill.org = b.bill.org /\ c.bill.provider = b.bill.provider
    <2> DEFINE keys == {BilledKey(b.bill)}
    <2>1. BilledKey(b.bill) \in {BilledKey(c.bill) : c \in BillsFrom(billed_daily, keys)}
      BY DEF BillsFrom
    <2>2. BilledKey(b.bill) \in {BilledKey(c.bill) : c \in BillsFrom(LastBills, keys)}
      <3> HIDE DEF keys
      <3> QED
        BY <2>1, SameBills
    <2>3. PICK c \in LastBills : BilledKey(c.bill) = BilledKey(b.bill)
      BY <2>2 DEF BillsFrom
    <2> QED
      BY <2>3 DEF BilledKey
  <1> QED
    BY <1>1, <1>2 DEF EverBilled

\* A tile, and a bar of the chart.
TracksOf(rows, p) == TotalCost({r \in rows : Sample(r).provider = p})
TrackedOn(rows, d) == TotalCost({r \in rows : toDate(Sample(r)) = d})

ProvidersOfRows(rows) == {Sample(r).provider : r \in rows}
DatesOfRows(rows)     == {toDate(Sample(r)) : r \in rows}

\* The rows of some providers.
OfProviders(rows, those) == {r \in rows : Sample(r).provider \in those}

\* What a reconciliation reads of two sets of rows is the same.
SameSpend(apart, rows) ==
  /\ \A p : TracksOf(apart, p) = TracksOf(rows, p)
  /\ \A d : TrackedOn(apart, d) = TrackedOn(rows, d)
  /\ ProvidersOfRows(apart) = ProvidersOfRows(rows) /\ DatesOfRows(apart) = DatesOfRows(rows)

Tile(p, rows, bills) ==
  [provider |-> p, tracked_usd |-> TracksOf(rows, p), billed_usd |-> Billed(OfProvider(bills, p))]

Bar(d, rows, bills) ==
  [date |-> d, tracked_usd |-> TrackedOn(rows, d), billed_usd |-> Billed(OfDate(bills, d))]

\* So it is of the rows of a rollup, and of their events apart.
LEMMA SameTracked ==
  ASSUME NEW table, Partition(table, DailyOf), NEW org, NEW from, NEW to, NEW those
  PROVE  SameSpend(OfProviders(Rows(Apart(table), org, from, to), those),
                   OfProviders(Rows(table, org, from, to), those))
  <1> DEFINE sel == {e \in InRange(org, from, to) : e.provider \in those}
             SelP(p) == {e \in sel : e.provider = p}
             SelD(d) == {e \in sel : toDate(e) = d}
             all == Apart(table)
             rows == OfProviders(Rows(table, org, from, to), those)
             apart == OfProviders(Rows(all, org, from, to), those)
  <1>1. Apiece(table) /\ Apiece(all)
    BY ApartIs DEF Partition, Apiece
  <1>2. ASSUME NEW t, Apiece(t), NEW some, some = OfProviders(Rows(t, org, from, to), those)
        PROVE  /\ some = RowsFrom(t, sel)
               /\ \A p : TracksOf(some, p) = TotalCost(RowsFrom(t, SelP(p)))
               /\ \A d : TrackedOn(some, d) = TotalCost(RowsFrom(t, SelD(d)))
               /\ ProvidersOfRows(some) = Values(some, ProviderOf)
               /\ DatesOfRows(some) = Values(some, DateOf)
    <2>1. \A r \in t : Sample(r) \in Event
      BY <1>2, Sampled
    <2>2. Rows(t, org, from, to) = RowsFrom(t, InRange(org, from, to))
      BY <1>2, RowsAre
    <2>3. some = RowsFrom(t, sel)
      BY <1>2, <2>2 DEF RowsFrom, OfProviders
    <2>4. \A r \in some : Sample(r) \in Event
      BY <2>1, <2>3 DEF RowsFrom
    <2> HIDE DEF sel
    <2>5. ASSUME NEW p
          PROVE  TracksOf(some, p) = TotalCost(RowsFrom(t, SelP(p)))
      <3>1. {r \in some : Sample(r).provider = p} = RowsFrom(t, SelP(p))
        BY <2>3 DEF RowsFrom
      <3> HIDE DEF SelP
      <3> QED
        BY <3>1 DEF TracksOf
    <2>6. ASSUME NEW d
          PROVE  TrackedOn(some, d) = TotalCost(RowsFrom(t, SelD(d)))
      <3>1. {r \in some : toDate(Sample(r)) = d} = RowsFrom(t, SelD(d))
        BY <2>3 DEF RowsFrom
      <3> HIDE DEF SelD
      <3> QED
        BY <3>1 DEF TrackedOn
    <2>7. ProvidersOfRows(some) = Values(some, ProviderOf)
      BY <2>4 DEF Values, ProviderOf, ProvidersOfRows
    <2>8. DatesOfRows(some) = Values(some, DateOf)
      BY <2>4 DEF Values, DateOf, DatesOfRows
    <2> HIDE DEF SelP, SelD
    <2> QED
      BY <2>3, <2>5, <2>6, <2>7, <2>8
  <1>3. Keeps(DailyOf, sel) /\ (\A p : Keeps(DailyOf, SelP(p))) /\ \A d : Keeps(DailyOf, SelD(d))
    BY KeysDecide DEF Keeps, InRange
  <1> HIDE DEF sel, SelP, SelD, rows, apart
  <1>4. /\ Alike(RowsFrom(table, sel), RowsFrom(all, sel), DailyOf)
        /\ \A p : Alike(RowsFrom(table, SelP(p)), RowsFrom(all, SelP(p)), DailyOf)
        /\ \A d : Alike(RowsFrom(table, SelD(d)), RowsFrom(all, SelD(d)), DailyOf)
    BY <1>3, SameRows
  <1>5. /\ rows = RowsFrom(table, sel)
        /\ \A p : TracksOf(rows, p) = TotalCost(RowsFrom(table, SelP(p)))
        /\ \A d : TrackedOn(rows, d) = TotalCost(RowsFrom(table, SelD(d)))
        /\ ProvidersOfRows(rows) = Values(rows, ProviderOf) /\ DatesOfRows(rows) = Values(rows, DateOf)
    BY <1>1, <1>2 DEF rows
  <1>6. /\ apart = RowsFrom(all, sel)
        /\ \A p : TracksOf(apart, p) = TotalCost(RowsFrom(all, SelP(p)))
        /\ \A d : TrackedOn(apart, d) = TotalCost(RowsFrom(all, SelD(d)))
        /\ ProvidersOfRows(apart) = Values(apart, ProviderOf) /\ DatesOfRows(apart) = Values(apart, DateOf)
    BY <1>1, <1>2 DEF apart
  <1>7. Values(rows, ProviderOf) = Values(apart, ProviderOf) /\ Values(rows, DateOf) = Values(apart, DateOf)
    <2>1. Alike(rows, apart, DailyOf)
      BY <1>4, <1>5, <1>6
    <2> QED
      BY <2>1, KeysDecide DEF Alike
  <1>8. SameSpend(apart, rows)
    <2>1. \A p : TracksOf(apart, p) = TracksOf(rows, p)
      BY <1>4, <1>5, <1>6 DEF Alike
    <2>2. \A d : TrackedOn(apart, d) = TrackedOn(rows, d)
      BY <1>4, <1>5, <1>6 DEF Alike
    <2> QED
      BY <1>5, <1>6, <1>7, <2>1, <2>2 DEF SameSpend
  <1> QED
    BY <1>8 DEF rows, apart

\* The tiles and the chart of the reconciliation.
LEMMA SameReconciliation ==
  ASSUME NEW table, Partition(table, DailyOf), BillsOK, NEW org, NEW from, NEW to
  PROVE  /\ TilesOf(Rows(Apart(table), org, from, to), BillsOf(LastBills, org, from, to))
              = TilesOf(Rows(table, org, from, to), BillsOf(billed_daily, org, from, to))
         /\ DaysOf({r \in Rows(Apart(table), org, from, to) : Sample(r).provider \in EverBilled(LastBills, org)},
                   BillsOf(LastBills, org, from, to))
              = DaysOf({r \in Rows(table, org, from, to) : Sample(r).provider \in EverBilled(billed_daily, org)},
                       BillsOf(billed_daily, org, from, to))
  <1> DEFINE all   == BillsOf(billed_daily, org, from, to)
             last  == BillsOf(LastBills, org, from, to)
  <1>1. /\ ProvidersIn(last) = ProvidersIn(all) /\ DatesIn(last) = DatesIn(all)
        /\ \A p : Billed(OfProvider(last, p)) = Billed(OfProvider(all, p))
        /\ \A d : Billed(OfDate(last, d)) = Billed(OfDate(all, d))
    BY SameBillsOf
  <1> HIDE DEF all, last
  <1>2. TilesOf(Rows(Apart(table), org, from, to), last) = TilesOf(Rows(table, org, from, to), all)
    <2> DEFINE rows  == Rows(table, org, from, to)
               apart == Rows(Apart(table), org, from, to)
               any   == ProvidersOfRows(rows) \cup ProvidersOfRows(apart)
    <2>1. rows = OfProviders(rows, any) /\ apart = OfProviders(apart, any)
      BY DEF OfProviders, ProvidersOfRows
    <2> HIDE DEF any
    <2>2. SameSpend(apart, rows)
      <3>1. SameSpend(OfProviders(apart, any), OfProviders(rows, any))
        BY SameTracked
      <3> QED
        BY <2>1, <3>1
    <2> HIDE DEF rows, apart
    <2>3. \A p : Tile(p, apart, last) = Tile(p, rows, all)
      BY <1>1, <2>2 DEF Tile, SameSpend
    <2>4. \A some, bills : TilesOf(some, bills) =
            {Tile(p, some, bills) : p \in ProvidersOfRows(some) \cup ProvidersIn(bills)}
      BY DEF TilesOf, Tile, TracksOf, OfProvider, ProvidersIn, ProvidersOfRows
    <2>5. /\ TilesOf(rows, all) =
               {Tile(p, rows, all) : p \in ProvidersOfRows(rows) \cup ProvidersIn(all)}
          /\ TilesOf(apart, last) =
               {Tile(p, apart, last) : p \in ProvidersOfRows(apart) \cup ProvidersIn(last)}
      BY <2>4
    <2>6. TilesOf(apart, last) = TilesOf(rows, all)
      BY <1>1, <2>2, <2>3, <2>5 DEF SameSpend
    <2> QED
      BY <2>6 DEF rows, apart
  <1>3. DaysOf({r \in Rows(Apart(table), org, from, to) : Sample(r).provider \in EverBilled(LastBills, org)}, last)
          = DaysOf({r \in Rows(table, org, from, to) : Sample(r).provider \in EverBilled(billed_daily, org)}, all)
    <2> DEFINE those == EverBilled(billed_daily, org)
               rows  == OfProviders(Rows(table, org, from, to), those)
               apart == OfProviders(Rows(Apart(table), org, from, to), those)
    <2>1. EverBilled(LastBills, org) = those
      BY SameEverBilled
    <2> HIDE DEF those
    <2>2. SameSpend(apart, rows)
      BY SameTracked
    <2> HIDE DEF rows, apart
    <2>3. \A d : Bar(d, apart, last) = Bar(d, rows, all)
      BY <1>1, <2>2 DEF Bar, SameSpend
    <2>4. \A some, bills : DaysOf(some, bills) =
            ByDate({Bar(d, some, bills) : d \in DatesOfRows(some) \cup DatesIn(bills)})
      BY DEF DaysOf, Bar, TrackedOn, OfDate, DatesIn, DatesOfRows
    <2>5. /\ DaysOf(rows, all) =
               ByDate({Bar(d, rows, all) : d \in DatesOfRows(rows) \cup DatesIn(all)})
          /\ DaysOf(apart, last) =
               ByDate({Bar(d, apart, last) : d \in DatesOfRows(apart) \cup DatesIn(last)})
      BY <2>4
    <2>6. DaysOf(apart, last) = DaysOf(rows, all)
      BY <1>1, <2>2, <2>3, <2>5 DEF SameSpend
    <2> QED
      BY <2>1, <2>6 DEF rows, apart, those, OfProviders
  <1> QED
    BY <1>2, <1>3 DEF all, last

RollupsOK ==
  /\ Partition(cost_daily, DailyOf)
  /\ Partition(cost_attr_hourly, AttrOf)
  /\ Partition(prompt_version_daily, PromptOf)

-----------------------------------------------------------------------------
(* The pages.                                                               *)

\* Each query answers the same.
LEMMA SameQueries ==
  ASSUME RollupsOK, BillsOK
  PROVE  /\ \A org, from, to : Unmerged!getOverviewTotals(org, from, to) = getOverviewTotals(org, from, to)
         /\ \A org, from, to : Unmerged!getDailySpend(org, from, to) = getDailySpend(org, from, to)
         /\ \A org, from, to : Unmerged!getCostByProvider(org, from, to) = getCostByProvider(org, from, to)
         /\ \A org, from, to : Unmerged!getCostByModel(org, from, to) = getCostByModel(org, from, to)
         /\ \A org : Unmerged!getMoMTotals(org) = getMoMTotals(org)
         /\ \A org, from, to, dims : 1 \in DOMAIN dims =>
              Unmerged!getBreakdown(org, from, to, dims) = getBreakdown(org, from, to, dims)
         /\ \A org : Unmerged!listPromptKeys(org) = listPromptKeys(org)
         /\ \A org, p, from, to :
              Unmerged!getPromptComparison(org, p, from, to) = getPromptComparison(org, p, from, to)
         /\ \A org, from, to :
              Unmerged!getReconciliationByProvider(org, from, to) = getReconciliationByProvider(org, from, to)
         /\ \A org, from, to :
              Unmerged!getReconciliationDaily(org, from, to) = getReconciliationDaily(org, from, to)
  <1>1. \A org, from, to : Unmerged!getOverviewTotals(org, from, to) = getOverviewTotals(org, from, to)
    BY TotalsRead, SameOverview DEF RollupsOK
  <1>2. \A org, from, to : Unmerged!getDailySpend(org, from, to) = getDailySpend(org, from, to)
    BY SpendRead, SameOverview DEF RollupsOK
  <1>3. \A org, from, to : Unmerged!getCostByProvider(org, from, to) = getCostByProvider(org, from, to)
    BY ProvidersRead, SameOverview DEF RollupsOK
  <1>4. \A org, from, to : Unmerged!getCostByModel(org, from, to) = getCostByModel(org, from, to)
    BY ModelsRead, SameOverview DEF RollupsOK
  <1>5. \A org : Unmerged!getMoMTotals(org) = getMoMTotals(org)
    BY MoMRead, SameMonths DEF RollupsOK
  <1>6. ASSUME NEW org, NEW from, NEW to, NEW dims, 1 \in DOMAIN dims
        PROVE  Unmerged!getBreakdown(org, from, to, dims) = getBreakdown(org, from, to, dims)
    BY <1>6, RowsRead, BreakdownRead, SameBreakdown DEF RollupsOK
  <1>7. \A org : Unmerged!listPromptKeys(org) = listPromptKeys(org)
    BY PromptsRead, SamePrompts DEF RollupsOK
  <1>8. ASSUME NEW org, NEW p, NEW from, NEW to
        PROVE  Unmerged!getPromptComparison(org, p, from, to) = getPromptComparison(org, p, from, to)
    <2> DEFINE some  == OfPrompt(Rows(prompt_version_daily, org, from, to), p)
               apart == OfPrompt(Rows(Apart(prompt_version_daily), org, from, to), p)
    <2>1. getPromptComparison(org, p, from, to) = ComparisonOf(some)
      BY ComparisonRead
    <2>2. Unmerged!getPromptComparison(org, p, from, to) = ComparisonOf(apart)
      BY ComparisonRead
    <2>3. ComparisonOf(apart) = ComparisonOf(some)
      BY SamePrompts DEF RollupsOK
    <2> HIDE DEF some, apart
    <2> QED
      BY <2>1, <2>2, <2>3
  <1>9. \A org, from, to :
          Unmerged!getReconciliationByProvider(org, from, to) = getReconciliationByProvider(org, from, to)
    BY TilesRead, SameReconciliation DEF RollupsOK
  <1>10. ASSUME NEW org, NEW from, NEW to
         PROVE  Unmerged!getReconciliationDaily(org, from, to) = getReconciliationDaily(org, from, to)
    <2> DEFINE some  == {r \in Rows(cost_daily, org, from, to) : Sample(r).provider \in EverBilled(billed_daily, org)}
               apart == {r \in Rows(Apart(cost_daily), org, from, to) : Sample(r).provider \in EverBilled(LastBills, org)}
    <2>1. getReconciliationDaily(org, from, to) = DaysOf(some, BillsOf(billed_daily, org, from, to))
      BY DaysRead
    <2>2. Unmerged!getReconciliationDaily(org, from, to) = DaysOf(apart, BillsOf(LastBills, org, from, to))
      BY DaysRead
    <2>3. DaysOf(apart, BillsOf(LastBills, org, from, to)) = DaysOf(some, BillsOf(billed_daily, org, from, to))
      BY SameReconciliation DEF RollupsOK
    <2> HIDE DEF some, apart
    <2> QED
      BY <2>1, <2>2, <2>3
  <1> QED
    BY <1>1, <1>2, <1>3, <1>4, <1>5, <1>6, <1>7, <1>8, <1>9, <1>10

\* A forecast is made of its history alone.
LEMMA SameForecast ==
  \A history : Unmerged!ForecastCards(Unmerged!buildForecast(history, Horizon))
                 = ForecastCards(buildForecast(history, Horizon))
  <1>1. \A history : Unmerged!ForecastPoints(history, Horizon) = ForecastPoints(history, Horizon)
    <2>1. \A ys : Unmerged!Total(ys) = Total(ys)
      BY DEF Unmerged!Total, Total, Unmerged!FoldLeft, FoldLeft, Unmerged!MapThenFoldSet,
             MapThenFoldSet, Unmerged!Max, Max
    <2>2. \A ys : Unmerged!linearFit(ys) = linearFit(ys)
      BY <2>1 DEF Unmerged!linearFit, linearFit, Unmerged!Indices, Indices
    <2>3. \A ys : Unmerged!holtWinters(ys) = holtWinters(ys)
      BY DEF Unmerged!holtWinters, holtWinters, Unmerged!smooth, smooth, Unmerged!Offsets, Offsets,
             Unmerged!SeasonOf, SeasonOf, Unmerged!Blend, Blend, Unmerged!Total, Total,
             Unmerged!HwAlpha, HwAlpha, Unmerged!HwBeta, HwBeta, Unmerged!HwGamma, HwGamma,
             Unmerged!FoldLeft, FoldLeft, Unmerged!MapThenFoldSet, MapThenFoldSet, Unmerged!Max, Max
    <2>4. \A history, ys, lin, hw :
            Unmerged!pointsOf(history, ys, Horizon, lin, hw) = pointsOf(history, ys, Horizon, lin, hw)
      BY DEF Unmerged!pointsOf, pointsOf, Unmerged!AtLeast0, AtLeast0, Unmerged!Max, Max
    <2> QED
      BY <2>2, <2>3, <2>4 DEF Unmerged!ForecastPoints, ForecastPoints
  <1>2. \A points, fitted : Unmerged!Result(points, fitted) = Result(points, fitted)
    BY ZenonT(100) DEF Unmerged!Result, Result, Unmerged!MonthTotal, MonthTotal, Unmerged!OrElse, OrElse,
           Unmerged!Total, Total, Unmerged!monthEnd, monthEnd, Unmerged!toStartOfMonth,
           toStartOfMonth, Unmerged!MonthOf, MonthOf, Unmerged!MonthStart, MonthStart,
           Unmerged!FoldLeft, FoldLeft, Unmerged!MapThenFoldSet, MapThenFoldSet, Unmerged!Max,
           Max
  <1>3. \A result : Unmerged!ForecastCards(result) = ForecastCards(result)
    BY DEF Unmerged!ForecastCards, ForecastCards, Unmerged!OrElse, OrElse, Unmerged!Total,
           Total, Unmerged!FoldLeft, FoldLeft, Unmerged!MapThenFoldSet, MapThenFoldSet,
           Unmerged!Max, Max
  <1>4. \A history : Unmerged!buildForecast(history, Horizon) = buildForecast(history, Horizon)
    BY <1>1, <1>2 DEF Unmerged!buildForecast, buildForecast
  <1> QED
    BY <1>3, <1>4

\* The tiles and the drift are made of the rows they are given.
LEMMA SameView ==
  \A rows, daily : Unmerged!ReconciliationView(rows, daily) = ReconciliationView(rows, daily)
  BY DEF Unmerged!ReconciliationView, ReconciliationView, Unmerged!DriftChip, DriftChip,
         Unmerged!TrackedIn, TrackedIn, Unmerged!BilledIn, BilledIn, Unmerged!AtLeast0,
         AtLeast0, Unmerged!Max, Max, Unmerged!MapThenSumSet, MapThenSumSet,
         Unmerged!MapThenFoldSet, MapThenFoldSet

\* The organisation and the range do not depend on the tables.
LEMMA SameRange ==
  /\ Unmerged!currentOrgSlug = currentOrgSlug
  /\ \A raw : Unmerged!resolveRange(raw) = resolveRange(raw)
  BY DEF Unmerged!currentOrgSlug, currentOrgSlug, Unmerged!resolveRange, resolveRange,
         Unmerged!parseRange, parseRange

\* The overview page shows the same.
LEMMA SameOverviewPage ==
  ASSUME RollupsOK, BillsOK, NEW raw
  PROVE  Unmerged!OverviewPage(raw) = OverviewPage(raw)
  BY SameQueries, SameRange DEF Unmerged!OverviewPage, OverviewPage, Unmerged!KpiCards, KpiCards

\* So does the reconciliation page.
LEMMA SameReconciliationPage ==
  ASSUME RollupsOK, BillsOK, NEW raw
  PROVE  Unmerged!ReconciliationPage(raw) = ReconciliationPage(raw)
  BY SameQueries, SameRange, SameView DEF Unmerged!ReconciliationPage, ReconciliationPage

\* So does the forecast page.
LEMMA SameForecastPage ==
  ASSUME RollupsOK, BillsOK, NEW org
  PROVE  Unmerged!ForecastPage(org) = ForecastPage(org)
  BY SameQueries, SameForecast DEF Unmerged!ForecastPage, ForecastPage,
       Unmerged!getDailyTotalsForForecast, getDailyTotalsForForecast

\* So does the prompts page: the prompts listed are the same.
LEMMA SamePromptsPage ==
  ASSUME RollupsOK, BillsOK, NEW sp
  PROVE  Unmerged!PromptsPage(sp) = PromptsPage(sp)
  <1> DEFINE org   == currentOrgSlug
             range == resolveRange(sp.range)
             First(keys) == IF sp.prompt_key \in keys THEN sp.prompt_key ELSE CHOOSE k \in keys : TRUE
             here  == listPromptKeys(org)
             there == Unmerged!listPromptKeys(Unmerged!currentOrgSlug)
  <1>1. there = here
    BY SameQueries, SameRange
  <1>2. PromptsPage(sp) =
          IF here = {} THEN {} ELSE getPromptComparison(org, First(here), range.from, range.to)
    BY DEF PromptsPage
  <1>3. Unmerged!PromptsPage(sp) =
          IF there = {} THEN {}
          ELSE Unmerged!getPromptComparison(Unmerged!currentOrgSlug, First(there),
                 Unmerged!resolveRange(sp.range).from, Unmerged!resolveRange(sp.range).to)
    BY DEF Unmerged!PromptsPage
  <1> HIDE DEF First, here, there, org, range
  <1>4. Unmerged!currentOrgSlug = org /\ Unmerged!resolveRange(sp.range) = range
    BY SameRange DEF org, range
  <1>5. Unmerged!PromptsPage(sp) =
          IF here = {} THEN {} ELSE Unmerged!getPromptComparison(org, First(here), range.from, range.to)
    BY <1>1, <1>3, <1>4
  <1>6. Unmerged!getPromptComparison(org, First(here), range.from, range.to)
          = getPromptComparison(org, First(here), range.from, range.to)
    BY SameQueries
  <1> QED
    BY <1>2, <1>5, <1>6

\* So does the breakdown page, by a tag or by a dimension and the provider.
LEMMA SameBreakdownPage ==
  ASSUME RollupsOK, BillsOK, NEW sp, sp.secondary = "provider"
  PROVE  Unmerged!BreakdownPage(sp) = BreakdownPage(sp)
  <1> DEFINE org   == currentOrgSlug
             range == resolveRange(sp.range)
             dims  == parseDim(sp.primary, <<"feature">>) \o parseDim(sp.secondary, <<>>)
             tag   == parseTagKey(sp.tag)
             HasTag(key) == key # ""
  <1>1. BreakdownPage(sp) =
          IF HasTag(tag) THEN getTagBreakdown(org, range.from, range.to, tag)
          ELSE getBreakdown(org, range.from, range.to, dims)
    BY DEF BreakdownPage
  <1>2. Unmerged!currentOrgSlug = org /\ Unmerged!resolveRange(sp.range) = range
    BY SameRange
  <1>3. Unmerged!BreakdownPage(sp) =
          IF HasTag(tag)
          THEN Unmerged!getTagBreakdown(Unmerged!currentOrgSlug, Unmerged!resolveRange(sp.range).from,
                                        Unmerged!resolveRange(sp.range).to, tag)
          ELSE Unmerged!getBreakdown(Unmerged!currentOrgSlug, Unmerged!resolveRange(sp.range).from,
                                     Unmerged!resolveRange(sp.range).to, dims)
    BY DEF Unmerged!BreakdownPage, Unmerged!parseDim, parseDim, Unmerged!parseTagKey, parseTagKey,
         Unmerged!DailyDims, DailyDims, Unmerged!AttrDims, AttrDims
  <1>4. 1 \in DOMAIN dims
    <2>1. parseDim(sp.primary, <<"feature">>) \in {<<sp.primary>>, <<"feature">>}
      BY DEF parseDim
    <2>2. parseDim(sp.secondary, <<>>) = <<"provider">>
      BY DEF parseDim, DailyDims
    <2> QED
      BY <2>1, <2>2
  <1> HIDE DEF HasTag, dims, tag, org, range
  <1>5. Unmerged!getBreakdown(org, range.from, range.to, dims) = getBreakdown(org, range.from, range.to, dims)
    BY <1>4, SameQueries
  <1>6. Unmerged!getTagBreakdown(org, range.from, range.to, tag) = getTagBreakdown(org, range.from, range.to, tag)
    BY TagsRead
  <1> QED
    BY <1>1, <1>2, <1>3, <1>5, <1>6

\* The five pages show the same, whatever was merged.
LEMMA SameAllPages == RollupsOK /\ BillsOK => SamePages
  <1> SUFFICES ASSUME RollupsOK, BillsOK, NEW raw \in DOMAIN RangeDays
               PROVE  Unmerged!Pages(raw) = Pages(raw)
    BY DEF SamePages
  <1> DEFINE Choice(dim, tag) == [range |-> raw, primary |-> dim, secondary |-> "provider", tag |-> tag]
             Listed(key) == [range |-> raw, prompt_key |-> key]
             Dims == {"", "customer", "model"}
             Tags == {""} \cup SaneTags
  <1>1. Pages(raw) =
          [overview |-> OverviewPage(raw), reconciliation |-> ReconciliationPage(raw),
           forecast |-> ForecastPage(currentOrgSlug), prompts |-> PromptsPage(Listed("")),
           breakdown |-> [dim \in Dims |-> [tag \in Tags |-> BreakdownPage(Choice(dim, tag))]]]
    BY Zenon DEF Pages
  <1>2. Unmerged!Pages(raw) =
          [overview |-> Unmerged!OverviewPage(raw), reconciliation |-> Unmerged!ReconciliationPage(raw),
           forecast |-> Unmerged!ForecastPage(Unmerged!currentOrgSlug),
           prompts |-> Unmerged!PromptsPage(Listed("")),
           breakdown |-> [dim \in Dims |-> [tag \in Tags |-> Unmerged!BreakdownPage(Choice(dim, tag))]]]
    BY Zenon DEF Unmerged!Pages
  <1>3. \A dim, tag : Choice(dim, tag).secondary = "provider"
    OBVIOUS
  <1>4. ASSUME NEW dim, NEW tag
        PROVE  Unmerged!BreakdownPage(Choice(dim, tag)) = BreakdownPage(Choice(dim, tag))
    <2> HIDE DEF Choice
    <2> QED
      BY <1>3, SameBreakdownPage
  <1>5. Unmerged!PromptsPage(Listed("")) = PromptsPage(Listed(""))
    BY SamePromptsPage, Zenon
  <1>6. Unmerged!OverviewPage(raw) = OverviewPage(raw)
    BY SameOverviewPage
  <1>7. Unmerged!ReconciliationPage(raw) = ReconciliationPage(raw)
    BY SameReconciliationPage
  <1>8. Unmerged!ForecastPage(Unmerged!currentOrgSlug) = ForecastPage(currentOrgSlug)
    BY SameForecastPage, SameRange
  <1> HIDE DEF Choice, Listed, Dims, Tags
  <1>9. [dim \in Dims |-> [tag \in Tags |-> Unmerged!BreakdownPage(Choice(dim, tag))]]
          = [dim \in Dims |-> [tag \in Tags |-> BreakdownPage(Choice(dim, tag))]]
    BY <1>4
  <1> QED
    BY <1>1, <1>2, <1>5, <1>6, <1>7, <1>8, <1>9, Zenon

\* No two inserts of bills are stamped alike, and none later than the clock.
LEMMA InitBills == Init => BillsOK
  BY FS_EmptySet DEF Init, StoreInit, BillsOK

\* An insert is stamped later than all before it, and a merge only removes.
LEMMA StepBills == BillsOK /\ [Next]_vars => BillsOK'
  <1> SUFFICES ASSUME BillsOK, [Next]_vars PROVE BillsOK'
    OBVIOUS
  <1>1. CASE UNCHANGED <<billed_daily, synced>>
    BY <1>1 DEF BillsOK
  <1>2. ASSUME NEW b \in Bill, SyncBill(b)
        PROVE  BillsOK'
    <2>1. IsFiniteSet(billed_daily')
      BY <1>2, FS_AddElement DEF BillsOK, SyncBill
    <2> QED
      BY <1>2, <2>1 DEF BillsOK, SyncBill
  <1>3. CASE MergeBilled
    <2>1. IsFiniteSet(billed_daily')
      BY <1>3, FS_Subset DEF BillsOK, MergeBilled
    <2> QED
      BY <1>3, <2>1 DEF BillsOK, MergeBilled
  <1>4. [Next]_vars => \/ UNCHANGED <<billed_daily, synced>>
                       \/ \E b \in Bill : SyncBill(b)
                       \/ MergeBilled
    BY DEF Next, StoreNext, Merge, Insert, MergeDaily, MergeAttr, MergePrompt, ExpireEvents,
           Midnight, vars, storeVars
  <1> QED
    BY <1>1, <1>2, <1>3, <1>4

\* Of finitely many, one has the least rank.
LEMMA FirstExists ==
  ASSUME NEW U, NEW rank, Summable(rank, U)
  PROVE  \A t \in SUBSET U : t # {} => \E x \in t : \A y \in t : rank[x] <= rank[y]
  <1> DEFINE First(x, t) == \A y \in t : rank[x] <= rank[y]
             P == {t \in SUBSET U : t # {} => \E x \in t : First(x, t)}
  <1>0. IsFiniteSet(U) /\ \A x \in U : rank[x] \in Int
    BY DEF Summable
  <1>1. ASSUME NEW t \in SUBSET U, \A x \in t : t \ {x} \in P, t # {}
        PROVE  \E x \in t : First(x, t)
    <2>1. PICK x \in t : TRUE
      BY <1>1
    <2>2. CASE t \ {x} = {}
      <3>1. t = {x}
        BY <2>1, <2>2
      <3> QED
        BY <1>0, <3>1
    <2>3. CASE t \ {x} # {}
      <3>1. PICK y \in t \ {x} : First(y, t \ {x})
        BY <1>1, <2>1, <2>3
      <3>2. First(x, t) \/ First(y, t)
        <4>1. CASE rank[x] <= rank[y]
          <5>1. \A z \in t : rank[x] <= rank[z]
            BY <1>0, <3>1, <4>1
          <5> QED
            BY <5>1
        <4>2. CASE ~(rank[x] <= rank[y])
          <5>1. \A z \in t : rank[y] <= rank[z]
            BY <1>0, <3>1, <4>2
          <5> QED
            BY <5>1
        <4> QED
          BY <4>1, <4>2
      <3> HIDE DEF First
      <3> QED
        BY <2>1, <3>1, <3>2
    <2> QED
      BY <2>2, <2>3
  <1>2. SUBSET U \subseteq P
    <2>1. \A t \in SUBSET U : (\A x \in t : t \ {x} \in P) => t \in P
      <3> HIDE DEF First
      <3> QED
        BY <1>1
    <2> HIDE DEF P
    <2> QED
      BY <1>0, <2>1, SubsetInduction
  <1> HIDE DEF First
  <1>3. \A t \in SUBSET U : t # {} => \E x \in t : First(x, t)
    BY <1>2
  <1> QED
    BY <1>3 DEF First

Onto(h, A, B) ==
  /\ h \in [A -> B]
  /\ \A a, b \in A : h[a] = h[b] => a = b
  /\ \A b \in B : \E a \in A : h[a] = b

\* A sum is the same by other names of its terms.
LEMMA Reindex ==
  ASSUME NEW A, IsFiniteSet(A), NEW B, NEW f, Summable(f, B), NEW h, Onto(h, A, B),
         NEW e, e = [a \in A |-> f[h[a]]]
  PROVE  Summable(e, A) /\ Sigma(e) = Sigma(f)
  <1> DEFINE Image(s) == {h[a] : a \in s}
             Here(s)  == Sigma(Restrict(e, s))
             There(s) == Sigma(Restrict(f, s))
             P == {s \in SUBSET A : Here(s) = There(Image(s))}
  <1>1. Summable(e, A)
    BY DEF Summable, Onto
  <1>2. \A s \in SUBSET A : \A x \in s : Here(s) = e[x] + Here(s \ {x})
    <2> TAKE s \in SUBSET A
    <2> TAKE x \in s
    <2> QED
      BY <1>1, SigmaPartRemoves
  <1>3. \A s \in SUBSET B : \A x \in s : There(s) = f[x] + There(s \ {x})
    <2> TAKE s \in SUBSET B
    <2> TAKE x \in s
    <2> QED
      BY SigmaPartRemoves
  <1>4. Here({}) = 0 /\ There({}) = 0
    <2>1. Summable(Restrict(e, {}), {}) /\ Summable(Restrict(f, {}), {})
      BY <1>1, SummablePart
    <2> QED
      BY <2>1, SigmaEmpty
  <1>5. Here(A) = Sigma(e) /\ There(B) = Sigma(f)
    BY <1>1 DEF Restrict, Summable
  <1>6. Image(A) = B /\ Image({}) = {}
    BY DEF Onto
  <1>7. \A s \in SUBSET A : \A x \in s : Image(s \ {x}) = Image(s) \ {h[x]} /\ h[x] \in Image(s)
                                        /\ Image(s) \in SUBSET B /\ e[x] = f[h[x]]
    BY DEF Onto
  <1> HIDE DEF Image, Here, There
  <1>8. ASSUME NEW s \in SUBSET A, \A x \in s : s \ {x} \in P
        PROVE  Here(s) = There(Image(s))
    <2>1. CASE s = {}
      BY <1>4, <1>6, <2>1
    <2>2. CASE s # {}
      <3>1. PICK x \in s : TRUE
        BY <2>2
      <3>2. Here(s \ {x}) = There(Image(s \ {x}))
        BY <1>8, <3>1
      <3>3. Here(s) = e[x] + Here(s \ {x})
        BY <1>2, <3>1
      <3>4. There(Image(s)) = f[h[x]] + There(Image(s) \ {h[x]})
        BY <1>3, <1>7, <3>1
      <3> QED
        BY <1>7, <3>1, <3>2, <3>3, <3>4
    <2> QED
      BY <2>1, <2>2
  <1>9. SUBSET A \subseteq P
    <2>1. \A s \in SUBSET A : (\A x \in s : s \ {x} \in P) => s \in P
      BY <1>8
    <2> HIDE DEF P
    <2> QED
      BY <2>1, SubsetInduction
  <1>10. Here(A) = There(Image(A))
    BY <1>9
  <1> QED
    BY <1>1, <1>5, <1>6, <1>10

TotalBy(f) ==
  (CHOOSE g : g = [t \in SUBSET DOMAIN f |->
                     IF t = {} THEN 0 ELSE g[t \ {Max(t)}] + f[Max(t)]])[DOMAIN f]

HaveLast(U) == \A t \in SUBSET U : t # {} => Max(t) \in t

\* A sum that takes the last away first is one.
LEMMA EndSums ==
  ASSUME NEW U, NEW f, Summable(f, U), HaveLast(U)
  PROVE  TotalBy(f) = Sigma(f)
  <1> DEFINE pick == [t \in SUBSET U |-> Max(t)]
             join == [x \in U |-> [r \in Int |-> r + f[x]]]
             On(t) == Sigma(Restrict(f, t))
             Body(g) == [t \in SUBSET U |-> IF t = {} THEN 0 ELSE g[t \ {Max(t)}] + f[Max(t)]]
  <1>1. IsFiniteSet(U) /\ f \in [U -> Int] /\ DOMAIN f = U /\ join \in [U -> [Int -> Int]]
    BY DEF Summable
  <1>2. Picks(pick, U)
    BY DEF Picks, HaveLast
  <1>3. \E h : h = Body(h)
    <2>1. PICK h \in [SUBSET U -> Int] : Fold(h, 0, pick, join, U)
      <3>1. 0 \in Int
        OBVIOUS
      <3> HIDE DEF pick, join
      <3> QED
        BY <1>1, <1>2, <3>1, FoldExists
    <2>2. ASSUME NEW t \in SUBSET U
          PROVE  Turn(h, 0, pick, join, t) = (IF t = {} THEN 0 ELSE h[t \ {Max(t)}] + f[Max(t)])
      <3>1. CASE t # {}
        <4>1. Max(t) \in U /\ pick[t] = Max(t) /\ h[t \ {Max(t)}] \in Int
          BY <3>1 DEF HaveLast
        <4> QED
          BY <3>1, <4>1 DEF Turn
      <3> QED
        BY <3>1 DEF Turn
    <2>3. h = Body(h)
      BY <2>1, <2>2 DEF Fold
    <2> HIDE DEF Body
    <2> QED
      BY <2>3
  <1> DEFINE g == CHOOSE g : g = Body(g)
  <1>5. g = Body(g)
    <2> HIDE DEF Body
    <2> QED
      BY <1>3
  <1>6. TotalBy(f) = g[U]
    BY <1>1 DEF TotalBy
  <1> HIDE DEF g, pick, join
  <1>7. \A t \in SUBSET U : \A x \in t : On(t) = f[x] + On(t \ {x})
    <2> TAKE t \in SUBSET U
    <2> TAKE x \in t
    <2> QED
      BY SigmaPartRemoves
  <1>8. \A t \in SUBSET U : On(t) \in Int
    <2> TAKE t \in SUBSET U
    <2>1. Summable(Restrict(f, t), t)
      BY SummablePart
    <2> QED
      BY <2>1, SigmaType
  <1>9. On({}) = 0
    <2>1. Summable(Restrict(f, {}), {})
      BY SummablePart
    <2> QED
      BY <2>1, SigmaEmpty
  <1>10. On(U) = Sigma(f)
    BY <1>1 DEF Restrict
  <1>11. g[{}] = 0 /\ \A t \in SUBSET U : t # {} => g[t] = g[t \ {Max(t)}] + f[Max(t)]
    BY <1>5
  <1> HIDE DEF On, Body
  <1> DEFINE P == {t \in SUBSET U : g[t] = On(t)}
  <1>12. ASSUME NEW t \in SUBSET U, \A x \in t : t \ {x} \in P
         PROVE  g[t] = On(t)
    <2>1. CASE t = {}
      BY <1>9, <1>11, <2>1
    <2>2. CASE t # {}
      <3> DEFINE m == Max(t)
      <3>1. m \in t
        BY <2>2 DEF HaveLast
      <3>2. g[t] = g[t \ {m}] + f[m]
        BY <1>11, <2>2
      <3> HIDE DEF m
      <3>3. g[t \ {m}] = On(t \ {m})
        BY <1>12, <3>1
      <3>4. On(t) = f[m] + On(t \ {m})
        BY <1>7, <3>1
      <3>5. f[m] \in Int /\ On(t \ {m}) \in Int
        BY <1>1, <1>8, <3>1
      <3> QED
        BY <3>2, <3>3, <3>4, <3>5
    <2> QED
      BY <2>1, <2>2
  <1>13. SUBSET U \subseteq P
    <2>1. \A t \in SUBSET U : (\A x \in t : t \ {x} \in P) => t \in P
      BY <1>12
    <2>2. IsFiniteSet(U)
      BY <1>1
    <2> HIDE DEF P
    <2> QED
      BY <2>1, <2>2, SubsetInduction
  <1>14. g[U] = On(U)
    BY <1>13
  <1> QED
    BY <1>6, <1>10, <1>14

\* A range of places has a last.
LEMMA RangeLast ==
  ASSUME NEW n \in Nat
  PROVE  HaveLast(1..n)
  <1> SUFFICES ASSUME NEW t \in SUBSET (1..n), t # {}
               PROVE  Max(t) \in t
    BY DEF HaveLast
  <1> DEFINE rank == [x \in 1..n |-> -x]
  <1>1. Summable(rank, 1..n)
    BY FS_Interval DEF Summable
  <1>2. \E x \in t : \A y \in t : rank[x] <= rank[y]
    <2> HIDE DEF rank
    <2> QED
      BY <1>1, FirstExists
  <1>3. \A x \in t : x \in Int /\ rank[x] = -x
    OBVIOUS
  <1> HIDE DEF rank
  <1>4. \E x \in t : \A y \in t : x >= y
    <2>1. PICK x \in t : \A y \in t : rank[x] <= rank[y]
      BY <1>2
    <2>2. \A y \in t : x >= y
      BY <1>3, <2>1
    <2> QED
      BY <2>2
  <1> QED
    BY <1>4 DEF Max

\* It is the end of the range.
LEMMA PrefixLast ==
  ASSUME NEW k \in Nat, k # 0
  PROVE  Max(1..k) = k /\ (1..k) \ {k} = 1..(k - 1)
  <1>1. Max(1..k) \in 1..k /\ \A y \in 1..k : Max(1..k) >= y
    <2>1. k \in 1..k /\ \A y \in 1..k : k >= y
      OBVIOUS
    <2> QED
      BY <2>1 DEF Max
  <1> HIDE DEF Max
  <1> QED
    BY <1>1

\* The total of a sequence is its sum.
LEMMA TotalIs ==
  ASSUME NEW n \in Nat, NEW f \in [1..n -> Int]
  PROVE  Total(f) = Sigma(f) /\ Summable(f, 1..n)
  <1>1. Summable(f, 1..n)
    BY FS_Interval DEF Summable
  <1>2. HaveLast(1..n)
    BY RangeLast
  <1>3. Total(f) = TotalBy(f)
    BY DEF Total, FoldLeft, MapThenFoldSet, TotalBy
  <1> QED
    BY <1>1, <1>2, <1>3, EndSums

-----------------------------------------------------------------------------
(* Lists.                                                                   *)

\* A sequence that has each element of a set once.
Lists(s, S) == \E n \in Nat : Onto(s, 1..n, S)

\* A list after an element it does not have.
LEMMA ListGrows ==
  ASSUME NEW S, NEW s, Lists(s, S), NEW x, x \notin S
  PROVE  Lists(<<x>> \o s, S \cup {x})
  <1>1. PICK n \in Nat : Onto(s, 1..n, S)
    BY DEF Lists
  <1> DEFINE t == <<x>> \o s
  <1>2. s \in Seq(S) /\ Len(s) = n /\ \A i \in 1..n : s[i] \in S
    BY <1>1 DEF Onto
  <1>3. /\ Len(t) = n + 1 /\ DOMAIN t = 1..(n + 1) /\ t \in Seq(S \cup {x})
        /\ t[1] = x /\ \A i \in 2..(n + 1) : t[i] = s[i - 1]
    BY <1>2
  <1> HIDE DEF t
  <1>4. t \in [1..(n + 1) -> S \cup {x}]
    BY <1>3
  <1>5. ASSUME NEW i \in 1..(n + 1), NEW j \in 1..(n + 1), t[i] = t[j]
        PROVE  i = j
    <2>1. CASE i = 1 \/ j = 1
      BY <1>2, <1>3, <1>5, <2>1
    <2>2. CASE i # 1 /\ j # 1
      <3>1. s[i - 1] = s[j - 1] /\ i - 1 \in 1..n /\ j - 1 \in 1..n
        BY <1>3, <1>5, <2>2
      <3>2. i - 1 = j - 1
        BY <1>1, <3>1 DEF Onto
      <3> QED
        BY <3>2
    <2> QED
      BY <2>1, <2>2
  <1>6. ASSUME NEW y \in S \cup {x}
        PROVE  \E i \in 1..(n + 1) : t[i] = y
    <2>1. CASE y = x
      BY <1>3, <2>1
    <2>2. CASE y # x
      <3>1. PICK i \in 1..n : s[i] = y
        BY <1>1, <2>2 DEF Onto
      <3>2. t[i + 1] = y /\ i + 1 \in 1..(n + 1)
        BY <1>3, <3>1
      <3> QED
        BY <3>2
    <2> QED
      BY <2>1, <2>2
  <1>7. Onto(t, 1..(n + 1), S \cup {x}) /\ n + 1 \in Nat
    BY <1>4, <1>5, <1>6 DEF Onto
  <1> QED
    BY <1>7 DEF Lists, t

ListBy(first, S) ==
  (CHOOSE g : g = [t \in SUBSET S |->
                     IF t = {} THEN <<>> ELSE <<first[t]>> \o g[t \ {first[t]}]])[S]

\* To take one after the other of every subset.
Takes(g, first, S) ==
  /\ g[{}] = <<>>
  /\ \A t \in SUBSET S : t # {} => g[t] = <<first[t]>> \o g[t \ {first[t]}]

\* The list of a set is that of a function of its subsets.
LEMMA ListByRuns ==
  ASSUME NEW S, IsFiniteSet(S), NEW first, Picks(first, S)
  PROVE  \E g : ListBy(first, S) = g[S] /\ Takes(g, first, S)
  <1> DEFINE Body(g) == [t \in SUBSET S |->
               IF t = {} THEN <<>> ELSE <<first[t]>> \o g[t \ {first[t]}]]
             join == [x \in S |-> [r \in Seq(S) |-> <<x>> \o r]]
  <1>0. \A t \in SUBSET S : t # {} => first[t] \in t
    BY DEF Picks
  <1>1. \E h : h = Body(h)
    <2>1. PICK h \in [SUBSET S -> Seq(S)] : Fold(h, <<>>, first, join, S)
      <3>1. <<>> \in Seq(S) /\ join \in [S -> [Seq(S) -> Seq(S)]]
        <4>1. \A x \in S, r \in Seq(S) : <<x>> \o r \in Seq(S)
          OBVIOUS
        <4> QED
          BY <4>1
      <3> HIDE DEF join
      <3> QED
        BY <3>1, FoldExists
    <2>2. ASSUME NEW t \in SUBSET S
          PROVE  Turn(h, <<>>, first, join, t)
                   = (IF t = {} THEN <<>> ELSE <<first[t]>> \o h[t \ {first[t]}])
      <3>1. CASE t # {}
        <4>1. first[t] \in S /\ h[t \ {first[t]}] \in Seq(S)
          BY <1>0, <3>1
        <4> QED
          BY <3>1, <4>1 DEF Turn
      <3> QED
        BY <3>1 DEF Turn
    <2>3. h = Body(h)
      BY <2>1, <2>2 DEF Fold
    <2> HIDE DEF Body
    <2> QED
      BY <2>3
  <1> DEFINE g == CHOOSE g : g = Body(g)
  <1>2. g = Body(g)
    <2> HIDE DEF Body
    <2> QED
      BY <1>1
  <1>3. ListBy(first, S) = g[S]
    BY DEF ListBy
  <1> HIDE DEF g, join
  <1>4. g[{}] = <<>> /\ \A t \in SUBSET S : t # {} => g[t] = <<first[t]>> \o g[t \ {first[t]}]
    BY <1>2
  <1>5. Takes(g, first, S)
    BY <1>4 DEF Takes
  <1> QED
    BY <1>3, <1>5

\* To take one after the other lists a set.
LEMMA ListByIs ==
  ASSUME NEW S, IsFiniteSet(S), NEW first, Picks(first, S)
  PROVE  Lists(ListBy(first, S), S)
  <1>0. \A t \in SUBSET S : t # {} => first[t] \in t
    BY DEF Picks
  <1>3. PICK g : ListBy(first, S) = g[S] /\ Takes(g, first, S)
    BY ListByRuns
  <1>4. g[{}] = <<>> /\ \A t \in SUBSET S : t # {} => g[t] = <<first[t]>> \o g[t \ {first[t]}]
    BY <1>3 DEF Takes
  <1> DEFINE P == {t \in SUBSET S : Lists(g[t], t)}
  <1>5. ASSUME NEW t \in SUBSET S, \A x \in t : t \ {x} \in P
        PROVE  Lists(g[t], t)
    <2>1. CASE t = {}
      <3>1. g[t] = <<>>
        BY <1>4, <2>1
      <3>2. Onto(<<>>, 1..0, {})
        BY DEF Onto
      <3> QED
        BY <2>1, <3>1, <3>2 DEF Lists
    <2>2. CASE t # {}
      <3> DEFINE x == first[t]
      <3>1. x \in t /\ g[t] = <<x>> \o g[t \ {x}]
        BY <1>0, <1>4, <2>2
      <3> HIDE DEF x
      <3>2. Lists(g[t \ {x}], t \ {x})
        BY <1>5, <3>1
      <3>3. Lists(<<x>> \o g[t \ {x}], (t \ {x}) \cup {x})
        BY <3>2, ListGrows
      <3>4. (t \ {x}) \cup {x} = t
        BY <3>1
      <3> QED
        BY <3>1, <3>3, <3>4
    <2> QED
      BY <2>1, <2>2
  <1>6. SUBSET S \subseteq P
    <2>1. \A t \in SUBSET S : (\A x \in t : t \ {x} \in P) => t \in P
      BY <1>5
    <2> HIDE DEF P
    <2> QED
      BY <2>1, SubsetInduction
  <1>7. Lists(g[S], S)
    BY <1>6
  <1> QED
    BY <1>3, <1>7

\* In the order of their ranks.
Ascends(s, rank, S) ==
  /\ s \in Seq(S)
  /\ \A i, j \in 1..Len(s) : i < j => rank[s[i]] <= rank[s[j]]

\* One of no higher rank before those in order.
LEMMA AscendsAfter ==
  ASSUME NEW S, NEW rank, NEW T, NEW s, Ascends(s, rank, T), NEW x,
         T \subseteq S, x \in S, \A y \in T : rank[x] <= rank[y]
  PROVE  Ascends(<<x>> \o s, rank, S)
  <1> DEFINE t == <<x>> \o s
             n == Len(s)
  <1>1. s \in Seq(T) /\ n \in Nat /\ \A i \in 1..n : s[i] \in T
    BY DEF Ascends
  <1>2. s \in Seq(S)
    BY <1>1
  <1>3. t \in Seq(S) /\ Len(t) = n + 1 /\ t[1] = x /\ \A i \in 2..(n + 1) : t[i] = s[i - 1]
    BY <1>1, <1>2
  <1> HIDE DEF t, n
  <1>4. ASSUME NEW i \in 1..(n + 1), NEW j \in 1..(n + 1), i < j
        PROVE  rank[t[i]] <= rank[t[j]]
    <2>1. j - 1 \in 1..n /\ t[j] = s[j - 1]
      BY <1>1, <1>3, <1>4
    <2>2. CASE i = 1
      BY <1>1, <1>3, <2>1, <2>2
    <2>3. CASE i # 1
      <3>1. i - 1 \in 1..n /\ t[i] = s[i - 1] /\ i - 1 < j - 1
        BY <1>1, <1>3, <1>4, <2>3
      <3> QED
        BY <2>1, <3>1 DEF Ascends, n
    <2> QED
      BY <2>2, <2>3
  <1>5. Ascends(t, rank, S)
    BY <1>3, <1>4 DEF Ascends
  <1> QED
    BY <1>5 DEF t

\* To take the lowest of the ranks, one after the other, lists a set in their order.
LEMMA ListByAscends ==
  ASSUME NEW S, IsFiniteSet(S), NEW first, Picks(first, S), NEW rank,
         \A t \in SUBSET S : \A y \in t : rank[first[t]] <= rank[y]
  PROVE  Ascends(ListBy(first, S), rank, S)
  <1>1. PICK g : ListBy(first, S) = g[S] /\ Takes(g, first, S)
    BY ListByRuns
  <1> DEFINE P == {t \in SUBSET S : Ascends(g[t], rank, t)}
  <1>2. ASSUME NEW t \in SUBSET S, \A x \in t : t \ {x} \in P
        PROVE  Ascends(g[t], rank, t)
    <2>1. CASE t = {}
      <3>1. g[t] = <<>>
        BY <1>1, <2>1 DEF Takes
      <3>2. Ascends(<<>>, rank, t)
        BY DEF Ascends
      <3> QED
        BY <3>1, <3>2
    <2>2. CASE t # {}
      <3> DEFINE x == first[t]
      <3>1. x \in t /\ g[t] = <<x>> \o g[t \ {x}]
        BY <1>1, <2>2 DEF Picks, Takes
      <3>2. \A y \in t \ {x} : rank[x] <= rank[y]
        OBVIOUS
      <3> HIDE DEF x
      <3>3. Ascends(g[t \ {x}], rank, t \ {x})
        BY <1>2, <3>1
      <3>4. Ascends(<<x>> \o g[t \ {x}], rank, t)
        BY <3>1, <3>2, <3>3, AscendsAfter
      <3> QED
        BY <3>1, <3>4
    <2> QED
      BY <2>1, <2>2
  <1>3. SUBSET S \subseteq P
    <2>1. \A t \in SUBSET S : (\A x \in t : t \ {x} \in P) => t \in P
      BY <1>2
    <2> HIDE DEF P
    <2> QED
      BY <2>1, SubsetInduction
  <1>4. Ascends(g[S], rank, S)
    BY <1>3
  <1> QED
    BY <1>1, <1>4

\* The rows of a query that are ordered by their key.
LEMMA ByDayIs ==
  ASSUME NEW S, IsFiniteSet(S), \A x \in S : x.key \in Int
  PROVE  \E first : /\ Picks(first, S) /\ ByDay(S) = ListBy(first, S)
                    /\ \A t \in SUBSET S : \A y \in t : first[t].key <= y.key
  <1> DEFINE First(t) == CHOOSE x \in t : \A y \in t : x.key <= y.key
             first == [t \in SUBSET S |-> First(t)]
             rank  == [x \in S |-> x.key]
  <1>1. ASSUME NEW t \in SUBSET S, t # {}
        PROVE  First(t) \in t /\ \A y \in t : First(t).key <= y.key
    <2>1. Summable(rank, S)
      BY DEF Summable
    <2>2. \E x \in t : \A y \in t : rank[x] <= rank[y]
      <3> HIDE DEF rank
      <3> QED
        BY <1>1, <2>1, FirstExists
    <2>3. \E x \in t : \A y \in t : x.key <= y.key
      BY <2>2
    <2> QED
      BY <2>3
  <1> DEFINE Body(g) == [t \in SUBSET S |->
               IF t = {} THEN <<>> ELSE <<First(t)>> \o g[t \ {First(t)}]]
  <1>2. ByDay(S) = (CHOOSE g : g = Body(g))[S]
    BY DEF ByDay, Sorted, MapThenFoldSet
  <1> HIDE DEF First
  <1>3. \A g : Body(g) = [t \in SUBSET S |->
                  IF t = {} THEN <<>> ELSE <<first[t]>> \o g[t \ {first[t]}]]
    OBVIOUS
  <1>4. Picks(first, S)
    BY <1>1 DEF Picks
  <1>6. \A t \in SUBSET S : \A y \in t : first[t].key <= y.key
    <2> TAKE t \in SUBSET S
    <2> TAKE y \in t
    <2>1. t # {}
      OBVIOUS
    <2> QED
      BY <1>1, <2>1
  <1> HIDE DEF Body, first
  <1>5. ByDay(S) = ListBy(first, S)
    BY <1>2, <1>3 DEF ListBy
  <1> QED
    BY <1>4, <1>5, <1>6

\* They are listed.
LEMMA ByDayLists ==
  ASSUME NEW S, IsFiniteSet(S), \A x \in S : x.key \in Int
  PROVE  Lists(ByDay(S), S)
  <1>1. \E first : Picks(first, S) /\ ByDay(S) = ListBy(first, S)
    BY ByDayIs
  <1> QED
    BY <1>1, ListByIs

\* No two of which have one key come in the order of their keys.
LEMMA ByDayAscends ==
  ASSUME NEW S, IsFiniteSet(S), \A x \in S : x.key \in Int,
         \A x, y \in S : x.key = y.key => x = y
  PROVE  LET s == ByDay(S)
         IN  /\ s \in Seq(S) /\ Len(s) \in Nat
             /\ \A i, j \in 1..Len(s) : i < j => s[i].key < s[j].key
  <1> DEFINE s == ByDay(S)
             rank == [x \in S |-> x.key]
  <1>1. PICK first : /\ Picks(first, S) /\ s = ListBy(first, S)
                     /\ \A t \in SUBSET S : \A y \in t : first[t].key <= y.key
    BY ByDayIs
  <1>2. Lists(s, S)
    BY <1>1, ListByIs
  <1>3. \A t \in SUBSET S : \A y \in t : rank[first[t]] <= rank[y]
    <2> TAKE t \in SUBSET S
    <2> TAKE y \in t
    <2>1. t # {} /\ first[t] \in t
      BY <1>1 DEF Picks
    <2> QED
      BY <1>1, <2>1
  <1> HIDE DEF s, rank
  <1>4. Ascends(s, rank, S)
    BY <1>1, <1>3, ListByAscends
  <1>5. s \in Seq(S) /\ Len(s) \in Nat /\ \A i \in 1..Len(s) : s[i] \in S
    BY <1>4 DEF Ascends
  <1>6. \A i, j \in 1..Len(s) : s[i] = s[j] => i = j
    <2>1. PICK n \in Nat : Onto(s, 1..n, S)
      BY <1>2 DEF Lists
    <2>2. Len(s) = n
      BY <1>5, <2>1 DEF Onto
    <2> QED
      BY <2>1, <2>2 DEF Onto
  <1>7. ASSUME NEW i \in 1..Len(s), NEW j \in 1..Len(s), i < j
        PROVE  s[i].key < s[j].key
    <2>1. s[i] \in S /\ s[j] \in S /\ s[i].key \in Int /\ s[j].key \in Int
      BY <1>5
    <2>2. rank[s[i]] <= rank[s[j]]
      BY <1>4, <1>7 DEF Ascends
    <2>3. s[i].key <= s[j].key
      BY <2>1, <2>2 DEF rank
    <2>4. s[i].key # s[j].key
      BY <1>5, <1>6, <1>7, <2>1
    <2> QED
      BY <2>1, <2>3, <2>4
  <1> QED
    BY <1>5, <1>7 DEF s

\* So are those of the daily chart.
LEMMA ByDateLists ==
  ASSUME NEW S, IsFiniteSet(S), \A x \in S : x.date \in Int
  PROVE  Lists(ByDate(S), S)
  <1> DEFINE First(t) == CHOOSE x \in t : \A y \in t : x.date <= y.date
             first == [t \in SUBSET S |-> First(t)]
             rank  == [x \in S |-> x.date]
  <1>1. ASSUME NEW t \in SUBSET S, t # {}
        PROVE  First(t) \in t
    <2>1. Summable(rank, S)
      BY DEF Summable
    <2>2. \E x \in t : \A y \in t : rank[x] <= rank[y]
      <3> HIDE DEF rank
      <3> QED
        BY <1>1, <2>1, FirstExists
    <2>3. \E x \in t : \A y \in t : x.date <= y.date
      BY <2>2
    <2> QED
      BY <2>3
  <1> DEFINE Body(g) == [t \in SUBSET S |->
               IF t = {} THEN <<>> ELSE <<First(t)>> \o g[t \ {First(t)}]]
  <1>2. ByDate(S) = (CHOOSE g : g = Body(g))[S]
    BY DEF ByDate, Sorted, MapThenFoldSet
  <1> HIDE DEF First
  <1>3. \A g : Body(g) = [t \in SUBSET S |->
                  IF t = {} THEN <<>> ELSE <<first[t]>> \o g[t \ {first[t]}]]
    OBVIOUS
  <1>4. Picks(first, S)
    BY <1>1 DEF Picks
  <1> HIDE DEF Body, first
  <1>5. ByDate(S) = ListBy(first, S)
    BY <1>2, <1>3 DEF ListBy
  <1> QED
    BY <1>4, <1>5, ListByIs

\* A table that was not cut at its limit has all its rows.
LEMMA TopLists ==
  ASSUME NEW S, IsFiniteSet(S), \A x \in S : x.cost_usd \in Int,
         NEW n \in Nat
  PROVE  Top(S, n) \in Seq(S) /\ (Len(Top(S, n)) < n => Lists(Top(S, n), S))
  <1> DEFINE First(t) == CHOOSE x \in t : \A y \in t : x.cost_usd >= y.cost_usd
             first == [t \in SUBSET S |-> First(t)]
             rank  == [x \in S |-> -x.cost_usd]
             sorted == Sorted(S, LAMBDA a, b : a.cost_usd >= b.cost_usd)
  <1>1. ASSUME NEW t \in SUBSET S, t # {}
        PROVE  First(t) \in t
    <2>1. Summable(rank, S)
      BY DEF Summable
    <2>2. \E x \in t : \A y \in t : rank[x] <= rank[y]
      <3> HIDE DEF rank
      <3> QED
        BY <1>1, <2>1, FirstExists
    <2>3. PICK x \in t : \A y \in t : rank[x] <= rank[y]
      BY <2>2
    <2>4. \A y \in t : rank[y] = -y.cost_usd /\ y.cost_usd \in Int
      OBVIOUS
    <2> HIDE DEF rank
    <2>5. \A y \in t : x.cost_usd >= y.cost_usd
      BY <2>3, <2>4
    <2> QED
      BY <2>5
  <1> DEFINE Body(g) == [t \in SUBSET S |->
               IF t = {} THEN <<>> ELSE <<First(t)>> \o g[t \ {First(t)}]]
  <1>2. sorted = (CHOOSE g : g = Body(g))[S]
    BY DEF Sorted, MapThenFoldSet
  <1>3. Top(S, n) = SubSeq(sorted, 1, Min({n, Len(sorted)}))
    BY DEF Top
  <1> HIDE DEF First, sorted
  <1>4. \A g : Body(g) = [t \in SUBSET S |->
                  IF t = {} THEN <<>> ELSE <<first[t]>> \o g[t \ {first[t]}]]
    OBVIOUS
  <1>5. Picks(first, S)
    BY <1>1 DEF Picks
  <1> HIDE DEF Body, first
  <1>6. sorted = ListBy(first, S)
    BY <1>2, <1>4 DEF ListBy
  <1>7. Lists(sorted, S)
    BY <1>5, <1>6, ListByIs
  <1>8. PICK m \in Nat : Onto(sorted, 1..m, S)
    BY <1>7 DEF Lists
  <1>9. sorted \in Seq(S) /\ Len(sorted) = m
    BY <1>8 DEF Onto
  <1>10. Min({n, m}) \in {n, m} /\ Min({n, m}) <= n /\ Min({n, m}) <= m
    <2>1. \E x \in {n, m} : \A y \in {n, m} : x <= y
      <3>1. CASE n <= m
        BY <3>1
      <3>2. CASE ~(n <= m)
        BY <3>2
      <3> QED
        BY <3>1, <3>2
    <2> QED
      BY <2>1 DEF Min
  <1>11. Top(S, n) \in Seq(S) /\ Len(Top(S, n)) = Min({n, m})
    <2> DEFINE k == Min({n, m})
    <2>1. k \in 0..m
      BY <1>10
    <2> HIDE DEF k
    <2>2. SubSeq(sorted, 1, k) \in Seq(S) /\ Len(SubSeq(sorted, 1, k)) = k
      BY <1>9, <2>1
    <2> QED
      BY <1>3, <1>9, <2>2 DEF k
  <1>12. ASSUME Len(Top(S, n)) < n
         PROVE  Lists(Top(S, n), S)
    <2>1. Min({n, m}) = m
      BY <1>10, <1>11, <1>12
    <2>2. Top(S, n) = sorted
      BY <1>3, <1>9, <2>1
    <2> QED
      BY <1>7, <2>2
  <1> QED
    BY <1>11, <1>12

\* A column of a list sums up to that of the set.
LEMMA ListSums ==
  ASSUME NEW S, IsFiniteSet(S), NEW s, Lists(s, S), NEW f, f \in [S -> Int]
  PROVE  Total([i \in DOMAIN s |-> f[s[i]]]) = Sigma(f) /\ Summable(f, S)
  <1>1. PICK n \in Nat : Onto(s, 1..n, S)
    BY DEF Lists
  <1>2. DOMAIN s = 1..n /\ \A i \in 1..n : s[i] \in S
    BY <1>1 DEF Onto
  <1> DEFINE e == [i \in 1..n |-> f[s[i]]]
  <1>3. e \in [1..n -> Int]
    BY <1>2
  <1>4. Summable(f, S)
    BY DEF Summable
  <1>5. IsFiniteSet(1..n)
    BY FS_Interval
  <1>6. [i \in DOMAIN s |-> f[s[i]]] = e
    BY <1>2
  <1>7. Sigma(e) = Sigma(f)
    BY <1>1, <1>4, <1>5, Reindex
  <1> HIDE DEF e
  <1>8. Total(e) = Sigma(e)
    BY <1>3, TotalIs
  <1> QED
    BY <1>4, <1>6, <1>7, <1>8

CostsOf(groups)    == [g \in groups |-> g.cost_usd]
RequestsOf(groups) == [g \in groups |-> g.requests]

\* The groups of events, by any column, add up to the events.
LEMMA GroupSums ==
  ASSUME NEW S \in SUBSET Event, NEW key
  PROVE  LET G == GroupsOfEvents(S, key)
         IN  /\ IsFiniteSet(G)
             /\ CostsOf(G) \in [G -> Int] /\ Sigma(CostsOf(G)) = Cost(S)
             /\ RequestsOf(G) \in [G -> Int] /\ Sigma(RequestsOf(G)) = Cardinality(S)
  <1> DEFINE G == GroupsOfEvents(S, key)
             Of(k) == {e \in S : key[e] = k}
             Made(r) == [key |-> key[Sample(r)], cost_usd |-> Cost(r), requests |-> Cardinality(r)]
             parts == {Of(k) : k \in {key[e] : e \in S}}
             made  == [r \in parts |-> Made(r)]
  <1>1. IsFiniteSet(S) /\ IsFiniteSet(parts) /\ UNION parts = S
    <2>1. IsFiniteSet(S)
      BY EventAssumption, FS_Subset
    <2>2. parts \subseteq SUBSET S
      OBVIOUS
    <2>3. IsFiniteSet(parts)
      BY <2>1, <2>2, FS_SUBSET, FS_Subset
    <2> QED
      BY <2>1, <2>3
  <1>2. ASSUME NEW r \in parts
        PROVE  /\ r # {} /\ r \in SUBSET S /\ Sample(r) \in r /\ r = Of(key[Sample(r)])
    <2>1. PICK k \in {key[e] : e \in S} : r = Of(k)
      OBVIOUS
    <2>2. \E e \in r : TRUE
      BY <2>1
    <2>3. Sample(r) \in r
      BY <2>2 DEF Sample
    <2> QED
      BY <2>1, <2>3
  <1>3. \A q, r \in parts : q \cap r # {} => q = r
    OBVIOUS
  <1>4. Onto(made, parts, G)
    <2>1. ASSUME NEW k \in {key[e] : e \in S}
          PROVE  /\ Of(k) \in parts /\ key[Sample(Of(k))] = k
                 /\ Made(Of(k)) = [key |-> k, cost_usd |-> Cost(Of(k)), requests |-> Cardinality(Of(k))]
      <3>1. Of(k) \in parts
        OBVIOUS
      <3>2. Sample(Of(k)) \in Of(k)
        BY <1>2, <3>1
      <3> QED
        BY <3>1, <3>2
    <2>2. G = {Made(Of(k)) : k \in {key[e] : e \in S}}
      <3>1. G = {[key |-> k, cost_usd |-> Cost(Of(k)), requests |-> Cardinality(Of(k))] :
                   k \in {key[e] : e \in S}}
        BY DEF GroupsOfEvents
      <3> HIDE DEF Of, Made
      <3> QED
        BY <2>1, <3>1
    <2>3. \A q, r \in parts : Made(q) = Made(r) => q = r
      <3> TAKE q, r \in parts
      <3> HAVE Made(q) = Made(r)
      <3>1. key[Sample(q)] = key[Sample(r)]
        OBVIOUS
      <3> HIDE DEF Of, Made, parts
      <3> QED
        BY <1>2, <3>1
    <2>4. \A r \in parts : Made(r) \in G
      <3> HIDE DEF Made, G
      <3> QED
        BY <2>2
    <2>5. \A g \in G : \E r \in parts : Made(r) = g
      <3> HIDE DEF Made, G
      <3> QED
        BY <2>2
    <2> HIDE DEF Made, G, parts
    <2> QED
      BY <2>3, <2>4, <2>5 DEF Onto
  <1>5. IsFiniteSet(G)
    <2>1. made \in Surjection(parts, G)
      BY <1>4 DEF Onto, Surjection
    <2> HIDE DEF made, parts, G
    <2> QED
      BY <1>1, <2>1, FS_Surjection
  <1>6. \A g \in G : g.cost_usd \in Int /\ g.requests \in Int
    <2>1. \A r \in SUBSET S : Cost(r) \in Int /\ Cardinality(r) \in Int
      <3> TAKE r \in SUBSET S
      <3>1. Summable(Restrict(CostOf, r), r) /\ Summable(Restrict(OneOf, r), r)
        BY Amounts, SummablePart
      <3> QED
        BY <3>1, EventSums, SigmaType
    <2>2. \A r \in parts : made[r].cost_usd = Cost(r) /\ made[r].requests = Cardinality(r)
      OBVIOUS
    <2>3. \A g \in G : \E r \in parts : made[r] = g
      BY <1>4 DEF Onto
    <2>4. \A r \in parts : r \in SUBSET S
      BY <1>2
    <2> HIDE DEF made, parts, G
    <2> QED
      BY <2>1, <2>2, <2>3, <2>4
  <1>7. CostsOf(G) \in [G -> Int] /\ RequestsOf(G) \in [G -> Int]
    BY <1>6 DEF CostsOf, RequestsOf
  <1>8. Summable(CostsOf(G), G) /\ Summable(RequestsOf(G), G)
    BY <1>5, <1>7 DEF Summable
  <1>9. \A r \in parts : made[r] \in G /\ made[r].cost_usd = Cost(r) /\ made[r].requests = Cardinality(r)
    BY <1>4 DEF Onto
  <1> HIDE DEF made, G
  <1>10. ASSUME NEW f, Summable(f, Event), NEW c, Summable(c, G),
                \A r \in parts : c[made[r]] = Sigma(Restrict(f, r))
         PROVE  Sigma(c) = Sigma(Restrict(f, S))
    <2> DEFINE own == Restrict(f, S)
               h   == [r \in parts |-> Sigma(Restrict(own, r))]
    <2>1. Summable(own, S)
      BY <1>10, SummablePart
    <2>2. \A r \in parts : Restrict(own, r) = Restrict(f, r)
      BY <1>2, RestrictTwice
    <2> HIDE DEF own, parts
    <2>3. Sigma(h) = Sigma(own)
      BY <1>1, <1>3, <2>1, SigmaOfRows
    <2>4. h = [r \in parts |-> c[made[r]]]
      BY <1>10, <2>2
    <2> HIDE DEF h
    <2>5. Sigma(h) = Sigma(c)
      BY <1>1, <1>4, <1>10, <2>4, Reindex
    <2> QED
      BY <2>3, <2>5 DEF own
  <1>11. \A r \in parts : r \in SUBSET Event
    BY <1>2
  <1> HIDE DEF parts
  <1>12. \A r \in parts : CostsOf(G)[made[r]] = Sigma(Restrict(CostOf, r))
    BY <1>9, <1>11, EventSums DEF CostsOf
  <1>13. \A r \in parts : RequestsOf(G)[made[r]] = Sigma(Restrict(OneOf, r))
    BY <1>9, <1>11, EventSums DEF RequestsOf
  <1>14. Sigma(CostsOf(G)) = Cost(S)
    BY <1>8, <1>10, <1>12, Amounts, EventSums
  <1>15. Sigma(RequestsOf(G)) = Cardinality(S)
    BY <1>8, <1>10, <1>13, Amounts, EventSums
  <1> QED
    BY <1>5, <1>7, <1>14, <1>15 DEF G

\* The rows of a table that lists all groups add up to the events.
LEMMA ListedGroups ==
  ASSUME NEW S \in SUBSET Event, NEW key, NEW s, Lists(s, GroupsOfEvents(S, key))
  PROVE  SumsUp(s, S)
  <1> DEFINE G == GroupsOfEvents(S, key)
  <1>1. /\ IsFiniteSet(G)
        /\ CostsOf(G) \in [G -> Int] /\ Sigma(CostsOf(G)) = Cost(S)
        /\ RequestsOf(G) \in [G -> Int] /\ Sigma(RequestsOf(G)) = Cardinality(S)
    BY GroupSums
  <1>2. Lists(s, G)
    OBVIOUS
  <1> HIDE DEF G
  <1>3. \A i \in DOMAIN s : s[i] \in G
    BY <1>2 DEF Lists, Onto
  <1>4. Total([i \in DOMAIN s |-> CostsOf(G)[s[i]]]) = Cost(S)
    BY <1>1, <1>2, ListSums
  <1>5. Total([i \in DOMAIN s |-> RequestsOf(G)[s[i]]]) = Cardinality(S)
    BY <1>1, <1>2, ListSums
  <1>6. [i \in DOMAIN s |-> CostsOf(G)[s[i]]] = [i \in DOMAIN s |-> s[i].cost_usd]
    BY <1>3 DEF CostsOf
  <1>7. [i \in DOMAIN s |-> RequestsOf(G)[s[i]]] = [i \in DOMAIN s |-> s[i].requests]
    BY <1>3 DEF RequestsOf
  <1> QED
    BY <1>4, <1>5, <1>6, <1>7 DEF SumsUp, SumOf

\* Labels change no figure.
LEMMA LabelledGroups ==
  ASSUME NEW S \in SUBSET Event, NEW key, NEW s, Lists(s, GroupsOfEvents(S, key))
  PROVE  SumsUp(mapBreakdown(s), S)
  <1>1. \A i \in DOMAIN s : s[i] \in GroupsOfEvents(S, key)
    BY DEF Lists, Onto
  <1>2. \A i \in DOMAIN s : [s[i] EXCEPT !.key = [j \in DOMAIN @ |-> Label(@[j])]].cost_usd = s[i].cost_usd
                        /\ [s[i] EXCEPT !.key = [j \in DOMAIN @ |-> Label(@[j])]].requests = s[i].requests
    BY <1>1 DEF GroupsOfEvents
  <1>3. SumsUp(s, S)
    BY ListedGroups
  <1>4. [i \in DOMAIN mapBreakdown(s) |-> mapBreakdown(s)[i].cost_usd] = [i \in DOMAIN s |-> s[i].cost_usd]
    BY <1>2 DEF mapBreakdown
  <1>5. [i \in DOMAIN mapBreakdown(s) |-> mapBreakdown(s)[i].requests] = [i \in DOMAIN s |-> s[i].requests]
    BY <1>2 DEF mapBreakdown
  <1> QED
    BY <1>3, <1>4, <1>5 DEF SumsUp, SumOf

-----------------------------------------------------------------------------
(* What the queries read of a range.                                        *)

\* Every event that was inserted is a raw row until it expires.
RawsOK == \A e \in UNION cost_daily : KeptOrExpired(e)

\* Rows of exactly some events, a column of which is one value in each.
Hold(rows, S, col) == Apiece(rows) /\ UNION rows = S /\ Uniform(rows, col)

Events(org, from, to) == (UNION cost_daily) \cap InRange(org, from, to)

\* The hours of whole days are those of the days.
LEMMA HoursOfDays ==
  ASSUME NEW e \in Event, NEW from \in Int, NEW to \in Int
  PROVE  (toStartOfHour(e) * Hour >= from * Day /\ toStartOfHour(e) * Hour < to * Day + Day)
           <=> toDate(e) \in from..to
  <1>1. e.ts \in Nat
    BY EventAssumption
  <1> DEFINE t == e.ts
             h == t \div 10
             d == t \div 100
  <1>2. h \in Int /\ d \in Int /\ 10 * h <= t /\ t < 10 * h + 10 /\ 100 * d <= t /\ t < 100 * d + 100
    BY <1>1
  <1> HIDE DEF t, h, d
  <1>3. t \in Int
    BY <1>1 DEF t
  <1>4. 10 * d <= h /\ h < 10 * d + 10
    BY <1>2, <1>3
  <1>5. (h * 10 >= from * 100 /\ h * 10 < to * 100 + 100) <=> (from <= d /\ d <= to)
    BY <1>2, <1>4
  <1> QED
    BY <1>2, <1>5 DEF toStartOfHour, toDate, Hour, Day, h, d, t

\* The daily rollup and the prompt rollup, of a range.
LEMMA DailyRange ==
  ASSUME TablesOK, NEW org, NEW from, NEW to
  PROVE  /\ \A col : Decides(DailyOf, col) => Hold(Rows(cost_daily, org, from, to), Events(org, from, to), col)
         /\ \A p, col : Decides(PromptOf, col) =>
              Hold(OfPrompt(Rows(prompt_version_daily, org, from, to), p),
                   {e \in Events(org, from, to) : e.prompt = p}, col)
  <1>1. Partition(cost_daily, DailyOf) /\ Partition(prompt_version_daily, PromptOf)
        /\ UNION prompt_version_daily = UNION cost_daily
    BY DEF TablesOK
  <1>2. Apiece(cost_daily) /\ Apiece(prompt_version_daily)
    BY <1>1 DEF Partition, Apiece
  <1>3. ASSUME NEW col, Decides(DailyOf, col)
        PROVE  Hold(Rows(cost_daily, org, from, to), Events(org, from, to), col)
    <2> DEFINE sel == InRange(org, from, to)
    <2>1. Rows(cost_daily, org, from, to) = RowsFrom(cost_daily, sel)
      BY <1>2, RowsAre
    <2>2. Keeps(DailyOf, sel)
      BY PickedKept
    <2> HIDE DEF sel
    <2>3. Apiece(RowsFrom(cost_daily, sel)) /\ UNION RowsFrom(cost_daily, sel) = (UNION cost_daily) \cap sel
          /\ Uniform(RowsFrom(cost_daily, sel), col)
      BY <1>1, <1>3, <2>2, RowsFromIs
    <2> QED
      BY <2>1, <2>3 DEF Hold, Events, sel
  <1>4. ASSUME NEW p, NEW col, Decides(PromptOf, col)
        PROVE  Hold(OfPrompt(Rows(prompt_version_daily, org, from, to), p),
                    {e \in Events(org, from, to) : e.prompt = p}, col)
    <2> DEFINE sel == {e \in InRange(org, from, to) : e.prompt = p}
               rows == OfPrompt(Rows(prompt_version_daily, org, from, to), p)
    <2>1. rows = RowsFrom(prompt_version_daily, sel)
      <3>1. \A r \in prompt_version_daily : Sample(r) \in Event
        BY <1>2, Sampled
      <3> QED
        BY <3>1 DEF OfPrompt, Rows, RowsFrom, InRange
    <2>2. Keeps(PromptOf, sel)
      BY KeysDecide DEF Keeps, InRange
    <2>3. (UNION cost_daily) \cap sel = {e \in Events(org, from, to) : e.prompt = p}
      BY DEF Events
    <2> HIDE DEF sel, rows
    <2>4. Apiece(RowsFrom(prompt_version_daily, sel))
          /\ UNION RowsFrom(prompt_version_daily, sel) = (UNION prompt_version_daily) \cap sel
          /\ Uniform(RowsFrom(prompt_version_daily, sel), col)
      BY <1>1, <1>4, <2>2, RowsFromIs
    <2>5. Hold(rows, {e \in Events(org, from, to) : e.prompt = p}, col)
      BY <1>1, <2>1, <2>3, <2>4 DEF Hold
    <2> QED
      BY <2>5 DEF rows
  <1> QED
    BY <1>3, <1>4

\* The hourly rollup, of whole days.
LEMMA HourlyRange ==
  ASSUME TablesOK, NEW org, NEW from \in Int, NEW to \in Int, NEW col, Decides(AttrOf, col)
  PROVE  Hold(HoursOf(cost_attr_hourly, org, from, to), Events(org, from, to), col)
  <1> DEFINE sel == InRange(org, from, to)
  <1>1. Partition(cost_attr_hourly, AttrOf) /\ UNION cost_attr_hourly = UNION cost_daily
    BY DEF TablesOK
  <1>2. \A r \in cost_attr_hourly : Sample(r) \in Event
    <2>1. Apiece(cost_attr_hourly)
      BY <1>1 DEF Partition, Apiece
    <2> QED
      BY <2>1, Sampled
  <1>3. HoursOf(cost_attr_hourly, org, from, to) = RowsFrom(cost_attr_hourly, sel)
    <2>1. \A r \in cost_attr_hourly :
            (toStartOfHour(Sample(r)) * Hour >= from * Day /\ toStartOfHour(Sample(r)) * Hour < to * Day + Day)
              <=> toDate(Sample(r)) \in from..to
      BY <1>2, HoursOfDays
    <2> QED
      BY <1>2, <2>1 DEF HoursOf, RowsFrom, InRange
  <1>4. Keeps(AttrOf, sel)
    <2>1. \A d, e \in Event : AttrOf[d] = AttrOf[e] =>
            d.org = e.org /\ toStartOfHour(d) = toStartOfHour(e)
      BY KeysDecide
    <2>2. \A e \in Event : (toStartOfHour(e) * Hour >= from * Day /\ toStartOfHour(e) * Hour < to * Day + Day)
              <=> toDate(e) \in from..to
      BY HoursOfDays
    <2>3. \A d, e \in Event : AttrOf[d] = AttrOf[e] => (toDate(d) \in from..to <=> toDate(e) \in from..to)
      BY <2>1, <2>2
    <2> QED
      BY <2>1, <2>3 DEF Keeps, InRange
  <1> HIDE DEF sel
  <1>5. Apiece(RowsFrom(cost_attr_hourly, sel))
        /\ UNION RowsFrom(cost_attr_hourly, sel) = (UNION cost_attr_hourly) \cap sel
        /\ Uniform(RowsFrom(cost_attr_hourly, sel), col)
    BY <1>1, <1>4, RowsFromIs
  <1> QED
    BY <1>1, <1>3, <1>5 DEF Hold, Events, sel

\* The raw rows, of days none of which has expired.
LEMMA RawRange ==
  ASSUME TablesOK, RawsOK, NEW org, NEW from \in Int, from > today - Ttl
  PROVE  /\ UNION RawRows(org, from, today) = Events(org, from, today)
         /\ \A col : Hold(RawRows(org, from, today), Events(org, from, today), col)
         /\ \A r \in RawRows(org, from, today) : r = {Sample(r)}
  <1> DEFINE raw == {e \in events : e.org = org /\ e.ts >= from * Day /\ e.ts < today * Day + Day}
  <1>1. RawRows(org, from, today) = {{e} : e \in raw}
    BY DEF RawRows
  <1>2. today \in Int /\ Ttl \in Int /\ events \subseteq UNION cost_daily /\ UNION cost_daily \subseteq Event
    BY DashboardAssumption DEF TablesOK
  <1>3. raw = Events(org, from, today)
    <2>1. ASSUME NEW e \in UNION cost_daily, toDate(e) \in from..today
          PROVE  e \in events
      <3>1. toDate(e) \in Int
        BY <1>2, Days
      <3>2. ~(toDate(e) + Ttl < today)
        BY <1>2, <2>1, <3>1
      <3> QED
        BY <3>2 DEF RawsOK, KeptOrExpired
    <2>2. \A e \in events : (e.ts >= from * Day /\ e.ts < today * Day + Day) <=> toDate(e) \in from..today
      <3> TAKE e \in events
      <3>1. e \in Event /\ toDate(e) \in Int
        BY <1>2, Days
      <3>2. (e.ts >= from * Day /\ e.ts < today * Day + Day) <=> (from <= toDate(e) /\ toDate(e) <= today)
        BY <1>2, <3>1, Days
      <3> QED
        BY <1>2, <3>1, <3>2
    <2> QED
      BY <1>2, <2>1, <2>2 DEF Events, InRange
  <1> HIDE DEF raw
  <1>4. UNION {{e} : e \in raw} = raw /\ raw \subseteq Event
    BY <1>2, <1>3 DEF Events
  <1>5. Apiece({{e} : e \in raw}) /\ \A col : Uniform({{e} : e \in raw}, col)
    BY <1>4 DEF Apiece, Uniform
  <1>6. \A r \in {{e} : e \in raw} : r = {Sample(r)}
    <2>1. \A e : Sample({e}) = e
      BY DEF Sample
    <2> QED
      BY <2>1
  <1> QED
    BY <1>1, <1>3, <1>4, <1>5, <1>6 DEF Hold

\* The dimensions of a breakdown decide what it reads: the events of the range.
LEMMA BreakdownRange ==
  ASSUME TablesOK, RawsOK, NEW org, NEW from \in Int, from > today - Ttl,
         NEW dims, 1 \in DOMAIN dims
  PROVE  Hold(BreakdownRows(org, from, today, dims), Events(org, from, today), DimsOf(dims))
  <1>0. ~(ToSet(dims) \subseteq DailyDims /\ ToSet(dims) \subseteq AttrDims)
    <2>1. dims[1] \in ToSet(dims)
      BY DEF ToSet
    <2>2. DailyDims \cap AttrDims = {}
      BY DEF DailyDims, AttrDims
    <2> QED
      BY <2>1, <2>2
  <1>1. BreakdownRows(org, from, today, dims)
          = RowsOf(cost_daily, cost_attr_hourly, org, from, today, dims)
    BY RowsRead
  <1>2. today \in Int
    BY DEF TablesOK
  <1>3. CASE ToSet(dims) \subseteq DailyDims
    <2>1. Decides(DailyOf, DimsOf(dims))
      BY <1>3, KeysDecide
    <2>2. Hold(Rows(cost_daily, org, from, today), Events(org, from, today), DimsOf(dims))
      BY <2>1, DailyRange
    <2> QED
      BY <1>0, <1>1, <1>3, <2>2 DEF RowsOf
  <1>4. CASE ToSet(dims) \subseteq AttrDims
    <2>1. Decides(AttrOf, DimsOf(dims))
      BY <1>4, KeysDecide
    <2>2. Hold(HoursOf(cost_attr_hourly, org, from, today), Events(org, from, today), DimsOf(dims))
      BY <1>2, <2>1, HourlyRange
    <2> QED
      BY <1>0, <1>1, <1>4, <2>2 DEF RowsOf
  <1>5. CASE ~(ToSet(dims) \subseteq DailyDims) /\ ~(ToSet(dims) \subseteq AttrDims)
    <2>1. Hold(RawRows(org, from, today), Events(org, from, today), DimsOf(dims))
      BY RawRange
    <2> QED
      BY <1>1, <1>5, <2>1 DEF RowsOf
  <1> QED
    BY <1>3, <1>4, <1>5

\* What is grouped by a column is a set of numbers by the column's values.
LEMMA GroupFields ==
  ASSUME NEW S \in SUBSET Event, NEW key, NEW g \in GroupsOfEvents(S, key)
  PROVE  /\ g = [key |-> g.key, cost_usd |-> g.cost_usd, requests |-> g.requests]
         /\ g.key \in {key[e] : e \in S}
         /\ g.requests = Cardinality({e \in S : key[e] = g.key})
         /\ g.cost_usd \in Int
  <1>1. PICK k \in {key[e] : e \in S} :
          g = [key |-> k, cost_usd |-> Cost({e \in S : key[e] = k}),
               requests |-> Cardinality({e \in S : key[e] = k})]
    BY DEF GroupsOfEvents
  <1>2. CostsOf(GroupsOfEvents(S, key)) \in [GroupsOfEvents(S, key) -> Int]
    BY GroupSums
  <1>3. g.cost_usd \in Int
    BY <1>2 DEF CostsOf
  <1>4. g.key = k /\ g.requests = Cardinality({e \in S : key[e] = k})
    BY <1>1
  <1> QED
    BY <1>1, <1>3, <1>4

\* A group's key is some event's.
LEMMA GroupKeys ==
  ASSUME NEW S, NEW key, NEW g \in GroupsOfEvents(S, key)
  PROVE  \E e \in S : g.key = key[e]
  <1>1. PICK k \in {key[e] : e \in S} :
          g = [key |-> k, cost_usd |-> Cost({e \in S : key[e] = k}),
               requests |-> Cardinality({e \in S : key[e] = k})]
    BY DEF GroupsOfEvents
  <1>2. g.key = k
    BY <1>1
  <1> QED
    BY <1>2

\* Rows that hold some events, grouped by a column, give the groups of the events.
LEMMA HeldGroups ==
  ASSUME NEW rows, NEW S, NEW col, Hold(rows, S, col)
  PROVE  GroupsOf(rows, col) = GroupsOfEvents(S, col) /\ S \in SUBSET Event
  BY GroupsAre DEF Hold, Apiece

\* A table that is not cut at its limit sums up to the events it groups.
LEMMA UncutTable ==
  ASSUME NEW S \in SUBSET Event, NEW key, NEW n \in Nat
  PROVE  LET table == Top(GroupsOfEvents(S, key), n)
         IN  /\ table \in Seq(GroupsOfEvents(S, key))
             /\ Len(mapBreakdown(table)) = Len(table)
             /\ Len(table) < n => SumsUp(table, S) /\ SumsUp(mapBreakdown(table), S)
  <1> DEFINE G == GroupsOfEvents(S, key)
             table == Top(G, n)
  <1>1. IsFiniteSet(G)
    BY GroupSums
  <1>2. \A g \in G : g.cost_usd \in Int
    BY GroupFields
  <1>3. table \in Seq(G) /\ (Len(table) < n => Lists(table, G))
    <2> HIDE DEF G
    <2> QED
      BY <1>1, <1>2, TopLists
  <1> HIDE DEF table
  <1>4. Len(mapBreakdown(table)) = Len(table)
    <2>1. table \in Seq(G) /\ DOMAIN table = 1..Len(table) /\ Len(table) \in Nat
      BY <1>3
    <2> QED
      BY <2>1 DEF mapBreakdown
  <1>5. Len(table) < n => SumsUp(table, S) /\ SumsUp(mapBreakdown(table), S)
    BY <1>3, ListedGroups, LabelledGroups
  <1> QED
    BY <1>3, <1>4, <1>5 DEF table, G

-----------------------------------------------------------------------------
(* The queries of a range add up to its events.                             *)

\* The totals.
LEMMA RangeTotals ==
  ASSUME TablesOK, NEW org, NEW from, NEW to
  PROVE  getOverviewTotals(org, from, to)
           = [cost_usd |-> Cost(Events(org, from, to)), total_tokens |-> Tokens(Events(org, from, to)),
              requests |-> Cardinality(Events(org, from, to))]
  <1> DEFINE rows == Rows(cost_daily, org, from, to)
  <1>1. getOverviewTotals(org, from, to)
          = [cost_usd |-> TotalCost(rows), total_tokens |-> TotalTokens(rows), requests |-> Requests(rows)]
    BY TotalsRead DEF TotalsOf
  <1>2. Apiece(rows) /\ UNION rows = Events(org, from, to)
    BY DailyRange, KeysDecide DEF Hold
  <1> HIDE DEF rows
  <1> QED
    BY <1>1, <1>2, RowSums

\* The daily series.
LEMMA RangeSpend ==
  ASSUME TablesOK, NEW org, NEW from, NEW to
  PROVE  SumsUp(getDailySpend(org, from, to), Events(org, from, to))
  <1> DEFINE rows == Rows(cost_daily, org, from, to)
             S    == Events(org, from, to)
  <1>1. getDailySpend(org, from, to) = ByDay(GroupBy(rows, toDate))
    BY SpendRead DEF SpendOf
  <1>2. Hold(rows, S, DateOf)
    BY DailyRange, KeysDecide
  <1> HIDE DEF rows, S
  <1>3. S \in SUBSET Event
    BY <1>2, HeldGroups
  <1>g. GroupBy(rows, toDate) = GroupsOfEvents(S, DateOf)
    BY <1>2, HeldGroups, GroupedBy DEF Hold
  <1>4. \A g \in GroupsOfEvents(S, DateOf) : g.key \in Int
    <2>1. \A e \in S : DateOf[e] \in Int
      BY <1>3, Days DEF DateOf
    <2>2. ASSUME NEW g \in GroupsOfEvents(S, DateOf)
          PROVE  \E e \in S : g.key = DateOf[e]
      BY <2>2, GroupKeys
    <2> QED
      BY <2>1, <2>2
  <1>5. IsFiniteSet(GroupsOfEvents(S, DateOf))
    BY <1>3, GroupSums
  <1>6. Lists(ByDay(GroupsOfEvents(S, DateOf)), GroupsOfEvents(S, DateOf))
    BY <1>4, <1>5, ByDayLists
  <1>7. SumsUp(ByDay(GroupsOfEvents(S, DateOf)), S)
    BY <1>3, <1>6, ListedGroups
  <1> QED
    BY <1>1, <1>g, <1>7 DEF S

\* The tables of providers and of models.
LEMMA RangeTables ==
  ASSUME TablesOK, NEW org, NEW from, NEW to
  PROVE  /\ Len(getCostByProvider(org, from, to)) < 12 =>
              SumsUp(getCostByProvider(org, from, to), Events(org, from, to))
         /\ Len(getCostByModel(org, from, to)) < 8 =>
              SumsUp(getCostByModel(org, from, to), Events(org, from, to))
  <1> DEFINE rows == Rows(cost_daily, org, from, to)
             S    == Events(org, from, to)
  <1>1. /\ getCostByProvider(org, from, to) = Top(GroupBy(rows, LAMBDA e : e.provider), 12)
        /\ getCostByModel(org, from, to) = Top(GroupBy(rows, LAMBDA e : e.model), 8)
    BY ProvidersRead, ModelsRead DEF ProvidersOf, ModelsOf
  <1>2. Hold(rows, S, ProviderOf) /\ Hold(rows, S, ModelOf)
    BY DailyRange, KeysDecide
  <1> HIDE DEF rows, S
  <1>3. GroupBy(rows, LAMBDA e : e.provider) = GroupsOfEvents(S, ProviderOf) /\ S \in SUBSET Event
    BY <1>2, HeldGroups, GroupedBy DEF Hold
  <1>4. GroupBy(rows, LAMBDA e : e.model) = GroupsOfEvents(S, ModelOf)
    BY <1>2, HeldGroups, GroupedBy DEF Hold
  <1>5. Len(Top(GroupsOfEvents(S, ProviderOf), 12)) < 12 =>
          SumsUp(Top(GroupsOfEvents(S, ProviderOf), 12), S)
    BY <1>3, UncutTable
  <1>6. Len(Top(GroupsOfEvents(S, ModelOf), 8)) < 8 =>
          SumsUp(Top(GroupsOfEvents(S, ModelOf), 8), S)
    BY <1>3, UncutTable
  <1>7. getCostByProvider(org, from, to) = Top(GroupsOfEvents(S, ProviderOf), 12)
    BY <1>1, <1>3
  <1>8. getCostByModel(org, from, to) = Top(GroupsOfEvents(S, ModelOf), 8)
    BY <1>1, <1>4
  <1> QED
    BY <1>5, <1>6, <1>7, <1>8 DEF S

\* A breakdown by dimensions.
LEMMA RangeBreakdown ==
  ASSUME TablesOK, RawsOK, NEW org, NEW from \in Int, from > today - Ttl,
         NEW dims, 1 \in DOMAIN dims
  PROVE  LET table == Top(GroupsOfEvents(Events(org, from, today), DimsOf(dims)), BreakdownLimit)
         IN  /\ getBreakdown(org, from, today, dims) = mapBreakdown(table)
             /\ Len(getBreakdown(org, from, today, dims)) < BreakdownLimit =>
                  SumsUp(getBreakdown(org, from, today, dims), Events(org, from, today))
  <1> DEFINE rows == BreakdownRows(org, from, today, dims)
             S    == Events(org, from, today)
             table == Top(GroupsOfEvents(S, DimsOf(dims)), BreakdownLimit)
  <1>1. getBreakdown(org, from, today, dims)
          = mapBreakdown(Top(GroupBy(rows, LAMBDA e : [i \in DOMAIN dims |-> e[dims[i]]]), BreakdownLimit))
    BY BreakdownRead DEF BreakdownOf
  <1>2. Hold(rows, S, DimsOf(dims))
    BY BreakdownRange
  <1> HIDE DEF rows
  <1>3. GroupBy(rows, LAMBDA e : [i \in DOMAIN dims |-> e[dims[i]]]) = GroupsOfEvents(S, DimsOf(dims))
        /\ S \in SUBSET Event
    BY <1>2, HeldGroups, GroupedBy DEF Hold
  <1>4. getBreakdown(org, from, today, dims) = mapBreakdown(table)
    BY <1>1, <1>3
  <1> HIDE DEF S
  <1>5. /\ Len(mapBreakdown(table)) = Len(table)
        /\ Len(table) < BreakdownLimit => SumsUp(mapBreakdown(table), S)
    BY <1>3, UncutTable, LimitAssumption
  <1> HIDE DEF table
  <1> QED
    BY <1>4, <1>5 DEF table, S

TagOf(key) == [e \in Event |-> <<e.tags[key]>>]

\* A breakdown by tag, of the events that have it.
LEMMA RangeTags ==
  ASSUME TablesOK, RawsOK, NEW org, NEW from \in Int, from > today - Ttl, NEW key
  PROVE  Len(getTagBreakdown(org, from, today, key)) < BreakdownLimit =>
           SumsUp(getTagBreakdown(org, from, today, key), Tagged(Events(org, from, today), key))
  <1> DEFINE raws == RawRows(org, from, today)
             rows == {r \in raws : key \in DOMAIN Sample(r).tags}
             S    == Tagged(Events(org, from, today), key)
             table == Top(GroupsOfEvents(S, TagOf(key)), BreakdownLimit)
  <1>1. getTagBreakdown(org, from, today, key)
          = mapBreakdown(Top(GroupBy(rows, LAMBDA e : <<e.tags[key]>>), BreakdownLimit))
    BY DEF getTagBreakdown
  <1>2. /\ Apiece(raws) /\ UNION raws = Events(org, from, today) /\ Uniform(raws, TagOf(key))
        /\ \A r \in raws : r = {Sample(r)}
    BY RawRange DEF Hold
  <1> HIDE DEF raws
  <1>3. Hold(rows, S, TagOf(key))
    <2>1. Apiece(rows) /\ Uniform(rows, TagOf(key))
      BY <1>2 DEF Apiece, Uniform
    <2>2. UNION rows = S
      BY <1>2 DEF Tagged
    <2> QED
      BY <2>1, <2>2 DEF Hold
  <1>4. \A r \in rows : Sample(r) \in Event
    BY <1>2, Sampled
  <1> HIDE DEF rows, S
  <1>5. GroupBy(rows, LAMBDA e : <<e.tags[key]>>) = GroupsOf(rows, TagOf(key))
    BY <1>4 DEF GroupBy, GroupsOf, Group, TagOf
  <1>6. GroupsOf(rows, TagOf(key)) = GroupsOfEvents(S, TagOf(key)) /\ S \in SUBSET Event
    BY <1>3, HeldGroups
  <1>7. getTagBreakdown(org, from, today, key) = mapBreakdown(table)
    BY <1>1, <1>5, <1>6
  <1>8. /\ Len(mapBreakdown(table)) = Len(table)
        /\ Len(table) < BreakdownLimit => SumsUp(mapBreakdown(table), S)
    BY <1>6, UncutTable, LimitAssumption
  <1> HIDE DEF table
  <1> QED
    BY <1>7, <1>8 DEF S

\* A set of groups has as many requests as are counted in them.
LEMMA RequestsOfGroupsIs ==
  ASSUME NEW S, NEW f, Summable(f, S), \A g \in S : f[g] = g.requests
  PROVE  RequestsOfGroups(S) = Sigma(f)
  <1> DEFINE Body(g) == [s \in SUBSET S |->
               IF s = {} THEN 0 ELSE (CHOOSE x \in s : TRUE).requests + g[s \ {CHOOSE x \in s : TRUE}]]
  <1>1. RequestsOfGroups(S) = (CHOOSE g : g = Body(g))[S]
    BY DEF RequestsOfGroups, MapThenSumSet, MapThenFoldSet
  <1>2. \A h : Body(h) = [t \in SUBSET S |-> Step(f, h, t)]
    <2> TAKE h
    <2>1. \A s \in SUBSET S : s # {} => (CHOOSE x \in s : TRUE) \in S
      OBVIOUS
    <2> QED
      BY <2>1 DEF Step, Pick
  <1> HIDE DEF Body
  <1>3. RequestsOfGroups(S) = SumBy(f, S)
    BY <1>1, <1>2 DEF SumBy
  <1> QED
    BY <1>3, SumByIs

\* The comparison of a prompt counts the requests of the prompt.
LEMMA RangePrompt ==
  ASSUME TablesOK, NEW org, NEW p, NEW from, NEW to
  PROVE  RequestsOfGroups(getPromptComparison(org, p, from, to))
           = Cardinality({e \in Events(org, from, to) : e.prompt = p})
  <1> DEFINE rows == OfPrompt(Rows(prompt_version_daily, org, from, to), p)
             S    == {e \in Events(org, from, to) : e.prompt = p}
             G    == GroupsOfEvents(S, LabelsOf)
  <1>1. getPromptComparison(org, p, from, to)
          = {[key |-> g.key, cost_usd |-> g.cost_usd, requests |-> g.requests] :
               g \in GroupBy(rows, LAMBDA e : <<Label(e.version), Label(e.model)>>)}
    BY ComparisonRead DEF ComparisonOf
  <1>2. Hold(rows, S, LabelsOf)
    BY DailyRange, KeysDecide
  <1> HIDE DEF rows, S
  <1>3. S \in SUBSET Event
    BY <1>2, HeldGroups
  <1> DEFINE groups == GroupBy(rows, LAMBDA e : <<Label(e.version), Label(e.model)>>)
  <1>4. groups = G
    BY <1>2, HeldGroups, GroupedBy DEF Hold
  <1> HIDE DEF groups
  <1>5. \A g \in G : g = [key |-> g.key, cost_usd |-> g.cost_usd, requests |-> g.requests]
    BY <1>3, GroupFields
  <1>6. getPromptComparison(org, p, from, to) = G
    <2> HIDE DEF G
    <2>1. getPromptComparison(org, p, from, to)
            = {[key |-> g.key, cost_usd |-> g.cost_usd, requests |-> g.requests] : g \in groups}
      BY <1>1 DEF groups
    <2> QED
      BY <1>4, <1>5, <2>1
  <1>g. /\ IsFiniteSet(G) /\ RequestsOf(G) \in [G -> Int]
        /\ Sigma(RequestsOf(G)) = Cardinality(S)
    BY <1>3, GroupSums
  <1> HIDE DEF G
  <1>7. Summable(RequestsOf(G), G) /\ \A g \in G : RequestsOf(G)[g] = g.requests
    BY <1>g DEF Summable, RequestsOf
  <1>8. RequestsOfGroups(G) = Sigma(RequestsOf(G))
    BY <1>7, RequestsOfGroupsIs
  <1> QED
    BY <1>6, <1>g, <1>8 DEF S

\* A model's row of a breakdown counts the requests listed of the model.
LEMMA RangeModel ==
  ASSUME TablesOK, RawsOK, NEW org, NEW from \in Int, from > today - Ttl,
         NEW g \in ToSet(getBreakdown(org, from, today, <<"model">>))
  PROVE  g.requests = countRequests(org, [from |-> from, to |-> today, where |-> [model |-> g.key[1]]])
  <1> DEFINE S == Events(org, from, today)
             key == DimsOf(<<"model">>)
             G == GroupsOfEvents(S, key)
             table == Top(G, BreakdownLimit)
  <1>0. S \in SUBSET Event
    BY DEF Events, InRange
  <1>1. getBreakdown(org, from, today, <<"model">>) = mapBreakdown(table)
    BY RangeBreakdown
  <1>2. table \in Seq(G)
    BY <1>0, UncutTable, LimitAssumption
  <1>3. \A e \in S : key[e] = <<e.model>>
    <2>1. \A e : [i \in {1} |-> e[<<"model">>[i]]] = <<e.model>>
      OBVIOUS
    <2> QED
      BY <1>0, <2>1 DEF DimsOf
  <1> HIDE DEF key
  <1>4. \A h \in G : \E e \in S : h.key = key[e]
                       /\ h.requests = Cardinality({d \in S : key[d] = h.key})
    BY <1>0, GroupFields
  <1> DEFINE Labelled(h) == [h EXCEPT !.key = [j \in DOMAIN h.key |-> Label(h.key[j])]]
  <1>5. PICK i \in DOMAIN table : g = Labelled(table[i]) /\ table[i] \in G
    <2> HIDE DEF table, G
    <2>1. /\ DOMAIN mapBreakdown(table) = DOMAIN table
          /\ \A i \in DOMAIN table : mapBreakdown(table)[i] = Labelled(table[i])
      BY DEF mapBreakdown
    <2> HIDE DEF Labelled
    <2>2. \E i \in DOMAIN mapBreakdown(table) : g = mapBreakdown(table)[i]
      BY <1>1 DEF ToSet
    <2>3. \A i \in DOMAIN table : table[i] \in G
      BY <1>2
    <2> QED
      BY <2>1, <2>2, <2>3
  <1> DEFINE h == table[i]
  <1>6. h = [key |-> h.key, cost_usd |-> h.cost_usd, requests |-> h.requests]
    BY <1>0, <1>5, GroupFields
  <1> HIDE DEF table, G
  <1>7. PICK e \in S : h.key = key[e] /\ h.requests = Cardinality({d \in S : key[d] = h.key})
    BY <1>4, <1>5
  <1>8. h.key = <<e.model>> /\ Label(e.model) = e.model
    <2>1. e \in Event
      BY <1>0, <1>7
    <2>2. Label(e.model) = e.model
      BY <2>1, ModelAssumption, Zenon DEF Label
    <2> QED
      BY <1>3, <1>7, <2>2
  <1>9. g.requests = h.requests /\ g.key[1] = e.model
    <2>1. g = Labelled(h)
      BY <1>5
    <2> HIDE DEF h
    <2>2. g.requests = h.requests /\ g.key = [j \in DOMAIN h.key |-> Label(h.key[j])]
      BY <1>6, <2>1
    <2>3. DOMAIN h.key = {1} /\ h.key[1] = e.model
      BY <1>8
    <2> QED
      BY <1>8, <2>2, <2>3
  <1>10. {d \in S : key[d] = h.key} = {d \in S : d.model = e.model}
    BY <1>3, <1>8
  <1>11. countRequests(org, [from |-> from, to |-> today, where |-> [model |-> e.model]])
           = Cardinality({d \in UNION RawRows(org, from, today) : d.model = e.model})
    <2> DEFINE f == [from |-> from, to |-> today, where |-> [model |-> e.model]]
    <2>1. f.from = from /\ f.to = today /\ f.where = [model |-> e.model]
      OBVIOUS
    <2> HIDE DEF f
    <2>2. DOMAIN f.where = {"model"} /\ f.where["model"] = e.model
      BY <2>1
    <2>3. FilterKeys \cap DOMAIN f.where = {"model"}
      BY <2>2 DEF FilterKeys
    <2>4. buildEventFilters(org, f) = {d \in UNION RawRows(org, from, today) : d.model = e.model}
      BY <2>1, <2>2, <2>3 DEF buildEventFilters
    <2> QED
      BY <2>4 DEF countRequests, f
  <1>12. UNION RawRows(org, from, today) = S
    BY RawRange
  <1> QED
    BY <1>7, <1>9, <1>10, <1>11, <1>12

-----------------------------------------------------------------------------
(* The raw rows.                                                            *)

\* No row is gone before it expired.
LEMMA InitRaws == Init => RawsOK
  BY DEF Init, StoreInit, RawsOK

\* A block comes into the raw table and the rollup at once.
LEMMA StepRaws == TablesOK /\ RawsOK /\ [Next]_vars => RawsOK'
  <1> SUFFICES ASSUME TablesOK, RawsOK, [Next]_vars PROVE RawsOK'
    OBVIOUS
  <1>1. CASE UNCHANGED storeVars
    BY <1>1 DEF storeVars, rollupVars, RawsOK, KeptOrExpired, toDate
  <1>2. CASE StoreNext
    <2>1. \A e \in Event : KeptOrExpired(e) => KeptOrExpired(e)'
      BY <1>2, StoreKeeps
    <2>2. UNION cost_daily \subseteq Event
      BY DEF TablesOK
    <2>3. \A e \in UNION cost_daily : KeptOrExpired(e)'
      BY <2>1, <2>2 DEF RawsOK
    <2>4. ASSUME NEW block \in SUBSET Event, Insert(block)
          PROVE  RawsOK'
      <3>1. UNION cost_daily' = (UNION cost_daily) \cup block
        <4>1. UNION Grouped(block, DailyKey) = block
          BY DEF Grouped
        <4>2. cost_daily' = cost_daily \cup Grouped(block, DailyKey)
          BY <2>4 DEF Insert
        <4> QED
          BY <4>1, <4>2
      <3>2. ASSUME NEW e \in block
            PROVE  KeptOrExpired(e)'
        BY <2>4, <3>1 DEF Insert, KeptOrExpired, toDate
      <3> QED
        BY <2>3, <3>1, <3>2 DEF RawsOK
    <2>5. ASSUME UNION cost_daily' = UNION cost_daily
          PROVE  RawsOK'
      BY <2>3, <2>5 DEF RawsOK
    <2>6. CASE MergeDaily
      <3>1. PICK same \in SUBSET cost_daily : cost_daily' = (cost_daily \ same) \cup {UNION same}
        BY <2>6 DEF MergeDaily, Merged
      <3> QED
        BY <2>5, <3>1
    <2>7. CASE UNCHANGED cost_daily
      BY <2>5, <2>7
    <2>8. \/ \E block \in SUBSET Event : Insert(block)
          \/ MergeDaily \/ UNCHANGED cost_daily
      BY <1>2 DEF StoreNext, Merge, MergeAttr, MergePrompt, SyncBill, MergeBilled, ExpireEvents,
                  Midnight, rollupVars, kSubset
    <2> QED
      BY <2>4, <2>6, <2>7, <2>8
  <1> QED
    BY <1>1, <1>2 DEF Next, vars

\* A range is of days that no raw row has expired on, up to today.
LEMMA Ranges ==
  ASSUME today \in Nat, NEW raw
  PROVE  LET range == resolveRange(raw)
         IN  range.from \in Int /\ range.from > today - Ttl /\ range.to = today
  <1>1. parseRange(raw) \in DOMAIN RangeDays
    BY RangeKeys
  <1>2. /\ RangeDays[parseRange(raw)] \in Nat \ {0} /\ RangeDays[parseRange(raw)] <= Ttl
        /\ Ttl \in Nat
    BY <1>1, DashboardAssumption
  <1> HIDE DEF parseRange
  <1> DEFINE n == RangeDays[parseRange(raw)]
  <1>3. /\ resolveRange(raw).from = today - (n - 1) /\ resolveRange(raw).to = today
    BY DEF resolveRange
  <1> HIDE DEF n
  <1>4. today - (n - 1) \in Int /\ today - (n - 1) > today - Ttl
    BY <1>2 DEF n
  <1> QED
    BY <1>3, <1>4

\* What every page shows of a range is the same.
LEMMA RangeFigures ==
  ASSUME TablesOK, RawsOK, NEW org, NEW from \in Int, from > today - Ttl
  PROVE  FiguresAgree(org, from, today)
  <1> DEFINE rows == UNION RawRows(org, from, today)
  <1>1. rows = Events(org, from, today)
    BY RawRange
  <1>2. UNION RawRows(org, from, today) = rows
    OBVIOUS
  <1> HIDE DEF rows
  <1>3. getOverviewTotals(org, from, today)
          = [cost_usd |-> Cost(rows), total_tokens |-> Tokens(rows), requests |-> Cardinality(rows)]
    BY <1>1, RangeTotals
  <1>4. SumsUp(getDailySpend(org, from, today), rows)
    BY <1>1, RangeSpend
  <1>5. /\ UncutSumsUp(getCostByProvider(org, from, today), 12, rows)
        /\ UncutSumsUp(getCostByModel(org, from, today), 8, rows)
    BY <1>1, RangeTables DEF UncutSumsUp
  <1>6. ASSUME NEW dims \in AllDims
        PROVE  UncutSumsUp(getBreakdown(org, from, today, dims), BreakdownLimit, rows)
    <2>1. 1 \in DOMAIN dims
      BY DEF AllDims
    <2> QED
      BY <1>1, <2>1, RangeBreakdown DEF UncutSumsUp
  <1>7. \A p \in listPromptKeys(org) :
          RequestsOfGroups(getPromptComparison(org, p, from, today)) = Cardinality({e \in rows : e.prompt = p})
    BY <1>1, RangePrompt
  <1>8. \A key \in SaneTags :
          UncutSumsUp(getTagBreakdown(org, from, today, key), BreakdownLimit, Tagged(rows, key))
    BY <1>1, RangeTags DEF UncutSumsUp
  <1>9. \A g \in ToSet(getBreakdown(org, from, today, <<"model">>)) :
          g.requests = countRequests(org, [from |-> from, to |-> today, where |-> [model |-> g.key[1]]])
    BY RangeModel
  <1> QED
    BY <1>2, <1>3, <1>4, <1>5, <1>6, <1>7, <1>8, <1>9 DEF FiguresAgree

\* So is it of every range a page may show.
LEMMA SameFigures == TablesOK /\ RawsOK => RollupsAgree
  <1> SUFFICES ASSUME TablesOK, RawsOK, NEW raw
               PROVE  \A org : FiguresAgree(org, resolveRange(raw).from, resolveRange(raw).to)
    BY DEF RollupsAgree
  <1>1. /\ resolveRange(raw).from \in Int /\ resolveRange(raw).from > today - Ttl
        /\ resolveRange(raw).to = today
    BY Ranges DEF TablesOK
  <1> QED
    BY <1>1, RangeFigures

-----------------------------------------------------------------------------
(* Sums by a column.                                                        *)

\* A column of values of a set, and the part that has one of them.
Column(col, S, K) == \A x \in S : col[x] \in K
Within(col, S, k) == {x \in S : col[x] = k}

\* What is summed for each value of a column sums up to all.
LEMMA SigmaByColumn ==
  ASSUME NEW S, NEW f, Summable(f, S), NEW K, IsFiniteSet(K),
         NEW col, Column(col, S, K),
         NEW h, h = [k \in K |-> Sigma(Restrict(f, Within(col, S, k)))]
  PROVE  Summable(h, K) /\ Sigma(h) = Sigma(f)
  <1> DEFINE Part(T) == {x \in S : col[x] \in T}
             One(k) == Within(col, S, k)
             Some(s) == Sigma(Restrict(f, s))
             Of(t) == Sigma(Restrict(h, t))
             P == {t \in SUBSET K : Of(t) = Some(Part(t))}
  <1>1. \A s \in SUBSET S : Some(s) \in Int
    <2> TAKE s \in SUBSET S
    <2>1. Summable(Restrict(f, s), s)
      BY SummablePart
    <2> QED
      BY <2>1, SigmaType
  <1>2. \A a, b \in SUBSET S : a \cap b = {} => Some(a \cup b) = Some(a) + Some(b)
    BY SigmaSplits
  <1>3. Some({}) = 0
    <2>1. Summable(Restrict(f, {}), {})
      BY SummablePart
    <2> QED
      BY <2>1, SigmaEmpty
  <1>4. Restrict(f, S) = f /\ Restrict(h, K) = h
    BY DEF Restrict, Summable
  <1>5. \A k \in K : h[k] = Some(One(k)) /\ One(k) \in SUBSET S
    BY DEF Within
  <1>6. Some(S) = Sigma(f) /\ Part(K) = S /\ Part({}) = {}
    BY <1>4 DEF Column
  <1>7. \A t \in SUBSET K : \A k \in t :
          /\ Part(t) = One(k) \cup Part(t \ {k}) /\ One(k) \cap Part(t \ {k}) = {}
          /\ Part(t \ {k}) \in SUBSET S
    BY DEF Within
  <1> HIDE DEF Some, Part, One
  <1>8. Summable(h, K)
    <2>1. \A k \in K : h[k] \in Int
      BY <1>1, <1>5
    <2>2. h = [k \in K |-> h[k]]
      OBVIOUS
    <2> QED
      BY <2>1, <2>2 DEF Summable
  <1>9. \A t \in SUBSET K : \A k \in t : Of(t) = h[k] + Of(t \ {k})
    <2> TAKE t \in SUBSET K
    <2> TAKE k \in t
    <2> QED
      BY <1>8, SigmaPartRemoves
  <1>10. Of({}) = 0
    <2>1. Summable(Restrict(h, {}), {})
      BY <1>8, SummablePart
    <2> QED
      BY <2>1, SigmaEmpty
  <1>11. Of(K) = Sigma(h)
    BY <1>4
  <1> HIDE DEF Of
  <1>12. ASSUME NEW t \in SUBSET K, \A k \in t : t \ {k} \in P
         PROVE  Of(t) = Some(Part(t))
    <2>1. CASE t = {}
      BY <1>3, <1>6, <1>10, <2>1
    <2>2. CASE t # {}
      <3>1. PICK k \in t : TRUE
        BY <2>2
      <3>2. Some(Part(t)) = Some(One(k)) + Some(Part(t \ {k}))
        <4>1. /\ One(k) \in SUBSET S /\ Part(t \ {k}) \in SUBSET S
              /\ One(k) \cap Part(t \ {k}) = {} /\ Part(t) = One(k) \cup Part(t \ {k})
          BY <1>5, <1>7, <3>1
        <4> QED
          BY <1>2, <4>1
      <3>3. Of(t \ {k}) = Some(Part(t \ {k}))
        BY <1>12, <3>1
      <3> QED
        BY <1>5, <1>9, <3>1, <3>2, <3>3
    <2> QED
      BY <2>1, <2>2
  <1>13. SUBSET K \subseteq P
    <2>1. \A s \in SUBSET K : (\A x \in s : s \ {x} \in P) => s \in P
      BY <1>12
    <2> HIDE DEF P
    <2> QED
      BY <2>1, SubsetInduction
  <1>14. K \in P
    <2> HIDE DEF P
    <2> QED
      BY <1>13
  <1>15. Of(K) = Some(Part(K))
    BY <1>14
  <1> QED
    BY <1>6, <1>8, <1>11, <1>15

-----------------------------------------------------------------------------
(* What was billed.                                                         *)

\* What the last bill of a provider and a date comes to.
Owed == [k \in KeysIn(billed_daily) |->
           (CHOOSE b \in billed_daily :
              /\ BilledKey(b.bill) = k
              /\ \A c \in billed_daily : BilledKey(c.bill) = k => c.synced_at <= b.synced_at).bill.billed_usd]

\* The last bill of a key, and that there is one only.
LEMMA LastBill ==
  ASSUME BillsOK, NEW k \in KeysIn(billed_daily)
  PROVE  \E b \in billed_daily : \A c :
           (/\ c \in billed_daily /\ BilledKey(c.bill) = k
            /\ \A d \in billed_daily : BilledKey(d.bill) = k => d.synced_at <= c.synced_at) <=> c = b
  <1> DEFINE T == {b.synced_at : b \in {b \in billed_daily : BilledKey(b.bill) = k}}
  <1>1. T \in SUBSET (1..synced) /\ T # {} /\ synced \in Nat
    BY DEF BillsOK, KeysIn
  <1>2. PICK m \in T : \A n \in T : n <= m
    <2> HIDE DEF T
    <2> QED
      BY <1>1, LastOf
  <1>3. PICK b \in billed_daily : BilledKey(b.bill) = k /\ b.synced_at = m
    OBVIOUS
  <1>4. \A c \in billed_daily : BilledKey(c.bill) = k => c.synced_at <= b.synced_at
    BY <1>2, <1>3
  <1>5. ASSUME NEW c \in billed_daily, BilledKey(c.bill) = k,
               \A d \in billed_daily : BilledKey(d.bill) = k => d.synced_at <= c.synced_at
        PROVE  c = b
    <2>1. c.synced_at <= b.synced_at /\ b.synced_at <= c.synced_at
      BY <1>3, <1>4, <1>5
    <2>2. c.synced_at \in Int /\ b.synced_at \in Int
      BY DEF BillsOK
    <2>3. c.synced_at = b.synced_at
      BY <2>1, <2>2
    <2> QED
      BY <2>3 DEF BillsOK
  <1> HIDE DEF T
  <1> QED
    BY <1>3, <1>4, <1>5

\* The last bills are sums of money.
LEMMA OwedSums == BillsOK => Summable(Owed, KeysIn(billed_daily))
  <1> SUFFICES ASSUME BillsOK PROVE Summable(Owed, KeysIn(billed_daily))
    OBVIOUS
  <1>1. IsFiniteSet(KeysIn(billed_daily))
    <2> DEFINE h == [b \in billed_daily |-> BilledKey(b.bill)]
    <2>1. h \in Surjection(billed_daily, KeysIn(billed_daily))
      BY DEF Surjection, KeysIn
    <2>2. IsFiniteSet(billed_daily)
      BY DEF BillsOK
    <2> HIDE DEF h
    <2> QED
      BY <2>1, <2>2, FS_Surjection
  <1>2. ASSUME NEW k \in KeysIn(billed_daily)
        PROVE  Owed[k] \in Int
    <2> DEFINE last == CHOOSE b \in billed_daily :
              /\ BilledKey(b.bill) = k
              /\ \A c \in billed_daily : BilledKey(c.bill) = k => c.synced_at <= b.synced_at
    <2>1. last \in billed_daily
      BY LastBill
    <2>2. Owed[k] = last.bill.billed_usd
      BY DEF Owed
    <2> HIDE DEF last
    <2> QED
      BY <2>1, <2>2, BillAssumption DEF BillsOK
  <1>3. Owed = [k \in KeysIn(billed_daily) |-> Owed[k]]
    BY DEF Owed
  <1> QED
    BY <1>1, <1>2, <1>3 DEF Summable

\* What is billed for some keys is what their last bills come to.
LEMMA BilledIs ==
  ASSUME BillsOK, NEW keys \in SUBSET KeysIn(billed_daily)
  PROVE  Billed(BillsFrom(billed_daily, keys)) = Sigma(Restrict(Owed, keys))
  <1> DEFINE bills == BillsFrom(billed_daily, keys)
             f == Restrict(Owed, keys)
             Latest1(k) == CHOOSE b \in bills : BilledKey(b.bill) = k /\
                            \A c \in bills : BilledKey(c.bill) = k => c.synced_at <= b.synced_at
             LatestIn(k) == CHOOSE b \in billed_daily : BilledKey(b.bill) = k /\
                            \A c \in billed_daily : BilledKey(c.bill) = k => c.synced_at <= b.synced_at
  <1>1. Summable(f, keys) /\ \A k \in keys : f[k] = Owed[k]
    BY OwedSums, SummablePart
  <1>2. {BilledKey(b.bill) : b \in bills} = keys
    BY DEF BillsFrom, KeysIn
  <1>3. ASSUME NEW k \in keys
        PROVE  Latest1(k) = LatestIn(k)
    <2>1. PICK b \in billed_daily : \A c :
           (/\ c \in billed_daily /\ BilledKey(c.bill) = k
            /\ \A d \in billed_daily : BilledKey(d.bill) = k => d.synced_at <= c.synced_at) <=> c = b
      BY LastBill
    <2>2. \A c : (c \in bills /\ BilledKey(c.bill) = k) <=> (c \in billed_daily /\ BilledKey(c.bill) = k)
      BY DEF BillsFrom
    <2> HIDE DEF bills
    <2>3. \A c : (/\ c \in bills /\ BilledKey(c.bill) = k
                  /\ \A d \in bills : BilledKey(d.bill) = k => d.synced_at <= c.synced_at) <=> c = b
      BY <2>1, <2>2
    <2>4. Latest1(k) = b
      BY <2>3
    <2>5. LatestIn(k) = b
      BY <2>1
    <2> QED
      BY <2>4, <2>5
  <1>4. ASSUME NEW k \in keys
        PROVE  Latest1(k).bill.billed_usd = f[k]
    <2>1. Owed[k] = LatestIn(k).bill.billed_usd
      BY DEF Owed
    <2> HIDE DEF Latest1, LatestIn, f
    <2> QED
      BY <1>1, <1>3, <2>1
  <1> DEFINE Body(g) == [s \in SUBSET keys |->
               IF s = {} THEN 0
               ELSE Latest1(CHOOSE x \in s : TRUE).bill.billed_usd + g[s \ {CHOOSE x \in s : TRUE}]]
  <1>5. Billed(bills) = (CHOOSE g : g = Body(g))[keys]
    BY <1>2 DEF Billed, MapThenSumSet, MapThenFoldSet
  <1> HIDE DEF f, Latest1, bills
  <1>6. \A h : Body(h) = [t \in SUBSET keys |-> Step(f, h, t)]
    <2> TAKE h
    <2>1. \A s \in SUBSET keys : s # {} => (CHOOSE x \in s : TRUE) \in keys
      OBVIOUS
    <2> QED
      BY <1>4, <2>1 DEF Step, Pick
  <1> HIDE DEF Body
  <1>7. Billed(bills) = SumBy(f, keys)
    BY <1>5, <1>6 DEF SumBy
  <1> QED
    BY <1>1, <1>7, SumByIs DEF f, bills

-----------------------------------------------------------------------------
(* What was tracked, by a column.                                           *)

Billable(org, from, to, those) == {e \in Events(org, from, to) : e.provider \in those}

\* What the reconciliation reads of the rows of some providers.
LEMMA TrackedIs ==
  ASSUME TablesOK, NEW org, NEW from, NEW to, NEW those
  PROVE  LET rows == OfProviders(Rows(cost_daily, org, from, to), those)
             E    == Billable(org, from, to, those)
         IN  /\ \A p : TracksOf(rows, p) = Cost({e \in E : e.provider = p})
             /\ \A d : TrackedOn(rows, d) = Cost({e \in E : toDate(e) = d})
             /\ ProvidersOfRows(rows) = {e.provider : e \in E}
             /\ DatesOfRows(rows) = {toDate(e) : e \in E}
             /\ E \in SUBSET Event /\ IsFiniteSet(ProvidersOfRows(rows)) /\ IsFiniteSet(DatesOfRows(rows))
  <1> DEFINE sel == {e \in InRange(org, from, to) : e.provider \in those}
             SelP(p) == {e \in sel : e.provider = p}
             SelD(d) == {e \in sel : toDate(e) = d}
             table == cost_daily
             rows == OfProviders(Rows(table, org, from, to), those)
             E    == Billable(org, from, to, those)
  <1>1. Partition(table, DailyOf) /\ Apiece(table)
    BY DEF TablesOK, Partition, Apiece
  <1>2. E = (UNION table) \cap sel /\ E \in SUBSET Event
    BY DEF Billable, Events, InRange
  <1>3. Rows(table, org, from, to) = RowsFrom(table, InRange(org, from, to))
    BY <1>1, RowsAre
  <1>4. rows = RowsFrom(table, sel)
    BY <1>3 DEF RowsFrom, OfProviders
  <1>5. Keeps(DailyOf, sel) /\ (\A p : Keeps(DailyOf, SelP(p))) /\ \A d : Keeps(DailyOf, SelD(d))
    BY KeysDecide DEF Keeps, InRange
  <1>6. /\ \A p : {e \in E : e.provider = p} = (UNION table) \cap SelP(p)
        /\ \A d : {e \in E : toDate(e) = d} = (UNION table) \cap SelD(d)
    BY <1>2
  <1>7. /\ \A p : {r \in rows : Sample(r).provider = p} = RowsFrom(table, SelP(p))
        /\ \A d : {r \in rows : toDate(Sample(r)) = d} = RowsFrom(table, SelD(d))
    <2> HIDE DEF sel
    <2> QED
      BY <1>4 DEF RowsFrom
  <1> HIDE DEF sel, SelP, SelD, E, rows
  <1>8. ASSUME NEW s, Keeps(DailyOf, s)
        PROVE  /\ TotalCost(RowsFrom(table, s)) = Cost((UNION table) \cap s)
               /\ Apiece(RowsFrom(table, s)) /\ UNION RowsFrom(table, s) = (UNION table) \cap s
               /\ \A col : Decides(DailyOf, col) => Uniform(RowsFrom(table, s), col)
    <2>1. /\ Apiece(RowsFrom(table, s)) /\ UNION RowsFrom(table, s) = (UNION table) \cap s
          /\ \A col : Decides(DailyOf, col) => Uniform(RowsFrom(table, s), col)
      BY <1>1, <1>8, RowsFromIs
    <2> QED
      BY <2>1, RowSums
  <1>9. \A p : TracksOf(rows, p) = Cost({e \in E : e.provider = p})
    BY <1>5, <1>6, <1>7, <1>8 DEF TracksOf
  <1>10. \A d : TrackedOn(rows, d) = Cost({e \in E : toDate(e) = d})
    BY <1>5, <1>6, <1>7, <1>8 DEF TrackedOn
  <1>11. Apiece(rows) /\ UNION rows = E /\ Uniform(rows, ProviderOf) /\ Uniform(rows, DateOf)
    BY <1>2, <1>4, <1>5, <1>8, KeysDecide
  <1>12. \A r \in rows : Sample(r) \in Event
    BY <1>11, Sampled
  <1>13. ProvidersOfRows(rows) = Values(rows, ProviderOf) /\ DatesOfRows(rows) = Values(rows, DateOf)
    BY <1>12 DEF Values, ProviderOf, DateOf, ProvidersOfRows, DatesOfRows
  <1>14. /\ Values(rows, ProviderOf) = ValuesOf(E, ProviderOf)
         /\ Values(rows, DateOf) = ValuesOf(E, DateOf)
    BY <1>11, SampledColumn
  <1>15. ValuesOf(E, ProviderOf) = {e.provider : e \in E} /\ ValuesOf(E, DateOf) = {toDate(e) : e \in E}
    BY <1>2 DEF ValuesOf, ProviderOf, DateOf
  <1>16. \A col : IsFiniteSet(ValuesOf(E, col))
    <2> TAKE col
    <2>1. IsFiniteSet(E)
      BY <1>2, EventAssumption, FS_Subset
    <2> DEFINE h == [e \in E |-> col[e]]
    <2>2. h \in Surjection(E, ValuesOf(E, col))
      BY DEF Surjection, ValuesOf
    <2> HIDE DEF h
    <2> QED
      BY <2>1, <2>2, FS_Surjection
  <1>17. ProvidersOfRows(rows) = {e.provider : e \in E} /\ DatesOfRows(rows) = {toDate(e) : e \in E}
    BY <1>13, <1>14, <1>15
  <1>18. IsFiniteSet(ProvidersOfRows(rows)) /\ IsFiniteSet(DatesOfRows(rows))
    BY <1>13, <1>14, <1>16
  <1> QED
    BY <1>2, <1>9, <1>10, <1>17, <1>18 DEF rows, E

\* The costs of events, summed for each value of a column, sum up to the cost of all.
LEMMA CostByColumn ==
  ASSUME NEW E \in SUBSET Event, NEW K, IsFiniteSet(K), NEW col, Column(col, E, K),
         NEW h, h = [k \in K |-> Cost(Within(col, E, k))]
  PROVE  Summable(h, K) /\ Sigma(h) = Cost(E)
  <1> DEFINE f == Restrict(CostOf, E)
  <1>1. Summable(f, E)
    BY Amounts, SummablePart
  <1>2. Cost(E) = Sigma(f)
    BY EventSums
  <1>3. \A k \in K : Cost(Within(col, E, k)) = Sigma(Restrict(f, Within(col, E, k)))
    <2> TAKE k \in K
    <2> DEFINE part == Within(col, E, k)
    <2>1. part \in SUBSET Event /\ part \subseteq E
      BY DEF Within
    <2> HIDE DEF part
    <2>2. Cost(part) = Sigma(Restrict(CostOf, part))
      BY <2>1, EventSums
    <2>3. Restrict(f, part) = Restrict(CostOf, part)
      BY <2>1, RestrictTwice
    <2> QED
      BY <2>2, <2>3 DEF part
  <1> HIDE DEF f
  <1>4. h = [k \in K |-> Sigma(Restrict(f, Within(col, E, k)))]
    BY <1>3
  <1> QED
    BY <1>1, <1>2, <1>4, SigmaByColumn

-----------------------------------------------------------------------------
(* What was billed, by a column.                                            *)

\* The bills of an organisation and its dates, by provider and by date.
LEMMA BilledBy ==
  ASSUME BillsOK, NEW org, NEW from, NEW to
  PROVE  LET bills == BillsOf(billed_daily, org, from, to)
             keys  == BillKeys(org, from..to)
         IN  /\ keys \in SUBSET KeysIn(billed_daily)
             /\ \A p : Billed(OfProvider(bills, p)) = Sigma(Restrict(Owed, {k \in keys : k[2] = p}))
             /\ \A d : Billed(OfDate(bills, d)) = Sigma(Restrict(Owed, {k \in keys : k[3] = d}))
             /\ ProvidersIn(bills) = {k[2] : k \in keys} /\ DatesIn(bills) = {k[3] : k \in keys}
             /\ IsFiniteSet(ProvidersIn(bills)) /\ IsFiniteSet(DatesIn(bills))
  <1> DEFINE bills == BillsOf(billed_daily, org, from, to)
             keys  == BillKeys(org, from..to)
  <1>1. keys \in SUBSET KeysIn(billed_daily)
    BY DEF BillKeys, KeysIn
  <1>2. \A b : /\ BilledKey(b.bill)[1] = b.bill.org /\ BilledKey(b.bill)[2] = b.bill.provider
               /\ BilledKey(b.bill)[3] = b.bill.date
    BY BillColumns
  <1>3. \A b \in billed_daily : BilledKey(b.bill) \in keys <=> b \in bills
    BY <1>2 DEF BillKeys, BillsOf
  <1>4. bills \subseteq billed_daily
    BY DEF BillsOf
  <1>5. ASSUME NEW p
        PROVE  OfProvider(bills, p) = BillsFrom(billed_daily, {k \in keys : k[2] = p})
    <2> HIDE DEF bills, keys
    <2> QED
      BY <1>2, <1>3, <1>4 DEF OfProvider, BillsFrom
  <1>6. ASSUME NEW d
        PROVE  OfDate(bills, d) = BillsFrom(billed_daily, {k \in keys : k[3] = d})
    <2> HIDE DEF bills, keys
    <2> QED
      BY <1>2, <1>3, <1>4 DEF OfDate, BillsFrom
  <1>7. KeysIn(bills) = keys
    <2>1. \A k \in keys : \E b \in billed_daily : k = BilledKey(b.bill)
      BY DEF BillKeys
    <2> HIDE DEF bills, keys
    <2> QED
      BY <1>3, <1>4, <2>1 DEF KeysIn
  <1>8. ProvidersIn(bills) = {k[2] : k \in keys} /\ DatesIn(bills) = {k[3] : k \in keys}
    BY <1>7, BillColumns
  <1> HIDE DEF bills, keys
  <1>9. ASSUME NEW p
        PROVE  Billed(OfProvider(bills, p)) = Sigma(Restrict(Owed, {k \in keys : k[2] = p}))
    <2>1. {k \in keys : k[2] = p} \in SUBSET KeysIn(billed_daily)
      BY <1>1
    <2> QED
      BY <1>5, <2>1, BilledIs
  <1>10. ASSUME NEW d
         PROVE  Billed(OfDate(bills, d)) = Sigma(Restrict(Owed, {k \in keys : k[3] = d}))
    <2>1. {k \in keys : k[3] = d} \in SUBSET KeysIn(billed_daily)
      BY <1>1
    <2> QED
      BY <1>6, <2>1, BilledIs
  <1>11. IsFiniteSet(bills)
    BY <1>4, FS_Subset DEF BillsOK
  <1>12. IsFiniteSet(ProvidersIn(bills))
    <2> DEFINE h == [b \in bills |-> b.bill.provider]
    <2>1. h \in Surjection(bills, ProvidersIn(bills))
      BY DEF Surjection, ProvidersIn
    <2> HIDE DEF h
    <2> QED
      BY <1>11, <2>1, FS_Surjection
  <1>13. IsFiniteSet(DatesIn(bills))
    <2> DEFINE h == [b \in bills |-> b.bill.date]
    <2>1. h \in Surjection(bills, DatesIn(bills))
      BY DEF Surjection, DatesIn
    <2> HIDE DEF h
    <2> QED
      BY <1>11, <2>1, FS_Surjection
  <1> QED
    BY <1>1, <1>8, <1>9, <1>10, <1>12, <1>13 DEF bills, keys

\* Bills, summed for each value of a column, sum up to all.
LEMMA OwedByColumn ==
  ASSUME BillsOK, NEW keys \in SUBSET KeysIn(billed_daily), NEW K, IsFiniteSet(K),
         NEW col, Column(col, keys, K),
         NEW h, h = [x \in K |-> Sigma(Restrict(Owed, Within(col, keys, x)))]
  PROVE  Summable(h, K) /\ Sigma(h) = Sigma(Restrict(Owed, keys))
  <1> DEFINE f == Restrict(Owed, keys)
  <1>1. Summable(f, keys)
    BY OwedSums, SummablePart
  <1>2. \A x \in K : Restrict(Owed, Within(col, keys, x)) = Restrict(f, Within(col, keys, x))
    <2> TAKE x \in K
    <2> DEFINE part == Within(col, keys, x)
    <2>1. part \subseteq keys
      BY DEF Within
    <2> HIDE DEF part
    <2>2. Restrict(f, part) = Restrict(Owed, part)
      BY <2>1, RestrictTwice
    <2> QED
      BY <2>2 DEF part
  <1> HIDE DEF f
  <1>3. h = [x \in K |-> Sigma(Restrict(f, Within(col, keys, x)))]
    BY <1>2
  <1>4. Summable(h, K) /\ Sigma(h) = Sigma(f)
    BY <1>1, <1>3, SigmaByColumn
  <1> QED
    BY <1>4 DEF f

-----------------------------------------------------------------------------
(* The tiles and the chart of the reconciliation.                           *)

\* What is tracked and billed, by provider and by date.
TrackedBy(rows, Q)      == [q \in Q |-> TracksOf(rows, q)]
TrackedDaily(rows, D)   == [d \in D |-> TrackedOn(rows, d)]
BilledTo(bills, Q)      == [q \in Q |-> Billed(OfProvider(bills, q))]
BilledDaily(bills, D)   == [d \in D |-> Billed(OfDate(bills, d))]

SumsTo(f, S, n) == Summable(f, S) /\ Sigma(f) = n

\* The costs of events, by provider and by date.
LEMMA TrackedSums ==
  ASSUME NEW E \in SUBSET Event, NEW rows, NEW Q, IsFiniteSet(Q), NEW D, IsFiniteSet(D),
         \A e \in E : e.provider \in Q /\ toDate(e) \in D,
         \A p : TracksOf(rows, p) = Cost({e \in E : e.provider = p}),
         \A d : TrackedOn(rows, d) = Cost({e \in E : toDate(e) = d})
  PROVE  SumsTo(TrackedBy(rows, Q), Q, Cost(E)) /\ SumsTo(TrackedDaily(rows, D), D, Cost(E))
  <1>1. Column(ProviderOf, E, Q) /\ Column(DateOf, E, D)
    BY DEF Column, ProviderOf, DateOf
  <1>2. \A p : {e \in E : e.provider = p} = Within(ProviderOf, E, p)
    BY DEF Within, ProviderOf
  <1>3. \A d : {e \in E : toDate(e) = d} = Within(DateOf, E, d)
    BY DEF Within, DateOf
  <1>4. TrackedBy(rows, Q) = [p \in Q |-> Cost(Within(ProviderOf, E, p))]
    BY <1>2 DEF TrackedBy
  <1>5. TrackedDaily(rows, D) = [d \in D |-> Cost(Within(DateOf, E, d))]
    BY <1>3 DEF TrackedDaily
  <1>6. SumsTo(TrackedBy(rows, Q), Q, Cost(E))
    BY <1>1, <1>4, CostByColumn DEF SumsTo
  <1>7. SumsTo(TrackedDaily(rows, D), D, Cost(E))
    BY <1>1, <1>5, CostByColumn DEF SumsTo
  <1> QED
    BY <1>6, <1>7

\* What was billed, by provider and by date.
LEMMA BilledSums ==
  ASSUME BillsOK, NEW keys \in SUBSET KeysIn(billed_daily), NEW bills,
         NEW Q, IsFiniteSet(Q), NEW D, IsFiniteSet(D),
         \A k \in keys : k[2] \in Q /\ k[3] \in D,
         \A p : Billed(OfProvider(bills, p)) = Sigma(Restrict(Owed, {k \in keys : k[2] = p})),
         \A d : Billed(OfDate(bills, d)) = Sigma(Restrict(Owed, {k \in keys : k[3] = d}))
  PROVE  LET owed == Sigma(Restrict(Owed, keys))
         IN  SumsTo(BilledTo(bills, Q), Q, owed) /\ SumsTo(BilledDaily(bills, D), D, owed)
  <1> DEFINE second == [k \in keys |-> k[2]]
             third  == [k \in keys |-> k[3]]
  <1>1. Column(second, keys, Q) /\ Column(third, keys, D)
    BY DEF Column
  <1>2. \A p : {k \in keys : k[2] = p} = Within(second, keys, p)
    BY DEF Within
  <1>3. \A d : {k \in keys : k[3] = d} = Within(third, keys, d)
    BY DEF Within
  <1> HIDE DEF second, third
  <1> DEFINE by    == BilledTo(bills, Q)
             daily == BilledDaily(bills, D)
  <1>4. by = [p \in Q |-> Sigma(Restrict(Owed, Within(second, keys, p)))]
    BY <1>2 DEF BilledTo
  <1>5. daily = [d \in D |-> Sigma(Restrict(Owed, Within(third, keys, d)))]
    BY <1>3 DEF BilledDaily
  <1> HIDE DEF by, daily
  <1>6. Summable(by, Q) /\ Sigma(by) = Sigma(Restrict(Owed, keys))
    BY <1>1, <1>4, OwedByColumn, SMTT(30)
  <1>7. Summable(daily, D) /\ Sigma(daily) = Sigma(Restrict(Owed, keys))
    BY <1>1, <1>5, OwedByColumn
  <1> QED
    BY <1>6, <1>7 DEF SumsTo, by, daily

\* Both, of the providers and the dates of a reconciliation.
LEMMA SpendSums ==
  ASSUME TablesOK, BillsOK, NEW org, NEW from, NEW to, NEW those
  PROVE  LET rows  == OfProviders(Rows(cost_daily, org, from, to), those)
             bills == BillsOf(billed_daily, org, from, to)
             Q     == ProvidersOfRows(rows) \cup ProvidersIn(bills)
             D     == DatesOfRows(rows) \cup DatesIn(bills)
             cost  == Cost(Billable(org, from, to, those))
             owed  == Sigma(Restrict(Owed, BillKeys(org, from..to)))
         IN  /\ IsFiniteSet(Q) /\ IsFiniteSet(D) /\ D \subseteq from..to
             /\ SumsTo(TrackedBy(rows, Q), Q, cost) /\ SumsTo(TrackedDaily(rows, D), D, cost)
             /\ SumsTo(BilledTo(bills, Q), Q, owed) /\ SumsTo(BilledDaily(bills, D), D, owed)
  <1> DEFINE rows  == OfProviders(Rows(cost_daily, org, from, to), those)
             bills == BillsOf(billed_daily, org, from, to)
             E     == Billable(org, from, to, those)
             keys  == BillKeys(org, from..to)
             Q     == ProvidersOfRows(rows) \cup ProvidersIn(bills)
             D     == DatesOfRows(rows) \cup DatesIn(bills)
  <1>1. /\ \A p : TracksOf(rows, p) = Cost({e \in E : e.provider = p})
        /\ \A d : TrackedOn(rows, d) = Cost({e \in E : toDate(e) = d})
    BY TrackedIs
  <1>2. /\ ProvidersOfRows(rows) = {e.provider : e \in E}
        /\ DatesOfRows(rows) = {toDate(e) : e \in E}
        /\ E \in SUBSET Event /\ IsFiniteSet(ProvidersOfRows(rows)) /\ IsFiniteSet(DatesOfRows(rows))
    BY TrackedIs
  <1>3. /\ \A p : Billed(OfProvider(bills, p)) = Sigma(Restrict(Owed, {k \in keys : k[2] = p}))
        /\ \A d : Billed(OfDate(bills, d)) = Sigma(Restrict(Owed, {k \in keys : k[3] = d}))
    BY BilledBy
  <1>4. /\ keys \in SUBSET KeysIn(billed_daily)
        /\ ProvidersIn(bills) = {k[2] : k \in keys} /\ DatesIn(bills) = {k[3] : k \in keys}
        /\ IsFiniteSet(ProvidersIn(bills)) /\ IsFiniteSet(DatesIn(bills))
    BY BilledBy
  <1>5. (\A e \in E : toDate(e) \in from..to) /\ \A k \in keys : k[3] \in from..to
    BY DEF Billable, Events, InRange, BillKeys
  <1> HIDE DEF rows, bills, E, keys
  <1>6. IsFiniteSet(Q) /\ IsFiniteSet(D)
    BY <1>2, <1>4, FS_Union
  <1>7. \A e \in E : e.provider \in Q /\ toDate(e) \in D
    BY <1>2
  <1>8. \A k \in keys : k[2] \in Q /\ k[3] \in D
    BY <1>4
  <1>9. D \subseteq from..to
    BY <1>2, <1>4, <1>5
  <1> HIDE DEF Q, D
  <1>10. SumsTo(TrackedBy(rows, Q), Q, Cost(E)) /\ SumsTo(TrackedDaily(rows, D), D, Cost(E))
    BY <1>1, <1>2, <1>6, <1>7, TrackedSums
  <1>11. /\ SumsTo(BilledTo(bills, Q), Q, Sigma(Restrict(Owed, keys)))
         /\ SumsTo(BilledDaily(bills, D), D, Sigma(Restrict(Owed, keys)))
    BY <1>3, <1>4, <1>6, <1>8, BilledSums
  <1> QED
    BY <1>6, <1>9, <1>10, <1>11 DEF rows, bills, E, keys, Q, D

\* A sum over records, each named by one thing.
LEMMA NamedSums ==
  ASSUME NEW Q, IsFiniteSet(Q), NEW S, NEW h, Onto(h, Q, S), NEW e, Summable(e, Q),
         NEW f, f = [s \in S |-> f[s]], \A q \in Q : f[h[q]] = e[q]
  PROVE  Summable(f, S) /\ Sigma(f) = Sigma(e)
  <1>1. IsFiniteSet(S)
    <2>1. h \in Surjection(Q, S)
      BY DEF Onto, Surjection
    <2> QED
      BY <2>1, FS_Surjection
  <1>2. \A s \in S : f[s] \in Int
    <2> TAKE s \in S
    <2>1. PICK q \in Q : h[q] = s
      BY DEF Onto
    <2>2. e[q] \in Int
      BY DEF Summable
    <2> QED
      BY <2>1, <2>2
  <1>3. Summable(f, S)
    BY <1>1, <1>2 DEF Summable
  <1>4. e = [q \in Q |-> f[h[q]]]
    BY DEF Summable
  <1>5. Sigma(e) = Sigma(f)
    BY <1>3, <1>4, Reindex
  <1> QED
    BY <1>3, <1>5

\* What is tracked, and billed, of tiles.
LEMMA TilesAddUp ==
  ASSUME NEW S, NEW f, Summable(f, S)
  PROVE  /\ (\A r \in S : f[r] = r.tracked_usd) => TrackedIn(S) = Sigma(f)
         /\ (\A r \in S : f[r] = r.billed_usd) => BilledIn(S) = Sigma(f)
  <1>1. ASSUME \A r \in S : f[r] = r.tracked_usd
        PROVE  TrackedIn(S) = Sigma(f)
    <2> DEFINE Body(g) == [s \in SUBSET S |->
                 IF s = {} THEN 0 ELSE (CHOOSE x \in s : TRUE).tracked_usd + g[s \ {CHOOSE x \in s : TRUE}]]
    <2>1. TrackedIn(S) = (CHOOSE g : g = Body(g))[S]
      BY DEF TrackedIn, MapThenSumSet, MapThenFoldSet
    <2>2. \A h : Body(h) = [t \in SUBSET S |-> Step(f, h, t)]
      <3> TAKE h
      <3>1. \A s \in SUBSET S : s # {} => (CHOOSE x \in s : TRUE) \in S
        OBVIOUS
      <3> QED
        BY <1>1, <3>1 DEF Step, Pick
    <2> HIDE DEF Body
    <2>3. TrackedIn(S) = SumBy(f, S)
      BY <2>1, <2>2 DEF SumBy
    <2> QED
      BY <2>3, SumByIs
  <1>2. ASSUME \A r \in S : f[r] = r.billed_usd
        PROVE  BilledIn(S) = Sigma(f)
    <2> DEFINE Body(g) == [s \in SUBSET S |->
                 IF s = {} THEN 0 ELSE (CHOOSE x \in s : TRUE).billed_usd + g[s \ {CHOOSE x \in s : TRUE}]]
    <2>1. BilledIn(S) = (CHOOSE g : g = Body(g))[S]
      BY DEF BilledIn, MapThenSumSet, MapThenFoldSet
    <2>2. \A h : Body(h) = [t \in SUBSET S |-> Step(f, h, t)]
      <3> TAKE h
      <3>1. \A s \in SUBSET S : s # {} => (CHOOSE x \in s : TRUE) \in S
        OBVIOUS
      <3> QED
        BY <1>2, <3>1 DEF Step, Pick
    <2> HIDE DEF Body
    <2>3. BilledIn(S) = SumBy(f, S)
      BY <2>1, <2>2 DEF SumBy
    <2> QED
      BY <2>3, SumByIs
  <1> QED
    BY <1>1, <1>2

\* So it is of the two parts of a set of tiles.
LEMMA PartsAddUp ==
  ASSUME NEW S, NEW A, NEW B, A \cup B = S, A \cap B = {},
         NEW f, Summable(f, S), \A r \in S : f[r] = r.tracked_usd,
         NEW g, Summable(g, S), \A r \in S : g[r] = r.billed_usd
  PROVE  TrackedIn(A) + TrackedIn(B) = Sigma(f) /\ BilledIn(A) + BilledIn(B) = Sigma(g)
  <1>1. A \in SUBSET S /\ B \in SUBSET S
    OBVIOUS
  <1>2. /\ Summable(Restrict(f, A), A) /\ Summable(Restrict(f, B), B)
        /\ (\A r \in A : Restrict(f, A)[r] = r.tracked_usd)
        /\ \A r \in B : Restrict(f, B)[r] = r.tracked_usd
    BY <1>1, SummablePart
  <1>3. /\ Summable(Restrict(g, A), A) /\ Summable(Restrict(g, B), B)
        /\ (\A r \in A : Restrict(g, A)[r] = r.billed_usd)
        /\ \A r \in B : Restrict(g, B)[r] = r.billed_usd
    BY <1>1, SummablePart
  <1>4. TrackedIn(A) = Sigma(Restrict(f, A)) /\ TrackedIn(B) = Sigma(Restrict(f, B))
    BY <1>2, TilesAddUp
  <1>5. BilledIn(A) = Sigma(Restrict(g, A)) /\ BilledIn(B) = Sigma(Restrict(g, B))
    BY <1>3, TilesAddUp
  <1>6. Restrict(f, A \cup B) = f /\ Restrict(g, A \cup B) = g
    BY DEF Restrict, Summable
  <1>7. Sigma(Restrict(f, A \cup B)) = Sigma(Restrict(f, A)) + Sigma(Restrict(f, B))
    BY <1>1, SigmaSplits
  <1>8. Sigma(Restrict(g, A \cup B)) = Sigma(Restrict(g, A)) + Sigma(Restrict(g, B))
    BY <1>1, SigmaSplits
  <1> QED
    BY <1>4, <1>5, <1>6, <1>7, <1>8

\* What is tracked, and billed, of a chart.
TrackedBars(chart) == SumOf(chart, LAMBDA d : d.tracked_usd)
BilledBars(chart)  == SumOf(chart, LAMBDA d : d.billed_usd)

\* The bars of a chart add up, in the order of their dates.
LEMMA BarsAddUp ==
  ASSUME NEW B, IsFiniteSet(B), \A b \in B : b.date \in Int,
         NEW f, Summable(f, B), \A b \in B : f[b] = b.tracked_usd,
         NEW g, Summable(g, B), \A b \in B : g[b] = b.billed_usd
  PROVE  /\ TrackedBars(ByDate(B)) = Sigma(f)
         /\ BilledBars(ByDate(B)) = Sigma(g)
  <1> DEFINE s == ByDate(B)
  <1>1. Lists(s, B)
    BY ByDateLists
  <1> HIDE DEF s
  <1>2. \A i \in DOMAIN s : s[i] \in B
    BY <1>1 DEF Lists, Onto
  <1>3. f \in [B -> Int] /\ g \in [B -> Int]
    BY DEF Summable
  <1>4. Total([i \in DOMAIN s |-> f[s[i]]]) = Sigma(f)
    BY <1>1, <1>3, ListSums
  <1>5. Total([i \in DOMAIN s |-> g[s[i]]]) = Sigma(g)
    BY <1>1, <1>3, ListSums
  <1>6. [i \in DOMAIN s |-> f[s[i]]] = [i \in DOMAIN s |-> s[i].tracked_usd]
    BY <1>2
  <1>7. [i \in DOMAIN s |-> g[s[i]]] = [i \in DOMAIN s |-> s[i].billed_usd]
    BY <1>2
  <1>8. TrackedBars(s) = Total([i \in DOMAIN s |-> s[i].tracked_usd])
    BY DEF SumOf, TrackedBars
  <1>9. BilledBars(s) = Total([i \in DOMAIN s |-> s[i].billed_usd])
    BY DEF SumOf, BilledBars
  <1>10. TrackedBars(s) = Sigma(f)
    BY <1>4, <1>6, <1>8
  <1>11. BilledBars(s) = Sigma(g)
    BY <1>5, <1>7, <1>9
  <1> QED
    BY <1>10, <1>11 DEF s

\* The tiles of the providers that were billed once.
Own(rows, bills, those) == {r \in TilesOf(rows, bills) : r.provider \in those}

\* They are those of the rows of these providers.
LEMMA OwnTiles ==
  ASSUME NEW rows, NEW bills, NEW those, ProvidersIn(bills) \subseteq those
  PROVE  LET own == OfProviders(rows, those)
         IN  Own(rows, bills, those)
               = {Tile(q, own, bills) : q \in ProvidersOfRows(own) \cup ProvidersIn(bills)}
  <1> DEFINE own == OfProviders(rows, those)
             all == ProvidersOfRows(rows) \cup ProvidersIn(bills)
  <1>1. TilesOf(rows, bills) = {Tile(p, rows, bills) : p \in all}
    BY DEF TilesOf, Tile, TracksOf, OfProvider, ProvidersIn, ProvidersOfRows
  <1>2. \A p \in those : TracksOf(own, p) = TracksOf(rows, p)
    <2> TAKE p \in those
    <2>1. {r \in own : Sample(r).provider = p} = {r \in rows : Sample(r).provider = p}
      BY DEF OfProviders
    <2> QED
      BY <2>1 DEF TracksOf
  <1>3. ProvidersOfRows(own) \cup ProvidersIn(bills) = {p \in all : p \in those}
    BY DEF OfProviders, ProvidersOfRows
  <1>4. \A p \in those : Tile(p, own, bills) = Tile(p, rows, bills)
    BY <1>2 DEF Tile
  <1>5. \A p : Tile(p, rows, bills).provider = p
    BY DEF Tile
  <1> HIDE DEF own, all
  <1>6. Own(rows, bills, those) = {Tile(p, rows, bills) : p \in {p \in all : p \in those}}
    BY <1>1, <1>5 DEF Own
  <1>7. Own(rows, bills, those) = {Tile(p, own, bills) : p \in {p \in all : p \in those}}
    BY <1>4, <1>6
  <1> QED
    BY <1>3, <1>7 DEF own

\* What is billed of a provider that was not is nothing.
LEMMA NothingBilled ==
  ASSUME BillsOK
  PROVE  Billed({}) = 0
  <1>1. Summable(Restrict(Owed, {}), {})
    BY OwedSums, SummablePart
  <1>2. Sigma(Restrict(Owed, {})) = 0
    BY <1>1, SigmaEmpty
  <1>3. BillsFrom(billed_daily, {}) = {}
    BY DEF BillsFrom
  <1>4. Billed(BillsFrom(billed_daily, {})) = Sigma(Restrict(Owed, {}))
    BY BilledIs
  <1> QED
    BY <1>2, <1>3, <1>4

\* Any tile with a bill is one of them.
LEMMA BilledTiles ==
  ASSUME BillsOK, NEW rows, NEW bills, NEW those, ProvidersIn(bills) \subseteq those,
         NEW r \in TilesOf(rows, bills), r.billed_usd > 0
  PROVE  r.provider \in those
  <1>1. PICK p : r = Tile(p, rows, bills)
    BY DEF TilesOf, Tile, TracksOf, OfProvider
  <1>2. r.provider = p /\ r.billed_usd = Billed(OfProvider(bills, p))
    BY <1>1 DEF Tile
  <1>3. CASE p \notin those
    <2>1. OfProvider(bills, p) = {}
      BY <1>3 DEF OfProvider, ProvidersIn
    <2>2. r.billed_usd = 0
      BY <1>2, <2>1, NothingBilled
    <2> QED
      BY <2>2
  <1> QED
    BY <1>2, <1>3

\* The tiles add up to what was tracked, and billed, of their providers.
LEMMA OwnSums ==
  ASSUME NEW Q, IsFiniteSet(Q), NEW own, NEW bills, NEW cost, NEW owed,
         SumsTo(TrackedBy(own, Q), Q, cost), SumsTo(BilledTo(bills, Q), Q, owed),
         NEW S, S = {Tile(q, own, bills) : q \in Q},
         NEW f, f = [r \in S |-> r.tracked_usd], NEW g, g = [r \in S |-> r.billed_usd]
  PROVE  SumsTo(f, S, cost) /\ SumsTo(g, S, owed)
  <1> DEFINE h == [q \in Q |-> Tile(q, own, bills)]
             t == TrackedBy(own, Q)
             b == BilledTo(bills, Q)
  <1>1. Onto(h, Q, S)
    <2>1. \A q \in Q : h[q].provider = q
      BY DEF Tile
    <2>2. h \in [Q -> S] /\ \A s \in S : \E q \in Q : h[q] = s
      OBVIOUS
    <2> HIDE DEF h
    <2> QED
      BY <2>1, <2>2 DEF Onto
  <1>2. \A q \in Q : h[q].tracked_usd = t[q] /\ h[q].billed_usd = b[q]
    BY DEF Tile, TrackedBy, BilledTo
  <1>3. \A q \in Q : h[q] \in S
    OBVIOUS
  <1> HIDE DEF h, t, b
  <1>4. \A q \in Q : f[h[q]] = t[q]
    BY <1>2, <1>3
  <1>5. \A q \in Q : g[h[q]] = b[q]
    BY <1>2, <1>3
  <1>6. f = [s \in S |-> f[s]] /\ g = [s \in S |-> g[s]]
    OBVIOUS
  <1>7. Summable(t, Q) /\ Sigma(t) = cost /\ Summable(b, Q) /\ Sigma(b) = owed
    BY DEF SumsTo, t, b
  <1>8. Summable(f, S) /\ Sigma(f) = Sigma(t)
    BY <1>1, <1>4, <1>6, <1>7, NamedSums
  <1>9. Summable(g, S) /\ Sigma(g) = Sigma(b)
    BY <1>1, <1>5, <1>6, <1>7, NamedSums
  <1> QED
    BY <1>7, <1>8, <1>9 DEF SumsTo

\* The bars of a chart.
Bars(D, own, bills) == {Bar(d, own, bills) : d \in D}

\* So do the bars.
LEMMA ChartSums ==
  ASSUME NEW D, IsFiniteSet(D), \A d \in D : d \in Int, NEW own, NEW bills, NEW cost, NEW owed,
         SumsTo(TrackedDaily(own, D), D, cost), SumsTo(BilledDaily(bills, D), D, owed),
         NEW B, B = Bars(D, own, bills)
  PROVE  /\ TrackedBars(ByDate(B)) = cost
         /\ BilledBars(ByDate(B)) = owed
  <1> DEFINE h == [d \in D |-> Bar(d, own, bills)]
             t == TrackedDaily(own, D)
             b == BilledDaily(bills, D)
             f == [r \in B |-> r.tracked_usd]
             g == [r \in B |-> r.billed_usd]
  <1>0. B = {Bar(d, own, bills) : d \in D}
    BY DEF Bars
  <1>1. Onto(h, D, B)
    <2>1. \A d \in D : h[d].date = d
      BY DEF Bar
    <2>2. h \in [D -> B] /\ \A s \in B : \E d \in D : h[d] = s
      BY <1>0
    <2> HIDE DEF h
    <2> QED
      BY <2>1, <2>2 DEF Onto
  <1>2. \A d \in D : h[d].tracked_usd = t[d] /\ h[d].billed_usd = b[d]
    BY DEF Bar, TrackedDaily, BilledDaily
  <1>3. \A d \in D : h[d] \in B
    BY <1>0
  <1>4. \A r \in B : r.date \in Int
    <2> TAKE r \in B
    <2>1. PICK d \in D : r = Bar(d, own, bills)
      BY <1>0
    <2>2. r.date = d
      BY <2>1 DEF Bar
    <2> QED
      BY <2>2
  <1>5. (\A r \in B : f[r] = r.tracked_usd) /\ \A r \in B : g[r] = r.billed_usd
    OBVIOUS
  <1>6. f = [s \in B |-> f[s]] /\ g = [s \in B |-> g[s]]
    OBVIOUS
  <1> HIDE DEF h, t, b, f, g
  <1>7. \A d \in D : f[h[d]] = t[d]
    BY <1>2, <1>3, <1>5
  <1>8. \A d \in D : g[h[d]] = b[d]
    BY <1>2, <1>3, <1>5
  <1>9. Summable(t, D) /\ Sigma(t) = cost /\ Summable(b, D) /\ Sigma(b) = owed
    BY DEF SumsTo, t, b
  <1>10. Summable(f, B) /\ Sigma(f) = Sigma(t)
    BY <1>1, <1>6, <1>7, <1>9, NamedSums
  <1>11. Summable(g, B) /\ Sigma(g) = Sigma(b)
    BY <1>1, <1>6, <1>8, <1>9, NamedSums
  <1>12. IsFiniteSet(B)
    BY <1>10 DEF Summable
  <1>13. TrackedBars(ByDate(B)) = Sigma(f)
    BY <1>4, <1>5, <1>10, <1>11, <1>12, BarsAddUp
  <1>14. BilledBars(ByDate(B)) = Sigma(g)
    BY <1>4, <1>5, <1>10, <1>11, <1>12, BarsAddUp
  <1> QED
    BY <1>9, <1>10, <1>11, <1>13, <1>14

\* The tiles and the chart of a range differ by the tiles without a bill.
LEMMA RangeReconciles ==
  ASSUME TablesOK, BillsOK, NEW org, NEW from \in Int, NEW to \in Int
  PROVE  SpendReconciles(org, from, to)
  <1> DEFINE those == EverBilled(billed_daily, org)
             all   == Rows(cost_daily, org, from, to)
             own   == OfProviders(all, those)
             bills == BillsOf(billed_daily, org, from, to)
             Q     == ProvidersOfRows(own) \cup ProvidersIn(bills)
             D     == DatesOfRows(own) \cup DatesIn(bills)
             cost  == Cost(Billable(org, from, to, those))
             owed  == Sigma(Restrict(Owed, BillKeys(org, from..to)))
             rows  == getReconciliationByProvider(org, from, to)
             daily == getReconciliationDaily(org, from, to)
             S     == Own(all, bills, those)
             B     == Bars(D, own, bills)
             withBilling == {r \in rows : r.billed_usd > 0}
             outside == {r \in rows : r.provider \in those /\ r.billed_usd <= 0}
             f == [r \in S |-> r.tracked_usd]
             g == [r \in S |-> r.billed_usd]
  <1>1. /\ IsFiniteSet(Q) /\ IsFiniteSet(D) /\ D \subseteq from..to
        /\ SumsTo(TrackedBy(own, Q), Q, cost) /\ SumsTo(TrackedDaily(own, D), D, cost)
        /\ SumsTo(BilledTo(bills, Q), Q, owed) /\ SumsTo(BilledDaily(bills, D), D, owed)
    BY SpendSums
  <1>2. ProvidersIn(bills) \subseteq those
    BY DEF ProvidersIn, BillsOf, EverBilled
  <1>3. rows = TilesOf(all, bills)
    BY TilesRead
  <1>4. daily = ByDate(B)
    <2>1. daily = DaysOf({r \in all : Sample(r).provider \in those}, bills)
      BY DaysRead
    <2>2. {r \in all : Sample(r).provider \in those} = own
      BY DEF OfProviders
    <2>3. \A some : DaysOf(some, bills) =
            ByDate({Bar(d, some, bills) : d \in DatesOfRows(some) \cup DatesIn(bills)})
      BY DEF DaysOf, Bar, TrackedOn, OfDate, DatesIn, DatesOfRows
    <2>4. B = {Bar(d, own, bills) : d \in D}
      BY DEF Bars
    <2> HIDE DEF B
    <2> HIDE DEF daily, those, all, own, bills
    <2> QED
      BY <2>1, <2>2, <2>3, <2>4
  <1>5. S = {Tile(q, own, bills) : q \in Q}
    BY <1>2, OwnTiles
  <1>6. \A r \in rows : r.billed_usd > 0 => r.provider \in those
    BY <1>2, <1>3, BilledTiles
  <1>7. S = {r \in rows : r.provider \in those}
    BY <1>3 DEF Own
  <1>b. B = Bars(D, own, bills)
    OBVIOUS
  <1>8. SpendReconciles(org, from, to) <=>
          /\ BilledBars(daily) = BilledIn(withBilling) + BilledIn(outside)
          /\ TrackedBars(daily) = TrackedIn(withBilling) + TrackedIn(outside)
    BY DEF SpendReconciles, ReconciliationView, BilledBars, TrackedBars, EverBilled
  <1> HIDE DEF those, all, own, bills, Q, D, cost, owed, rows, daily, S, B
  <1>9. SumsTo(f, S, cost) /\ SumsTo(g, S, owed)
    BY <1>1, <1>5, OwnSums
  <1>10. \A d \in D : d \in Int
    BY <1>1
  <1>12. (\A r \in S : f[r] = r.tracked_usd) /\ \A r \in S : g[r] = r.billed_usd
    OBVIOUS
  <1>13. withBilling \cap outside = {} /\ withBilling \cup outside = S
    <2>1. \A r \in S : r.billed_usd \in Int
      <3>1. \A r \in S : g[r] \in Int
        BY <1>9 DEF SumsTo, Summable
      <3> QED
        BY <1>12, <3>1
    <2> HIDE DEF f, g
    <2> QED
      BY <1>6, <1>7, <2>1
  <1> HIDE DEF f, g, withBilling, outside
  <1>11. TrackedBars(daily) = cost /\ BilledBars(daily) = owed
    <2>1. TrackedBars(ByDate(B)) = cost /\ BilledBars(ByDate(B)) = owed
      <3>1. IsFiniteSet(D)
        BY <1>1
      <3>2. SumsTo(TrackedDaily(own, D), D, cost)
        BY <1>1
      <3>3. SumsTo(BilledDaily(bills, D), D, owed)
        BY <1>1
      <3> QED
        BY <1>b, <1>10, <3>1, <3>2, <3>3, ChartSums
    <2> QED
      BY <1>4, <2>1
  <1>14. Summable(f, S) /\ Sigma(f) = cost /\ Summable(g, S) /\ Sigma(g) = owed
    BY <1>9 DEF SumsTo
  <1>15. TrackedIn(withBilling) + TrackedIn(outside) = cost /\ BilledIn(withBilling) + BilledIn(outside) = owed
    <2>1. /\ TrackedIn(withBilling) + TrackedIn(outside) = Sigma(f)
          /\ BilledIn(withBilling) + BilledIn(outside) = Sigma(g)
      <3>1. Summable(f, S) /\ Summable(g, S)
        BY <1>14
      <3> QED
        BY <1>12, <1>13, <3>1, PartsAddUp
    <2> QED
      BY <1>14, <2>1
  <1> QED
    BY <1>8, <1>11, <1>15

\* So they do for every range a page may show.
LEMMA SameReconciles == TablesOK /\ BillsOK => ReconAgree
  <1> SUFFICES ASSUME TablesOK, BillsOK, NEW raw
               PROVE  \A org : SpendReconciles(org, resolveRange(raw).from, resolveRange(raw).to)
    BY DEF ReconAgree
  <1>1. /\ resolveRange(raw).from \in Int /\ resolveRange(raw).to \in Int
    BY Ranges DEF TablesOK
  <1> QED
    BY <1>1, RangeReconciles

-----------------------------------------------------------------------------
(* A history that repeats its season.                                       *)

\* Induction over the natural numbers.
LEMMA NatsReached ==
  ASSUME NEW P, 0 \in P, \A k \in Nat : k \in P => k + 1 \in P
  PROVE  Nat \subseteq P
  <1> SUFFICES ASSUME Nat \ P # {} PROVE FALSE
    OBVIOUS
  <1>1. PICK k \in Nat \ P : \A m \in Nat \ P : <<m, k>> \notin OpToRel(<, Nat)
    <2>1. Nat \ P \subseteq Nat
      OBVIOUS
    <2> QED
      BY <2>1, NatLessThanWellFounded, WFMin
  <1>2. \A m \in Nat \ P : ~(m < k)
    BY <1>1 DEF OpToRel
  <1>3. k # 0
    BY <1>1
  <1>4. k - 1 \in Nat /\ k - 1 < k /\ k = (k - 1) + 1
    BY <1>3
  <1>5. k - 1 \in P
    BY <1>2, <1>4
  <1> QED
    BY <1>4, <1>5

\* Numbers that ascend are as far apart as their places at least.
LEMMA FarApart ==
  ASSUME NEW n \in Nat, NEW f, \A i \in 1..n : f[i] \in Int,
         \A i, j \in 1..n : i < j => f[i] < f[j]
  PROVE  \A i, j \in 1..n : i <= j => f[j] >= f[i] + (j - i)
  <1> DEFINE FarBy(k) == \A i \in 1..n : i + k \in 1..n => f[i + k] >= f[i] + k
             P == {k \in Nat : FarBy(k)}
  <1>1. FarBy(0)
    OBVIOUS
  <1>2. ASSUME NEW k \in Nat, FarBy(k)
        PROVE  FarBy(k + 1)
    <2> SUFFICES ASSUME NEW i \in 1..n, i + (k + 1) \in 1..n
                 PROVE  f[i + (k + 1)] >= f[i] + (k + 1)
      OBVIOUS
    <2>1. i + k \in 1..n /\ i + k < i + (k + 1)
      OBVIOUS
    <2>2. f[i + k] >= f[i] + k /\ f[i + k] < f[i + (k + 1)]
      BY <1>2, <2>1
    <2> QED
      BY <2>1, <2>2
  <1> HIDE DEF FarBy
  <1>3. Nat \subseteq P
    <2>1. 0 \in P /\ \A k \in Nat : k \in P => k + 1 \in P
      BY <1>1, <1>2
    <2> HIDE DEF P
    <2> QED
      BY <2>1, NatsReached
  <1>4. ASSUME NEW i \in 1..n, NEW j \in 1..n, i <= j
        PROVE  f[j] >= f[i] + (j - i)
    <2>1. j - i \in Nat /\ i + (j - i) = j
      BY <1>4
    <2>2. FarBy(j - i)
      BY <1>3, <2>1
    <2> QED
      BY <2>1, <2>2 DEF FarBy
  <1> QED
    BY <1>4

\* The sum of a number, so often.
LEMMA SigmaConstant ==
  ASSUME NEW S, IsFiniteSet(S), NEW v \in Int, NEW f, f = [x \in S |-> v]
  PROVE  Summable(f, S) /\ Sigma(f) = Cardinality(S) * v
  <1> DEFINE On(s) == Sigma(Restrict(f, s))
             P == {s \in SUBSET S : On(s) = Cardinality(s) * v}
  <1>1. Summable(f, S)
    BY DEF Summable
  <1>2. \A s \in SUBSET S : \A x \in s : On(s) = v + On(s \ {x})
    <2> TAKE s \in SUBSET S
    <2> TAKE x \in s
    <2>1. On(s) = f[x] + On(s \ {x})
      BY <1>1, SigmaPartRemoves
    <2> QED
      BY <2>1
  <1>3. On({}) = 0
    <2>1. Summable(Restrict(f, {}), {})
      BY <1>1, SummablePart
    <2> QED
      BY <2>1, SigmaEmpty
  <1>4. On(S) = Sigma(f)
    BY <1>1 DEF Restrict, Summable
  <1>5. \A s \in SUBSET S : IsFiniteSet(s) /\ Cardinality(s) \in Nat
    BY FS_Subset, FS_CardinalityType
  <1> HIDE DEF On
  <1>6. ASSUME NEW s \in SUBSET S, \A x \in s : s \ {x} \in P
        PROVE  On(s) = Cardinality(s) * v
    <2>1. CASE s = {}
      BY <1>3, <2>1, FS_EmptySet
    <2>2. CASE s # {}
      <3>1. PICK x \in s : TRUE
        BY <2>2
      <3>2. Cardinality(s \ {x}) = Cardinality(s) - 1
        BY <1>5, FS_RemoveElement
      <3>3. On(s) = v + On(s \ {x}) /\ On(s \ {x}) = Cardinality(s \ {x}) * v
        BY <1>2, <1>6, <3>1
      <3>4. On(s) = v + (Cardinality(s) - 1) * v
        BY <3>2, <3>3
      <3>5. \A c \in Nat : v + (c - 1) * v = c * v
        OBVIOUS
      <3> QED
        BY <1>5, <3>4, <3>5
    <2> QED
      BY <2>1, <2>2
  <1>7. SUBSET S \subseteq P
    <2>1. \A s \in SUBSET S : (\A x \in s : s \ {x} \in P) => s \in P
      BY <1>6
    <2> HIDE DEF P
    <2> QED
      BY <2>1, SubsetInduction
  <1>8. On(S) = Cardinality(S) * v
    BY <1>7
  <1> QED
    BY <1>1, <1>4, <1>8

\* So often a number, by as many, is the number.
LEMMA Divided ==
  ASSUME NEW m \in Nat, m # 0, NEW v \in Int
  PROVE  (m * v) \div m = v
  OBVIOUS

\* What a fit is made of.
Fit == [level : Int, trend : Int, seasonals : [1..Season -> Int], inSample : Seq(Int)]

SeasonDay(fit) == (Len(fit.inSample) % Season) + 1

\* Each place of the series is one of the season.
LEMMA PlaceIn ==
  \A k \in Nat : (k % Season) + 1 \in 1..Season
  BY ForecastAssumption

\* A day makes a fit of a fit.
LEMMA SmoothFits ==
  ASSUME NEW fit \in Fit, NEW y \in Int
  PROVE  smooth(fit, y) \in Fit /\ Len(smooth(fit, y).inSample) = Len(fit.inSample) + 1
  <1> DEFINE si == (Len(fit.inSample) % Season) + 1
             level == Blend(HwAlpha, y - fit.seasonals[si], fit.level + fit.trend)
             trend == Blend(HwBeta, level - fit.level, fit.trend)
             seasonal == Blend(HwGamma, y - level, fit.seasonals[si])
             sampled == Append(fit.inSample, fit.level + fit.trend + fit.seasonals[si])
  <1>1. smooth(fit, y) = [level |-> level, trend |-> trend,
          seasonals |-> [fit.seasonals EXCEPT ![si] = seasonal], inSample |-> sampled]
    BY DEF smooth
  <1>2. /\ fit.level \in Int /\ fit.trend \in Int /\ fit.seasonals \in [1..Season -> Int]
        /\ fit.inSample \in Seq(Int)
    BY DEF Fit
  <1>3. si \in 1..Season
    BY <1>2, PlaceIn
  <1> HIDE DEF si
  <1>4. fit.seasonals[si] \in Int
    BY <1>2, <1>3
  <1>5. \A a, b \in Int : /\ Blend(HwAlpha, a, b) \in Int
                          /\ Blend(HwBeta, a, b) \in Int /\ Blend(HwGamma, a, b) \in Int
    BY DEF Blend, HwAlpha, HwBeta, HwGamma
  <1>6. level \in Int
    <2>1. y - fit.seasonals[si] \in Int /\ fit.level + fit.trend \in Int
      BY <1>2, <1>4
    <2> QED
      BY <1>5, <2>1
  <1> HIDE DEF level
  <1>7. trend \in Int /\ seasonal \in Int
    <2>1. level - fit.level \in Int /\ y - level \in Int
      BY <1>2, <1>6
    <2> QED
      BY <1>2, <1>4, <1>5, <2>1
  <1> HIDE DEF trend, seasonal
  <1>8. sampled \in Seq(Int) /\ Len(sampled) = Len(fit.inSample) + 1
    BY <1>2, <1>4
  <1> HIDE DEF sampled
  <1>9. [fit.seasonals EXCEPT ![si] = seasonal] \in [1..Season -> Int]
    BY <1>2, <1>7
  <1> QED
    BY <1>1, <1>6, <1>7, <1>8, <1>9 DEF Fit

\* A fit that knows the season: its level, no trend, and each day's offset.
Learned(fit, season, level) ==
  /\ fit \in Fit
  /\ fit.level = level /\ fit.trend = 0
  /\ fit.seasonals = [i \in 1..Season |-> season[i] - level]

\* A day that is as the season has it changes nothing.
LEMMA LearnedKeeps ==
  ASSUME NEW season \in [1..Season -> Int], NEW mean \in Int, NEW fit,
         Learned(fit, season, mean), NEW y, y = season[SeasonDay(fit)]
  PROVE  Learned(smooth(fit, y), season, mean)
  <1> DEFINE si == (Len(fit.inSample) % Season) + 1
             level == Blend(HwAlpha, y - fit.seasonals[si], fit.level + fit.trend)
  <1>1. /\ smooth(fit, y).level = level
        /\ smooth(fit, y).trend = Blend(HwBeta, level - fit.level, fit.trend)
        /\ smooth(fit, y).seasonals
             = [fit.seasonals EXCEPT ![si] = Blend(HwGamma, y - level, fit.seasonals[si])]
    BY DEF smooth
  <1>2. fit \in Fit /\ fit.level = mean /\ fit.trend = 0
        /\ fit.seasonals = [i \in 1..Season |-> season[i] - mean]
    BY DEF Learned
  <1>3. si \in 1..Season /\ y = season[si]
    <2>1. Len(fit.inSample) \in Nat
      BY <1>2 DEF Fit
    <2> QED
      BY <2>1, PlaceIn DEF SeasonDay
  <1> HIDE DEF si
  <1>4. fit.seasonals[si] = y - mean /\ y \in Int
    BY <1>2, <1>3
  <1>5. /\ \A a \in Int : Blend(HwAlpha, a, a) = a /\ Blend(HwGamma, a, a) = a
        /\ Blend(HwBeta, 0, 0) = 0
    BY DEF Blend, HwAlpha, HwBeta, HwGamma
  <1>6. level = mean
    <2>1. y - fit.seasonals[si] = mean /\ fit.level + fit.trend = mean
      BY <1>2, <1>4
    <2> QED
      BY <1>5, <2>1
  <1> HIDE DEF level
  <1>7. smooth(fit, y).trend = 0
    BY <1>1, <1>2, <1>5, <1>6
  <1>8. Blend(HwGamma, y - level, fit.seasonals[si]) = fit.seasonals[si]
    BY <1>4, <1>5, <1>6
  <1>9. smooth(fit, y).seasonals = fit.seasonals
    BY <1>1, <1>2, <1>8, ZenonT(40)
  <1>10. smooth(fit, y) \in Fit
    BY <1>2, <1>4, SmoothFits
  <1> QED
    BY <1>1, <1>2, <1>6, <1>7, <1>9, <1>10 DEF Learned

SmoothedBy(base, ys) ==
  (CHOOSE g : g = [t \in SUBSET DOMAIN ys |->
                     IF t = {} THEN base ELSE smooth(g[t \ {Max(t)}], ys[Max(t)])])[DOMAIN ys]

DayByDay(g, base, ys, n) ==
  g[0] = base /\ \A k \in 1..n : g[k] = smooth(g[k - 1], ys[k])

\* Smoothing goes through the series day by day.
LEMMA SmoothedDays ==
  ASSUME NEW n \in Nat, NEW ys \in [1..n -> Int], NEW base \in Fit
  PROVE  \E g : SmoothedBy(base, ys) = g[n] /\ DayByDay(g, base, ys, n)
  <1> DEFINE U == 1..n
             pick == [t \in SUBSET U |-> Max(t)]
             join == [x \in U |-> [r \in Fit |-> smooth(r, ys[x])]]
             Body(g) == [t \in SUBSET U |->
                           IF t = {} THEN base ELSE smooth(g[t \ {Max(t)}], ys[Max(t)])]
  <1>1. IsFiniteSet(U) /\ join \in [U -> [Fit -> Fit]] /\ Picks(pick, U) /\ DOMAIN ys = U
    <2>1. \A r \in Fit, x \in U : smooth(r, ys[x]) \in Fit
      BY SmoothFits
    <2>2. Picks(pick, U)
      BY RangeLast DEF HaveLast, Picks
    <2> QED
      BY <2>1, <2>2, FS_Interval
  <1>2. \E h : h = Body(h)
    <2>1. PICK h \in [SUBSET U -> Fit] : Fold(h, base, pick, join, U)
      <3> HIDE DEF pick, join, U
      <3> QED
        BY <1>1, FoldExists
    <2>2. ASSUME NEW t \in SUBSET U
          PROVE  Turn(h, base, pick, join, t)
                   = (IF t = {} THEN base ELSE smooth(h[t \ {Max(t)}], ys[Max(t)]))
      <3>1. CASE t # {}
        <4>1. Max(t) \in U /\ pick[t] = Max(t) /\ h[t \ {Max(t)}] \in Fit
          BY <3>1, RangeLast DEF HaveLast
        <4> QED
          BY <3>1, <4>1 DEF Turn
      <3> QED
        BY <3>1 DEF Turn
    <2>3. h = Body(h)
      BY <2>1, <2>2 DEF Fold
    <2> HIDE DEF Body
    <2> QED
      BY <2>3
  <1> DEFINE g == CHOOSE g : g = Body(g)
  <1>3. g = Body(g)
    <2> HIDE DEF Body
    <2> QED
      BY <1>2
  <1>5. SmoothedBy(base, ys) = g[1..n]
    BY <1>1 DEF SmoothedBy
  <1> HIDE DEF g
  <1>6. g[{}] = base /\ \A t \in SUBSET U : t # {} => g[t] = smooth(g[t \ {Max(t)}], ys[Max(t)])
    BY <1>3
  <1> HIDE DEF Body
  <1> DEFINE days == [k \in 0..n |-> g[1..k]]
  <1>7. days[n] = g[1..n] /\ days[0] = base
    <2>1. 1..0 = {}
      OBVIOUS
    <2> QED
      BY <1>6, <2>1
  <1>8. ASSUME NEW k \in 1..n
        PROVE  days[k] = smooth(days[k - 1], ys[k])
    <2>1. 1..k \in SUBSET U /\ 1..k # {} /\ k \in Nat /\ k # 0 /\ k - 1 \in 0..n /\ k \in 0..n
      OBVIOUS
    <2>2. Max(1..k) = k /\ (1..k) \ {k} = 1..(k - 1)
      BY <2>1, PrefixLast
    <2>3. g[1..k] = smooth(g[1..(k - 1)], ys[k])
      BY <1>6, <2>1, <2>2
    <2>4. days[k] = g[1..k] /\ days[k - 1] = g[1..(k - 1)]
      BY <2>1
    <2> HIDE DEF days
    <2> QED
      BY <2>3, <2>4
  <1> HIDE DEF days
  <1> QED
    BY <1>5, <1>7, <1>8 DEF DayByDay

\* A series of n days that repeats its season.
Repeating(ys, n) ==
  /\ n \in Nat /\ ys \in [1..n -> Int] /\ n >= 2 * Season
  /\ \A i \in 1..(n - Season) : ys[i] = ys[i + Season]

Season1(ys) == [i \in 1..Season |-> ys[i]]

\* A day of it is that of the first season.
LEMMA RepeatedDays ==
  ASSUME NEW n, NEW ys, Repeating(ys, n)
  PROVE  /\ Season1(ys) \in [1..Season -> Int]
         /\ \A k \in Nat, i \in 1..Season : k * Season + i <= n =>
              k * Season + i \in 1..n /\ ys[k * Season + i] = Season1(ys)[i]
         /\ \A k \in 1..n : ys[k] = Season1(ys)[((k - 1) % Season) + 1]
  <1>0. Season \in Nat /\ Season > 0
    BY ForecastAssumption
  <1>1. n \in Nat /\ ys \in [1..n -> Int] /\ n >= 2 * Season
        /\ \A i \in 1..(n - Season) : ys[i] = ys[i + Season]
    BY DEF Repeating
  <1> DEFINE As(k) == \A i \in 1..Season : k * Season + i <= n =>
                        k * Season + i \in 1..n /\ ys[k * Season + i] = ys[i]
             P == {k \in Nat : As(k)}
  <1>2. As(0)
    <2>1. \A i \in 1..Season : 0 * Season + i = i /\ i \in 1..n
      BY <1>0, <1>1
    <2> QED
      BY <2>1
  <1>3. ASSUME NEW k \in Nat, As(k)
        PROVE  As(k + 1)
    <2> SUFFICES ASSUME NEW i \in 1..Season, (k + 1) * Season + i <= n
                 PROVE  (k + 1) * Season + i \in 1..n /\ ys[(k + 1) * Season + i] = ys[i]
      OBVIOUS
    <2> DEFINE j == k * Season + i
    <2>1. k * Season \in Nat /\ (k + 1) * Season + i = k * Season + i + Season
      BY <1>0
    <2>2. j \in Nat /\ (k + 1) * Season + i = j + Season
      BY <1>0, <2>1
    <2>3. j + Season <= n
      BY <2>2
    <2>4. j <= n
      BY <1>0, <1>1, <2>2, <2>3
    <2>5. j \in 1..n /\ ys[j] = ys[i]
      BY <1>3, <2>4
    <2> HIDE DEF j
    <2>6. j \in 1..(n - Season) /\ j + Season \in 1..n
      BY <1>0, <1>1, <2>2, <2>3, <2>5
    <2>7. ys[j + Season] = ys[i]
      BY <1>1, <2>5, <2>6
    <2> QED
      BY <2>2, <2>6, <2>7
  <1> HIDE DEF As
  <1>4. Nat \subseteq P
    <2>1. 0 \in P /\ \A k \in Nat : k \in P => k + 1 \in P
      BY <1>2, <1>3
    <2> HIDE DEF P
    <2> QED
      BY <2>1, NatsReached
  <1>5. \A k \in Nat : As(k)
    BY <1>4
  <1>6. Season1(ys) \in [1..Season -> Int] /\ \A i \in 1..Season : Season1(ys)[i] = ys[i]
    BY <1>0, <1>1 DEF Season1
  <1>7. \A k \in Nat, i \in 1..Season : k * Season + i <= n =>
          k * Season + i \in 1..n /\ ys[k * Season + i] = Season1(ys)[i]
    BY <1>5, <1>6 DEF As
  <1>8. ASSUME NEW k \in 1..n
        PROVE  ys[k] = Season1(ys)[((k - 1) % Season) + 1]
    <2> DEFINE q == (k - 1) \div Season
               i == ((k - 1) % Season) + 1
    <2>1. k - 1 \in Nat
      OBVIOUS
    <2>2. q \in Nat /\ i \in 1..Season /\ k = q * Season + i
      BY <1>0, <2>1
    <2> HIDE DEF q, i
    <2>3. ys[k] = Season1(ys)[i]
      BY <1>1, <1>7, <2>2
    <2> QED
      BY <2>3 DEF i
  <1> QED
    BY <1>6, <1>7, <1>8

\* Every full season is the first one.
LEMMA RepeatedSeasons ==
  ASSUME NEW n, NEW ys, Repeating(ys, n), NEW s \in Nat, (s + 1) * Season <= n
  PROVE  SeasonOf(ys, s) = Season1(ys)
  <1>0. Season \in Nat /\ Season > 0 /\ n \in Nat /\ ys \in [1..n -> Int]
    BY ForecastAssumption DEF Repeating
  <1> DEFINE b == s * Season
  <1>1. b \in Nat /\ (s + 1) * Season = b + Season
    BY <1>0
  <1>2. \A i \in 1..Season : b + i \in 1..n /\ ys[b + i] = Season1(ys)[i]
    <2>1. \A i \in 1..Season : b + i <= n
      BY <1>0, <1>1
    <2> QED
      BY <2>1, RepeatedDays
  <1>3. SeasonOf(ys, s) = SubSeq(ys, b + 1, b + Season)
    BY <1>1 DEF SeasonOf
  <1> HIDE DEF b
  <1>4. ys \in Seq(Int) /\ Len(ys) = n
    BY <1>0
  <1>5. SubSeq(ys, b + 1, b + Season) = [i \in 1..Season |-> ys[b + i]]
    <2>1. b + 1 >= 1 /\ b + Season <= n /\ b + 1 \in Nat /\ b + Season \in Nat
          /\ (b + Season) - (b + 1) + 1 = Season
      BY <1>0, <1>1, <1>2
    <2>2. \A i \in 1..Season : SubSeq(ys, b + 1, b + Season)[i] = ys[b + i]
      BY <1>0, <1>1, <1>4, <2>1
    <2>3. SubSeq(ys, b + 1, b + Season) \in Seq(Int) /\ Len(SubSeq(ys, b + 1, b + Season)) = Season
      BY <1>0, <1>1, <1>4, <2>1
    <2> DEFINE part == SubSeq(ys, b + 1, b + Season)
    <2> HIDE DEF part
    <2>p. part \in Seq(Int) /\ Len(part) = Season
      BY <2>3 DEF part
    <2>4. part = [i \in 1..Season |-> part[i]] /\ \A i \in 1..Season : part[i] = ys[b + i]
      <3>1. part = [i \in 1..Season |-> part[i]]
        BY <2>p
      <3> QED
        BY <2>2, <3>1 DEF part
    <2>5. part = [i \in 1..Season |-> ys[b + i]]
      BY <2>4
    <2> QED
      BY <2>5 DEF part
  <1>6. Season1(ys) = [i \in 1..Season |-> ys[b + i]]
    BY <1>2 DEF Season1
  <1> QED
    BY <1>3, <1>5, <1>6

Mean(season) == Total(season) \div Season

\* A season has a mean.
LEMMA MeanType ==
  ASSUME NEW season \in [1..Season -> Int]
  PROVE  Total(season) \in Int /\ Mean(season) \in Int
  <1>1. Total(season) \in Int
    BY ForecastAssumption, TotalIs, SigmaType
  <1> QED
    BY <1>1, ForecastAssumption DEF Mean

\* The offsets are those of the first season.
LEMMA OffsetsAre ==
  ASSUME NEW n, NEW ys, Repeating(ys, n)
  PROVE  Offsets(ys) = [i \in 1..Season |-> Season1(ys)[i] - Mean(Season1(ys))]
  <1> DEFINE full == Len(ys) \div Season
             season == Season1(ys)
             Off(i) == Total([s \in 1..full |-> SeasonOf(ys, s - 1)[i]
                                                 - Total(SeasonOf(ys, s - 1)) \div Season])
  <1>0. Season \in Nat /\ Season > 0 /\ n \in Nat /\ ys \in [1..n -> Int] /\ n >= 2 * Season
    BY ForecastAssumption DEF Repeating
  <1>1. Len(ys) = n
    BY <1>0
  <1>2. full \in Nat /\ full # 0 /\ full * Season <= n
    BY <1>0, <1>1
  <1>3. Offsets(ys) = [i \in 1..Season |-> Off(i) \div full]
    BY DEF Offsets
  <1> HIDE DEF full
  <1>4. season \in [1..Season -> Int] /\ Mean(season) \in Int
    BY RepeatedDays, MeanType
  <1>5. ASSUME NEW s \in 1..full
        PROVE  SeasonOf(ys, s - 1) = season
    <2>1. s - 1 \in Nat /\ (s - 1) + 1 = s
      BY <1>2
    <2>2. s * Season <= full * Season
      BY <1>0, <1>2
    <2>3. s * Season <= n
      BY <1>0, <1>2, <2>2
    <2> QED
      BY <2>1, <2>3, RepeatedSeasons
  <1>6. ASSUME NEW i \in 1..Season
        PROVE  Off(i) \div full = season[i] - Mean(season)
    <2> DEFINE v == season[i] - Mean(season)
               f == [s \in 1..full |-> v]
    <2>1. v \in Int
      BY <1>4
    <2>2. Off(i) = Total(f)
      <3>1. [s \in 1..full |-> SeasonOf(ys, s - 1)[i] - Total(SeasonOf(ys, s - 1)) \div Season] = f
        BY <1>5 DEF Mean
      <3> QED
        BY <3>1
    <2> HIDE DEF v
    <2>3. f \in [1..full -> Int]
      BY <2>1
    <2>4. Total(f) = Sigma(f)
      BY <1>2, <2>3, TotalIs
    <2>5. Sigma(f) = full * v
      <3>1. IsFiniteSet(1..full) /\ Cardinality(1..full) = full
        BY <1>2, FS_Interval
      <3>2. Sigma(f) = Cardinality(1..full) * v
        BY <2>1, <3>1, SigmaConstant
      <3> QED
        BY <3>1, <3>2
    <2>6. (full * v) \div full = v
      BY <1>2, <2>1, Divided
    <2> QED
      BY <2>2, <2>4, <2>5, <2>6 DEF v
  <1> HIDE DEF Off
  <1> QED
    BY <1>3, <1>6

\* Smoothing a series that repeats its season settles on it.
LEMMA HoltWintersLearns ==
  ASSUME NEW n, NEW ys, Repeating(ys, n)
  PROVE  \E fit : /\ holtWinters(ys) = <<fit>>
                  /\ Learned(fit, Season1(ys), Mean(Season1(ys)))
  <1> DEFINE season == Season1(ys)
             mean == Mean(season)
             start == [level |-> Total(SeasonOf(ys, 0)) \div Season,
                      trend |-> (Total(SeasonOf(ys, 1)) - Total(SeasonOf(ys, 0))) \div (Season * Season),
                      seasonals |-> Offsets(ys), inSample |-> <<>>]
  <1>0. Season \in Nat /\ Season > 0 /\ n \in Nat /\ ys \in [1..n -> Int] /\ n >= 2 * Season
        /\ Len(ys) = n
    BY ForecastAssumption DEF Repeating
  <1>1. holtWinters(ys) = <<SmoothedBy(start, ys)>>
    <2>1. ~(Len(ys) < 2 * Season)
      BY <1>0
    <2> QED
      BY <2>1 DEF holtWinters, FoldLeft, MapThenFoldSet, SmoothedBy
  <1>2. SeasonOf(ys, 0) = season /\ SeasonOf(ys, 1) = season
    <2>1. (0 + 1) * Season <= n /\ (1 + 1) * Season <= n
      BY <1>0
    <2> QED
      BY <2>1, RepeatedSeasons
  <1>3. season \in [1..Season -> Int] /\ mean \in Int /\ Total(season) \in Int
    BY RepeatedDays, MeanType
  <1>4. Offsets(ys) = [i \in 1..Season |-> season[i] - mean]
    BY OffsetsAre
  <1>5. start = [level |-> mean, trend |-> 0, seasonals |-> [i \in 1..Season |-> season[i] - mean],
                inSample |-> <<>>]
    <2>1. (Total(season) - Total(season)) \div (Season * Season) = 0
      <3>1. Season * Season \in Nat /\ Season * Season > 0
        BY <1>0
      <3>2. Total(season) - Total(season) = 0
        BY <1>3
      <3>3. \A d \in Nat : d > 0 => 0 \div d = 0
        OBVIOUS
      <3> QED
        BY <3>1, <3>2, <3>3
    <2> QED
      BY <1>2, <1>4, <2>1 DEF Mean
  <1> HIDE DEF start, season, mean
  <1>6. Learned(start, season, mean) /\ start \in Fit /\ Len(start.inSample) = 0
    <2>1. [i \in 1..Season |-> season[i] - mean] \in [1..Season -> Int]
      BY <1>3
    <2>2. <<>> \in Seq(Int) /\ Len(<<>>) = 0
      OBVIOUS
    <2> QED
      BY <1>3, <1>5, <2>1, <2>2 DEF Learned, Fit
  <1>s. PICK g : SmoothedBy(start, ys) = g[n] /\ DayByDay(g, start, ys, n)
    BY <1>0, <1>6, SmoothedDays
  <1>7. g[0] = start /\ \A k \in 1..n : g[k] = smooth(g[k - 1], ys[k])
    BY <1>s DEF DayByDay
  <1> DEFINE Good(k) == k <= n => Learned(g[k], season, mean) /\ Len(g[k].inSample) = k
             P == {k \in Nat : Good(k)}
  <1>8. Good(0)
    BY <1>6, <1>7
  <1>9. ASSUME NEW k \in Nat, Good(k)
        PROVE  Good(k + 1)
    <2> SUFFICES ASSUME k + 1 <= n
                 PROVE  Learned(g[k + 1], season, mean) /\ Len(g[k + 1].inSample) = k + 1
      OBVIOUS
    <2>1. k + 1 \in 1..n /\ (k + 1) - 1 = k /\ k <= n
      BY <1>0
    <2>2. g[k + 1] = smooth(g[k], ys[k + 1])
      BY <1>7, <2>1
    <2>3. Learned(g[k], season, mean) /\ Len(g[k].inSample) = k
      BY <1>9, <2>1
    <2>4. ys[k + 1] = season[SeasonDay(g[k])] /\ ys[k + 1] \in Int
      BY <1>0, <2>1, <2>3, RepeatedDays DEF SeasonDay, season
    <2>5. Learned(smooth(g[k], ys[k + 1]), season, mean)
      BY <1>3, <2>3, <2>4, LearnedKeeps
    <2>6. Len(smooth(g[k], ys[k + 1]).inSample) = k + 1
      <3>1. g[k] \in Fit
        BY <2>3 DEF Learned
      <3> QED
        BY <2>3, <2>4, <3>1, SmoothFits
    <2> QED
      BY <2>2, <2>5, <2>6
  <1> HIDE DEF Good
  <1>10. Nat \subseteq P
    <2>1. 0 \in P /\ \A k \in Nat : k \in P => k + 1 \in P
      BY <1>8, <1>9
    <2> HIDE DEF P
    <2> QED
      BY <2>1, NatsReached
  <1>11. Learned(g[n], season, mean)
    <2>1. Good(n)
      BY <1>0, <1>10
    <2> QED
      BY <1>0, <2>1 DEF Good
  <1> QED
    BY <1>1, <1>s, <1>11 DEF season, mean

-----------------------------------------------------------------------------
(* The forecast that continues it.                                          *)

\* The history of a forecast, n days in the order of their dates.
Daily(history, n) ==
  /\ n \in Nat /\ history = [i \in 1..n |-> history[i]]
  /\ \A i \in 1..n : history[i].key \in Int /\ history[i].cost_usd \in Int
  /\ \A i, j \in 1..n : i < j => history[i].key < history[j].key

\* Two sequences, one after the other.
LEMMA Joined ==
  ASSUME NEW m \in Nat, NEW k \in Nat, NEW f, f = [i \in 1..m |-> f[i]],
         NEW g, g = [i \in 1..k |-> g[i]]
  PROVE  /\ DOMAIN (f \o g) = 1..(m + k)
         /\ \A i \in 1..m : (f \o g)[i] = f[i]
         /\ \A i \in 1..k : (f \o g)[m + i] = g[i]
  <1> DEFINE T == {f[i] : i \in 1..m} \cup {g[i] : i \in 1..k}
  <1>1. f \in [1..m -> T] /\ g \in [1..k -> T]
    OBVIOUS
  <1> HIDE DEF T
  <1>2. f \in Seq(T) /\ g \in Seq(T) /\ Len(f) = m /\ Len(g) = k
    BY <1>1
  <1>3. f \o g \in Seq(T) /\ Len(f \o g) = m + k
    BY <1>2
  <1> QED
    BY <1>2, <1>3

\* The points of a forecast: the history, then the horizon.
LEMMA PointsAre ==
  ASSUME NEW history, NEW n, Daily(history, n), NEW ys, NEW lin, NEW fit
  PROVE  LET points == pointsOf(history, ys, Horizon, lin, <<fit>>)
         IN  /\ DOMAIN points = 1..(n + Horizon)
             /\ \A i \in 1..n : points[i].date = history[i].key /\ points[i].actual = <<ys[i]>>
             /\ \A h \in 1..Horizon :
                  /\ points[n + h].date = history[n].key + h
                  /\ points[n + h].actual = <<>>
                  /\ points[n + h].seasonal
                       = <<AtLeast0(fit.level + h * fit.trend + fit.seasonals[((n + h - 1) % Season) + 1])>>
  <1> DEFINE f == [i \in 1..n |->
               [date |-> history[i].key, actual |-> <<ys[i]>>, linear |-> AtLeast0(lin[i - 1]),
                seasonal |-> <<AtLeast0(fit.inSample[i])>>]]
             g == [h \in 1..Horizon |->
               [date |-> history[n].key + h, actual |-> <<>>, linear |-> AtLeast0(lin[n - 1 + h]),
                seasonal |-> <<AtLeast0(fit.level + h * fit.trend
                                        + fit.seasonals[((n + h - 1) % Season) + 1])>>]]
  <1>1. n \in Nat /\ Horizon \in Nat /\ Len(history) = n
    BY ForecastAssumption DEF Daily
  <1>2. pointsOf(history, ys, Horizon, lin, <<fit>>) = f \o g
    <2>1. <<fit>> # <<>> /\ <<fit>>[1] = fit
      OBVIOUS
    <2> QED
      BY <1>1, <2>1 DEF pointsOf
  <1>3. /\ \A i \in 1..n : f[i].date = history[i].key /\ f[i].actual = <<ys[i]>>
        /\ \A h \in 1..Horizon :
             /\ g[h].date = history[n].key + h /\ g[h].actual = <<>>
             /\ g[h].seasonal
                  = <<AtLeast0(fit.level + h * fit.trend + fit.seasonals[((n + h - 1) % Season) + 1])>>
        /\ f = [i \in 1..n |-> f[i]] /\ g = [h \in 1..Horizon |-> g[h]]
    OBVIOUS
  <1> HIDE DEF f, g
  <1>4. /\ DOMAIN (f \o g) = 1..(n + Horizon)
        /\ \A i \in 1..n : (f \o g)[i] = f[i]
        /\ \A h \in 1..Horizon : (f \o g)[n + h] = g[h]
    BY <1>1, <1>3, Joined
  <1> QED
    BY <1>2, <1>3, <1>4, ZenonT(40)

\* A history without a missing day has each day at its place.
LEMMA DaysInPlace ==
  ASSUME NEW history, NEW n, Daily(history, n), n >= 1, history[n].key = history[1].key + n - 1
  PROVE  \A i \in 1..n : history[i].key = history[1].key + i - 1
  <1> DEFINE f == [i \in 1..n |-> history[i].key]
  <1>1. n \in Nat /\ \A i \in 1..n : f[i] \in Int /\ f[i] = history[i].key
    BY DEF Daily
  <1>2. \A i, j \in 1..n : i < j => f[i] < f[j]
    BY DEF Daily
  <1> HIDE DEF f
  <1>3. \A i, j \in 1..n : i <= j => f[j] >= f[i] + (j - i)
    BY <1>1, <1>2, FarApart
  <1>4. 1 \in 1..n /\ n \in 1..n
    BY <1>1
  <1>5. ASSUME NEW i \in 1..n
        PROVE  f[i] = f[1] + i - 1
    <2>1. f[i] >= f[1] + (i - 1) /\ f[n] >= f[i] + (n - i)
      BY <1>1, <1>3, <1>4
    <2>2. f[n] = f[1] + n - 1
      BY <1>1, <1>4
    <2> QED
      BY <1>1, <1>4, <2>1, <2>2
  <1> QED
    BY <1>1, <1>4, <1>5

\* What days are spent on is summed.
LEMMA SpentIs ==
  ASSUME NEW history, NEW ys, NEW D, NEW f, Summable(f, D), \A d \in D : f[d] = Spent(history, ys, d)
  PROVE  SpentIn(history, ys, D) = Sigma(f)
  <1> DEFINE Body(g) == [s \in SUBSET D |->
               IF s = {} THEN 0
               ELSE Spent(history, ys, CHOOSE x \in s : TRUE) + g[s \ {CHOOSE x \in s : TRUE}]]
  <1>1. SpentIn(history, ys, D) = (CHOOSE g : g = Body(g))[D]
    BY DEF SpentIn, MapThenSumSet, MapThenFoldSet
  <1>2. \A h : Body(h) = [t \in SUBSET D |-> Step(f, h, t)]
    <2> TAKE h
    <2>1. \A s \in SUBSET D : s # {} => (CHOOSE x \in s : TRUE) \in D
      OBVIOUS
    <2> QED
      BY <2>1 DEF Step, Pick
  <1> HIDE DEF Body
  <1>3. SpentIn(history, ys, D) = SumBy(f, D)
    BY <1>1, <1>2 DEF SumBy
  <1> QED
    BY <1>3, SumByIs

\* The place of a day after the first of a history that repeats, and what it spends.
LEMMA SpentOn ==
  ASSUME NEW history, NEW n, Daily(history, n), NEW ys, Repeating(ys, n), Repeats(history, ys),
         NEW i \in Nat, i # 0
  PROVE  LET season == Season1(ys)
             day == history[1].key + i - 1
         IN  /\ season[((i - 1) % Season) + 1] \in Int
             /\ i <= n => Spent(history, ys, day) = ys[i]
             /\ i > n => Spent(history, ys, day) = AtLeast0(season[((i - 1) % Season) + 1])
             /\ Spent(history, ys, day) \in Int
  <1> DEFINE season == Season1(ys)
             day == history[1].key + i - 1
             s == ((i - 1) % Season) + 1
  <1>0. Season \in Nat /\ Season > 0 /\ n \in Nat /\ n >= 2 * Season /\ ys \in [1..n -> Int]
    BY ForecastAssumption DEF Repeating
  <1>1. Len(history) = n /\ history[1].key \in Int /\ history[n].key = history[1].key + n - 1
    <2>1. Len(history) = n
      BY DEF Daily
    <2> QED
      BY <1>0, <2>1 DEF Daily, Repeats
  <1>2. day - history[1].key = i - 1
    BY <1>1
  <1>3. s \in 1..Season /\ season \in [1..Season -> Int] /\ ys[s] = season[s]
    <2>1. i - 1 \in Nat
      OBVIOUS
    <2> QED
      BY <2>1, PlaceIn, RepeatedDays DEF Season1
  <1>4. Spent(history, ys, day) = IF day <= history[n].key THEN season[s] ELSE AtLeast0(season[s])
    BY <1>1, <1>2, <1>3 DEF Spent
  <1>5. day <= history[n].key <=> i <= n
    BY <1>1, <1>0
  <1>6. i <= n => ys[i] = season[s]
    BY <1>0, RepeatedDays
  <1>7. \A x \in Int : AtLeast0(x) \in Int
    <2> TAKE x \in Int
    <2>1. \E z \in {0, x} : \A y \in {0, x} : z >= y
      OBVIOUS
    <2>2. Max({0, x}) \in {0, x}
      BY <2>1 DEF Max
    <2> QED
      BY <2>2 DEF AtLeast0
  <1> HIDE DEF season, s, day
  <1>8. i > n <=> ~(i <= n)
    BY <1>0
  <1> QED
    BY <1>3, <1>4, <1>5, <1>6, <1>7, <1>8 DEF season, s, day

\* The day at a place of the points of a forecast, and what the estimate adds of it.
DayAt(history, i) == history[1].key + i - 1

PlaceOf(i) == ((i - 1) % Season) + 1

Adds(point, days) ==
  IF point.date \in days THEN OrElse(point.actual, OrElse(point.seasonal, 0)) ELSE 0

Estimate(points, days) == Total([i \in DOMAIN points |-> Adds(points[i], days)])

\* The N points of a forecast say what is spent on the days from the first of the history.
Tells(points, history, ys, N) ==
  /\ N \in Nat /\ history[1].key \in Int /\ DOMAIN points = 1..N
  /\ \A i \in 1..N : /\ points[i].date = DayAt(history, i)
                     /\ Spent(history, ys, DayAt(history, i)) \in Int
                     /\ OrElse(points[i].actual, OrElse(points[i].seasonal, 0))
                          = Spent(history, ys, DayAt(history, i))

\* The sum over the points in some days is what is spent in those of the days it reaches.
LEMMA PointsSum ==
  ASSUME NEW history, NEW ys, NEW days, NEW N, NEW points, Tells(points, history, ys, N)
  PROVE  Estimate(points, days)
           = SpentIn(history, ys, days \cap history[1].key..DayAt(history, N))
  <1> DEFINE D == days \cap history[1].key..DayAt(history, N)
             A == {i \in 1..N : DayAt(history, i) \in days}
             B == (1..N) \ A
             f == [i \in 1..N |-> IF i \in A THEN Spent(history, ys, DayAt(history, i)) ELSE 0]
             s == [d \in D |-> Spent(history, ys, d)]
             h == [i \in A |-> DayAt(history, i)]
  <1>0. /\ N \in Nat /\ history[1].key \in Int /\ DOMAIN points = 1..N
        /\ \A i \in 1..N : /\ points[i].date = DayAt(history, i)
                           /\ Spent(history, ys, DayAt(history, i)) \in Int
                           /\ OrElse(points[i].actual, OrElse(points[i].seasonal, 0))
                                = Spent(history, ys, DayAt(history, i))
    BY DEF Tells
  <1> USE <1>0
  <1>1. [i \in DOMAIN points |-> Adds(points[i], days)] = f
    BY DEF Adds
  <1>2. f \in [1..N -> Int]
    OBVIOUS
  <1>3. \A i \in 1..N : DayAt(history, i) \in Int
    BY DEF DayAt
  <1>4. Onto(h, A, D)
    <2>1. ASSUME NEW i \in A PROVE h[i] \in D
      BY <1>3 DEF DayAt
    <2>2. \A i, j \in A : h[i] = h[j] => i = j
      BY DEF DayAt
    <2>3. ASSUME NEW d \in D PROVE \E i \in A : h[i] = d
      <3> DEFINE i == d - history[1].key + 1
      <3>1. i \in 1..N /\ DayAt(history, i) = d
        BY DEF DayAt
      <3>2. i \in A
        BY <3>1
      <3> QED
        BY <3>1, <3>2
    <2> QED
      BY <2>1, <2>2, <2>3 DEF Onto
  <1>5. IsFiniteSet(A) /\ IsFiniteSet(B) /\ A \in SUBSET (1..N) /\ B \in SUBSET (1..N) /\ A \cap B = {}
        /\ A \cup B = 1..N
    <2>1. IsFiniteSet(1..N) /\ A \in SUBSET (1..N) /\ B \in SUBSET (1..N)
      BY FS_Interval
    <2>2. IsFiniteSet(A) /\ IsFiniteSet(B)
      BY <2>1, FS_Subset
    <2> QED
      BY <2>1, <2>2
  <1>6. Summable(s, D)
    <2>1. ASSUME NEW d \in D PROVE s[d] \in Int
      <3>1. PICK i \in A : h[i] = d
        BY <1>4 DEF Onto
      <3> QED
        BY <3>1
    <2>2. IsFiniteSet(history[1].key..DayAt(history, N))
      <3>1. DayAt(history, N) \in Int
        BY DEF DayAt
      <3> QED
        BY <3>1, FS_Interval
    <2>3. IsFiniteSet(D)
      BY <2>2, FS_Subset
    <2> QED
      BY <2>1, <2>3 DEF Summable
  <1>7. SpentIn(history, ys, D) = Sigma(s)
    <2>1. \A d \in D : s[d] = Spent(history, ys, d)
      OBVIOUS
    <2> HIDE DEF s, D
    <2> QED
      BY <1>6, <2>1, SpentIs
  <1>8. Restrict(f, A) = [i \in A |-> s[h[i]]]
    <2>1. \A i \in A : h[i] \in D
      BY <1>4 DEF Onto
    <2>2. \A i \in A : f[i] = s[h[i]]
      BY <2>1
    <2> QED
      BY <1>5, <2>2 DEF Restrict
  <1>9. Restrict(f, B) = [i \in B |-> 0]
    BY <1>5 DEF Restrict
  <1>10. Restrict(f, A \cup B) = f
    BY <1>2, <1>5 DEF Restrict
  <1> HIDE DEF D, A, B, f, s, h
  <1>11. Summable(f, 1..N) /\ Total(f) = Sigma(f)
    BY <1>2, TotalIs
  <1>12. Sigma(f) = Sigma(Restrict(f, A)) + Sigma(Restrict(f, B))
    BY <1>5, <1>10, <1>11, SigmaSplits
  <1>13. Sigma(Restrict(f, B)) = 0
    <2>0. IsFiniteSet(B) /\ 0 \in Int
      BY <1>5
    <2>1. Sigma([i \in B |-> 0]) = Cardinality(B) * 0
      BY ONLY <2>0, SigmaConstant
    <2>2. Cardinality(B) \in Nat
      BY <1>5, FS_CardinalityType
    <2> QED
      BY <1>9, <2>1, <2>2
  <1>14. Sigma(Restrict(f, A)) = Sigma(s)
    BY <1>4, <1>5, <1>6, <1>8, Reindex
  <1>15. Sigma(s) \in Int
    BY <1>6, SigmaType
  <1>16. Estimate(points, days) = Total(f)
    BY <1>1 DEF Estimate
  <1>17. Sigma(f) = Sigma(s)
    BY <1>12, <1>13, <1>14, <1>15
  <1>18. Estimate(points, days) = SpentIn(history, ys, D)
    BY <1>7, <1>11, <1>16, <1>17
  <1> QED
    BY <1>18 DEF D

\* A history that repeats is continued.
LEMMA DailyContinues ==
  ASSUME NEW history, NEW n, Daily(history, n)
  PROVE  Continues(history, [i \in DOMAIN history |-> history[i].cost_usd],
                   buildForecast(history, Horizon))
  <1> DEFINE ys == [i \in DOMAIN history |-> history[i].cost_usd]
             result == buildForecast(history, Horizon)
             points == result.points
             days == toStartOfMonth(today)..monthEnd
             season == Season1(ys)
  <1> SUFFICES ASSUME Repeats(history, ys)
               PROVE  /\ \A h \in 1..Horizon :
                           /\ points[n + h].date = history[n].key + h
                           /\ points[n + h].seasonal = <<Spent(history, ys, history[n].key + h)>>
                      /\ result.monthEndEstimateSeasonal
                           = <<SpentIn(history, ys,
                                       days \cap history[1].key..(history[n].key + Horizon))>>
    <2>1. Len(history) = n
      BY DEF Daily
    <2> HIDE DEF result, days, ys
    <2> QED
      BY <2>1 DEF Continues, result, days, ys
  <1>0. Season \in Nat /\ Season > 0 /\ Horizon \in Nat
    BY ForecastAssumption
  <1>1. Len(history) = n /\ DOMAIN history = 1..n /\ n \in Nat
    BY DEF Daily
  <1>2. n >= 2 * Season /\ n >= 1 /\ history # <<>> /\ 1 \in 1..n
        /\ history[n].key = history[1].key + n - 1
    BY <1>0, <1>1 DEF Repeats
  <1>3. Repeating(ys, n)
    <2>1. ys \in [1..n -> Int]
      BY <1>1 DEF Daily
    <2> QED
      BY <1>1, <2>1 DEF Repeating, Repeats
  <1>4. PICK fit : holtWinters(ys) = <<fit>> /\ Learned(fit, season, Mean(season))
    BY <1>3, HoltWintersLearns
  <1>5. points = pointsOf(history, ys, Horizon, linearFit(ys), <<fit>>)
    BY <1>2, <1>4 DEF buildForecast, Result, ForecastPoints
  <1>6. result.monthEndEstimateSeasonal = <<Estimate(points, days)>>
    BY <1>1, <1>2 DEF buildForecast, Result, MonthTotal, Adds, Estimate
  <1> HIDE DEF ys, result, season
  <1>7. /\ DOMAIN points = 1..(n + Horizon)
        /\ \A i \in 1..n : points[i].date = history[i].key /\ points[i].actual = <<ys[i]>>
        /\ \A h \in 1..Horizon :
             /\ points[n + h].date = history[n].key + h
             /\ points[n + h].actual = <<>>
             /\ points[n + h].seasonal
                  = <<AtLeast0(fit.level + h * fit.trend + fit.seasonals[((n + h - 1) % Season) + 1])>>
    BY <1>5, PointsAre
  <1> HIDE DEF points, days
  <1>8. \A i \in Nat : i # 0 =>
          /\ season[((i - 1) % Season) + 1] \in Int
          /\ i <= n => Spent(history, ys, DayAt(history, i)) = ys[i]
          /\ i > n => Spent(history, ys, DayAt(history, i)) = AtLeast0(season[((i - 1) % Season) + 1])
          /\ Spent(history, ys, DayAt(history, i)) \in Int
    BY <1>3, SpentOn DEF DayAt, season
  <1>9. history[1].key \in Int
    BY <1>2 DEF Daily
  <1>10. ASSUME NEW h \in 1..Horizon
         PROVE  /\ DayAt(history, n + h) = history[n].key + h
                /\ points[n + h].seasonal = <<Spent(history, ys, DayAt(history, n + h))>>
    <2> DEFINE s == ((n + h - 1) % Season) + 1
    <2>1. n + h \in Nat /\ n + h # 0 /\ n + h > n /\ n + h - 1 \in Nat /\ h \in Int
      BY <1>0, <1>1
    <2>2. s \in 1..Season
      BY <2>1, PlaceIn
    <2>3. /\ season[s] \in Int
          /\ Spent(history, ys, DayAt(history, n + h)) = AtLeast0(season[s])
      <3>1. \A i \in Nat : i # 0 /\ i > n =>
              /\ season[PlaceOf(i)] \in Int
              /\ Spent(history, ys, DayAt(history, i)) = AtLeast0(season[PlaceOf(i)])
        BY <1>8 DEF PlaceOf
      <3>2. /\ season[PlaceOf(n + h)] \in Int
            /\ Spent(history, ys, DayAt(history, n + h)) = AtLeast0(season[PlaceOf(n + h)])
        BY <2>1, <3>1
      <3>3. s = PlaceOf(n + h)
        <4> DEFINE a == n + h - 1
                   b == (n + h) - 1
        <4>1. a = b
          BY <1>1, <2>1
        <4> HIDE DEF a, b
        <4>2. (a % Season) + 1 = (b % Season) + 1
          BY <4>1
        <4> QED
          BY <4>2 DEF PlaceOf, a, b
      <3> HIDE DEF s
      <3> QED
        BY <3>2, <3>3
    <2>4. points[n + h].seasonal = <<AtLeast0(fit.level + h * fit.trend + fit.seasonals[s])>>
      BY <1>7
    <2> HIDE DEF s
    <2>5. fit.level + h * fit.trend + fit.seasonals[s] = season[s]
      <3>1. Mean(season) \in Int
        BY <1>3, RepeatedDays, MeanType DEF season
      <3>2. fit.level = Mean(season) /\ fit.trend = 0 /\ fit.seasonals[s] = season[s] - Mean(season)
        BY <1>4, <2>2 DEF Learned
      <3> QED
        BY <2>1, <2>3, <3>1, <3>2
    <2>6. DayAt(history, n + h) = history[n].key + h
      BY <1>1, <1>2, <1>9, <2>1 DEF DayAt
    <2> QED
      BY <2>3, <2>4, <2>5, <2>6
  <1>11. ASSUME NEW i \in 1..(n + Horizon)
         PROVE  /\ points[i].date = DayAt(history, i)
                /\ Spent(history, ys, DayAt(history, i)) \in Int
                /\ OrElse(points[i].actual, OrElse(points[i].seasonal, 0))
                     = Spent(history, ys, DayAt(history, i))
    <2>1. i \in Nat /\ i # 0
      BY <1>0, <1>1
    <2>2. CASE i <= n
      <3>1. i \in 1..n
        BY <1>1, <2>1, <2>2
      <3>2. points[i].date = DayAt(history, i)
        BY <1>2, <1>7, <3>1, DaysInPlace DEF DayAt
      <3>3. OrElse(points[i].actual, OrElse(points[i].seasonal, 0)) = ys[i]
        <4>1. points[i].actual = <<ys[i]>> /\ <<ys[i]>> # <<>> /\ <<ys[i]>>[1] = ys[i]
          BY <1>7, <3>1
        <4> QED
          BY <4>1 DEF OrElse
      <3> QED
        BY <1>8, <2>1, <2>2, <3>2, <3>3
    <2>3. CASE ~(i <= n)
      <3> DEFINE h == i - n
      <3>1. h \in 1..Horizon /\ n + h = i
        BY <1>0, <1>1, <2>1, <2>3
      <3> HIDE DEF h
      <3>2. /\ points[i].date = DayAt(history, i) /\ points[i].actual = <<>>
            /\ points[i].seasonal = <<Spent(history, ys, DayAt(history, i))>>
        BY <1>7, <1>10, <3>1
      <3>3. OrElse(points[i].actual, OrElse(points[i].seasonal, 0))
              = Spent(history, ys, DayAt(history, i))
        BY <3>2 DEF OrElse
      <3> QED
        BY <1>8, <2>1, <3>2, <3>3
    <2> QED
      BY <2>2, <2>3
  <1>12. Estimate(points, days)
           = SpentIn(history, ys, days \cap history[1].key..DayAt(history, n + Horizon))
    <2>1. Tells(points, history, ys, n + Horizon)
      BY <1>0, <1>1, <1>7, <1>9, <1>11 DEF Tells
    <2> QED
      BY <2>1, PointsSum
  <1>13. DayAt(history, n + Horizon) = history[n].key + Horizon
    BY <1>0, <1>1, <1>2, <1>9 DEF DayAt
  <1> QED
    BY <1>6, <1>7, <1>10, <1>12, <1>13

\* No two groups have one key.
LEMMA GroupKeysDiffer ==
  ASSUME NEW S, NEW key, NEW g \in GroupsOfEvents(S, key), NEW h \in GroupsOfEvents(S, key),
         g.key = h.key
  PROVE  g = h
  <1>1. PICK k \in {key[e] : e \in S} :
          g = [key |-> k, cost_usd |-> Cost({e \in S : key[e] = k}),
               requests |-> Cardinality({e \in S : key[e] = k})]
    BY DEF GroupsOfEvents
  <1>2. PICK l \in {key[e] : e \in S} :
          h = [key |-> l, cost_usd |-> Cost({e \in S : key[e] = l}),
               requests |-> Cardinality({e \in S : key[e] = l})]
    BY DEF GroupsOfEvents
  <1>3. k = l
    BY <1>1, <1>2
  <1> QED
    BY <1>1, <1>2, <1>3

\* The daily series is in the order of its days, each of them once.
LEMMA SpendDaily ==
  ASSUME TablesOK, NEW org, NEW from, NEW to
  PROVE  \E n : Daily(getDailySpend(org, from, to), n)
  <1> DEFINE rows == Rows(cost_daily, org, from, to)
             S    == Events(org, from, to)
             G    == GroupsOfEvents(S, DateOf)
             s    == ByDay(G)
  <1>1. getDailySpend(org, from, to) = ByDay(GroupBy(rows, toDate))
    BY SpendRead DEF SpendOf
  <1>2. Hold(rows, S, DateOf)
    BY DailyRange, KeysDecide
  <1> HIDE DEF rows, S
  <1>3. S \in SUBSET Event
    BY <1>2, HeldGroups
  <1>4. GroupBy(rows, toDate) = G
    BY <1>2, HeldGroups, GroupedBy DEF Hold
  <1>5. \A g \in G : g.key \in Int /\ g.cost_usd \in Int
    <2>1. \A e \in S : DateOf[e] \in Int
      BY <1>3, Days DEF DateOf
    <2>2. \A g \in G : \E e \in S : g.key = DateOf[e]
      BY GroupKeys
    <2>3. \A g \in G : g.cost_usd \in Int
      BY <1>3, GroupFields
    <2> HIDE DEF G
    <2> QED
      BY <2>1, <2>2, <2>3
  <1>6. IsFiniteSet(G)
    BY <1>3, GroupSums
  <1>7. \A g, h \in G : g.key = h.key => g = h
    BY GroupKeysDiffer
  <1> HIDE DEF G
  <1>8. /\ s \in Seq(G) /\ Len(s) \in Nat
        /\ \A i, j \in 1..Len(s) : i < j => s[i].key < s[j].key
    BY <1>5, <1>6, <1>7, ByDayAscends
  <1> HIDE DEF s
  <1>9. s = [i \in 1..Len(s) |-> s[i]] /\ \A i \in 1..Len(s) : s[i] \in G
    BY <1>8
  <1>10. Daily(s, Len(s))
    BY <1>5, <1>8, <1>9 DEF Daily
  <1> QED
    BY <1>1, <1>4, <1>10 DEF s

\* So every forecast continues a history that repeats.
LEMMA SameFollows == TablesOK => ForecastFollows
  <1> SUFFICES ASSUME TablesOK, NEW org \in Orgs
               PROVE  LET history == getDailyTotalsForForecast(org, History)
                      IN  Continues(history, [i \in DOMAIN history |-> history[i].cost_usd],
                                    buildForecast(history, Horizon))
    BY DEF ForecastFollows
  <1> DEFINE history == getDailyTotalsForForecast(org, History)
  <1>1. \E n : Daily(history, n)
    BY SpendDaily DEF getDailyTotalsForForecast
  <1> HIDE DEF history
  <1>2. Continues(history, [i \in DOMAIN history |-> history[i].cost_usd],
                  buildForecast(history, Horizon))
    BY <1>1, DailyContinues
  <1> QED
    BY <1>2 DEF history

-----------------------------------------------------------------------------
(* The theorems.                                                            *)

\* The rows in front of the last page are as many as were counted.
LEMMA LastPage ==
  ASSUME NEW total \in Nat, NEW page \in Nat, page >= totalPages(total)
  PROVE  page * PageSize >= total
  <1> DEFINE q == (total + PageSize - 1) \div PageSize
  <1>1. PageSize \in Nat \ {0}
    BY DashboardAssumption
  <1>2. q \in Int /\ total <= q * PageSize
    BY <1>1
  <1> HIDE DEF q
  <1>3. totalPages(total) = Max({1, q})
    BY DEF totalPages, q
  <1>4. q <= page
    BY <1>2, <1>3 DEF Max
  <1>5. q * PageSize <= page * PageSize
    BY <1>1, <1>2, <1>4
  <1> QED
    BY <1>1, <1>2, <1>5

\* Of some events one has none of them before it.
LEMMA Newest ==
  ASSUME NEW U \in SUBSET Event, U # {}
  PROVE  \E u \in U : \A f \in U : ~(f.ts > u.ts)
  <1> DEFINE T == {Place(Event, u) : u \in U}
  <1>1. \A e \in Event : IsFiniteSet(Newer(Event, e)) /\ Place(Event, e) \in Nat
    BY EventAssumption, FS_Subset, FS_CardinalityType DEF Place, Newer
  <1>2. T \subseteq Nat /\ T # {}
    BY <1>1
  <1>3. PICK n \in T : \A m \in T : <<m, n>> \notin OpToRel(<, Nat)
    <2> HIDE DEF T
    <2> QED
      BY <1>2, NatLessThanWellFounded, WFMin
  <1>4. \A m \in T : ~(m < n)
    BY <1>2, <1>3 DEF OpToRel
  <1>5. PICK u \in U : n = Place(Event, u)
    BY <1>3
  <1>6. ASSUME NEW f \in U, f.ts > u.ts
        PROVE  FALSE
    <2>1. Newer(Event, f) \subseteq Newer(Event, u) /\ f \in Newer(Event, u) /\ f \notin Newer(Event, f)
      BY <1>6, EventAssumption DEF Newer
    <2>2. Place(Event, f) < Place(Event, u)
      <3>1. Place(Event, f) <= Place(Event, u) /\ Place(Event, f) # Place(Event, u)
        BY <1>1, <2>1, FS_Subset DEF Place
      <3> QED
        BY <1>1, <3>1
    <2> QED
      BY <1>4, <1>5, <2>2
  <1> QED
    BY <1>6

\* What a walk has not seen of the last page's list, and is alone in its millisecond, was
\* not counted for it: the events of it are as few as came after the count.
LEMMA WalkEnds ==
  ASSUME BrowserTypeOK, WalkInv
  PROVE  WalkShowsAll
  <1> DEFINE v == view[1]
             M == v.matching
             C == v.counted
             U == (walk.toSee \cap Alone(M)) \ walk.seen
  <1>1. SUFFICES ASSUME view # <<>>, ~v.failed, v.page >= totalPages(v.total)
                 PROVE  Cardinality(U) <= Cardinality(M \ C)
    BY DEF WalkShowsAll
  <1>2. v \in View
    BY <1>1, MaybeOne DEF BrowserTypeOK
  <1>3. /\ M \subseteq Event /\ C \subseteq Event /\ v.page \in Nat /\ v.total \in Nat
        /\ U \subseteq M
    BY <1>2 DEF View, Alone
  <1>4. \A S \in SUBSET Event : IsFiniteSet(S) /\ Cardinality(S) \in Nat
    BY EventAssumption, FS_Subset, FS_CardinalityType
  <1>5. v.total = Cardinality(C)
    BY <1>1 DEF WalkInv, Counted
  <1> HIDE DEF v, M, C, U
  <1>6. CASE U = {}
    <2>1. Cardinality(U) = 0 /\ Cardinality(M \ C) \in Nat
      BY <1>3, <1>4, <1>6, FS_EmptySet
    <2> QED
      BY <2>1
  <1>7. CASE U # {}
    <2>1. Chain(v)
      BY <1>1, <1>7 DEF WalkInv, U, v
    <2>2. PICK u \in U : \A f \in U : ~(f.ts > u.ts)
      BY <1>3, <1>7, Newest
    <2> DEFINE N == Newer(M, u)
    <2>3. N \subseteq M /\ N \cap U = {}
      BY <2>2 DEF Newer
    <2>4. Cardinality(N) >= Cardinality(C)
      <3>1. ~(Place(M, u) < v.page * PageSize)
        BY <1>3, <2>1 DEF Chain, U, M
      <3>2. v.page * PageSize >= Cardinality(C)
        BY <1>1, <1>3, <1>5, LastPage
      <3>3. v.page * PageSize \in Nat
        BY <1>3, DashboardAssumption
      <3>4. Cardinality(N) \in Nat /\ Cardinality(C) \in Nat
        BY <1>3, <1>4, <2>3
      <3> QED
        BY <3>1, <3>2, <3>3, <3>4 DEF Place
    <2> HIDE DEF N
    <2>5. Cardinality(U) + Cardinality(N) <= Cardinality(M)
      <3>1. /\ IsFiniteSet(U) /\ IsFiniteSet(N) /\ IsFiniteSet(M)
            /\ Cardinality(U) \in Nat /\ Cardinality(N) \in Nat /\ Cardinality(M) \in Nat
        BY <1>3, <1>4, <2>3
      <3>2. Cardinality(U \cup N) = Cardinality(U) + Cardinality(N) - Cardinality(U \cap N)
        BY <3>1, FS_Union
      <3>3. U \cap N = {}
        BY <2>3
      <3>4. Cardinality(U \cap N) = 0
        BY <3>3, FS_EmptySet
      <3>5. Cardinality(U \cup N) <= Cardinality(M)
        BY <1>3, <2>3, <3>1, FS_Subset
      <3> QED
        BY <3>1, <3>2, <3>4, <3>5
    <2>6. Cardinality(M \ C) >= Cardinality(M) - Cardinality(C)
      <3>1. Cardinality(M \ C) = Cardinality(M) - Cardinality(M \cap C)
        BY <1>3, <1>4, FS_Difference
      <3>2. Cardinality(M \cap C) <= Cardinality(C)
        BY <1>3, <1>4, FS_Subset
      <3>3. /\ Cardinality(M \cap C) \in Nat /\ Cardinality(M) \in Nat /\ Cardinality(C) \in Nat
        BY <1>3, <1>4
      <3> QED
        BY <3>1, <3>2, <3>3
    <2>7. /\ Cardinality(U) \in Nat /\ Cardinality(N) \in Nat /\ Cardinality(M) \in Nat
          /\ Cardinality(C) \in Nat /\ Cardinality(M \ C) \in Nat
      BY <1>3, <1>4, <2>3
    <2> QED
      BY <2>4, <2>5, <2>6, <2>7
  <1> QED
    BY <1>6, <1>7

\* The invariant.
THEOREM DashboardInductive == Spec => []DashInv
  BY InitDash, StepDash, PTL DEF Spec

\* However blocks come in and parts are merged, the three rollups hold the same events:
\* each of them once, in one row of its key, and every raw row among them.
THEOREM DashboardTablesAgree == Spec => []TablesOK
  <1>1. DashInv => TablesOK
    BY DEF DashInv
  <1> QED
    BY <1>1, DashboardInductive, PTL

\* With no navigation pending, the form shows the filters of the list below it, unless
\* something typed was not sent.
THEOREM DashboardFormMatchesUrl == Spec => []FormMatchesUrl
  <1>1. DashInv => FormMatchesUrl
    BY DEF DashInv, FormInv, FormKept, Latest, FormMatchesUrl
  <1> QED
    BY <1>1, DashboardInductive, PTL

\* Whoever pages from the first to the last page of a list has seen every request that
\* was in it when page 1 was loaded, is in it still and shares its millisecond with no
\* other row of it, but for as many at the end as came between the count and the rows of
\* the last page; rows of one millisecond may come in any order, another at each query.
THEOREM DashboardWalkShowsAll == Spec => []WalkShowsAll
  <1>1. DashInv => WalkShowsAll
    BY WalkEnds DEF DashInv, FormInv
  <1> QED
    BY <1>1, DashboardInductive, PTL

\* No two bills were stamped alike, and none later than the clock.
THEOREM DashboardBills == Spec => []BillsOK
  BY InitBills, StepBills, PTL DEF Spec

\* ClickHouse merges when it likes, and no figure of Pages shows whether it has: each is
\* what it would be of the events apart and of the last bills.
THEOREM DashboardSamePages == Spec => []SamePages
  <1>1. DashInv => RollupsOK
    BY DEF DashInv, TablesOK, RollupsOK
  <1> QED
    BY <1>1, SameAllPages, DashboardInductive, DashboardBills, PTL

\* What the run compares in the states no browser has come to holds in all.
THEOREM DashboardMergesInvisible == Spec => []MergesInvisible
  <1>1. SamePages => MergesInvisible
    BY DEF MergesInvisible
  <1> QED
    BY <1>1, DashboardSamePages, PTL

\* No event is gone from the raw rows before it expired, whatever was inserted since.
THEOREM DashboardRaws == Spec => []RawsOK
  <1>1. Spec => []TablesOK
    BY DashboardTablesAgree
  <1> QED
    BY <1>1, InitRaws, StepRaws, PTL DEF Spec

\* Wherever a cost is shown it is the same: the overview, its daily series and tables,
\* every breakdown, of the rollups and of the raw rows, and the prompts agree on the
\* events of the range, for each organisation alone.
THEOREM DashboardRollupsAgree == Spec => []RollupsAgree
  BY SameFigures, DashboardTablesAgree, DashboardRaws, PTL

\* What the run compares of this in the states no browser has come to holds in all.
THEOREM DashboardUnreadRollups == Spec => []UnreadRollupsAgree
  <1>1. RollupsAgree => UnreadRollupsAgree
    BY DEF UnreadRollupsAgree
  <1> QED
    BY <1>1, DashboardRollupsAgree, PTL

\* The tiles and the daily chart of the reconciliation differ by exactly what was
\* tracked, and billed, of the providers that were billed once and of which the bills
\* in the range come to nothing, or less.
THEOREM DashboardReconAgree == Spec => []ReconAgree
  BY SameReconciles, DashboardTablesAgree, DashboardBills, PTL

\* What the run compares of this in the states no browser has come to holds in all.
THEOREM DashboardUnreadRecon == Spec => []UnreadReconAgree
  <1>1. ReconAgree => UnreadReconAgree
    BY DEF UnreadReconAgree
  <1> QED
    BY <1>1, DashboardReconAgree, PTL

\* A daily history that repeats its season is projected as it was: each day of the
\* horizon as its day of the season, none of them twice or left out, and the month-end
\* estimate is the sum over the days of the month that the history or the horizon has.
THEOREM DashboardForecastFollows == Spec => []ForecastFollows
  BY SameFollows, DashboardTablesAgree, PTL

\* What the run compares of this in the states no browser has come to holds in all.
THEOREM DashboardUnreadForecast == Spec => []UnreadForecastFollows
  <1>1. ForecastFollows => UnreadForecastFollows
    BY DEF UnreadForecastFollows
  <1> QED
    BY <1>1, DashboardForecastFollows, PTL
=============================================================================
