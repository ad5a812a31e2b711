---------------------------- MODULE MCDashboard -----------------------------
(***************************************************************************)
(* Six requests of one organisation and one of another, on four days that  *)
(* run into the next month; two bills of a day and a credit.               *)
(***************************************************************************)
EXTENDS Merges

Row(ts, model, feature, version, price) ==
  [org |-> "acme", ts |-> ts, provider |-> "openai", model |-> model,
   customer |-> "ann", feature |-> feature, team |-> "", prompt |-> "p1",
   version |-> version, tags |-> << >>, cost |-> price, tokens |-> 2 * price,
   trace |-> "", status |-> "ok"]

(* Days 1 to 4, of the costs 2, 4, 2, 4; two of one key and one timestamp.  *)
MCEvent ==
  {Row(110, "mini", "chat", "v1", 2),
   Row(211, "mini", "chat", "v1", 1), Row(211, "mini", "chat", "v1", 3),
   Row(399, "opus", "sum", "v2", 2),
   [Row(430, "mini", "sum", "", 4) EXCEPT !.tags = [pr |-> "42"]],
   [Row(420, "mini", "chat", "v1", 7) EXCEPT !.org = "umbrella", !.provider = "groq"]}

MCBill ==
  {[org |-> "acme", provider |-> "openai", date |-> 1, billed_usd |-> 5],
   [org |-> "acme", provider |-> "openai", date |-> 1, billed_usd |-> 3],
   [org |-> "acme", provider |-> "anthropic", date |-> 4, billed_usd |-> -4]}

MCMonthDays == <<2, 4, 3>>

MCRangeDays == "7" :> 2 @@ "30" :> 4 @@ "90" :> 5

MCTyped == {<<"feature", "chat">>, <<"feature", "">>, <<"range", "7">>}

(* The two halves of the instance: a store with its merges, bills and days,  *)
(* and no reader; and readers over a store that only gains rows and a day,   *)
(* or, once a form was typed into or sent, over one that is full.            *)
Reading == visits > 0

Single(table) == \A row \in table : Cardinality(row) = 1

Filtering ==
  \/ unsent \/ form # Initial(Bare)
  \/ \E u \in {url} \cup {l.to : l \in ToSet(load)} \cup {h.url : h \in ToSet(entries)} :
       u.filters # Bare.filters

HalfAtATime ==
  /\ Reading => /\ synced = 0 /\ today <= FirstDay + 1
                /\ {110, 211, 399, 420} \subseteq {e.ts : e \in events}
                /\ Single(cost_daily) /\ Single(cost_attr_hourly)
                /\ Single(prompt_version_daily)
  /\ Filtering => events = MCEvent /\ today = FirstDay
=============================================================================
