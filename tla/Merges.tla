------------------------------- MODULE Merges -------------------------------
(***************************************************************************)
(* The dashboard beside itself over the same events and bills, had they    *)
(* not been grouped or merged: tables that keep each event apart, and only *)
(* the last of the bills of a day.                                         *)
(***************************************************************************)
EXTENDS Dashboard

Apart(table) == {{e} : e \in UNION table}

LastBills ==
  {b \in billed_daily : \A c \in billed_daily :
     BilledKey(c.bill) = BilledKey(b.bill) => c.synced_at <= b.synced_at}

Unmerged == INSTANCE Dashboard WITH
  cost_daily <- Apart(cost_daily),
  cost_attr_hourly <- Apart(cost_attr_hourly),
  prompt_version_daily <- Apart(prompt_version_daily),
  billed_daily <- LastBills

(* ClickHouse merges when it likes, and no figure of Pages shows whether it  *)
(* has: the rollups are summed again by every query that reads them, and a   *)
(* bill that was synced again counts once, as last synced, replaced already  *)
(* or not.                                                                   *)
SamePages == \A raw \in DOMAIN RangeDays : Pages(raw) = Unmerged!Pages(raw)

(* The pages compared depend on the tables alone, and a browser changes no   *)
(* table: the instances compare them in the states no browser has come to.   *)
MergesInvisible == visits = 0 => SamePages
=============================================================================
