------------------------------- MODULE Alertd -------------------------------
(***************************************************************************)
(* The alert worker (services/alertd): a single loop that loads the        *)
(* enabled rules, evaluates each against the spend in ClickHouse, delivers *)
(* a fired alert to the targets of the rule with bounded retries, and      *)
(* persists last_fired_at, on which the cooldown rests.                    *)
(*                                                                         *)
(* Postgres, ClickHouse and the webhook receivers may fail at every call;  *)
(* SIGTERM cancels the context of a cycle in progress; the process may be  *)
(* killed and is started again.                                            *)
(***************************************************************************)
EXTENDS Integers, Sequences, FiniteSets

CONSTANTS
  Rule,        (* the rules in alert_rules                                 *)
  RuleId,      (* the id of each, its primary key                          *)
  Target,      (* rows of alert_targets                                    *)
  TargetsOf,   (* the targets of each rule, in the order of the query      *)
  BadTarget,   (* targets of an unknown kind, or without a usable url      *)
  BadRule,     (* rules whose config toEvalRule refuses                    *)
  Garbled,     (* rules whose scope or config is not a JSON object         *)
  Cooldown,    (* cooldown_seconds of each rule                            *)
  Attempts,    (* attempts of a delivery                                   *)
  MaxTime      (* bound on the clock                                       *)

ASSUME AlertdAssumption ==
  /\ IsFiniteSet(Rule)
  /\ RuleId \in [Rule -> Nat]
  /\ \A q, r \in Rule : RuleId[q] = RuleId[r] => q = r
  /\ TargetsOf \in [Rule -> Seq(Target)]
  /\ BadTarget \subseteq Target /\ BadRule \subseteq Rule /\ Garbled \subseteq Rule
  /\ Cooldown \in [Rule -> Nat]
  /\ Attempts \in Nat \ {0}
  /\ MaxTime \in Nat

Never == -1

VARIABLES     \* the world
  now,        \* the clock
  enabled,    \* alert_rules.enabled
  lastFired,  \* alert_rules.last_fired_at, Never when NULL
  over        \* rules whose spend is over the threshold

VARIABLES     \* the worker
  pc,         \* where the process stands
  sig,        \* a signal was received: sigCtx is done
  loaded,     \* the rules of this cycle, in order
  loadedLast, \* their LastFiredAt
  cycleNow,   \* the clock read at the start of the cycle
  i, t,       \* indices of the loops over rules and targets
  attempt     \* attempts of the delivery in progress, the current one included

VARIABLES     \* history
  fired,      \* stamp of the latest alert of each rule
  unmarked,   \* rules whose latest alert is not in lastFired
  faulted,    \* those of them whose stamp a failure of Postgres or a kill excuses
  answered,   \* rules whose latest alert a target answered 2xx before any signal
  tried,      \* targets the alert in progress was delivered to, or failed for
  looked      \* rules this cycle has dealt with

world == <<now, enabled, over>>
cycle == <<loaded, loadedLast, cycleNow>>
history == <<fired, unmarked, faulted, answered>>
vars == <<world, lastFired, pc, sig, cycle, i, t, attempt, history, tried, looked>>

Init ==
  /\ now = 0
  /\ enabled \in SUBSET Rule
  /\ lastFired = [r \in Rule |-> Never]
  /\ over \in SUBSET (Rule \ Garbled)
  /\ pc = "load" /\ sig = FALSE
  /\ loaded = <<>> /\ loadedLast = lastFired /\ cycleNow = 0
  /\ i = 1 /\ t = 1 /\ attempt = 0
  /\ fired = [r \in Rule |-> Never]
  /\ unmarked = {} /\ faulted = {} /\ answered = {}
  /\ tried = {} /\ looked = {}

-----------------------------------------------------------------------------
(* The world.                                                              *)

TimePasses ==
  /\ now < MaxTime
  /\ now' = now + 1
  /\ UNCHANGED <<enabled, over, lastFired, pc, sig, cycle, i, t, attempt, history, tried, looked>>

\* A rule is switched on or off; spend crosses a threshold (a rule that does not
\* unmarshal has none), or a new day or month begins.
Toggle(r) ==
  /\ enabled' = (enabled \ {r}) \cup ({r} \ enabled)
  /\ UNCHANGED <<now, over, lastFired, pc, sig, cycle, i, t, attempt, history, tried, looked>>

SpendMoves(r) ==
  /\ r \notin Garbled
  /\ over' = (over \ {r}) \cup ({r} \ over)
  /\ UNCHANGED <<now, enabled, lastFired, pc, sig, cycle, i, t, attempt, history, tried, looked>>

Signal ==
  /\ pc # "down"
  /\ ~sig
  /\ sig' = TRUE
  /\ UNCHANGED <<world, lastFired, pc, cycle, i, t, attempt, history, tried, looked>>

-----------------------------------------------------------------------------
(* evaluateOnce                                                            *)

Tick ==
  /\ pc = "select"
  /\ pc' = "load"
  /\ UNCHANGED <<world, lastFired, sig, cycle, i, t, attempt, history, tried, looked>>

\* The rows of a query ORDER BY r.id: the one sequence of these rules.
ById(rules) ==
  {s \in [1..Cardinality(rules) -> rules] :
     \A j, k \in DOMAIN s : j < k => RuleId[s[j]] < RuleId[s[k]]}

\* LoadEnabledRules, then the clock is read, once for the cycle.  One rule that does
\* not unmarshal fails the load of all.
Load ==
  /\ pc = "load"
  /\ ~sig
  /\ enabled \cap Garbled = {}
  /\ loaded' \in ById(enabled)
  /\ loadedLast' = lastFired
  /\ cycleNow' = now
  /\ i' = 1
  /\ looked' = {}
  /\ pc' = "rule"
  /\ UNCHANGED <<world, lastFired, sig, t, attempt, history, tried>>

\* Fault: a failed load is tried again within the cycle.
LoadErr_Retries ==
  /\ pc = "load"
  /\ UNCHANGED vars

\* Postgres fails, the context is cancelled, or a row does not unmarshal.
LoadErr ==
  /\ pc = "load"
  /\ pc' = "select"
  /\ UNCHANGED <<world, lastFired, sig, cycle, i, t, attempt, history, tried, looked>>

EndCycle ==
  /\ pc = "rule"
  /\ i > Len(loaded)
  /\ pc' = "select"
  /\ UNCHANGED <<world, lastFired, sig, cycle, i, t, attempt, history, tried, looked>>

-----------------------------------------------------------------------------
(* evaluateRule                                                            *)

InCooldown(r) == loadedLast[r] # Never /\ cycleNow - loadedLast[r] < Cooldown[r]

NextRule == i' = i + 1 /\ looked' = looked \cup {loaded[i]} /\ pc' = "rule"

\* Fault: an error in one rule ends the cycle.
Skip_EndsCycle ==
  /\ pc = "rule"
  /\ i <= Len(loaded)
  /\ IF InCooldown(loaded[i]) THEN NextRule ELSE pc' = "select" /\ UNCHANGED <<i, looked>>
  /\ UNCHANGED <<world, lastFired, sig, cycle, t, attempt, history, tried>>

\* The rule is in cooldown, its config is refused, the query failed (as it does
\* once the context is cancelled), or it is not breached.
Skip ==
  /\ pc = "rule"
  /\ i <= Len(loaded)
  /\ NextRule
  /\ UNCHANGED <<world, lastFired, sig, cycle, t, attempt, history, tried>>

\* Fault: the cooldown is not looked at.
Fire_NoCooldown(r) ==
  /\ pc = "rule"
  /\ i <= Len(loaded) /\ loaded[i] = r
  /\ r \notin BadRule
  /\ ~sig
  /\ r \in over
  /\ fired' = [fired EXCEPT ![r] = cycleNow]
  /\ unmarked' = unmarked \cup {r}
  /\ faulted' = faulted \ {r}
  /\ answered' = answered \ {r}
  /\ t' = 1 /\ attempt' = 1 /\ tried' = {}
  /\ pc' = IF TargetsOf[r] = <<>> THEN "mark" ELSE "post"
  /\ UNCHANGED <<world, lastFired, sig, cycle, i, looked>>

\* The rule is breached: the alert is fired, stamped with the cycle's clock.
Fire(r) ==
  /\ pc = "rule"
  /\ i <= Len(loaded) /\ loaded[i] = r
  /\ ~InCooldown(r)
  /\ r \notin BadRule
  /\ ~sig
  /\ r \in over
  /\ fired' = [fired EXCEPT ![r] = cycleNow]
  /\ unmarked' = unmarked \cup {r}
  /\ faulted' = faulted \ {r}
  /\ answered' = answered \ {r}
  /\ t' = 1 /\ attempt' = 1 /\ tried' = {}
  /\ pc' = IF TargetsOf[r] = <<>> THEN "mark" ELSE "post"
  /\ UNCHANGED <<world, lastFired, sig, cycle, i, looked>>

-----------------------------------------------------------------------------
(* Deliver, for the targets of the rule one after the other.               *)

Targets == TargetsOf[loaded[i]]

\* Deliver returned: the next target, or MarkFired after the last one.
Delivered ==
  /\ tried' = tried \cup {Targets[t]}
  /\ t' = t + 1
  /\ attempt' = 1
  /\ pc' = IF t = Len(Targets) THEN "mark" ELSE "post"
  /\ UNCHANGED <<world, lastFired, sig, cycle, i, fired, unmarked, faulted, looked>>

Bad == Targets[t] \in BadTarget

\* An unknown kind, or a url that is missing or does not parse: an error at once.
Undeliverable == pc = "post" /\ Bad /\ Delivered /\ UNCHANGED answered

Post ==
  /\ pc = "post"
  /\ ~Bad /\ ~sig
  /\ pc' = "posted"
  /\ UNCHANGED <<world, lastFired, sig, cycle, i, t, attempt, history, tried, looked>>

Post2xx ==
  /\ pc = "posted"
  /\ Delivered
  /\ answered' = IF sig THEN answered ELSE answered \cup {loaded[i]}

\* A transport error, another status, or a POST on a cancelled context.
Failing == pc = "posted" \/ (pc = "post" /\ ~Bad /\ sig)

PostFailed ==
  /\ Failing
  /\ attempt < Attempts
  /\ pc' = "backoff"
  /\ UNCHANGED <<world, lastFired, sig, cycle, i, t, attempt, history, tried, looked>>

\* Fault: a delivery that ran out of attempts ends the alert.
PostExhausted_SkipsRest ==
  /\ Failing
  /\ attempt = Attempts
  /\ tried' = tried \cup {Targets[t]}
  /\ pc' = "mark"
  /\ UNCHANGED <<world, lastFired, sig, cycle, i, t, attempt, history, looked>>

PostExhausted == Failing /\ attempt = Attempts /\ Delivered /\ UNCHANGED answered

Backoff ==
  /\ pc = "backoff"
  /\ attempt' = attempt + 1
  /\ pc' = "post"
  /\ UNCHANGED <<world, lastFired, sig, cycle, i, t, history, tried, looked>>

\* The wait is cut short by the signal: Deliver returns the context's error.
BackoffCancelled == pc = "backoff" /\ sig /\ Delivered /\ UNCHANGED answered

-----------------------------------------------------------------------------
(* MarkFired                                                               *)

\* The stamp is persisted, unless the context of the cycle is cancelled.
MarkFired ==
  /\ pc = "mark"
  /\ ~sig
  /\ lastFired' = [lastFired EXCEPT ![loaded[i]] = cycleNow]
  /\ unmarked' = unmarked \ {loaded[i]}
  /\ loadedLast' = [loadedLast EXCEPT ![loaded[i]] = cycleNow]
  /\ NextRule
  /\ UNCHANGED <<world, sig, loaded, cycleNow, t, attempt, fired, faulted, answered, tried>>

\* The update fails: only the copy of this cycle remembers the fire.
MarkErr ==
  /\ pc = "mark"
  /\ faulted' = IF sig THEN faulted ELSE faulted \cup {loaded[i]}
  /\ loadedLast' = [loadedLast EXCEPT ![loaded[i]] = cycleNow]
  /\ NextRule
  /\ UNCHANGED <<world, lastFired, sig, loaded, cycleNow, t, attempt, fired, unmarked, answered, tried>>

-----------------------------------------------------------------------------
(* The process.                                                            *)

\* run sees sigCtx.Done at its select and returns.
Stop ==
  /\ pc = "select"
  /\ sig
  /\ pc' = "down"
  /\ UNCHANGED <<world, lastFired, sig, cycle, i, t, attempt, history, tried, looked>>

\* A kill, or the HTTP server failing.
Crash ==
  /\ pc # "down"
  /\ pc' = "down"
  /\ faulted' = faulted \cup unmarked
  /\ UNCHANGED <<world, lastFired, sig, cycle, i, t, attempt, fired, unmarked, answered, tried, looked>>

\* The worker starts with a cycle at once.
Restart ==
  /\ pc = "down"
  /\ pc' = "load"
  /\ sig' = FALSE
  /\ UNCHANGED <<world, lastFired, cycle, i, t, attempt, history, tried, looked>>

-----------------------------------------------------------------------------
Cycle ==
  \/ Load \/ LoadErr \/ EndCycle
  \/ Skip \/ \E r \in Rule : Fire(r)
  \/ Undeliverable \/ Post \/ Post2xx \/ PostFailed \/ PostExhausted \/ Backoff \/ BackoffCancelled
  \/ MarkFired \/ MarkErr

Next ==
  \/ TimePasses
  \/ \E r \in Rule : Toggle(r) \/ SpendMoves(r)
  \/ Signal
  \/ Tick
  \/ Cycle
  \/ Stop
  \/ Crash
  \/ Restart

Spec == Init /\ [][Next]_vars

(***************************************************************************)
(* Fairness: the loop runs and every call in a cycle is bounded by a       *)
(* client timeout or answers; the select of run does not ignore the signal *)
(* for ever although the ticker is ready again and again.                  *)
(***************************************************************************)
FairSpec == Spec /\ WF_vars(Cycle) /\ SF_vars(Stop) /\ WF_vars(Tick)

-----------------------------------------------------------------------------
(* Properties.                                                             *)

\* The variables keep their types; a delivery never exceeds its attempts and the
\* loops stay within the loaded rules and the targets of the rule.
TypeOK ==
  /\ now \in 0..MaxTime
  /\ enabled \subseteq Rule /\ over \subseteq Rule
  /\ lastFired \in [Rule -> Nat \cup {Never}]
  /\ pc \in {"select", "load", "rule", "post", "posted", "backoff", "mark", "down"}
  /\ sig \in BOOLEAN
  /\ loaded \in Seq(Rule)
  /\ loadedLast \in [Rule -> Nat \cup {Never}]
  /\ cycleNow \in 0..MaxTime
  /\ i \in 1..(Len(loaded) + 1)
  /\ t \in Nat \ {0}
  /\ pc \in {"post", "posted", "backoff"} => i <= Len(loaded) /\ t <= Len(Targets)
  /\ attempt \in 0..Attempts
  /\ fired \in [Rule -> Nat \cup {Never}]
  /\ unmarked \subseteq Rule /\ faulted \subseteq Rule /\ answered \subseteq Rule
  /\ tried \subseteq Target /\ looked \subseteq Rule

\* The cooldown: a rule fires again sooner than its cooldown after its latest
\* alert only when the persisted stamp of that alert is missing.
CooldownHonoured ==
  [][\A r \in Rule \ unmarked :
       Fire(r) /\ fired[r] # Never => cycleNow - fired[r] >= Cooldown[r]]_vars

\* No target is left out: when last_fired_at is about to be written, the alert
\* was delivered to, or failed for, each target of the rule, whichever failed.
\* (The types are a part of it.)
EveryTargetTried ==
  /\ TypeOK
  /\ pc = "mark" => tried = {Targets[k] : k \in DOMAIN Targets}

\* A rule that is refused, cannot be evaluated or cannot be delivered does not keep the
\* cycle from those behind it: a cycle that ends on its own has dealt with each rule it
\* loaded.  (A rule that does not unmarshal is loaded by none, nor is any other.)
CycleCoversRules ==
  [][pc = "rule" /\ pc' = "select" => looked = {loaded[k] : k \in DOMAIN loaded}]_vars

\* A signal stops the worker, in the middle of a delivery too.
SignalStops == sig ~> (pc = "down")

\* main.go:216 persists last_fired_at even if deliveries failed, so the cooldown is
\* honored: a rule whose latest alert a target has answered 2xx does not fire again
\* within its cooldown, unless Postgres failed to store its stamp or the worker was
\* killed before it had one.
CooldownSurvivesShutdown ==
  [][\A r \in answered \ faulted :
       Fire(r) => cycleNow - fired[r] >= Cooldown[r]]_vars
=============================================================================
