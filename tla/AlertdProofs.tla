---------------------------- MODULE AlertdProofs ----------------------------
(***************************************************************************)
(* Proofs about Alertd for every set of rules, targets, cooldowns, attempts *)
(* and clock readings.                                                      *)
(*                                                                          *)
(* WorkerInv is what the code keeps in its local variables and in Postgres: *)
(* how far the delivery is (Attempted, Tried) and the cycle (Looked), which *)
(* alert is in progress (Alerting), and where the stamp of a rule's latest  *)
(* alert is found: in last_fired_at once it was marked (Stamps), of which   *)
(* the running cycle has a copy that follows (Copies).                      *)
(***************************************************************************)
EXTENDS Alertd, FiniteSetTheorems, SequenceTheorems, TLAPS

Alarm == {"post", "posted", "backoff", "mark"}
InCycle == Alarm \cup {"rule"}

\* An alert in progress is the latest one of its rule, and not marked yet.
Alerting ==
  pc \in Alarm =>
    /\ i <= Len(loaded)
    /\ loaded[i] \in unmarked
    /\ fired[loaded[i]] = cycleNow

\* Deliver never exceeds its attempts, and waits only before another one.
Attempted ==
  /\ pc \in {"post", "posted", "backoff"} => attempt \in 1..Attempts
  /\ pc = "backoff" => attempt < Attempts

\* Deliver was called for the targets behind the index.
Tried ==
  /\ pc \in {"post", "posted", "backoff"} => tried = {Targets[k] : k \in 1..(t - 1)}
  /\ pc = "mark" => tried = {Targets[k] : k \in DOMAIN Targets}

\* The cycle has dealt with the rules behind the index.
Looked == pc \in InCycle => looked = {loaded[k] : k \in 1..(i - 1)}

\* Only an alert that was not marked is missing in Postgres.
Stamps == \A r \in Rule \ unmarked : fired[r] = lastFired[r]

\* What the cycle knows of a rule is what Postgres has.
Copies == pc \in InCycle => \A r \in Rule \ unmarked : loadedLast[r] = lastFired[r]

WorkerInv ==
  /\ TypeOK
  /\ Alerting
  /\ Attempted
  /\ Tried
  /\ Looked
  /\ Stamps
  /\ Copies

-----------------------------------------------------------------------------
(* Types.                                                                   *)

\* The query returns a sequence of rules.
LEMMA ByIdType == \A S \in SUBSET Rule : ById(S) \subseteq Seq(Rule)
  <1> SUFFICES ASSUME NEW S \in SUBSET Rule, NEW s \in ById(S)
               PROVE  s \in Seq(Rule)
    OBVIOUS
  <1>1. Cardinality(S) \in Nat
    BY AlertdAssumption, FS_Subset, FS_CardinalityType
  <1>2. s \in [1..Cardinality(S) -> Rule]
    BY DEF ById
  <1> QED
    BY <1>1, <1>2

\* The sequences the loops run over.
LEMMA LoopBounds ==
  ASSUME TypeOK
  PROVE  /\ Len(loaded) \in Nat /\ DOMAIN loaded = 1..Len(loaded)
         /\ \A k \in 1..Len(loaded) : loaded[k] \in Rule
         /\ \A r \in Rule : /\ TargetsOf[r] \in Seq(Target) /\ Len(TargetsOf[r]) \in Nat
                            /\ DOMAIN TargetsOf[r] = 1..Len(TargetsOf[r])
                            /\ \A k \in 1..Len(TargetsOf[r]) : TargetsOf[r][k] \in Target
                            /\ TargetsOf[r] # <<>> => Len(TargetsOf[r]) >= 1
  <1>1. loaded \in Seq(Rule)
    BY DEF TypeOK
  <1>2. /\ Len(loaded) \in Nat /\ DOMAIN loaded = 1..Len(loaded)
        /\ \A k \in 1..Len(loaded) : loaded[k] \in Rule
    BY <1>1, LenProperties, ElementOfSeq
  <1>3. ASSUME NEW r \in Rule
        PROVE  /\ TargetsOf[r] \in Seq(Target) /\ Len(TargetsOf[r]) \in Nat
               /\ DOMAIN TargetsOf[r] = 1..Len(TargetsOf[r])
               /\ \A k \in 1..Len(TargetsOf[r]) : TargetsOf[r][k] \in Target
               /\ TargetsOf[r] # <<>> => Len(TargetsOf[r]) >= 1
    <2>1. TargetsOf[r] \in Seq(Target)
      BY AlertdAssumption
    <2> QED
      BY <2>1, LenProperties, ElementOfSeq, EmptySeq
  <1> QED
    BY <1>2, <1>3

\* The alert in progress is of a rule of the cycle, and so are its targets.
LEMMA InProgress ==
  ASSUME TypeOK, Alerting, pc \in Alarm
  PROVE  /\ i \in 1..Len(loaded) /\ loaded[i] \in Rule
         /\ Targets \in Seq(Target) /\ Len(Targets) \in Nat /\ DOMAIN Targets = 1..Len(Targets)
         /\ \A k \in 1..Len(Targets) : Targets[k] \in Target
  <1>1. i \in 1..Len(loaded)
    BY LoopBounds DEF TypeOK, Alerting
  <1>2. loaded[i] \in Rule
    BY <1>1, LoopBounds
  <1> QED
    BY <1>1, <1>2, LoopBounds DEF Targets

\* What Deliver returning does, whichever way it did.
LEMMA DeliveredTypes ==
  ASSUME TypeOK, Alerting, Delivered, pc \in {"post", "posted", "backoff"},
         answered' \subseteq answered \cup {loaded[i]}
  PROVE  TypeOK'
  <1>1. /\ t \in 1..Len(Targets) /\ Targets[t] \in Target /\ Len(Targets) \in Nat
        /\ i <= Len(loaded) /\ loaded[i] \in Rule
    BY InProgress DEF TypeOK, Alarm
  <1>2. UNCHANGED <<now, enabled, over, lastFired, sig, loaded, loadedLast, cycleNow, i, fired, unmarked, faulted, looked>>
    BY DEF Delivered, world, cycle
  <1>3. /\ tried' \subseteq Target /\ t' \in Nat \ {0} /\ attempt' \in 0..Attempts
        /\ pc' \in {"post", "mark"} /\ (pc' = "post" => t' <= Len(Targets))
    BY <1>1, AlertdAssumption DEF Delivered, TypeOK
  <1>4. Targets' = Targets
    BY <1>2 DEF Targets
  <1> QED
    BY <1>1, <1>2, <1>3, <1>4 DEF TypeOK

\* The types: i stays within the loaded rules, t within the targets while one is
\* being delivered to.
LEMMA StepTypeOK ==
  ASSUME TypeOK, Alerting, Attempted, Next
  PROVE  TypeOK'
  <1> USE DEF world, cycle, history
  <1>0. Len(loaded) \in Nat
    BY LoopBounds
  <1>1. CASE TimePasses
    <2>1. now' \in 0..MaxTime
      BY <1>1, AlertdAssumption DEF TimePasses, TypeOK
    <2> QED
      BY <1>1, <2>1 DEF TimePasses, TypeOK, Targets
  <1>2. CASE (\E r \in Rule : Toggle(r) \/ SpendMoves(r)) \/ Signal
    BY <1>2 DEF Toggle, SpendMoves, Signal, TypeOK, Targets
  <1>3. CASE Tick \/ LoadErr \/ EndCycle \/ Stop \/ Restart
    BY <1>3 DEF Tick, LoadErr, EndCycle, Stop, Restart, TypeOK
  <1>4. CASE Load
    <2>1. /\ loaded' \in ById(enabled) /\ loadedLast' = lastFired /\ cycleNow' = now /\ i' = 1
          /\ looked' = {} /\ pc' = "rule"
          /\ UNCHANGED <<now, enabled, over, lastFired, sig, t, attempt, fired, unmarked, faulted, answered, tried>>
      BY <1>4 DEF Load
    <2>2. loaded' \in Seq(Rule)
      BY <2>1, ByIdType DEF TypeOK
    <2>3. Len(loaded') \in Nat
      BY <2>2, LenProperties
    <2> QED
      BY <2>1, <2>2, <2>3 DEF TypeOK
  <1>5. CASE Skip
    <2>1. i \in 1..Len(loaded) /\ loaded[i] \in Rule
      BY <1>5, LoopBounds DEF Skip, TypeOK
    <2>2. i' \in 1..(Len(loaded) + 1) /\ looked' \subseteq Rule
      BY <1>0, <1>5, <2>1 DEF Skip, NextRule, TypeOK
    <2> QED
      BY <1>5, <2>2 DEF Skip, NextRule, TypeOK
  <1>6. ASSUME NEW r \in Rule, Fire(r)
        PROVE  TypeOK'
    <2>1. /\ loaded[i] = r /\ i <= Len(loaded) /\ t' = 1 /\ attempt' = 1 /\ tried' = {}
          /\ pc' = IF TargetsOf[r] = <<>> THEN "mark" ELSE "post"
          /\ fired' = [fired EXCEPT ![r] = cycleNow] /\ unmarked' = unmarked \cup {r}
          /\ faulted' = faulted \ {r} /\ answered' = answered \ {r}
          /\ UNCHANGED <<now, enabled, over, lastFired, sig, loaded, loadedLast, cycleNow, i, looked>>
      BY <1>6 DEF Fire
    <2>2. Targets' = TargetsOf[r] /\ (pc' = "post" => t' <= Len(TargetsOf[r]))
      BY <2>1, LoopBounds DEF Targets
    <2>3. fired' \in [Rule -> Nat \cup {Never}] /\ attempt' \in 0..Attempts
      BY <2>1, AlertdAssumption DEF TypeOK
    <2> QED
      BY <2>1, <2>2, <2>3 DEF TypeOK
  <1>7. CASE Undeliverable \/ Post2xx \/ PostExhausted \/ BackoffCancelled
    <2>1. Delivered /\ pc \in {"post", "posted", "backoff"} /\ answered' \subseteq answered \cup {loaded[i]}
      BY <1>7 DEF Undeliverable, Post2xx, PostExhausted, Failing, BackoffCancelled
    <2> QED
      BY <2>1, DeliveredTypes
  <1>8. CASE Post \/ PostFailed
    BY <1>8 DEF Post, PostFailed, Failing, TypeOK, Targets
  <1>9. CASE Backoff
    <2>1. attempt' \in 0..Attempts
      BY <1>9, AlertdAssumption DEF Backoff, Attempted, TypeOK
    <2> QED
      BY <1>9, <2>1 DEF Backoff, TypeOK, Targets
  <1>10. CASE MarkFired \/ MarkErr
    <2>1. i \in 1..Len(loaded) /\ loaded[i] \in Rule
      BY <1>10, InProgress DEF MarkFired, MarkErr, Alarm
    <2>2. i' \in 1..(Len(loaded) + 1) /\ looked' \subseteq Rule /\ pc' = "rule"
      BY <1>0, <1>10, <2>1 DEF MarkFired, MarkErr, NextRule, TypeOK
    <2>3. loadedLast' \in [Rule -> Nat \cup {Never}] /\ lastFired' \in [Rule -> Nat \cup {Never}]
      BY <1>10, <2>1 DEF MarkFired, MarkErr, TypeOK
    <2>4. unmarked' \subseteq Rule /\ faulted' \subseteq Rule
      BY <1>10, <2>1 DEF MarkFired, MarkErr, TypeOK
    <2> QED
      BY <1>10, <2>2, <2>3, <2>4 DEF MarkFired, MarkErr, TypeOK
  <1>11. CASE Crash
    <2>1. faulted' \subseteq Rule
      BY <1>11 DEF Crash, TypeOK
    <2> QED
      BY <1>11, <2>1 DEF Crash, TypeOK
  <1> QED
    BY <1>1, <1>2, <1>3, <1>4, <1>5, <1>6, <1>7, <1>8, <1>9, <1>10, <1>11 DEF Next, Cycle

-----------------------------------------------------------------------------
(* Deliveries.                                                              *)

\* Steps in which no alert begins, moves on or ends.
LEMMA Elsewhere ==
  ASSUME TypeOK, Alerting, Attempted, Tried,
         UNCHANGED <<loaded, cycleNow, i, t, attempt, fired, unmarked, tried>>, pc' = pc \/ pc' \notin Alarm
  PROVE  Alerting' /\ Attempted' /\ Tried'
  BY DEF Alerting, Attempted, Tried, Targets, Alarm

\* Fire begins an alert, each Deliver takes it one target further, and MarkFired
\* comes after the last one.
LEMMA StepDelivery ==
  ASSUME TypeOK, TypeOK', Alerting, Attempted, Tried, Next
  PROVE  Alerting' /\ Attempted' /\ Tried'
  <1> USE DEF world, cycle, history
  <1>1. CASE TimePasses \/ (\E r \in Rule : Toggle(r) \/ SpendMoves(r)) \/ Signal \/ Tick \/ LoadErr \/ EndCycle \/ Stop
    BY <1>1, Elsewhere DEF TimePasses, Toggle, SpendMoves, Signal, Tick, LoadErr, EndCycle, Stop, Alarm
  <1>2. CASE Crash \/ Restart
    BY <1>2, Elsewhere DEF Crash, Restart, Alarm
  <1>3. CASE Load \/ Skip \/ MarkFired \/ MarkErr
    <2>1. pc' = "rule"
      BY <1>3 DEF Load, Skip, MarkFired, MarkErr, NextRule
    <2> QED
      BY <2>1 DEF Alerting, Attempted, Tried, Alarm
  <1>4. ASSUME NEW r \in Rule, Fire(r)
        PROVE  Alerting' /\ Attempted' /\ Tried'
    <2>1. /\ loaded[i] = r /\ i <= Len(loaded) /\ t' = 1 /\ attempt' = 1 /\ tried' = {}
          /\ pc' = IF TargetsOf[r] = <<>> THEN "mark" ELSE "post"
          /\ fired' = [fired EXCEPT ![r] = cycleNow] /\ unmarked' = unmarked \cup {r}
          /\ UNCHANGED <<loaded, cycleNow, i>>
      BY <1>4 DEF Fire
    <2>2. Alerting'
      BY <2>1 DEF Alerting, TypeOK
    <2>3. Attempted'
      BY <2>1, AlertdAssumption DEF Attempted
    <2>4. Targets' = TargetsOf[r] /\ (TargetsOf[r] = <<>> => DOMAIN TargetsOf[r] = {})
      <3>1. TargetsOf[r] = <<>> => DOMAIN TargetsOf[r] = 1..0
        BY LoopBounds, EmptySeq
      <3> QED
        BY <2>1, <3>1 DEF Targets
    <2>5. 1..(t' - 1) = {}
      BY <2>1
    <2>6. Tried'
      BY <2>1, <2>4, <2>5 DEF Tried
    <2> QED
      BY <2>2, <2>3, <2>6
  <1>5. CASE Undeliverable \/ Post2xx \/ PostExhausted \/ BackoffCancelled
    <2>1. Delivered /\ pc \in {"post", "posted", "backoff"}
      BY <1>5 DEF Undeliverable, Post2xx, PostExhausted, Failing, BackoffCancelled
    <2>2. /\ tried' = tried \cup {Targets[t]} /\ t' = t + 1 /\ attempt' = 1
          /\ pc' = IF t = Len(Targets) THEN "mark" ELSE "post"
          /\ UNCHANGED <<loaded, cycleNow, i, fired, unmarked>>
      BY <2>1 DEF Delivered
    <2>3. /\ t \in 1..Len(Targets) /\ Len(Targets) \in Nat /\ DOMAIN Targets = 1..Len(Targets)
          /\ Targets' = Targets
      BY <2>1, <2>2, InProgress DEF TypeOK, Alarm, Targets
    <2>4. tried = {Targets[k] : k \in 1..(t - 1)}
      BY <2>1 DEF Tried
    <2>5. 1..t = (1..(t - 1)) \cup {t}
      BY <2>3
    <2>6. tried' = {Targets[k] : k \in 1..t}
      <3> HIDE DEF Targets
      <3> QED
        BY <2>2, <2>4, <2>5
    <2>7. Alerting'
      BY <2>1, <2>2 DEF Alerting, Alarm
    <2>8. Attempted'
      BY <2>2, AlertdAssumption DEF Attempted
    <2>9. Tried'
      <3>0. t \in Nat /\ t' = t + 1
        BY <2>2 DEF TypeOK
      <3>1. t' - 1 = t
        BY <3>0
      <3> HIDE DEF Targets
      <3> QED
        BY <2>2, <2>3, <2>6, <3>1 DEF Tried
    <2> QED
      BY <2>7, <2>8, <2>9
  <1>6. CASE Post \/ PostFailed
    <2>1. /\ pc \in {"post", "posted"} /\ pc' \in {"posted", "backoff"} /\ (pc' = "backoff" => attempt < Attempts)
          /\ UNCHANGED <<loaded, cycleNow, i, t, attempt, fired, unmarked, tried>>
      BY <1>6 DEF Post, PostFailed, Failing
    <2> QED
      BY <2>1 DEF Alerting, Attempted, Tried, Targets, Alarm
  <1>7. CASE Backoff
    <2>1. /\ pc = "backoff" /\ pc' = "post" /\ attempt' = attempt + 1
          /\ UNCHANGED <<loaded, cycleNow, i, t, fired, unmarked, tried>>
      BY <1>7 DEF Backoff
    <2>2. attempt' \in 1..Attempts
      BY <2>1, AlertdAssumption DEF Attempted
    <2> QED
      BY <2>1, <2>2 DEF Alerting, Attempted, Tried, Targets, Alarm
  <1> QED
    BY <1>1, <1>2, <1>3, <1>4, <1>5, <1>6, <1>7 DEF Next, Cycle

-----------------------------------------------------------------------------
(* The cycle, and the stamps.                                               *)

\* One more rule is behind the index.
LEMMA OneMoreRule ==
  ASSUME TypeOK, Looked, pc \in InCycle, NextRule, loaded' = loaded, i <= Len(loaded)
  PROVE  Looked'
  <1>1. i \in Nat /\ i >= 1 /\ i' = i + 1
    BY LoopBounds DEF NextRule, TypeOK
  <1>2. i' - 1 = i /\ 1..i = (1..(i - 1)) \cup {i}
    BY <1>1
  <1>3. looked' = {loaded[k] : k \in 1..(i - 1)} \cup {loaded[i]}
    BY DEF Looked, NextRule
  <1>4. looked' = {loaded[k] : k \in 1..i}
    BY <1>2, <1>3
  <1> QED
    BY <1>2, <1>4 DEF Looked

\* A cycle that goes on has looked at every rule before i.
LEMMA StepLooked ==
  ASSUME TypeOK, Alerting, Looked, Next
  PROVE  Looked'
  <1> USE DEF world, cycle, history
  <1>1. ASSUME UNCHANGED <<loaded, i, looked>>, pc' \in InCycle => pc \in InCycle
        PROVE  Looked'
    BY <1>1 DEF Looked
  <1>2. CASE TimePasses \/ (\E r \in Rule : Toggle(r) \/ SpendMoves(r)) \/ Signal \/ Tick \/ LoadErr \/ EndCycle
             \/ Stop \/ Crash \/ Restart
    BY <1>1, <1>2 DEF TimePasses, Toggle, SpendMoves, Signal, Tick, LoadErr, EndCycle, Stop, Crash, Restart,
                      InCycle, Alarm
  <1>3. CASE (\E r \in Rule : Fire(r)) \/ Undeliverable \/ Post \/ Post2xx \/ PostFailed \/ PostExhausted
             \/ Backoff \/ BackoffCancelled
    BY <1>1, <1>3 DEF Fire, Undeliverable, Post, Post2xx, PostFailed, PostExhausted, Backoff, BackoffCancelled,
                      Failing, Delivered, InCycle, Alarm
  <1>4. CASE Load
    <2>1. i' = 1 /\ looked' = {}
      BY <1>4 DEF Load
    <2>2. 1..(i' - 1) = {}
      BY <2>1
    <2> QED
      BY <2>1, <2>2 DEF Looked
  <1>5. CASE Skip
    BY <1>5, OneMoreRule DEF Skip, InCycle
  <1>6. CASE MarkFired \/ MarkErr
    BY <1>6, OneMoreRule DEF MarkFired, MarkErr, Alerting, InCycle, Alarm
  <1> QED
    BY <1>2, <1>3, <1>4, <1>5, <1>6 DEF Next, Cycle

\* MarkFired writes the stamp of the latest alert, to Postgres and to the copy; if the
\* update fails, the rule stays one whose stamp is missing.
LEMMA StepStamps ==
  ASSUME TypeOK, Alerting, Stamps, Copies, Next
  PROVE  Stamps' /\ Copies'
  <1> USE DEF world, cycle, history
  <1>1. ASSUME UNCHANGED <<lastFired, loadedLast, fired, unmarked>>, pc' \in InCycle => pc \in InCycle
        PROVE  Stamps' /\ Copies'
    BY <1>1 DEF Stamps, Copies
  <1>2. CASE TimePasses \/ (\E r \in Rule : Toggle(r) \/ SpendMoves(r)) \/ Signal \/ Tick \/ LoadErr \/ EndCycle
             \/ Stop \/ Crash \/ Restart
    BY <1>1, <1>2 DEF TimePasses, Toggle, SpendMoves, Signal, Tick, LoadErr, EndCycle, Stop, Crash, Restart,
                      InCycle, Alarm
  <1>3. CASE Skip \/ Undeliverable \/ Post \/ Post2xx \/ PostFailed \/ PostExhausted \/ Backoff \/ BackoffCancelled
    BY <1>1, <1>3 DEF Skip, Undeliverable, Post, Post2xx, PostFailed, PostExhausted, Backoff, BackoffCancelled,
                      Failing, Delivered, InCycle, Alarm
  <1>4. CASE Load
    <2>1. loadedLast' = lastFired /\ UNCHANGED <<lastFired, fired, unmarked>>
      BY <1>4 DEF Load
    <2> QED
      BY <2>1 DEF Stamps, Copies
  <1>5. ASSUME NEW r \in Rule, Fire(r)
        PROVE  Stamps' /\ Copies'
    <2>1. /\ fired' = [fired EXCEPT ![r] = cycleNow] /\ unmarked' = unmarked \cup {r} /\ pc = "rule"
          /\ UNCHANGED <<lastFired, loadedLast>>
      BY <1>5 DEF Fire
    <2> QED
      BY <2>1 DEF Stamps, Copies, TypeOK, InCycle
  <1>6. CASE MarkFired
    <2>1. pc \in Alarm /\ pc \in InCycle
      BY <1>6 DEF MarkFired, InCycle, Alarm
    <2>2. loaded[i] \in Rule /\ fired[loaded[i]] = cycleNow
      BY <2>1, InProgress DEF Alerting
    <2>3. /\ lastFired' = [lastFired EXCEPT ![loaded[i]] = cycleNow]
          /\ loadedLast' = [loadedLast EXCEPT ![loaded[i]] = cycleNow]
          /\ unmarked' = unmarked \ {loaded[i]} /\ fired' = fired
      BY <1>6 DEF MarkFired
    <2> QED
      BY <2>1, <2>2, <2>3 DEF Stamps, Copies, TypeOK
  <1>7. CASE MarkErr
    <2>1. pc \in Alarm /\ pc \in InCycle
      BY <1>7 DEF MarkErr, InCycle, Alarm
    <2>2. loaded[i] \in Rule /\ loaded[i] \in unmarked
      BY <2>1, InProgress DEF Alerting
    <2>3. /\ loadedLast' = [loadedLast EXCEPT ![loaded[i]] = cycleNow]
          /\ UNCHANGED <<lastFired, unmarked, fired>>
      BY <1>7 DEF MarkErr
    <2> QED
      BY <2>1, <2>2, <2>3 DEF Stamps, Copies, TypeOK
  <1> QED
    BY <1>2, <1>3, <1>4, <1>5, <1>6, <1>7 DEF Next, Cycle

-----------------------------------------------------------------------------
(* The invariant.                                                           *)

\* The worker starts with nothing loaded and nothing fired.
LEMMA InitWorkerInv == Init => WorkerInv
  <1> SUFFICES ASSUME Init PROVE WorkerInv
    OBVIOUS
  <1>1. /\ loaded = <<>> /\ loaded \in Seq(Rule) /\ Len(loaded) = 0
        /\ now = 0 /\ cycleNow = 0 /\ i = 1 /\ t = 1 /\ attempt = 0 /\ pc = "load"
    BY EmptySeq DEF Init
  <1>2. /\ lastFired \in [Rule -> Nat \cup {Never}] /\ loadedLast \in [Rule -> Nat \cup {Never}]
        /\ fired \in [Rule -> Nat \cup {Never}]
        /\ fired = lastFired
    BY DEF Init
  <1>3. TypeOK
    <2>1. now \in 0..MaxTime /\ cycleNow \in 0..MaxTime /\ attempt \in 0..Attempts /\ i \in 1..(Len(loaded) + 1)
      BY <1>1, AlertdAssumption
    <2>2. enabled \subseteq Rule /\ over \subseteq Rule
      BY DEF Init
    <2>3. sig \in BOOLEAN
      BY DEF Init
    <2>4. /\ unmarked \subseteq Rule /\ faulted \subseteq Rule /\ answered \subseteq Rule
          /\ tried \subseteq Target /\ looked \subseteq Rule
      BY DEF Init
    <2>5. /\ pc \in {"select", "load", "rule", "post", "posted", "backoff", "mark", "down"}
          /\ pc \notin {"post", "posted", "backoff"}
          /\ t \in Nat \ {0}
      BY <1>1
    <2> QED
      BY <1>1, <1>2, <2>1, <2>2, <2>3, <2>4, <2>5, Zenon DEF TypeOK
  <1>4. Alerting /\ Attempted /\ Tried /\ Looked /\ Copies
    BY <1>1 DEF Alerting, Attempted, Tried, Looked, Copies, InCycle, Alarm
  <1>5. Stamps
    BY <1>2 DEF Stamps
  <1> QED
    BY <1>3, <1>4, <1>5 DEF WorkerInv

\* Every step keeps it, failures, signals, kills and restarts among them.
LEMMA StepWorkerInv == WorkerInv /\ [Next]_vars => WorkerInv'
  <1>1. ASSUME WorkerInv, Next
        PROVE  WorkerInv'
    <2>1. TypeOK'
      BY <1>1, StepTypeOK DEF WorkerInv
    <2> QED
      BY <1>1, <2>1, StepDelivery, StepLooked, StepStamps DEF WorkerInv
  <1>2. ASSUME WorkerInv, UNCHANGED vars
        PROVE  WorkerInv'
    BY <1>2 DEF WorkerInv, TypeOK, Alerting, Attempted, Tried, Looked, Stamps, Copies, Targets, vars, world,
                cycle, history
  <1> QED
    BY <1>1, <1>2

\* The invariant holds in every reachable state of Alertd.
THEOREM AlertdInductive == Spec => []WorkerInv
  <1> QED
    BY InitWorkerInv, StepWorkerInv, PTL DEF Spec

\* Type correctness, and no alert reaches MarkFired before Deliver was called for each
\* target of its rule, whatever failed (evaluateRule).
THEOREM AlertdEveryTargetTried == Spec => []EveryTargetTried
  <1>1. WorkerInv => EveryTargetTried
    BY DEF WorkerInv, Tried, EveryTargetTried
  <1> QED
    BY <1>1, AlertdInductive, PTL

\* A rule fires within its cooldown only if the stamp of its latest alert is missing in
\* Postgres, for every interleaving of cycles, failures, kills and restarts (InCooldown
\* reads what the cycle loaded).
THEOREM AlertdCooldownHonoured == Spec => CooldownHonoured
  <1>1. ASSUME WorkerInv, NEW r \in Rule \ unmarked, Fire(r), fired[r] # Never
        PROVE  cycleNow - fired[r] >= Cooldown[r]
    <2>1. ~InCooldown(r) /\ pc \in InCycle
      BY <1>1 DEF Fire, InCycle
    <2>2. loadedLast[r] = fired[r]
      BY <1>1, <2>1 DEF WorkerInv, Stamps, Copies
    <2>3. cycleNow \in Int /\ fired[r] \in Nat /\ Cooldown[r] \in Nat
      BY <1>1, AlertdAssumption DEF WorkerInv, TypeOK, Never
    <2> QED
      BY <1>1, <2>1, <2>2, <2>3 DEF InCooldown
  <1>2. WorkerInv => [\A r \in Rule \ unmarked :
                        Fire(r) /\ fired[r] # Never => cycleNow - fired[r] >= Cooldown[r]]_vars
    BY <1>1
  <1> QED
    BY <1>2, AlertdInductive, PTL DEF CooldownHonoured

\* A cycle that ends on its own has dealt with each rule it loaded: an error in one rule
\* does not end it (evaluateOnce).
THEOREM AlertdCycleCoversRules == Spec => CycleCoversRules
  <1>1. ASSUME WorkerInv, Next, pc = "rule", pc' = "select"
        PROVE  looked = {loaded[k] : k \in DOMAIN loaded}
    <2>1. EndCycle
      BY <1>1 DEF Next, Cycle, TimePasses, Toggle, SpendMoves, Signal, Tick, Load, LoadErr, Skip, NextRule, Fire,
                  Undeliverable, Post, Post2xx, PostFailed, PostExhausted, Failing, Backoff, BackoffCancelled,
                  Delivered, MarkFired, MarkErr, Stop, Crash, Restart
    <2>2. i \in 1..(Len(loaded) + 1) /\ i > Len(loaded) /\ Len(loaded) \in Nat /\ DOMAIN loaded = 1..Len(loaded)
      BY <1>1, <2>1, LoopBounds DEF EndCycle, WorkerInv, TypeOK
    <2>3. i - 1 = Len(loaded)
      BY <2>2
    <2> QED
      BY <1>1, <2>2, <2>3 DEF WorkerInv, Looked, InCycle
  <1>2. WorkerInv /\ [Next]_vars =>
          [pc = "rule" /\ pc' = "select" => looked = {loaded[k] : k \in DOMAIN loaded}]_vars
    BY <1>1
  <1> QED
    BY <1>2, AlertdInductive, PTL DEF Spec, CycleCoversRules
=============================================================================
