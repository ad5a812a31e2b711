\* Two rules with different cooldowns, one with two targets of which one cannot
\* be posted to, and a rule that does not unmarshal; two readings of the clock, all
\* failures.
CONSTANTS
  r1 = r1  r2 = r2  r3 = r3  t1 = t1  t2 = t2
  Rule <- Rules
  RuleId <- Ids
  Target = {t1, t2}
  TargetsOf <- TwoTargets
  BadTarget = {t2}
  BadRule = {}
  Garbled = {r3}
  Cooldown <- Cooldowns
  Attempts = 2
  MaxTime = 1
SPECIFICATION FairSpec
INVARIANTS
  EveryTargetTried
PROPERTIES
  CooldownHonoured
  CycleCoversRules
  SignalStops
