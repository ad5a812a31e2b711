\* A SIGTERM between a 2xx of the target and MarkFired.
CONSTANTS
  r1 = r1  r2 = r2  r3 = r3  t1 = t1  t2 = t2
  Rule <- OneRule
  RuleId <- OneId
  Target = {t1}
  TargetsOf <- OneTargets
  BadTarget = {}
  BadRule = {}
  Garbled = {}
  Cooldown <- OneCooldown
  Attempts = 2
  MaxTime = 1
SPECIFICATION Spec
PROPERTY CooldownSurvivesShutdown
