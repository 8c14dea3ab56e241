SPECIFICATION Spec
CONSTANTS
  Agents <- MCAgents
  Order <- MCOrder
  Policies <- MCPolicies
  Generations = 4
INVARIANTS
  LifecycleReplays
  SnapshotAgreesWithLog
  ChargedOncePerGeneration
  BalanceIsAudited
  RewriteIsEarned
  DeathsAreArchived
PROPERTIES
  DeadIsFinal
  SleepBeforeDeath
  RunEnds
CHECK_DEADLOCK FALSE
