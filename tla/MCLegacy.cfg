SPECIFICATION MCSpec
CONSTANTS
  alice = alice
  bob = bob
  task1 = task1
  task2 = task2
  task3 = task3
  own = own
  shared = shared
  plugin = plugin
  NoAgent = NoAgent
  Order <- MCOrder
  Plan <- MCPlan
  Generations = 2
  MaxRuns = 2
  MaxFaults = 1
  Owners <- MCOwners
  Files <- MCFiles
  Candidates <- MCCandidates
  VerifyTasks <- MCVerifyTasks
  MaxMemories = 2
  MaxLines = 3
  MaxCrashes = 2
INVARIANTS
  DeathIsSettled
  LoadRestoresSaved
  VerifiedIsEarned
PROPERTIES
  ClaimsAreKept
CHECK_DEADLOCK FALSE
