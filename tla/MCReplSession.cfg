SPECIFICATION Spec
CONSTANTS
  Tasks <- MCTasks
  MaxRuntimes = 3
  MaxTurns = 2
  MaxHistory = 2
  MaxCalls = 2
INVARIANTS
  OneTurnAtATime
  WorkspacesAreKept
  SessionIsCoherent
PROPERTIES
  StopsAtBoundary
  RunsEnd
CHECK_DEADLOCK FALSE
