SPECIFICATION Spec
CONSTANTS
  Tasks <- MCTasks
  MaxRuntimes = 3
  MaxTurns = 2
  MaxHistory = 2
  MaxCalls = 2
INVARIANT NoActionOnDisposedWorkspace
CHECK_DEADLOCK FALSE
