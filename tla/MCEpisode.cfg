SPECIFICATION Spec
CONSTANTS
  a = a
  b = b
  readme = readme
  own = own
  seen = seen
  hidden = hidden
  dotdot = dotdot
  Outside <- MCOutside
  Paths <- MCPaths
  Modules <- MCModules
  Tests <- MCTests
  Needs <- MCNeeds
  Setups <- MCSetups
  MaxTurns = 3
INVARIANTS
  TypeOK
  RepairIsReal
  ModelUseIsEarned
CHECK_DEADLOCK FALSE
