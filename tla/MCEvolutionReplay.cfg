SPECIFICATION Spec
CONSTANTS
  Agents <- MCAgents
  Order <- MCOrder
  Policies <- MCPolicies
  Generations = 4
INVARIANTS
  EnergyReplays
CHECK_DEADLOCK FALSE
