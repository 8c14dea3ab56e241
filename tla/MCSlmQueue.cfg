SPECIFICATION FairSpec
CONSTANTS
  r1 = r1
  r2 = r2
  r3 = r3
  a1 = a1
  a2 = a2
  None = None
  Requests <- MCRequests
  Agents <- MCAgents
  AgentOf <- MCAgentOf
  Priorities <- MCPriorities
INVARIANTS
  ExclusiveModel
  NoLostWakeup
  CountersBalance
PROPERTIES
  ServesTheBest
  EveryoneAnswered
  ImplementsService
CHECK_DEADLOCK FALSE
