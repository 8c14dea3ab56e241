SPECIFICATION Spec
CONSTANTS
  x = x
  y = y
  p1 = p1
  p2 = p2
  q1 = q1
  q2 = q2
  NoRun = NoRun
  Manual = x
  Nobody = Nobody
  Script <- MCScript
  Runs <- MCRuns
  Watches <- MCWatches
  PollSlots <- MCPollSlots
  LoadSlots <- MCLoadSlots
  Batch = 1
  MaxFaults <- MCMaxFaults
  MaxMoves = 1
  MaxWire = 1
INVARIANTS
  TypeOK
  NothingIsSkipped
  FreshListing
PROPERTIES
  PageCatchesUp
CHECK_DEADLOCK FALSE
