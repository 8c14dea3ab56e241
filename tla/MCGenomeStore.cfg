SPECIFICATION Spec
CONSTANTS
  alpha = alpha
  beta = beta
  core = core
  extra = extra
  Absent = Absent
  NoFiles = NoFiles
  NoRevision = NoRevision
  Agents <- MCAgents
  Base <- OwnBases
  BaseFiles <- MCBaseFiles
  Paths <- MCPaths
  Contents <- MCContents
  Forbidden <- MCForbidden
  Answers <- MCAnswers
  MaxGenomes = 3
  MaxFailures = 2
  MaxClaims = 1
INVARIANTS
  TypeOK
  HistoryIsRestorable
  ActiveBoots
  GenomeBelongsToAgent
PROPERTIES
  FailureChangesNothing
CHECK_DEADLOCK FALSE
