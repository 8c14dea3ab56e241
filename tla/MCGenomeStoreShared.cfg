SPECIFICATION Spec
CONSTANTS
  alpha = alpha
  beta = beta
  core = core
  extra = extra
  Absent = Absent
  NoFiles = NoFiles
  NoRevision = NoRevision
  Agents <- MCAgents
  Base <- SharedBase
  BaseFiles <- MCBaseFiles
  Paths <- MCPaths
  Contents <- MCContents
  Forbidden <- MCForbidden
  Answers <- MCAnswers
  MaxGenomes = 4
  MaxFailures = 2
  MaxClaims = 1
INVARIANT GenomeBelongsToAgent
CHECK_DEADLOCK FALSE
