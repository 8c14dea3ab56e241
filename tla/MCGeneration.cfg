SPECIFICATION Spec
CONSTANTS
  e = e
  v = v
  h1 = h1
  h2 = h2
  noTask = noTask
  odd = odd
  make = make
  test = test
  lint = lint
  patient = patient
  own = own
  NoCommand = NoCommand
  Tasks <- MCTasks
  Specs <- MCSpecs
  Commands <- MCCommands
  Plans <- MCPlans
  Natures <- MCNatures
  Durations <- MCDurations
  MaxTicks = 2
  MaxMishaps = 1
INVARIANTS
  TypeOK
  VerdictIsAudited
  WorkspacesAreReleased
PROPERTIES
  GenerationEnds
CHECK_DEADLOCK FALSE
