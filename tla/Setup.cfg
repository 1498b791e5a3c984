SPECIFICATION SetupSpec
CONSTANTS
  old = old
  new = new
  Op <- Operators
  Last <- LastKind
  Sql <- OfEachKind
  Object <- Everything
  Carries <- Installed
  Expects <- Expected
INVARIANTS
  RecordedIsApplied
  ServesOnWholeSchema
  WorkIsDone
PROPERTIES
  RunsEnd
