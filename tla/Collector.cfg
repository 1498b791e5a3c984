SPECIFICATION Spec
CONSTANTS
  g1 = g1
  g2 = g2
  Guid <- MCGuid
  PortNum <- MCPortNum
  Sweeps <- MCSweeps
  Dumps <- MCDumps
  MaxBad = 1
  MayLose = TRUE
  MaxStarts = 2
INVARIANTS
  IdsNameHardware
  NothingIsLost
PROPERTIES
  StopEnds
