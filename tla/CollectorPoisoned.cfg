SPECIFICATION Spec
CONSTANTS
  g1 = g1
  g2 = g2
  Guid <- MCGuid
  PortNum <- MCPortNum
  Sweeps <- MCSweeps
  Dumps <- MCDumps
  MaxBad = 1
  MayLose = FALSE
  MaxStarts = 1
PROPERTY BadCycleHeals
