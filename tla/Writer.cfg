SPECIFICATION Spec
CONSTANTS
  g1 = g1
  g2 = g2
  d1 = d1
  d2 = d2
  p = p
  q = q
  r = r
  Guid <- MCGuid
  Port <- MCPort
  Desc <- MCDesc
  LogState = {"active", "down"}
  Speed = {2, 4}
  Width = {1, 2}
  Rest = {0, 1}
  Observations <- MCObservations
  Horizon = 3
  MaxSweeps = 3
  ClockMaySlip = FALSE
INVARIANTS
  TablesFollowSweep
  EventsTellHistory
  QuietMeansUnchanged
PROPERTIES
  PastIsImmutable
  ImplementsRecord
