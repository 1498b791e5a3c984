SPECIFICATION Spec
CONSTANTS
  None = None
  gone = gone
  a = a
  b = b
  Fabrics <- AB
  First <- Listing
  Times <- TwoTimes
  Links <- OldLinks
  MaxSweeps = 2
  MaxDowns = 0
INVARIANT
  BuildsOnItsLayout
