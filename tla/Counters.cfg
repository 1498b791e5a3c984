SPECIFICATION CountersSpec
CONSTANTS
  p1 = p1
  Port <- OnePort
  Ceiling = 3
  Lookback = 2
  MaxErrors = 4
  MaxClears = 1
  Horizon = 4
INVARIANTS
  DeltaIsSound
  FlagsTell
  CardAgrees
