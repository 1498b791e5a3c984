SPECIFICATION Spec
CONSTANTS
  a = a
  b = b
  Content <- Contents
  Resources <- Steady
  Window = 1
  Lookback = 2
  MaxSweeps <- SweepsOf
  MaxDumps <- DumpsOf
  Horizon = 4
INVARIANTS
  ValidatorsHold
  SettledHistoryIsFixed
PROPERTIES
  LiveMapCatchesUp
