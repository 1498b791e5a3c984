SPECIFICATION Spec
CONSTANTS
  None = None
  s = s
  a = a
  e = e
  f = f
  box = box
  Kind <- Kinds
  Ends <- Cables
  Groups <- Boxed
  Fabric <- History
  Order <- Sorted
  Times <- AllTimes
  Thresholds <- Limits
  MaxCards = 3
INVARIANTS
  CardsAreTrue
  SummaryAddsUp
  EscapeHatch
PROPERTIES
  CardsOpenOneByOne
