SPECIFICATION Spec
CONSTANTS
  None = None
  s = s
  a = a
  b = b
  e = e
  f = f
  h = h
  box = box
  Kind <- Kinds
  Ends <- Cables
  Groups <- Boxed
  Cable <- Plugs
  LineRate <- Speeds
  Groupings <- Groups3
  Windows <- Lookbacks
  Inherited <- OfObjects
  Models <- AllModels
  Deltas <- AllDeltas
  Rates <- AllRates
  Pasted <- Addresses
  PinnedAt = 0
  MaxNow = 1
  Healths <- HealthValues
  Changes <- ChangeValues
INVARIANTS
  ColoursAreTrue
  LegendsAgree
  ViewHolds
