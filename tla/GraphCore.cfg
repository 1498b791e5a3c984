SPECIFICATION Spec
CONSTANTS
  None = None
  s1 = s1
  s2 = s2
  a = a
  b = b
  e1 = e1
  e2 = e2
  e3 = e3
  box = box
  Kind <- Kinds
  Ends <- Cables
  Groups <- Boxed
  Models <- AllModels
  FilterSets <- Settings
  Layouts <- SavedLayouts
  Order <- Sorted
  Width = 3
  Spots <- Where
  Tapped <- Picked
  MaxSlides = 2
  MaxCards = 1
INVARIANTS
  CoreIsTheModel
  ClassesFollow
  HiddenHasOwner
  SavedLayoutRestores
PROPERTIES
  SurvivorsKeepPlace
