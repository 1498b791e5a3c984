SPECIFICATION Spec
CONSTANTS
  None = None
  Fine = 2
  Minute = 1
  MinSpan = 1
  MaxSpan = 3
  PadMin = 1
  HalfDay = 1
  Day = 2
  Histories <- AllHistories
  Landed <- OpensAt
  EdgePad = 1
  Limit = 4
  Width = 8
  ColumnPx = 2
  Presets <- Hour
  Pans <- Drags
  Zooms <- Wheel
  Cursors <- Aims
  Floor = 1
INVARIANTS
  TimeMeansWhatWasSet
  LiveIsReachable
  StripIsTheRecord
  JumpShowsOneEvent
PROPERTIES
  ViewFollows
