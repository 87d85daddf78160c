CONSTANTS
  Requests = {11, 12, 13}
  Sends <- MCSends
  InitialRows <- MCRows
  DefaultShift <- MCShift
  TicksPerMinute = 1
  MinutesPerDay = 8
  NoOrder = NoOrder
  NoRow = NoRow
SPECIFICATION FairSpec
INVARIANTS
  ResourcesTypeOK
  NothingDangles
  NoDoubleBookingUnlessRevived
PROPERTIES
  FitUnlessRaced
  OnlyTheRacedIsUndone
  TagRemovalOnlyWidens
  Answered
CHECK_DEADLOCK FALSE
