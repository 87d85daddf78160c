SPECIFICATION SearchSpec
CONSTANTS
  d1 = d1
  d2 = d2
  a1 = a1
  a2 = a2
  a3 = a3
  NoAppt = NoAppt
  Dealerships = {d1, d2}
  Services <- MCServices
  Bays = {1, 2}
  Techs = {1, 2}
  BayRow <- MCBayRow
  TechRow <- LateTechRow
  ServiceRow <- MCServiceRow
  TicksPerMinute = 2
  MinutesPerDay = 8
  Ids = {a1}
  BookedStarts = {24}
  From = 16
  To = 31
  Step = 4
INVARIANT NothingMissed
CHECK_DEADLOCK FALSE
