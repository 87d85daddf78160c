SPECIFICATION FairSearchSpec
CONSTANTS
  d1 = d1
  d2 = d2
  a1 = a1
  a2 = a2
  a3 = a3
  NoAppt = NoAppt
  Dealerships = {d1, d2}
  Services <- MCServices
  Bays = {1, 2}
  Techs = {1, 2}
  BayRow <- MCBayRow
  TechRow <- MCTechRow
  ServiceRow <- MCServiceRow
  TicksPerMinute = 2
  MinutesPerDay = 8
  Ids = {a1, a2, a3}
  BookedStarts = {18, 26}
  From = 19
  To = 26
  Step = 4
INVARIANT SearchTypeOK
INVARIANT NothingMissed
INVARIANT NothingInvented
INVARIANT ExactWhenQuiet
PROPERTY SearchEnds
CHECK_DEADLOCK FALSE
