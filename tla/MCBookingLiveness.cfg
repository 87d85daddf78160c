CONSTANTS
  r1 = r1  r2 = r2  r3 = r3
  c1 = c1  c2 = c2
  d1 = d1  d2 = d2
  Requests <- MCRequests
  Customers = {c1}
  Vehicles <- MCVehicles
  VehicleOwner <- MCVehicleOwner
  Dealerships = {d1}
  Services = {"oil"}
  ServiceRow <- MCServiceRow
  Bays = {2, 3}
  BayRow <- MCBayRow
  Techs = {1, 2}
  TechRow <- MCTechRow
  TicksPerMinute = 2
  MinutesPerDay = 8
  Starts = {1}
  MaxTime = 0
  Admin = Admin
  Missing = Missing
  NoAppt = NoAppt
  NoOwner = NoOwner
  NoWork = NoWork
SPECIFICATION FairSpec
PROPERTY Answered
CHECK_DEADLOCK FALSE
