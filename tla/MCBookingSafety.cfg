CONSTANTS
  r1 = r1  r2 = r2  r3 = r3
  c1 = c1  c2 = c2
  d1 = d1  d2 = d2
  Requests <- MCRequests
  Customers <- MCCustomers
  Vehicles <- MCVehicles
  VehicleOwner <- MCVehicleOwner
  Dealerships = {d1, d2}
  Services <- MCServices
  ServiceRow <- MCServiceRow
  Bays = {1, 2, 3}
  BayRow <- MCBayRow
  Techs = {1, 2}
  TechRow <- MCTechRow
  TicksPerMinute = 2
  MinutesPerDay = 8
  Starts = {1, 3}
  MaxTime = 1
  Admin = Admin
  Missing = Missing
  NoAppt = NoAppt
  NoOwner = NoOwner
  NoWork = NoWork
SPECIFICATION Spec
SYMMETRY Symmetry
INVARIANTS
  TypeOK
  IInv
  NoDoubleBooking
  LockOrder
  NoWaitCycle
  AnswerHonest
  MoveAllOrNothing
  JobsFollowCommit
  RejectedOnlyWhenFull
  WithinShift
PROPERTY ImplementsCalendar
CHECK_DEADLOCK FALSE
