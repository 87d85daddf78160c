CONSTANTS
  Requests = {11, 12, 13, 14}
  Sends <- RevivedSends
  InitialRows <- MCRows
  DefaultShift <- MCShift
  TicksPerMinute = 1
  MinutesPerDay = 8
  NoOrder = NoOrder
  NoRow = NoRow
SPECIFICATION Spec
INVARIANT NoDoubleBooking
CHECK_DEADLOCK FALSE
