SPECIFICATION FairSpec
CONSTANTS
  c1 = c1
  u1 = u1
  u2 = u2
  k1 = k1
  k2 = k2
  Nothing = Nothing
  Changes = {c1}
  Readers = {u1, u2}
  Keys = {k1, k2}
  TTL = 1
INVARIANT CacheTypeOK
INVARIANT InvalidatedAfterBooking
PROPERTY CoherentInTheEnd
PROPERTY Served
