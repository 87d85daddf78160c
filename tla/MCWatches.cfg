SPECIFICATION FairSpec
CONSTANTS
  w1 = w1
  w2 = w2
  d1 = d1
  oil = oil
  tyre = tyre
  Sweep = Sweep
  NoWatch = NoWatch
  Watches = {w1, w2}
  Target <- MCTarget
  MaxQueue = 1
  MaxTriggers = 1
  MaxFailures = 1
INVARIANT WatchTypeOK
INVARIANT ToldOnce
INVARIANT NotifiedAfterMail
PROPERTY CancelledIsLeftAlone
PROPERTY EventuallyNotified
