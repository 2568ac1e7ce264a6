SPECIFICATION FairSpec
CHECK_DEADLOCK FALSE
CONSTANTS
  k1 = k1
  k2 = k2
  u1 = u1
  w1 = w1
  w2 = w2
  g1 = g1
  x1 = x1
  reaper = reaper
  None = None
  Reaper = reaper
  Keys <- Sessions
  UserOf <- OneUser
  Watchers <- TwoWatchers
  Runners <- OneRunner
  KeyOf <- Asks
  Closers <- OneCloser
  MaxTotal = 2
  MaxPerUser = 1
  QueueCap = 1
  MaxActors = 2
  MaxBeats = 1
INVARIANT SessionTypeOK
INVARIANT CapsHold
PROPERTY SessionsDrain
