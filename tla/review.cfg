SPECIFICATION FairSpec
CONSTANTS
  r1 = r1
  r2 = r2
  p1 = p1
  Rows <- TwoRows
  Listed <- OnePr
  Asked <- OneAsked
  Polled <- OneRow
  PerTick = 1
  QueueCap = 1
  MaxTotal = 1
  MaxHead = 2
  MaxForced = 1
  MaxRows = 1
  MaxFaults = 1
INVARIANT ReviewTypeOK
INVARIANT RunsOnItsTree
PROPERTY SettledHeadDrafted
