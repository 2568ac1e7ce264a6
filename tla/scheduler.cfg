SPECIFICATION FairSpec
CONSTANTS
  d1 = d1
  d2 = d2
  nightly = nightly
  once = once
  Jobs <- Both
  OneShots <- Once
  Drivers <- TwoDrivers
  Period = 1
  TTL = 2
  MaxConcurrent = 1
  MaxLag = 1
  MaxFaults = 1
  None = None
INVARIANT SchedulerTypeOK
INVARIANT NoDoubleFire
INVARIANT OneShotOnce
PROPERTY ReleasedByOwner
PROPERTY NotWedged
