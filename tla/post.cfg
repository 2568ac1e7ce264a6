SPECIFICATION Spec
CHECK_DEADLOCK FALSE
CONSTANTS
  r1 = r1
  a1 = a1
  a2 = a2
  a3 = a3
  s1 = s1
  u1 = u1
  p1 = p1
  p2 = p2
  Reviews <- OneReview
  Approves <- ThreeApproves
  Skips <- OneSkip
  Supersedes <- OneSupersede
  Procs <- TwoProcs
  At <- InTwoProcs
  MaxRetries = 1
  MaxFaults = 2
INVARIANT PostTypeOK
INVARIANT AnsweredOnce
INVARIANT SkipIsFinal
INVARIANT HeldHasHolder
