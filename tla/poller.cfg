SPECIFICATION FairSpec
CONSTANTS
  l1 = l1
  l2 = l2
  p1 = p1
  p2 = p2
  Leaves <- TwoLeaves
  Pollers <- TwoPollers
  Steady <- OnePoller
  PRs <- TwoPRs
  Batch = 1
  NoPR = 0
  MaxFaults = 1
  Approvals = {TRUE}
INVARIANT PollerTypeOK
INVARIANT DoneMeansMerged
PROPERTY ApprovalGate
PROPERTY MergedIsResolved
