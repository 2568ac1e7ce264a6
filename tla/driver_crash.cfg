SPECIFICATION FairDriverSpec
CONSTANTS
  o1 = o1
  o2 = o2
  w1 = w1
  w2 = w2
  Tasks <- OneLeaf
  Root <- RootPath
  Parent <- ParentPath
  Ordinal <- LastOrdinal
  Depth <- PathDepth
  Lineage <- Prefixes
  Owners = {o1, o2}
  Planners = {p1}
  Policies <- OnePolicy
  Workers = {w1, w2}
  DriverOf <- OneEach
  NoOwner = NoOwner
  NoPlanner = NoPlanner
  NoWorker = NoWorker
  NoLeaf = NoLeaf
  Absent = Absent
INVARIANT DriverTypeOK
PROPERTIES
  LostLeaseWritesNothing
  LeaseEnds
CHECK_DEADLOCK FALSE
