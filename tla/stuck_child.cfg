SPECIFICATION Spec
CONSTANTS
  Tasks <- NestedTree
  Root <- RootPath
  Parent <- ParentPath
  Ordinal <- LastOrdinal
  Depth <- PathDepth
  Lineage <- Prefixes
  Owners = {o1}
  Planners = {p1}
  Policies <- OnePolicy
  NoOwner = NoOwner
  NoPlanner = NoPlanner
  Absent = Absent
INVARIANT StuckChildBlocksParent
CHECK_DEADLOCK FALSE
