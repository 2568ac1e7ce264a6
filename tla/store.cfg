SPECIFICATION Spec
CONSTANTS
  Tasks <- NestedTree
  Root <- RootPath
  Parent <- ParentPath
  Ordinal <- LastOrdinal
  Depth <- PathDepth
  Lineage <- Prefixes
  Owners = {o1, o2}
  Planners = {p1, p2}
  Policies <- TwoPolicies
  NoOwner = NoOwner
  NoPlanner = NoPlanner
  Absent = Absent
INVARIANT TypeOK
INVARIANT FinishedSubtree
INVARIANT DoneMeansDone
INVARIANT LeafHasNoChildren
INVARIANT DecomposedWaits
INVARIANT LeaseIntegrity
INVARIANT DependenciesDone
PROPERTY Finished
SYMMETRY Symmetry
CHECK_DEADLOCK FALSE
