SPECIFICATION FairPlannerSpec
CONSTANTS
  p1 = p1
  p2 = p2
  o1 = o1
  Tasks <- RootAndChild
  PathOrder <- RootAndChildOrder
  Root <- RootPath
  Parent <- ParentPath
  Ordinal <- LastOrdinal
  Depth <- PathDepth
  Lineage <- PathPrefixes
  Owners = {}
  Planners = {p1, p2}
  Policies <- OnePolicy
  PerTick = 1
  MaxRepairs = 1
  MaxFaults = 1
  NoOwner = NoOwner
  NoPlanner = NoPlanner
  NoTask = NoTask
  Absent = Absent
CHECK_DEADLOCK FALSE
INVARIANT PlannerTypeOK
PROPERTY StaleSessionWritesNothing
PROPERTY DecomposingEnds
