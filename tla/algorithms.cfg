SPECIFICATION Spec
CONSTANTS
  Points <- Grid
  Outlines <- AllOutlines
  Convex <- ConvexOutlines
  Radii = {0, 1}
  Margins = {0, 1, 2}
  Robots <- SomeRobots
  Bodies <- SomeBodies
  Directions <- SomeDirections
  Headings <- SomeHeadings
  Steps <- SomeSteps
  Times = {0, 1, 2}
  Configs <- SomeConfigs
  DtRef = 1
  Sizes = {s1, s2}
  Malformed = bad
  Garbage = uninitialised
INVARIANTS
  ShapesAgree PlacementIrrelevant JacobianIsSlope CostsMeasured
  VelocitiesFollowBand NoObstacleLost FootprintAsConfigured
CHECK_DEADLOCK FALSE
