SPECIFICATION FairSpec
CONSTANTS
  Positions = {0, 1}
  Places = {0, 1}
  Plans <- Trips
  Messages <- Message
  NoObstacles <- EmptyMessage
  Reach = 0
  MaxClusters = 1
  Depth = 1
INVARIANTS StopLatched CommandCurrent
PROPERTIES NoVelocityWithoutPlan ObstaclesArrive EmptyPlanStops
