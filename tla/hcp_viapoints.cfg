SPECIFICATION Spec
CONSTANTS
  Tebs = {1, 2, 3, 4, 5}
  None = None
  c1 = c1
  c2 = c2
  far = far
  nan = nan
  Classes = {c1, c2, far, nan}
  Invalid = {nan}
  Equal <- NotTransitive
  Costs = {1, 2}
  Inf = Inf
  MaxClasses = 2
  PlansPerClass = {1}
  Hysteresis = 100
  PreferInitial = 95
  BlockPeriod = 1
  ViaAll = FALSE
  PlanModes = {TRUE}

PROPERTY ViaPointsFollowThisPlan
