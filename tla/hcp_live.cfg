SPECIFICATION FairSpec
CONSTANTS
  Tebs = {1, 2, 3, 4, 5}
  None = None
  c1 = c1
  c2 = c2
  far = far
  nan = nan
  Classes = {c1, c2}
  Invalid = {}
  Equal <- NotTransitive
  Costs = {1}
  Inf = Inf
  MaxClasses = 2
  PlansPerClass = {2}
  Hysteresis = 100
  PreferInitial = 95
  BlockPeriod = 0
  ViaAll = TRUE
  PlanModes = {TRUE, FALSE}
PROPERTY CallsReturn
