SPECIFICATION Spec
CONSTANTS
  Speeds = {1, 3}
  Defaults <- Constructed
  Leftovers <- Memory
  SpeedLimits <- Asked
  Factors = {0, 50}
  Velocities <- Planned
INVARIANT PercentageOfMaximum
