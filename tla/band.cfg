SPECIFICATION FairSpec
CONSTANTS
  Weights = {"obstacle", "dynamic", "velocity", "acceleration", "time", "shortest", "kinematics", "rotdir", "ratio"}
  Legacy = TRUE
  PosesAffected = 3
  GoalVelFixed = TRUE
  MinSamples = 4
  MaxSamples = 5
  PruneMin = 3
  MaxPruned = 10
  DtRef = 6
  DtHyst = 1
  FastMode = FALSE
  MaxReps = 4
  Outer = 2
  Activate = {TRUE, FALSE}
  Ordered = TRUE
  ViaPoints = 2
  PathLens = {0, 1, 2, 4}
  InitDts = {0, 6}
  OptDts = {1, 6, 18}
INVARIANTS BandShape EndsHeld EnoughSamples GraphSound ResizeSettles
PROPERTIES BandStableInGraph TimeKept PlanReturns
