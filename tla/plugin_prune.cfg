SPECIFICATION Spec
CONSTANTS
  Positions = {0, 1, 2}
  Plans <- SomePlans
  Places = {0, 2}
  Border = {2}
  Sources = {"costmap", "converter", "topic"}
  ViaPaths <- SomeViaPaths
  Seps = {0, 2}
  PruneDist = 2
  LookAhead = 1
  Behind = 0
PROPERTY GoalKept
