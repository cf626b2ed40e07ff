CONSTANTS
  Tasks = {1, 2, 3}
  Slots = 2
  Main = {1}
  Ambient = 1
  NoTask = 0
  Builds = {b1, b2, b3}
  NoBuild = noBuild
  Bytes = {1, 6}
  Width = 3
  Project <- Core
  WorkDirs <- Apart
  DepthLimit = 9
SPECIFICATION MCSpec
CHECK_DEADLOCK FALSE
INVARIANT SeedReachesQuartus
