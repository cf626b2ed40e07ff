SPECIFICATION MCSpec
CONSTANTS
  MaxSaves = 4
  MayInterrupt = TRUE
  Servers = {d1, d2}
  Callers = {c1}
  Nowhere = nowhere
  MaxKills = 1
  Ladder <- Rungs
  Budget = 9
  Cap = 8
  SynthCap = 2
  Grace = 1
  Drained = 1
  Retries = 1
  MaxLists = 2
  MaxPolls = 1
  Cores = {"k1", "k2", "k3"}
  ParallelCores = 2
  Bounds = {0, 1, 3}
  Counts = {0, 2, 16}
  Clocks = {k1, k2}
  Slacks <- Signs
  NoSlack = 99
  Places <- Directories
  Markable <- Marks
  Dotted = {".cache"}
  Given <- BatchPaths
  NoCore = noCore
  Unasked = unasked
PROPERTY AnsweredIsLeftAlone
CHECK_DEADLOCK FALSE
