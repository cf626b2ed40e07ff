CONSTANTS
  N = 4
  Daemons = {}
  Inline = inline
  Nobody = nobody
  NoTask = noTask
  MaxWorkers = 2
  StopOnFirst = TRUE
  Scores = {}
  MayCancel = TRUE
  MaxFaults = 0
SPECIFICATION FairSpec
INVARIANT FewLateStarts
PROPERTIES SweepEnds
