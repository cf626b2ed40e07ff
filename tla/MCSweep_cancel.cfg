CONSTANTS
  N = 2
  Daemons = {}
  Inline = inline
  Nobody = nobody
  NoTask = noTask
  MaxWorkers = 1
  StopOnFirst = TRUE
  Scores = {}
  MayCancel = TRUE
  MaxFaults = 0
SPECIFICATION Spec
PROPERTY CancelHonoured
