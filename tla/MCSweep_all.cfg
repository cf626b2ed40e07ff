CONSTANTS
  N = 3
  Daemons = {d1}
  Inline = inline
  Nobody = nobody
  NoTask = noTask
  MaxWorkers = 2
  StopOnFirst = FALSE
  Scores = {0, 1}
  MayCancel = TRUE
  MaxFaults = 0
SPECIFICATION FairSpec
INVARIANTS VerdictSound SummaryAgrees
PROPERTIES RowsSettle VerdictStays
