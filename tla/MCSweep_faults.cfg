CONSTANTS
  N = 2
  Daemons = {d1, d2}
  Inline = inline
  Nobody = nobody
  NoTask = noTask
  MaxWorkers = 2
  StopOnFirst = TRUE
  Scores = {0}
  MayCancel = TRUE
  MaxFaults = 2
SPECIFICATION Spec
SYMMETRY Symmetry
INVARIANTS SweepTypeOK RecordedRowHolds OneBuilder LeftOpenExplained
PROPERTY ClaimsSpec
