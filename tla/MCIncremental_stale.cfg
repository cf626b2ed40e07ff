CONSTANTS
  Shells = {s1, s2, s3}
  Callers = {b1, b2}
  Replies = {"ok", "err", "exit"}
  Nobody = nobody
  Size = 1
  NoShell = noShell
  Cores = {c1}
  Modes = {"cold"}
  MayStop = FALSE
  MaxBuilds = 2
  Faults = {}
  MaxFaults = 0
SPECIFICATION Spec
SYMMETRY Symmetry
INVARIANT ColdResultIsOwn
