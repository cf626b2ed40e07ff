CONSTANTS
  Shells = {s1, s2}
  Callers = {b1, b2}
  Replies = {"ok", "err", "exit"}
  Nobody = nobody
  Size = 1
  NoShell = noShell
  Cores = {c1, c2}
  Modes = {"warm", "cold"}
  MayStop = TRUE
  MaxBuilds = 2
  Faults = {"late", "start", "death", "dump"}
  MaxFaults = 1
SPECIFICATION FairSpec
INVARIANTS TypeOK ShellsApart NobodyLeftWaiting OneCompile ResultIsOwn
PROPERTY Returns
