SPECIFICATION MCFairSpec
CONSTANTS
  Tasks = {t1, t2, t3}
  Seeds = {s1, s2}
  Runs = {r1, r2}
  CloudSlots = 1
  Names = {n1}
  None = None
  Earlier = earlier
  NHosts = 2
  HostSlots = 1
  Parallel = 2
  MaxPolls = 1
  Within <- Same
INVARIANTS RemoteTypeOK HostSlotsHold
PROPERTIES PoolsAreBackends TasksReturn
CHECK_DEADLOCK FALSE
