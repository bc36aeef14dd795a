SPECIFICATION Spec
CONSTANTS
  r1 = r1
  c1 = c1
  Runners = {r1}
  Commands = {c1}
  MaxStarts = 1
  MaxWrites = 2
  MaxReloads = 0
  MaxCrashes = 0
  SlowStore = FALSE
  Ops <- SendAndDeleteEmpty
INVARIANTS
  DeletedRunnerIsStopped
\* An idle manager without clients really has nothing to do.
CHECK_DEADLOCK FALSE
