SPECIFICATION FairSpec
CONSTANTS
  r1 = r1
  c1 = c1
  c2 = c2
  Runners = {r1}
  Commands = {c1, c2}
  MaxStarts = 2
  MaxWrites = 2
  MaxReloads = 1
  MaxCrashes = 0
  SlowStore = FALSE
  Ops <- SendAndStop
PROPERTIES
  HeldCommandsReleased
  StopEscalates
\* An idle manager without clients really has nothing to do.
CHECK_DEADLOCK FALSE
