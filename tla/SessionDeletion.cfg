\* One routine run twice, two requests and two deletions, a crash.
SPECIFICATION FairSpec
CONSTANTS
  Routines = {r1}
  MaxRuns = 2
  Requests = {q1, q2}
  Deletions = {d1, d2}
  MaxCalls = 3
  MaxCrashes = 1
INVARIANTS
  TypeOK
  TrackedUntilDead
  AgentGoneFirst
  
PROPERTIES
  SettledStays
  StoppingSettles
CHECK_DEADLOCK FALSE
