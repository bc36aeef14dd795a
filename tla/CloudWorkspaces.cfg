\* One workspace, two requests at one time, one socket, any two faults.  Everything
\* may rest: nobody has to ask for anything.
SPECIFICATION Spec
CONSTANTS
  MaxSockets = 1
  MaxStreams = 1
  MaxFaults = 2
  Requests = {q1, q2}
INVARIANTS
  
  ListedIsRegistered
CHECK_DEADLOCK FALSE
