\* One box, two sockets at one time, any two faults.  Everything may rest: a
\* registration that is never prepared, or is revoked, needs no further step.
SPECIFICATION FairBoxSpec
CONSTANTS
  MaxSockets = 2
  MaxStreams = 1
  MaxFaults = 2
INVARIANTS
  TypeOK
  
  OneCurrent
  StreamsFollow
  RevokedStaysDown

  
CHECK_DEADLOCK FALSE
