\* One hublot, two tunnel processes, a crash or a shutdown.
SPECIFICATION FairSpec
CONSTANTS
  Hublots = {h1}
  MaxTunnels = 2
  MaxRestarts = 1
INVARIANTS
  TypeOK
  NoForgottenTunnel
  
  DesiredAgrees
PROPERTIES
  DeadTunnelRetired
  OpeningSettles
CHECK_DEADLOCK FALSE
