\* Two requests in flight, three saved changes, every failure and a shutdown.
SPECIFICATION FairSpec
CONSTANTS
  Requests = {q1, q2}
  MaxEdits = 3
INVARIANTS
  TypeOK
  RequestsKeepResources
  ActiveIsWhole
  
  TeardownIsAlone
PROPERTIES
  NoSwapInShutdown
  
  
  ImplementsGenerations
CHECK_DEADLOCK FALSE
