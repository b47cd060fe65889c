SPECIFICATION FairSpec
CONSTANTS
  MaxThreads = 2
  ThreadNums = {0, 2}
  MaxConns = 3
  MaxStarts = 2
INVARIANTS
  ServerTypeOK
  ConnectionsAreOwned
  UpDownDestroyed
PROPERTIES
  ClosedIsForgotten
