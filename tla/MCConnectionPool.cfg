SPECIFICATION FairSpec
CONSTANTS
  Users = {u1, u2, u3}
  MaxCalls = 2
  MaxTime = 2
  Lines <- MCLines
  NoKey = NoKey
  NoConn = NoConn
INVARIANTS
  PoolTypeOK
  ProducerIsCalled
  FrontExpiresFirst
PROPERTIES
  GetReturns
