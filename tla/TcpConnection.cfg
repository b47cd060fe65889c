SPECIFICATION FairSpec
CONSTANTS
    Users = {u}
    Messages = {m1, m2}
    UserCalls = {{"send"}, {"shutdown"}}
    NoMsg = NoMsg
    Size = 2
    HighWater = 3
    MaxIn = 1
    u = u
    m1 = m1
    m2 = m2
INVARIANTS
    TypeOK
    DownOnce
    StreamInOrder
    OutputIsWatched
    FinAfterData
    FreedIsRemoved
PROPERTIES
    ShutdownCompletes
    CloseCompletes
