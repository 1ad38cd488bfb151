SPECIFICATION FairSpec
CONSTANTS
    MaxConns = 1
    MaxStreamsPerConn = 1
    MaxOpens = 1
    MaxDials = 1
    EventCapacity = 2
PROPERTIES ShutdownCompletes OpensAnswered
CHECK_DEADLOCK FALSE
