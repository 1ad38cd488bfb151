\* Two connections of one stream each, one open, one dial, a ring of two events.
SPECIFICATION Spec
CONSTANTS
    MaxConns = 2
    MaxStreamsPerConn = 1
    MaxOpens = 1
    MaxDials = 1
    EventCapacity = 2
INVARIANTS
    NoEventLost
    AnsweredOnce
    ConnsStayValid
    NoOrphans
CHECK_DEADLOCK FALSE
