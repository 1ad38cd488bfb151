SPECIFICATION Spec
CONSTANTS
    VBase = 16
    MaxVarintBytes = 3
    Limits <- MCLimits
    Caps <- MCCaps
    Streams = {1, 2}
    SmallCap = 4
    ReadChunk = 8
    FrameLenMax = 2
    PoolStreams = 2
    Reject = Reject
    Refused <- MCRefused
    Scripts <- MCScripts
    Fragments <- MCFragments
INVARIANTS
    RxIntact
    FramesInOrder
    NeverBlockedAlone
    SizeExact
CHECK_DEADLOCK FALSE
