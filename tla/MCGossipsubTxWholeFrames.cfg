\* One peer: a priority frame queued behind nothing but a half-written one.
CONSTANTS
    MaxPeers = 1
    MaxPeerTxQueue = 2
    MaxTxRpcQueue = 2
    FrameLen = 2
    ForwardLifetime = 1
    LocalLifetime = 1
    LocalTopics = 0
    Msgs = {m1}
    NoMsg = NoMsg
SPECIFICATION Spec
PROPERTIES
    WholeFrames
