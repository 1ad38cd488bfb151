\* Two peers share two slots; frames need two writes.  The transport may block for
\* ever or fail every write.
CONSTANTS
    MaxPeers = 2
    MaxPeerTxQueue = 2
    MaxTxRpcQueue = 2
    FrameLen = 2
    ForwardLifetime = 1
    LocalLifetime = 1
    LocalTopics = 1
    Msgs = {m1}
    NoMsg = NoMsg
SPECIFICATION FairSpec
INVARIANTS
    ReadyCountExact
    NoLostWakeup
    NoFrameWithoutWriter
    SlotsOwned
PROPERTIES
    StartedFrameKept
    DeadlineEnforced
    ReadyPeerVisited
